------------------------ MODULE ShipmentAccessProofs ------------------------
(***************************************************************************)
(* Proofs about ShipmentAccess, for every value of its constants: types,   *)
(* the bound on overshoot, that nobody gets in after the end, that the     *)
(* status only advances and the purge waits for the grace period, that the *)
(* three tallies of a download stay in order, and that ShipmentAccess      *)
(* implements ShipmentGate.                                                *)
(***************************************************************************)
EXTENDS ShipmentAccess, FiniteSetTheorems, TLAPS

\* A row that has been finalized: its expiry and its limit no longer change.
Finalized(s) == shipment[s].status \in Downloadable \cup Closed \cup {"purged"}

LEMMA IdleTypes ==
  /\ IdleRequest \in RequestState
  /\ IdleResend \in ResendState
  /\ IdleWorker \in WorkerState
  /\ NoShipment \in ShipmentRow
  /\ NoToken \in TokenRow
<1>1. (CHOOSE t \in Tokens : TRUE) \in Tokens
  BY ConstantsAssumption
<1>2. (CHOOSE s \in Shipments : TRUE) \in Shipments
  BY ConstantsAssumption
<1>3. QED
  BY <1>1, <1>2, ConstantsAssumption
     DEF IdleRequest, IdleResend, IdleWorker, NoShipment, NoToken, ShipmentRow, TokenRow,
         RequestState, ResendState, WorkerState, Stored, PreSend, Downloadable, Closed

-----------------------------------------------------------------------------
(* Type correctness. *)

LEMMA InitTypeOK == Init => TypeOK
  BY IdleTypes DEF Init, TypeOK

LEMMA RevokeType ==
  ASSUME TypeOK, NEW s \in Shipments
  PROVE  Revoke(s) \in [Tokens -> TokenRow]
<1>1. ASSUME NEW t \in Tokens
      PROVE  [token[t] EXCEPT !.status = "revoked", !.revokedAt = TRUE] \in TokenRow
  BY DEF TypeOK, TokenRow
<1>2. QED
  BY <1>1 DEF TypeOK, Revoke

LEMMA ActiveTokenType ==
  ASSUME NEW e \in Nat, NEW m \in Nat
  PROVE  ActiveToken(e, m) \in TokenRow
  BY DEF ActiveToken, TokenRow

LEMMA OwnerTypeOK == TypeOK /\ OwnerStep => TypeOK'
<1> SUFFICES ASSUME TypeOK, NEW s \in Shipments,
                    \/ CreateDraft(s) \/ FinalizeShipment(s)
                    \/ DeleteShipment(s) \/ RevokeAccessTokens(s)
             PROVE  TypeOK'
  BY DEF OwnerStep
<1>1. CASE CreateDraft(s)
  <2>1. [NoShipment EXCEPT !.status = "uploading", !.expiresAt = now + DraftTTL]
          \in ShipmentRow
    <3>1. now + DraftTTL \in Nat
      BY ConstantsAssumption DEF TypeOK
    <3>2. QED
      BY <3>1, IdleTypes DEF NoShipment, ShipmentRow, Stored, PreSend
  <2>2. QED
    BY <1>1, <2>1 DEF CreateDraft, TypeOK
<1>2. CASE FinalizeShipment(s)
  <2>1. PICK mode \in {"recipient_restricted", "url_shared"},
             e \in now + MinTTL .. now + MaxTTL, max \in Limits,
             new \in (SUBSET FreshTokens(s)) \ {{}} :
          /\ shipment[s].status \in PreSend
          /\ mode = "url_shared" => Cardinality(new) = 1
          /\ shipment' = [shipment EXCEPT ![s].status = "sent", ![s].mode = mode,
                                          ![s].expiresAt = e, ![s].max = max]
          /\ token' = [t \in Tokens |-> IF t \in new THEN ActiveToken(e, max) ELSE token[t]]
          /\ UNCHANGED <<now, events, req, resend, deleting, worker>>
    BY <1>2 DEF FinalizeShipment
  <2>2. e \in Nat /\ max \in Nat \ {0}
    BY ConstantsAssumption DEF Limits, TypeOK
  <2>3. shipment' \in [Shipments -> ShipmentRow]
    <3>1. shipment \in [Shipments -> ShipmentRow]
      BY DEF TypeOK
    <3>2. [shipment[s] EXCEPT !.status = "sent", !.mode = mode, !.expiresAt = e, !.max = max]
            \in ShipmentRow
      BY <2>1, <2>2, <3>1 DEF ShipmentRow, Stored, Downloadable
    <3>3. shipment' = [shipment EXCEPT ![s] =
            [shipment[s] EXCEPT !.status = "sent", !.mode = mode, !.expiresAt = e, !.max = max]]
      BY <2>1
    <3>4. QED
      BY <3>1, <3>2, <3>3
  <2>4. token' \in [Tokens -> TokenRow]
    BY <2>1, <2>2, ActiveTokenType DEF TypeOK
  <2>5. QED
    BY <2>1, <2>3, <2>4 DEF TypeOK
<1>3. CASE DeleteShipment(s)
  <2>1. shipment' \in [Shipments -> ShipmentRow]
    <3>1. shipment \in [Shipments -> ShipmentRow] /\ now \in Nat
      BY DEF TypeOK
    <3>2. [shipment[s] EXCEPT !.status = "deleted", !.deletedAt = now] \in ShipmentRow
      BY <3>1 DEF ShipmentRow, Stored, Closed
    <3>3. shipment' = [shipment EXCEPT ![s] =
                         [shipment[s] EXCEPT !.status = "deleted", !.deletedAt = now]]
      BY <1>3 DEF DeleteShipment
    <3>4. QED
      BY <3>1, <3>2, <3>3
  <2>2. token' \in [Tokens -> TokenRow]
    BY <1>3, RevokeType DEF DeleteShipment
  <2>3. QED
    BY <1>3, <2>1, <2>2 DEF DeleteShipment, TypeOK
<1>4. CASE RevokeAccessTokens(s)
  BY <1>4, RevokeType DEF RevokeAccessTokens, TypeOK
<1>5. QED
  BY <1>1, <1>2, <1>3, <1>4

LEMMA ResendTypeOK == TypeOK /\ ResendStep => TypeOK'
<1> SUFFICES ASSUME TypeOK, NEW x \in Resenders,
                    \/ \E s \in Shipments : StartResend(x, s)
                    \/ \E t \in Tokens : ResendToken(x, t)
                    \/ EndResend(x)
             PROVE  TypeOK'
  BY DEF ResendStep
<1>1. ASSUME NEW s \in Shipments, StartResend(x, s) PROVE TypeOK'
  BY <1>1 DEF StartResend, TypeOK, ShipmentRow, ResendState
<1>2. ASSUME NEW t \in Tokens, ResendToken(x, t) PROVE TypeOK'
  <2>1. ActiveToken(resend[x].expiresAt, resend[x].max) \in TokenRow
    BY ActiveTokenType DEF TypeOK, ResendState
  <2>2. QED
    BY <1>2, <2>1 DEF ResendToken, TypeOK
<1>3. CASE EndResend(x)
  BY <1>3, IdleTypes DEF EndResend, TypeOK
<1>4. QED
  BY <1>1, <1>2, <1>3

LEMMA RequestMoves ==
  ASSUME req \in [Requests -> RequestState], NEW r \in Requests,
         NEW pc \in {"idle", "token", "shipment", "counted", "granted", "logged", "tallied"}
  PROVE  /\ [req EXCEPT ![r].pc = pc] \in [Requests -> RequestState]
         /\ \A max \in Nat \ {0} :
              [req EXCEPT ![r].pc = pc, ![r].max = max] \in [Requests -> RequestState]
         /\ \A count \in Nat :
              [req EXCEPT ![r].pc = pc, ![r].count = count] \in [Requests -> RequestState]
<1>1. req[r] \in RequestState
  OBVIOUS
<1>2. [req EXCEPT ![r].pc = pc] \in [Requests -> RequestState]
  <2>1. [req[r] EXCEPT !.pc = pc] \in RequestState
    BY <1>1 DEF RequestState
  <2>2. QED
    BY <2>1
<1>3. ASSUME NEW max \in Nat \ {0}
      PROVE  [req EXCEPT ![r].pc = pc, ![r].max = max] \in [Requests -> RequestState]
  <2>1. [req[r] EXCEPT !.pc = pc, !.max = max] \in RequestState
    BY <1>1 DEF RequestState
  <2>2. QED
    BY <2>1
<1>4. ASSUME NEW count \in Nat
      PROVE  [req EXCEPT ![r].pc = pc, ![r].count = count] \in [Requests -> RequestState]
  <2>1. [req[r] EXCEPT !.pc = pc, !.count = count] \in RequestState
    BY <1>1 DEF RequestState
  <2>2. QED
    BY <2>1
<1>5. QED
  BY <1>2, <1>3, <1>4

LEMMA RequestTypeOK == TypeOK /\ RequestStep => TypeOK'
<1> SUFFICES ASSUME TypeOK, NEW r \in Requests,
                    \/ \E t \in Tokens : ReadToken(r, t)
                    \/ ReadShipment(r) \/ CountDownloads(r) \/ CheckLimit(r)
                    \/ CreateDownloadEvent(r) \/ UpdateAccessTokenUsage(r)
                    \/ IncrementShipmentDownloadCount(r) \/ Abandon(r)
             PROVE  TypeOK'
  BY DEF RequestStep
<1> DEFINE s == ShipmentOf[req[r].tok]
<1>0. s \in Shipments /\ req[r].tok \in Tokens
  BY ConstantsAssumption DEF TypeOK, RequestState
<1>1. ASSUME NEW t \in Tokens, ReadToken(r, t) PROVE TypeOK'
  <2> DEFINE new == [IdleRequest EXCEPT !.pc = "token", !.tok = t, !.at = now,
                                        !.late = Ended(ShipmentOf[t])]
  <2>1. now \in Nat /\ Ended(ShipmentOf[t]) \in BOOLEAN
    BY DEF TypeOK, Ended
  <2>2. new \in RequestState
    BY <2>1, IdleTypes DEF RequestState
  <2>3. req' = [req EXCEPT ![r] = new]
    BY <1>1 DEF ReadToken
  <2> HIDE DEF new
  <2>4. UNCHANGED <<now, shipment, token, events, resend, deleting, worker>>
    BY <1>1 DEF ReadToken
  <2>5. QED
    BY <2>2, <2>3, <2>4 DEF TypeOK
<1>2. CASE ReadShipment(r)
  <2>1. shipment[s].max \in Nat \ {0}
    BY <1>0 DEF TypeOK, ShipmentRow
  <2>2. req' = [req EXCEPT ![r].pc = "shipment", ![r].max = shipment[s].max]
    BY <1>2 DEF ReadShipment
  <2> HIDE DEF s
  <2>3. req' \in [Requests -> RequestState]
    BY <2>1, <2>2, RequestMoves DEF TypeOK
  <2>4. QED
    BY <1>2, <2>3 DEF ReadShipment, TypeOK
<1>3. CASE CountDownloads(r)
  <2>1. events[s] \in Nat
    BY <1>0 DEF TypeOK
  <2>2. req' = [req EXCEPT ![r].pc = "counted", ![r].count = events[s]]
    BY <1>3 DEF CountDownloads
  <2> HIDE DEF s
  <2>3. req' \in [Requests -> RequestState]
    BY <2>1, <2>2, RequestMoves DEF TypeOK
  <2>4. QED
    BY <1>3, <2>3 DEF CountDownloads, TypeOK
<1>4. CASE CheckLimit(r)
  <2>1. req' \in [Requests -> RequestState]
    BY <1>4, RequestMoves DEF CheckLimit, TypeOK
  <2>2. QED
    BY <1>4, <2>1 DEF CheckLimit, TypeOK
<1>5. CASE CreateDownloadEvent(r)
  <2>1. req' \in [Requests -> RequestState]
    BY <1>5, RequestMoves DEF CreateDownloadEvent, TypeOK
  <2>2. events' \in [Shipments -> Nat]
    BY <1>0, <1>5 DEF CreateDownloadEvent, TypeOK
  <2>3. QED
    BY <1>5, <2>1, <2>2 DEF CreateDownloadEvent, TypeOK
<1>6. CASE UpdateAccessTokenUsage(r)
  <2> DEFINE t == req[r].tok
             row == [token[t] EXCEPT !.used = @ + 1,
                       !.status = IF token[t].used + 1 >= token[t].maxUses THEN "used" ELSE @]
  <2>1. req' \in [Requests -> RequestState]
    BY <1>6, RequestMoves DEF UpdateAccessTokenUsage, TypeOK
  <2>2. row \in TokenRow
    <3>1. token[t] \in TokenRow
      BY <1>0 DEF TypeOK
    <3>2. token[t].used + 1 \in Nat /\ token[t].status \in {"none", "active", "used", "revoked", "purged"}
      BY <3>1 DEF TokenRow
    <3> DEFINE st == IF token[t].used + 1 >= token[t].maxUses THEN "used" ELSE token[t].status
               used == token[t].used + 1
    <3>3. st \in {"none", "active", "used", "revoked", "purged"} /\ used \in Nat
      BY <3>2
    <3>4. row = [token[t] EXCEPT !.used = used, !.status = st]
      OBVIOUS
    <3> HIDE DEF st, used
    <3>5. [token[t] EXCEPT !.used = used, !.status = st] \in TokenRow
      BY <3>1, <3>3 DEF TokenRow
    <3>6. QED
      BY <3>4, <3>5
  <2>3. token' = [token EXCEPT ![t] = row]
    BY <1>6 DEF UpdateAccessTokenUsage
  <2> HIDE DEF row
  <2>4. token' \in [Tokens -> TokenRow]
    BY <1>0, <2>2, <2>3 DEF TypeOK
  <2>5. QED
    BY <1>6, <2>1, <2>4 DEF UpdateAccessTokenUsage, TypeOK
<1>7. CASE IncrementShipmentDownloadCount(r)
  <2> DEFINE row == [shipment[s] EXCEPT !.current = @ + 1, !.status = AfterDownload(@)]
  <2>1. row \in ShipmentRow
    <3>1. shipment[s] \in ShipmentRow
      BY <1>0 DEF TypeOK
    <3> DEFINE st == AfterDownload(shipment[s].status)
               current == shipment[s].current + 1
    <3>2. st \in Stored \cup {"none", "purged"} /\ current \in Nat
      BY <3>1 DEF ShipmentRow, AfterDownload, Stored, Downloadable
    <3>3. row = [shipment[s] EXCEPT !.current = current, !.status = st]
      OBVIOUS
    <3> HIDE DEF st, current
    <3>4. [shipment[s] EXCEPT !.current = current, !.status = st] \in ShipmentRow
      BY <3>1, <3>2 DEF ShipmentRow
    <3>5. QED
      BY <3>3, <3>4
  <2>2. shipment' = [shipment EXCEPT ![s] = row]
    BY <1>7 DEF IncrementShipmentDownloadCount
  <2> HIDE DEF row
  <2>3. shipment' \in [Shipments -> ShipmentRow]
    BY <1>0, <2>1, <2>2 DEF TypeOK
  <2>4. req' \in [Requests -> RequestState]
    BY <1>7, IdleTypes DEF IncrementShipmentDownloadCount, TypeOK
  <2>5. QED
    BY <1>7, <2>3, <2>4 DEF IncrementShipmentDownloadCount, TypeOK
<1>8. CASE Abandon(r)
  BY <1>8, IdleTypes DEF Abandon, TypeOK
<1>9. QED
  BY <1>1, <1>2, <1>3, <1>4, <1>5, <1>6, <1>7, <1>8

LEMMA WorkerTypeOK == TypeOK /\ WorkerStep => TypeOK'
<1> SUFFICES ASSUME TypeOK, NEW w \in Workers,
                    \/ StartRun(w)
                    \/ \E s \in Shipments : MarkExpired(w, s)
                    \/ StartPurge(w)
                    \/ \E s \in Shipments : Purge(w, s)
                    \/ \E s \in Shipments : SkipShipment(w, s)
                    \/ EndRun(w)
             PROVE  TypeOK'
  BY DEF WorkerStep
<1>1. CASE StartRun(w)
  <2>1. PICK B \in SUBSET ListExpired(now) :
          worker' = [worker EXCEPT ![w] = [pc |-> "expire", at |-> now, batch |-> B]]
    BY <1>1 DEF StartRun, Batches
  <2>2. B \in SUBSET Shipments
    BY <2>1 DEF ListExpired
  <2>3. QED
    BY <1>1, <2>1, <2>2 DEF StartRun, TypeOK, WorkerState
<1>2. ASSUME NEW s \in Shipments, MarkExpired(w, s) PROVE TypeOK'
  <2>1. shipment' \in [Shipments -> ShipmentRow]
    <3>1. shipment \in [Shipments -> ShipmentRow]
      BY DEF TypeOK
    <3>2. [shipment EXCEPT ![s].status = "expired"] \in [Shipments -> ShipmentRow]
      BY <3>1 DEF ShipmentRow, Stored, Closed
    <3>3. QED
      BY <1>2, <3>1, <3>2 DEF MarkExpired
  <2>2. worker' \in [Workers -> WorkerState]
    BY <1>2 DEF MarkExpired, TypeOK, WorkerState
  <2>3. QED
    BY <1>2, <2>1, <2>2 DEF MarkExpired, TypeOK
<1>3. CASE StartPurge(w)
  <2>1. PICK B \in SUBSET ListDeleted(worker[w].at) :
          worker' = [worker EXCEPT ![w].pc = "purge", ![w].batch = B]
    BY <1>3 DEF StartPurge, Batches
  <2>2. B \in SUBSET Shipments
    BY <2>1 DEF ListDeleted
  <2>3. QED
    <3>1. worker' \in [Workers -> WorkerState]
      BY <2>1, <2>2 DEF TypeOK, WorkerState
    <3>2. QED
      BY <1>3, <3>1 DEF StartPurge, TypeOK
<1>4. ASSUME NEW s \in Shipments, Purge(w, s) PROVE TypeOK'
  <2>1. [NoShipment EXCEPT !.status = "purged"] \in ShipmentRow
    BY IdleTypes DEF ShipmentRow, NoShipment
  <2>2. [NoToken EXCEPT !.status = "purged"] \in TokenRow
    BY IdleTypes DEF TokenRow, NoToken
  <2>3. QED
    <3>1. shipment' \in [Shipments -> ShipmentRow]
      BY <1>4, <2>1 DEF Purge, TypeOK
    <3>2. token' \in [Tokens -> TokenRow]
      BY <1>4, <2>2 DEF Purge, TypeOK
    <3>3. worker' \in [Workers -> WorkerState]
      BY <1>4 DEF Purge, TypeOK, WorkerState
    <3>4. events' \in [Shipments -> Nat]
      BY <1>4 DEF Purge, TypeOK
    <3>5. UNCHANGED <<now, req, resend, deleting>>
      BY <1>4 DEF Purge
    <3>6. QED
      BY <3>1, <3>2, <3>3, <3>4, <3>5 DEF TypeOK
<1>5. ASSUME NEW s \in Shipments, SkipShipment(w, s) PROVE TypeOK'
  BY <1>5 DEF SkipShipment, TypeOK, WorkerState
<1>6. CASE EndRun(w)
  BY <1>6, IdleTypes DEF EndRun, TypeOK
<1>7. QED
  BY <1>1, <1>2, <1>3, <1>4, <1>5, <1>6

LEMMA NextTypeOK == TypeOK /\ [Next]_vars => TypeOK'
<1>1. TypeOK /\ Tick => TypeOK'
  BY DEF Tick, TypeOK
<1>2. TypeOK /\ UNCHANGED vars => TypeOK'
  BY DEF TypeOK, vars
<1>3. QED
  BY <1>1, <1>2, OwnerTypeOK, ResendTypeOK, RequestTypeOK, WorkerTypeOK DEF Next

\* Every row keeps values its columns allow, in particular a status of the enum and a
\* limit of at least 1, and every handler state is well formed.
THEOREM TypeCorrect == Spec => []TypeOK
<1>1. QED
  BY InitTypeOK, NextTypeOK, PTL DEF Spec

-----------------------------------------------------------------------------
(* What each process leaves alone. *)

LEMMA OwnerFrame == OwnerStep => UNCHANGED <<now, events, req, resend, worker>>
<1> SUFFICES ASSUME NEW s \in Shipments,
                    \/ CreateDraft(s) \/ FinalizeShipment(s)
                    \/ DeleteShipment(s) \/ RevokeAccessTokens(s)
             PROVE  UNCHANGED <<now, events, req, resend, worker>>
  BY DEF OwnerStep
<1>1. CASE FinalizeShipment(s)
  BY <1>1, ZenonT(30) DEF FinalizeShipment
<1>2. QED
  BY <1>1 DEF CreateDraft, DeleteShipment, RevokeAccessTokens

LEMMA ResendFrame ==
  ResendStep => UNCHANGED <<now, shipment, events, req, deleting, worker>>
  BY DEF ResendStep, StartResend, ResendToken, EndResend

LEMMA RequestFrame == RequestStep => UNCHANGED <<now, resend, deleting, worker>>
<1> SUFFICES ASSUME NEW r \in Requests,
                    \/ \E t \in Tokens : ReadToken(r, t)
                    \/ ReadShipment(r) \/ CountDownloads(r) \/ CheckLimit(r)
                    \/ CreateDownloadEvent(r) \/ UpdateAccessTokenUsage(r)
                    \/ IncrementShipmentDownloadCount(r) \/ Abandon(r)
             PROVE  UNCHANGED <<now, resend, deleting, worker>>
  BY DEF RequestStep
<1>1. QED
  BY DEF ReadToken, ReadShipment, CountDownloads, CheckLimit, CreateDownloadEvent,
         UpdateAccessTokenUsage, IncrementShipmentDownloadCount, Abandon

LEMMA WorkerFrame == WorkerStep => UNCHANGED <<now, req, resend, deleting>>
  BY DEF WorkerStep, StartRun, MarkExpired, StartPurge, Purge, SkipShipment, EndRun

LEMMA FinalizedRow ==
  ASSUME TypeOK, NEW s \in Shipments, FinalizeShipment(s)
  PROVE  /\ shipment[s].status \in PreSend
         /\ \A q \in Shipments \ {s} : shipment'[q] = shipment[q]
         /\ shipment'[s].status = "sent"
<1>1. PICK mode \in {"recipient_restricted", "url_shared"},
           e \in now + MinTTL .. now + MaxTTL, max \in Limits :
        /\ shipment[s].status \in PreSend
        /\ shipment' = [shipment EXCEPT ![s].status = "sent", ![s].mode = mode,
                                        ![s].expiresAt = e, ![s].max = max]
  BY DEF FinalizeShipment
<1>2. shipment \in [Shipments -> ShipmentRow]
  BY DEF TypeOK
<1>3. QED
  BY <1>1, <1>2 DEF ShipmentRow

-----------------------------------------------------------------------------
(***************************************************************************)
(* The download limit.  OvershootBounded is not inductive: a request that   *)
(* has read a count below the limit will still add an event.  The inductive *)
(* form counts these requests as if their event were already written; it    *)
(* rests on two facts, that a request gets past the shipment check only of  *)
(* a finalized row, whose limit is then fixed, and that a row that is not    *)
(* finalized, or is purged, has no event.                                    *)
(***************************************************************************)
PassedShipment(r) == req[r].pc \in {"shipment", "counted", "granted", "logged", "tallied"}

ReadFinalized ==
  \A r \in Requests : PassedShipment(r) =>
    LET s == ShipmentOf[req[r].tok] IN
    /\ Finalized(s)
    /\ shipment[s].status # "purged" => req[r].max = shipment[s].max

EventsOfFinalized ==
  \A s \in Shipments :
    shipment[s].status \in PreSend \cup {"none", "purged"} => events[s] = 0

GrantedBelowLimit ==
  \A r \in Requests : req[r].pc = "granted" => req[r].count < req[r].max

LimitWithInFlight ==
  \A s \in Shipments :
    events[s] + Cardinality(InFlight(s)) <= shipment[s].max + Cardinality(Requests) - 1

LimitInv == ReadFinalized /\ EventsOfFinalized /\ GrantedBelowLimit /\ LimitWithInFlight

LEMMA InFlightFinite ==
  ASSUME NEW s \in Shipments
  PROVE  /\ IsFiniteSet(InFlight(s))
         /\ Cardinality(InFlight(s)) \in Nat
         /\ Cardinality(Requests) \in Nat
         /\ Cardinality(InFlight(s)) <= Cardinality(Requests)
<1>1. InFlight(s) \subseteq Requests
  BY DEF InFlight
<1>2. QED
  BY <1>1, ConstantsAssumption, FS_Subset, FS_CardinalityType

\* A step after which no more requests are in flight, and that adds no event.
LEMMA FewerInFlight ==
  ASSUME NEW s \in Shipments, NEW S, S \subseteq InFlight(s)
  PROVE  Cardinality(S) \in Nat /\ Cardinality(S) <= Cardinality(InFlight(s))
  BY InFlightFinite, FS_Subset, FS_CardinalityType

LEMMA InitLimitInv == Init => LimitInv
<1> SUFFICES ASSUME Init PROVE LimitInv
  OBVIOUS
<1>1. ReadFinalized /\ GrantedBelowLimit
  BY DEF Init, ReadFinalized, GrantedBelowLimit, PassedShipment, IdleRequest
<1>2. EventsOfFinalized
  BY DEF Init, EventsOfFinalized
<1>3. LimitWithInFlight
  <2> SUFFICES ASSUME NEW s \in Shipments
               PROVE events[s] + Cardinality(InFlight(s))
                       <= shipment[s].max + Cardinality(Requests) - 1
    BY DEF LimitWithInFlight
  <2>1. InFlight(s) = {}
    BY DEF Init, InFlight, IdleRequest
  <2>2. events[s] = 0 /\ shipment[s].max \in Nat \ {0}
    BY ConstantsAssumption DEF Init, NoShipment
  <2>3. QED
    BY <2>1, <2>2, FS_EmptySet, InFlightFinite
<1>4. QED
  BY <1>1, <1>2, <1>3 DEF LimitInv

\* What every step but the purge does to the rows.
RowsAdvance ==
  \A s \in Shipments :
    /\ Finalized(s) => Finalized(s)' /\ shipment'[s].max = shipment[s].max
    /\ shipment'[s].status = "purged" <=> shipment[s].status = "purged"

LEMMA NotFinalized ==
  ASSUME TypeOK, LimitInv, NEW s \in Shipments, ~Finalized(s)
  PROVE  InFlight(s) = {} /\ events[s] = 0
<1>1. shipment[s].status \in PreSend \cup {"none"}
  BY DEF TypeOK, ShipmentRow, Finalized, Stored
<1>2. events[s] = 0
  BY <1>1 DEF LimitInv, EventsOfFinalized
<1>3. InFlight(s) = {}
  BY DEF LimitInv, ReadFinalized, PassedShipment, InFlight
<1>4. QED
  BY <1>2, <1>3

LEMMA FewerLimitInv ==
  ASSUME TypeOK, TypeOK', LimitInv, RowsAdvance, events' = events,
         \A s \in Shipments : InFlight(s)' \subseteq InFlight(s),
         ReadFinalized', GrantedBelowLimit'
  PROVE  LimitInv'
<1>1. EventsOfFinalized'
  <2> SUFFICES ASSUME NEW s \in Shipments,
                      shipment'[s].status \in PreSend \cup {"none", "purged"}
               PROVE  events[s] = 0
    BY DEF EventsOfFinalized
  <2>1. CASE shipment'[s].status = "purged"
    BY <2>1 DEF RowsAdvance, LimitInv, EventsOfFinalized
  <2>2. CASE shipment'[s].status # "purged"
    <3>1. ~(Finalized(s)')
      BY <2>2 DEF Finalized, PreSend, Downloadable, Closed
    <3>2. QED
      BY <3>1, NotFinalized DEF RowsAdvance
  <2>3. QED
    BY <2>1, <2>2
<1>2. LimitWithInFlight'
  <2> SUFFICES ASSUME NEW s \in Shipments
               PROVE  events[s] + Cardinality(InFlight(s)')
                        <= shipment'[s].max + Cardinality(Requests) - 1
    BY DEF LimitWithInFlight
  <2>1. /\ Cardinality(InFlight(s)') \in Nat
        /\ Cardinality(InFlight(s)') <= Cardinality(InFlight(s))
        /\ Cardinality(InFlight(s)) \in Nat /\ Cardinality(Requests) \in Nat
        /\ Cardinality(InFlight(s)) <= Cardinality(Requests)
    BY FewerInFlight, InFlightFinite
  <2>2. events[s] \in Nat /\ shipment[s].max \in Nat /\ shipment'[s].max \in Nat \ {0}
    BY DEF TypeOK, ShipmentRow
  <2>3. CASE Finalized(s)
    <3>1. shipment'[s].max = shipment[s].max
      BY <2>3 DEF RowsAdvance
    <3>2. events[s] + Cardinality(InFlight(s)) <= shipment[s].max + Cardinality(Requests) - 1
      BY DEF LimitInv, LimitWithInFlight
    <3>3. QED
      BY <2>1, <2>2, <3>1, <3>2
  <2>4. CASE ~Finalized(s)
    <3>1. InFlight(s) = {} /\ events[s] = 0
      BY <2>4, NotFinalized
    <3>2. Cardinality(InFlight(s)) = 0
      BY <3>1, FS_EmptySet
    <3>3. QED
      BY <2>1, <2>2, <3>1, <3>2
  <2>5. QED
    BY <2>3, <2>4
<1>3. QED
  BY <1>1, <1>2 DEF LimitInv

LEMMA UnchangedRows == UNCHANGED shipment => RowsAdvance
  BY DEF RowsAdvance, Finalized

LEMMA OwnerRowsAdvance == TypeOK /\ OwnerStep => RowsAdvance
<1> SUFFICES ASSUME TypeOK, NEW s \in Shipments,
                    \/ CreateDraft(s) \/ FinalizeShipment(s)
                    \/ DeleteShipment(s) \/ RevokeAccessTokens(s)
             PROVE  RowsAdvance
  BY DEF OwnerStep
<1>0. shipment \in [Shipments -> ShipmentRow]
  BY DEF TypeOK
<1>1. CASE CreateDraft(s)
  BY <1>0, <1>1 DEF CreateDraft, RowsAdvance, Finalized, NoShipment, Downloadable, Closed
<1>2. CASE FinalizeShipment(s)
  BY <1>2, FinalizedRow DEF RowsAdvance, Finalized, PreSend, Downloadable, Closed
<1>3. CASE DeleteShipment(s)
  <2>1. /\ ShipmentExists(s)
        /\ \A q \in Shipments \ {s} : shipment'[q] = shipment[q]
        /\ shipment'[s].status = "deleted" /\ shipment'[s].max = shipment[s].max
    BY <1>0, <1>3 DEF DeleteShipment, ShipmentRow
  <2>2. QED
    BY <2>1 DEF RowsAdvance, Finalized, ShipmentExists, Stored, PreSend, Downloadable, Closed
<1>4. CASE RevokeAccessTokens(s)
  BY <1>4, UnchangedRows DEF RevokeAccessTokens
<1>5. QED
  BY <1>1, <1>2, <1>3, <1>4

LEMMA MarkExpiredRowsAdvance ==
  ASSUME TypeOK, NEW w \in Workers, NEW s \in Shipments, MarkExpired(w, s)
  PROVE  RowsAdvance
<1>0. shipment \in [Shipments -> ShipmentRow]
  BY DEF TypeOK
<1>1. CASE shipment' = shipment
  BY <1>1, UnchangedRows
<1>2. CASE shipment' = [shipment EXCEPT ![s].status = "expired"]
  <2>1. ShipmentExists(s) \/ shipment' = shipment
    BY DEF MarkExpired
  <2>2. /\ \A q \in Shipments \ {s} : shipment'[q] = shipment[q]
        /\ shipment'[s].status = "expired" /\ shipment'[s].max = shipment[s].max
    BY <1>0, <1>2 DEF ShipmentRow
  <2>3. QED
    BY <2>1, <2>2, UnchangedRows
       DEF RowsAdvance, Finalized, ShipmentExists, Stored, PreSend, Downloadable, Closed
<1>3. QED
  BY <1>1, <1>2 DEF MarkExpired

LEMMA IncrementRowsAdvance ==
  ASSUME TypeOK, NEW r \in Requests, IncrementShipmentDownloadCount(r)
  PROVE  RowsAdvance
<1> DEFINE s == ShipmentOf[req[r].tok]
<1>0. shipment \in [Shipments -> ShipmentRow]
  BY DEF TypeOK
<1>1. /\ ShipmentExists(s)
      /\ shipment' = [shipment EXCEPT ![s].current = @ + 1, ![s].status = AfterDownload(@)]
  BY DEF IncrementShipmentDownloadCount
<1> HIDE DEF s
<1>2. QED
  BY <1>0, <1>1
     DEF RowsAdvance, Finalized, ShipmentRow, AfterDownload, ShipmentExists,
         Stored, PreSend, Downloadable, Closed

\* ReadFinalized and GrantedBelowLimit survive every step that leaves the requests alone.
LEMMA SameRequests ==
  ASSUME TypeOK, TypeOK', LimitInv, RowsAdvance, UNCHANGED <<req, events>>
  PROVE  LimitInv'
<1>1. \A s \in Shipments : InFlight(s)' = InFlight(s)
  BY DEF InFlight
<1>2. GrantedBelowLimit'
  BY DEF LimitInv, GrantedBelowLimit
<1>3. ReadFinalized'
  <2> SUFFICES ASSUME NEW r \in Requests, PassedShipment(r)
               PROVE  LET s == ShipmentOf[req[r].tok] IN
                      /\ Finalized(s)'
                      /\ shipment'[s].status # "purged" => req[r].max = shipment'[s].max
    BY DEF ReadFinalized, PassedShipment
  <2> DEFINE s == ShipmentOf[req[r].tok]
  <2>1. s \in Shipments
    BY ConstantsAssumption DEF TypeOK, RequestState
  <2>2. Finalized(s) /\ (shipment[s].status # "purged" => req[r].max = shipment[s].max)
    BY DEF LimitInv, ReadFinalized
  <2>3. Finalized(s)' /\ shipment'[s].max = shipment[s].max
    BY <2>1, <2>2 DEF RowsAdvance
  <2>4. shipment'[s].status # "purged" => shipment[s].status # "purged"
    BY <2>1 DEF RowsAdvance
  <2>5. QED
    BY <2>2, <2>3, <2>4
<1>4. QED
  BY <1>1, <1>2, <1>3, FewerLimitInv

\* A request that goes on keeps what it has read.
LEMMA RequestKeepsRead ==
  ASSUME TypeOK, ReadFinalized, RowsAdvance, NEW r \in Requests,
         \A o \in Requests \ {r} : req'[o] = req[o],
         PassedShipment(r)' =>
           PassedShipment(r) /\ req'[r].tok = req[r].tok /\ req'[r].max = req[r].max
  PROVE  ReadFinalized'
<1> SUFFICES ASSUME NEW o \in Requests, PassedShipment(o)'
             PROVE  (LET s == ShipmentOf[req[o].tok] IN
                     /\ Finalized(s)
                     /\ shipment[s].status # "purged" => req[o].max = shipment[s].max)'
  BY DEF ReadFinalized
<1> DEFINE s == ShipmentOf[req[o].tok]
<1>1. PassedShipment(o) /\ req'[o].tok = req[o].tok /\ req'[o].max = req[o].max
  BY DEF PassedShipment
<1>2. s \in Shipments
  BY ConstantsAssumption DEF TypeOK, RequestState
<1>3. Finalized(s) /\ (shipment[s].status # "purged" => req[o].max = shipment[s].max)
  BY <1>1 DEF ReadFinalized
<1>4. Finalized(s)' /\ shipment'[s].max = shipment[s].max
  BY <1>2, <1>3 DEF RowsAdvance
<1>5. shipment'[s].status # "purged" => shipment[s].status # "purged"
  BY <1>2 DEF RowsAdvance
<1>6. QED
  BY <1>1, <1>3, <1>4, <1>5 DEF Finalized

\* A step of one request that neither enters the check nor writes its event.
LEMMA RequestLimitInv ==
  ASSUME TypeOK, TypeOK', LimitInv, RowsAdvance, events' = events, NEW r \in Requests,
         \A o \in Requests \ {r} : req'[o] = req[o],
         PassedShipment(r)' =>
           PassedShipment(r) /\ req'[r].tok = req[r].tok /\ req'[r].max = req[r].max,
         req'[r].pc = "granted" => req'[r].count < req'[r].max,
         req'[r].pc \in {"counted", "granted"} =>
           req[r].pc \in {"counted", "granted"} /\ req'[r].count = req[r].count
  PROVE  LimitInv'
<1>1. ReadFinalized'
  BY RequestKeepsRead DEF LimitInv
<1>2. GrantedBelowLimit'
  BY DEF LimitInv, GrantedBelowLimit
<1>3. \A s \in Shipments : InFlight(s)' \subseteq InFlight(s)
  BY DEF InFlight, PassedShipment
<1>4. QED
  BY <1>1, <1>2, <1>3, FewerLimitInv

LEMMA ReadTokenLimitInv ==
  ASSUME TypeOK, TypeOK', LimitInv, NEW r \in Requests, NEW t \in Tokens, ReadToken(r, t)
  PROVE  LimitInv'
<1>1. /\ \A o \in Requests \ {r} : req'[o] = req[o]
      /\ req'[r].pc = "token"
  BY DEF ReadToken, TypeOK, IdleRequest
<1>2. RowsAdvance /\ events' = events
  BY UnchangedRows DEF ReadToken
<1>3. QED
  BY <1>1, <1>2, RequestLimitInv DEF PassedShipment

LEMMA ReadShipmentLimitInv ==
  ASSUME TypeOK, TypeOK', LimitInv, NEW r \in Requests, ReadShipment(r)
  PROVE  LimitInv'
<1> DEFINE s == ShipmentOf[req[r].tok]
<1>1. /\ \A o \in Requests \ {r} : req'[o] = req[o]
      /\ req'[r].pc = "shipment" /\ req'[r].tok = req[r].tok
      /\ req'[r].max = shipment[s].max
  <2>1. req' = [req EXCEPT ![r].pc = "shipment", ![r].max = shipment[s].max]
    BY DEF ReadShipment
  <2>2. req \in [Requests -> RequestState] /\ req[r] \in RequestState
    BY DEF TypeOK
  <2> HIDE DEF s
  <2> QED
    BY <2>1, <2>2 DEF RequestState
<1>2. RowsAdvance /\ events' = events /\ shipment' = shipment
  BY UnchangedRows DEF ReadShipment
<1>3. Finalized(s)
  BY DEF ReadShipment, Accessible, Finalized
<1>4. ReadFinalized'
  <2> SUFFICES ASSUME NEW o \in Requests, PassedShipment(o)'
               PROVE  LET q == ShipmentOf[req'[o].tok] IN
                      /\ Finalized(q)
                      /\ shipment[q].status # "purged" => req'[o].max = shipment[q].max
    BY <1>2 DEF ReadFinalized, Finalized
  <2>1. CASE o = r
    BY <1>1, <1>3, <2>1
  <2>2. CASE o # r
    BY <1>1, <2>2 DEF LimitInv, ReadFinalized, PassedShipment
  <2>3. QED
    BY <2>1, <2>2
<1>5. GrantedBelowLimit'
  BY <1>1 DEF LimitInv, GrantedBelowLimit
<1>6. \A q \in Shipments : InFlight(q)' \subseteq InFlight(q)
  BY <1>1 DEF InFlight
<1>7. QED
  BY <1>2, <1>4, <1>5, <1>6, FewerLimitInv

LEMMA CheckLimitLimitInv ==
  ASSUME TypeOK, TypeOK', LimitInv, NEW r \in Requests, CheckLimit(r)
  PROVE  LimitInv'
<1>1. /\ \A o \in Requests \ {r} : req'[o] = req[o]
      /\ req[r].pc = "counted" /\ req'[r].pc = "granted"
      /\ req'[r].tok = req[r].tok /\ req'[r].max = req[r].max /\ req'[r].count = req[r].count
      /\ req[r].count < req[r].max
  BY DEF CheckLimit, TypeOK, RequestState, BelowLimit
<1>2. RowsAdvance /\ events' = events
  BY UnchangedRows DEF CheckLimit
<1>3. QED
  BY <1>1, <1>2, RequestLimitInv DEF PassedShipment

LEMMA UpdateAccessTokenUsageLimitInv ==
  ASSUME TypeOK, TypeOK', LimitInv, NEW r \in Requests, UpdateAccessTokenUsage(r)
  PROVE  LimitInv'
<1>1. /\ \A o \in Requests \ {r} : req'[o] = req[o]
      /\ req[r].pc = "logged" /\ req'[r].pc = "tallied"
      /\ req'[r].tok = req[r].tok /\ req'[r].max = req[r].max
  BY DEF UpdateAccessTokenUsage, TypeOK, RequestState
<1>2. RowsAdvance /\ events' = events
  BY UnchangedRows DEF UpdateAccessTokenUsage
<1>3. QED
  BY <1>1, <1>2, RequestLimitInv DEF PassedShipment

\* The two ways a handler ends, its last statement and Abandon.
LEMMA EndRequestLimitInv ==
  ASSUME TypeOK, TypeOK', LimitInv, NEW r \in Requests,
         IncrementShipmentDownloadCount(r) \/ Abandon(r)
  PROVE  LimitInv'
<1>1. req' = [req EXCEPT ![r] = IdleRequest] /\ events' = events
  BY DEF IncrementShipmentDownloadCount, Abandon
<1>2. /\ \A o \in Requests \ {r} : req'[o] = req[o]
      /\ req'[r].pc = "idle"
  BY <1>1 DEF TypeOK, IdleRequest
<1>3. RowsAdvance
  BY IncrementRowsAdvance, UnchangedRows DEF Abandon
<1>4. QED
  BY <1>1, <1>2, <1>3, RequestLimitInv DEF PassedShipment

LEMMA CountDownloadsLimitInv ==
  ASSUME TypeOK, TypeOK', LimitInv, NEW r \in Requests, CountDownloads(r)
  PROVE  LimitInv'
<1> DEFINE own == ShipmentOf[req[r].tok]
<1>1. /\ \A o \in Requests \ {r} : req'[o] = req[o]
      /\ req[r].pc = "shipment" /\ req'[r].pc = "counted"
      /\ req'[r].tok = req[r].tok /\ req'[r].max = req[r].max
      /\ req'[r].count = events[own]
  BY DEF CountDownloads, TypeOK, RequestState
<1>2. RowsAdvance /\ events' = events /\ shipment' = shipment
  BY UnchangedRows DEF CountDownloads
<1>3. ReadFinalized'
  BY <1>1, <1>2, RequestKeepsRead DEF PassedShipment, LimitInv
<1>4. GrantedBelowLimit'
  BY <1>1 DEF LimitInv, GrantedBelowLimit
<1>5. EventsOfFinalized'
  BY <1>2 DEF LimitInv, EventsOfFinalized
<1>6. LimitWithInFlight'
  <2> SUFFICES ASSUME NEW s \in Shipments
               PROVE  events[s] + Cardinality(InFlight(s)')
                        <= shipment[s].max + Cardinality(Requests) - 1
    BY <1>2 DEF LimitWithInFlight
  <2>1. events[s] \in Nat /\ shipment[s].max \in Nat \ {0}
    BY DEF TypeOK, ShipmentRow
  <2>2. CASE InFlight(s)' \subseteq InFlight(s)
    <3>1. /\ Cardinality(InFlight(s)') \in Nat
          /\ Cardinality(InFlight(s)') <= Cardinality(InFlight(s))
          /\ Cardinality(InFlight(s)) \in Nat /\ Cardinality(Requests) \in Nat
      BY <2>2, FewerInFlight, InFlightFinite
    <3>2. events[s] + Cardinality(InFlight(s)) <= shipment[s].max + Cardinality(Requests) - 1
      BY DEF LimitInv, LimitWithInFlight
    <3>3. QED
      BY <2>1, <3>1, <3>2
  <2>3. CASE ~(InFlight(s)' \subseteq InFlight(s))
    <3>1. s = own /\ events[s] < req[r].max
      BY <1>1, <2>3 DEF InFlight
    <3>2. /\ Cardinality(InFlight(s)') \in Nat /\ Cardinality(Requests) \in Nat
          /\ Cardinality(InFlight(s)') <= Cardinality(Requests)
      <4>1. InFlight(s)' \subseteq Requests
        BY DEF InFlight
      <4>2. QED
        BY <4>1, ConstantsAssumption, FS_Subset, FS_CardinalityType
    <3>3. events[s] <= shipment[s].max - 1
      <4>1. CASE shipment[s].status = "purged"
        BY <2>1, <4>1 DEF LimitInv, EventsOfFinalized
      <4>2. CASE shipment[s].status # "purged"
        <5>1. req[r].max = shipment[s].max
          BY <1>1, <3>1, <4>2 DEF LimitInv, ReadFinalized, PassedShipment
        <5>2. QED
          BY <2>1, <3>1, <5>1
      <4>3. QED
        BY <4>1, <4>2
    <3>4. QED
      BY <2>1, <3>2, <3>3
  <2>4. QED
    BY <2>2, <2>3
<1>7. QED
  BY <1>3, <1>4, <1>5, <1>6 DEF LimitInv

LEMMA CreateDownloadEventLimitInv ==
  ASSUME TypeOK, TypeOK', LimitInv, NEW r \in Requests, CreateDownloadEvent(r)
  PROVE  LimitInv'
<1> DEFINE own == ShipmentOf[req[r].tok]
<1>0. own \in Shipments
  BY ConstantsAssumption DEF TypeOK, RequestState
<1>1. /\ \A o \in Requests \ {r} : req'[o] = req[o]
      /\ req[r].pc = "granted" /\ req'[r].pc = "logged"
      /\ req'[r].tok = req[r].tok /\ req'[r].max = req[r].max
  BY DEF CreateDownloadEvent, TypeOK, RequestState
<1>2. /\ RowsAdvance /\ shipment' = shipment /\ ShipmentExists(own)
      /\ events' = [events EXCEPT ![own] = @ + 1]
  BY UnchangedRows DEF CreateDownloadEvent
<1>3. ReadFinalized'
  BY <1>1, <1>2, RequestKeepsRead DEF PassedShipment, LimitInv
<1>4. GrantedBelowLimit'
  BY <1>1 DEF LimitInv, GrantedBelowLimit
<1>5. \A s \in Shipments : s # own => events'[s] = events[s]
  BY <1>2 DEF TypeOK
<1>6. EventsOfFinalized'
  <2>1. Finalized(own)
    BY <1>1 DEF LimitInv, ReadFinalized, PassedShipment
  <2>2. shipment[own].status \notin PreSend \cup {"none", "purged"}
    BY <1>2, <2>1 DEF ShipmentExists, Stored, Finalized, PreSend, Downloadable, Closed
  <2> HIDE DEF own
  <2>3. QED
    BY <1>2, <1>5, <2>2 DEF LimitInv, EventsOfFinalized
<1>7. LimitWithInFlight'
  <2> SUFFICES ASSUME NEW s \in Shipments
               PROVE  events'[s] + Cardinality(InFlight(s)')
                        <= shipment[s].max + Cardinality(Requests) - 1
    BY <1>2 DEF LimitWithInFlight
  <2>1. events[s] \in Nat /\ shipment[s].max \in Nat \ {0}
    BY DEF TypeOK, ShipmentRow
  <2>2. /\ Cardinality(InFlight(s)) \in Nat /\ Cardinality(Requests) \in Nat
        /\ events[s] + Cardinality(InFlight(s)) <= shipment[s].max + Cardinality(Requests) - 1
    BY InFlightFinite DEF LimitInv, LimitWithInFlight
  <2>3. CASE s = own
    <3>1. r \in InFlight(s)
      BY <1>1, <2>3 DEF InFlight, LimitInv, GrantedBelowLimit
    <3>2. InFlight(s)' = InFlight(s) \ {r}
      BY <1>1 DEF InFlight
    <3>3. Cardinality(InFlight(s)') = Cardinality(InFlight(s)) - 1
      BY <3>1, <3>2, InFlightFinite, FS_RemoveElement
    <3>4. events'[s] = events[s] + 1
      BY <1>0, <1>2, <2>3 DEF TypeOK
    <3>5. QED
      BY <2>1, <2>2, <3>3, <3>4
  <2>4. CASE s # own
    <3>1. InFlight(s)' = InFlight(s)
      BY <1>1, <2>4 DEF InFlight
    <3>2. QED
      BY <1>5, <2>2, <2>4, <3>1
  <2>5. QED
    BY <2>3, <2>4
<1>8. QED
  BY <1>3, <1>4, <1>6, <1>7 DEF LimitInv

\* The purge forgets limit and events together.
LEMMA PurgeLimitInv ==
  ASSUME TypeOK, TypeOK', LimitInv, NEW w \in Workers, NEW p \in Shipments, Purge(w, p)
  PROVE  LimitInv'
<1>1. /\ req' = req
      /\ shipment'[p].status = "purged" /\ shipment'[p].max = DefaultMax /\ events'[p] = 0
      /\ \A s \in Shipments \ {p} : shipment'[s] = shipment[s] /\ events'[s] = events[s]
  BY DEF Purge, TypeOK, NoShipment
<1>2. ReadFinalized'
  <2> SUFFICES ASSUME NEW r \in Requests, PassedShipment(r)
               PROVE  LET s == ShipmentOf[req[r].tok] IN
                      /\ Finalized(s)'
                      /\ shipment'[s].status # "purged" => req[r].max = shipment'[s].max
    BY <1>1 DEF ReadFinalized, PassedShipment
  <2> DEFINE s == ShipmentOf[req[r].tok]
  <2>1. s \in Shipments
    BY ConstantsAssumption DEF TypeOK, RequestState
  <2>2. Finalized(s) /\ (shipment[s].status # "purged" => req[r].max = shipment[s].max)
    BY DEF LimitInv, ReadFinalized
  <2>3. CASE s = p
    BY <1>1, <2>3 DEF Finalized
  <2>4. CASE s # p
    BY <1>1, <2>1, <2>2, <2>4 DEF Finalized
  <2>5. QED
    BY <2>3, <2>4
<1>3. EventsOfFinalized' /\ GrantedBelowLimit'
  BY <1>1 DEF LimitInv, EventsOfFinalized, GrantedBelowLimit
<1>4. LimitWithInFlight'
  <2> SUFFICES ASSUME NEW s \in Shipments
               PROVE  events'[s] + Cardinality(InFlight(s)')
                        <= shipment'[s].max + Cardinality(Requests) - 1
    BY DEF LimitWithInFlight
  <2>1. InFlight(s)' = InFlight(s)
    BY <1>1 DEF InFlight
  <2>2. CASE s = p
    BY <1>1, <2>1, <2>2, InFlightFinite, ConstantsAssumption
  <2>3. CASE s # p
    BY <1>1, <2>1, <2>3 DEF LimitInv, LimitWithInFlight
  <2>4. QED
    BY <2>2, <2>3
<1>5. QED
  BY <1>2, <1>3, <1>4 DEF LimitInv

LEMMA NextLimitInv == TypeOK /\ LimitInv /\ [Next]_vars => LimitInv'
<1> SUFFICES ASSUME TypeOK, TypeOK', LimitInv, [Next]_vars PROVE LimitInv'
  BY NextTypeOK
<1>1. CASE OwnerStep
  BY <1>1, OwnerFrame, OwnerRowsAdvance, SameRequests
<1>2. CASE ResendStep
  BY <1>2, ResendFrame, UnchangedRows, SameRequests
<1>3. CASE RequestStep
  <2> SUFFICES ASSUME NEW r \in Requests,
                      \/ \E t \in Tokens : ReadToken(r, t)
                      \/ ReadShipment(r) \/ CountDownloads(r) \/ CheckLimit(r)
                      \/ CreateDownloadEvent(r) \/ UpdateAccessTokenUsage(r)
                      \/ IncrementShipmentDownloadCount(r) \/ Abandon(r)
               PROVE  LimitInv'
    BY <1>3 DEF RequestStep
  <2>1. QED
    BY ReadTokenLimitInv, ReadShipmentLimitInv, CountDownloadsLimitInv, CheckLimitLimitInv,
       CreateDownloadEventLimitInv, UpdateAccessTokenUsageLimitInv, EndRequestLimitInv
<1>4. CASE WorkerStep
  <2> SUFFICES ASSUME NEW w \in Workers,
                      \/ StartRun(w)
                      \/ \E s \in Shipments : MarkExpired(w, s)
                      \/ StartPurge(w)
                      \/ \E s \in Shipments : Purge(w, s)
                      \/ \E s \in Shipments : SkipShipment(w, s)
                      \/ EndRun(w)
               PROVE  LimitInv'
    BY <1>4 DEF WorkerStep
  <2>1. CASE StartRun(w) \/ StartPurge(w) \/ EndRun(w)
    BY <2>1, UnchangedRows, SameRequests DEF StartRun, StartPurge, EndRun
  <2>2. ASSUME NEW s \in Shipments, MarkExpired(w, s) PROVE LimitInv'
    BY <2>2, MarkExpiredRowsAdvance, SameRequests DEF MarkExpired
  <2>3. ASSUME NEW s \in Shipments, Purge(w, s) PROVE LimitInv'
    BY <2>3, PurgeLimitInv
  <2>4. ASSUME NEW s \in Shipments, SkipShipment(w, s) PROVE LimitInv'
    BY <2>4, UnchangedRows, SameRequests DEF SkipShipment
  <2>5. QED
    BY <2>1, <2>2, <2>3, <2>4
<1>5. CASE Tick \/ UNCHANGED vars
  BY <1>5, UnchangedRows, SameRequests DEF Tick, vars
<1>6. QED
  BY <1>1, <1>2, <1>3, <1>4, <1>5 DEF Next

LEMMA LimitInvBounds == TypeOK /\ LimitInv => OvershootBounded
<1> SUFFICES ASSUME TypeOK, LimitInv, NEW s \in Shipments
             PROVE  events[s] <= shipment[s].max + Cardinality(Requests) - 1
  BY DEF OvershootBounded
<1>1. /\ Cardinality(InFlight(s)) \in Nat /\ Cardinality(Requests) \in Nat
      /\ events[s] + Cardinality(InFlight(s)) <= shipment[s].max + Cardinality(Requests) - 1
  BY InFlightFinite DEF LimitInv, LimitWithInFlight
<1>2. events[s] \in Nat /\ shipment[s].max \in Nat
  BY DEF TypeOK, ShipmentRow
<1>3. QED
  BY <1>1, <1>2

\* With N concurrent handlers a shipment is downloaded at most max_downloads + N - 1
\* times, for every N, every limit, and whatever the owner and the cleanup do.
THEOREM OvershootIsBounded == Spec => []OvershootBounded
<1>1. Spec => [](TypeOK /\ LimitInv)
  BY InitTypeOK, NextTypeOK, InitLimitInv, NextLimitInv, PTL DEF Spec
<1>2. QED
  BY <1>1, LimitInvBounds, PTL

-----------------------------------------------------------------------------
(* The status. *)

LEMMA RankValues ==
  /\ Rank("none") = 0 /\ Rank("sent") = 2 /\ Rank("accessed") = 3 /\ Rank("expired") = 4
  /\ Rank("deleted") = 5 /\ Rank("revoked") = 5 /\ Rank("purged") = 6
  /\ \A st \in PreSend : Rank(st) = 1
  BY DEF Rank, PreSend

LEMMA RankBounds ==
  ASSUME NEW st \in Stored \cup {"none", "purged"}
  PROVE  /\ Rank(st) \in Nat /\ Rank(st) <= 6
         /\ st \notin {"deleted", "revoked", "purged"} => Rank(st) <= 4
         /\ st \notin Closed \cup {"purged"} => Rank(st) <= 3
  BY RankValues DEF Stored, Downloadable, Closed

\* What a step that rewrites one row has to show.
LEMMA OneRowAdvances ==
  ASSUME TypeOK, NEW s \in Shipments,
         \A q \in Shipments \ {s} : shipment'[q] = shipment[q],
         Rank(shipment[s].status) <= Rank(shipment'[s].status)
  PROVE  \A q \in Shipments : Rank(shipment[q].status) <= Rank(shipment'[q].status)
<1> SUFFICES ASSUME NEW q \in Shipments
             PROVE  Rank(shipment[q].status) <= Rank(shipment'[q].status)
  OBVIOUS
<1>1. Rank(shipment[q].status) \in Nat
  BY RankBounds DEF TypeOK, ShipmentRow
<1>2. CASE q = s
  BY <1>2
<1>3. CASE q # s
  BY <1>1, <1>3
<1>4. QED
  BY <1>2, <1>3

LEMMA StepAdvances ==
  ASSUME TypeOK, [Next]_vars
  PROVE  [\A s \in Shipments : Rank(shipment[s].status) <= Rank(shipment'[s].status)]_shipment
<1> SUFFICES ASSUME Next, shipment' # shipment
             PROVE  \A s \in Shipments : Rank(shipment[s].status) <= Rank(shipment'[s].status)
  BY DEF vars
<1>0. shipment \in [Shipments -> ShipmentRow]
  BY DEF TypeOK
<1>1. \A s \in Shipments : shipment[s].status \in Stored \cup {"none", "purged"}
  BY <1>0 DEF ShipmentRow
<1>2. ASSUME NEW s \in Shipments, CreateDraft(s)
      PROVE  \A q \in Shipments : Rank(shipment[q].status) <= Rank(shipment'[q].status)
  <2>1. /\ \A q \in Shipments \ {s} : shipment'[q] = shipment[q]
        /\ shipment[s].status = "none" /\ shipment'[s].status = "uploading"
    BY <1>0, <1>2 DEF CreateDraft, NoShipment
  <2>2. Rank(shipment[s].status) <= Rank(shipment'[s].status)
    BY <2>1, RankValues DEF PreSend
  <2>3. QED
    BY <2>1, <2>2, OneRowAdvances
<1>3. ASSUME NEW s \in Shipments, FinalizeShipment(s)
      PROVE  \A q \in Shipments : Rank(shipment[q].status) <= Rank(shipment'[q].status)
  <2>1. Rank(shipment[s].status) <= Rank(shipment'[s].status)
    BY <1>3, FinalizedRow, RankValues
  <2>2. QED
    BY <1>3, <2>1, FinalizedRow, OneRowAdvances
<1>4. ASSUME NEW s \in Shipments, DeleteShipment(s)
      PROVE  \A q \in Shipments : Rank(shipment[q].status) <= Rank(shipment'[q].status)
  <2>1. /\ shipment[s].status \in Stored \ {"deleted", "revoked"}
        /\ \A q \in Shipments \ {s} : shipment'[q] = shipment[q]
        /\ shipment'[s].status = "deleted"
    BY <1>0, <1>4 DEF DeleteShipment, ShipmentExists, ShipmentRow
  <2>2. shipment[s].status # "purged"
    BY <2>1 DEF Stored, PreSend, Downloadable, Closed
  <2>3. Rank(shipment[s].status) <= Rank(shipment'[s].status)
    BY <2>1, <2>2, RankValues, RankBounds
  <2>4. QED
    BY <2>1, <2>3, OneRowAdvances
<1>5. ASSUME NEW w \in Workers, NEW s \in Shipments, MarkExpired(w, s)
      PROVE  \A q \in Shipments : Rank(shipment[q].status) <= Rank(shipment'[q].status)
  <2>1. /\ shipment[s].status \in Stored \ Closed
        /\ shipment' = [shipment EXCEPT ![s].status = "expired"]
    BY <1>5 DEF MarkExpired, ShipmentExists
  <2>2. /\ \A q \in Shipments \ {s} : shipment'[q] = shipment[q]
        /\ shipment'[s].status = "expired"
    BY <1>0, <2>1 DEF ShipmentRow
  <2>3. shipment[s].status # "purged"
    BY <2>1 DEF Stored, PreSend, Downloadable, Closed
  <2>4. Rank(shipment[s].status) <= Rank(shipment'[s].status)
    BY <2>1, <2>2, <2>3, RankValues, RankBounds
  <2>5. QED
    BY <2>2, <2>4, OneRowAdvances
<1>6. ASSUME NEW w \in Workers, NEW s \in Shipments, Purge(w, s)
      PROVE  \A q \in Shipments : Rank(shipment[q].status) <= Rank(shipment'[q].status)
  <2>1. /\ \A q \in Shipments \ {s} : shipment'[q] = shipment[q]
        /\ shipment'[s].status = "purged"
    BY <1>0, <1>6 DEF Purge, NoShipment
  <2>2. Rank(shipment[s].status) <= Rank(shipment'[s].status)
    BY <1>1, <2>1, RankValues, RankBounds
  <2>3. QED
    BY <2>1, <2>2, OneRowAdvances
<1>7. ASSUME NEW r \in Requests, IncrementShipmentDownloadCount(r)
      PROVE  \A q \in Shipments : Rank(shipment[q].status) <= Rank(shipment'[q].status)
  <2> DEFINE s == ShipmentOf[req[r].tok]
  <2>0. s \in Shipments
    BY ConstantsAssumption DEF TypeOK, RequestState
  <2>1. shipment' = [shipment EXCEPT ![s].current = @ + 1, ![s].status = AfterDownload(@)]
    BY <1>7 DEF IncrementShipmentDownloadCount
  <2> HIDE DEF s
  <2>2. /\ \A q \in Shipments \ {s} : shipment'[q] = shipment[q]
        /\ shipment'[s].status = AfterDownload(shipment[s].status)
    BY <1>0, <2>0, <2>1 DEF ShipmentRow
  <2>3. Rank(shipment[s].status) \in Nat
    BY <1>1, <2>0, RankBounds
  <2>4. Rank(shipment[s].status) <= Rank(AfterDownload(shipment[s].status))
    BY <2>3, RankValues DEF AfterDownload
  <2>5. QED
    BY <2>0, <2>2, <2>4, OneRowAdvances
<1>8. QED
  BY <1>2, <1>3, <1>4, <1>5, <1>6, <1>7
     DEF Next, OwnerStep, RevokeAccessTokens, ResendStep, StartResend, ResendToken, EndResend,
         RequestStep, ReadToken, ReadShipment, CountDownloads, CheckLimit, CreateDownloadEvent,
         UpdateAccessTokenUsage, Abandon,
         WorkerStep, StartRun, StartPurge, SkipShipment, EndRun, Tick

\* No step of any process moves a shipment back.
THEOREM StatusAdvances == Spec => StatusOnlyAdvances
<1>1. QED
  BY InitTypeOK, NextTypeOK, StepAdvances, PTL DEF Spec, StatusOnlyAdvances

-----------------------------------------------------------------------------
(* What every step keeps of a row, used by the two theorems below. *)

KeepsRow(old, new) ==
  /\ old.status \in Downloadable \cup Closed \cup {"purged"} =>
       /\ new.status \in Downloadable \cup Closed \cup {"purged"}
       /\ new.status = "purged" \/ new.expiresAt = old.expiresAt
  /\ old.status \in Closed \cup {"purged"} => new.status \in Closed \cup {"purged"}
  /\ old.status = "deleted" =>
       new.status = "purged" \/ (new.status = "deleted" /\ new.deletedAt = old.deletedAt)
  /\ old.status = "purged" => new.status = "purged"
  /\ old.status \notin {"draft", "ready"} => new.status \notin {"draft", "ready"}

RowsKept == \A s \in Shipments : KeepsRow(shipment[s], shipment'[s])

LEMMA SameRowKept == \A row : KeepsRow(row, row)
  BY DEF KeepsRow

LEMMA OneRowKept ==
  ASSUME NEW s \in Shipments,
         \A q \in Shipments \ {s} : shipment'[q] = shipment[q],
         KeepsRow(shipment[s], shipment'[s])
  PROVE  RowsKept
  BY SameRowKept DEF RowsKept

LEMMA NextRowsKept == TypeOK /\ [Next]_vars => RowsKept
<1> SUFFICES ASSUME TypeOK, [Next]_vars PROVE RowsKept
  OBVIOUS
<1> USE DEF Stored, PreSend, Downloadable, Closed
<1>0. shipment \in [Shipments -> ShipmentRow]
  BY DEF TypeOK
<1>1. CASE shipment' = shipment
  BY <1>1, SameRowKept DEF RowsKept
<1>2. ASSUME NEW s \in Shipments, CreateDraft(s) PROVE RowsKept
  <2>1. /\ \A q \in Shipments \ {s} : shipment'[q] = shipment[q]
        /\ shipment[s].status = "none" /\ shipment'[s].status = "uploading"
    BY <1>0, <1>2 DEF CreateDraft, NoShipment
  <2>2. KeepsRow(shipment[s], shipment'[s])
    BY <2>1 DEF KeepsRow
  <2>3. QED
    BY <2>1, <2>2, OneRowKept
<1>3. ASSUME NEW s \in Shipments, FinalizeShipment(s) PROVE RowsKept
  <2>1. KeepsRow(shipment[s], shipment'[s])
    BY <1>3, FinalizedRow DEF KeepsRow
  <2>2. QED
    BY <1>3, <2>1, FinalizedRow, OneRowKept
<1>4. ASSUME NEW s \in Shipments, DeleteShipment(s) PROVE RowsKept
  <2>1. /\ ShipmentExists(s) /\ shipment[s].status # "deleted"
        /\ \A q \in Shipments \ {s} : shipment'[q] = shipment[q]
        /\ shipment'[s].status = "deleted" /\ shipment'[s].expiresAt = shipment[s].expiresAt
    BY <1>0, <1>4 DEF DeleteShipment, ShipmentRow
  <2>2. KeepsRow(shipment[s], shipment'[s])
    BY <2>1 DEF KeepsRow, ShipmentExists
  <2>3. QED
    BY <2>1, <2>2, OneRowKept
<1>5. ASSUME NEW w \in Workers, NEW s \in Shipments, MarkExpired(w, s), shipment' # shipment
      PROVE  RowsKept
  <2>1. /\ ShipmentExists(s) /\ shipment[s].status \notin Closed
        /\ shipment' = [shipment EXCEPT ![s].status = "expired"]
    BY <1>5 DEF MarkExpired
  <2>2. /\ \A q \in Shipments \ {s} : shipment'[q] = shipment[q]
        /\ shipment'[s].status = "expired" /\ shipment'[s].expiresAt = shipment[s].expiresAt
    BY <1>0, <2>1 DEF ShipmentRow
  <2>3. KeepsRow(shipment[s], shipment'[s])
    BY <2>1, <2>2 DEF KeepsRow, ShipmentExists
  <2>4. QED
    BY <2>2, <2>3, OneRowKept
<1>6. ASSUME NEW w \in Workers, NEW s \in Shipments, Purge(w, s) PROVE RowsKept
  <2>1. /\ \A q \in Shipments \ {s} : shipment'[q] = shipment[q]
        /\ shipment'[s].status = "purged"
    BY <1>0, <1>6 DEF Purge, NoShipment
  <2>2. KeepsRow(shipment[s], shipment'[s])
    BY <2>1 DEF KeepsRow
  <2>3. QED
    BY <2>1, <2>2, OneRowKept
<1>7. ASSUME NEW r \in Requests, IncrementShipmentDownloadCount(r) PROVE RowsKept
  <2> DEFINE s == ShipmentOf[req[r].tok]
  <2>0. s \in Shipments
    BY ConstantsAssumption DEF TypeOK, RequestState
  <2>1. /\ ShipmentExists(s)
        /\ shipment' = [shipment EXCEPT ![s].current = @ + 1, ![s].status = AfterDownload(@)]
    BY <1>7 DEF IncrementShipmentDownloadCount
  <2> HIDE DEF s
  <2>2. /\ \A q \in Shipments \ {s} : shipment'[q] = shipment[q]
        /\ shipment'[s].status = AfterDownload(shipment[s].status)
        /\ shipment'[s].expiresAt = shipment[s].expiresAt
        /\ shipment'[s].deletedAt = shipment[s].deletedAt
    BY <1>0, <2>0, <2>1 DEF ShipmentRow
  <2>3. KeepsRow(shipment[s], shipment'[s])
    BY <2>2 DEF KeepsRow, AfterDownload
  <2>4. QED
    BY <2>0, <2>2, <2>3, OneRowKept
<1>8. QED
  BY <1>1, <1>2, <1>3, <1>4, <1>5, <1>6, <1>7
     DEF Next, vars, OwnerStep, RevokeAccessTokens, ResendStep, StartResend, ResendToken, EndResend,
         RequestStep, ReadToken, ReadShipment, CountDownloads, CheckLimit, CreateDownloadEvent,
         UpdateAccessTokenUsage, Abandon,
         WorkerStep, StartRun, StartPurge, SkipShipment, EndRun, Tick

-----------------------------------------------------------------------------
(***************************************************************************)
(* The purge.  The rows a run has listed for the purge stay deleted, with  *)
(* the same deleted_at, until somebody purges them; what was past the      *)
(* grace period at the start of the run is past it when it is purged.      *)
(***************************************************************************)
PastGrace(s, at) == shipment[s].status = "deleted" /\ shipment[s].deletedAt + Grace < at

ListedPastGrace(w) ==
  /\ worker[w].at <= now
  /\ worker[w].pc = "purge" =>
       \A s \in worker[w].batch : shipment[s].status = "purged" \/ PastGrace(s, worker[w].at)

PurgeInv == \A w \in Workers : ListedPastGrace(w)

LEMMA InitPurgeInv == Init => PurgeInv
  BY DEF Init, PurgeInv, ListedPastGrace, IdleWorker

\* A worker that starts no list query keeps, or shrinks, its batch.
LEMMA NextPurgeInv == TypeOK /\ PurgeInv /\ [Next]_vars => PurgeInv'
<1> SUFFICES ASSUME TypeOK, PurgeInv, [Next]_vars, RowsKept, NEW w \in Workers
             PROVE  ListedPastGrace(w)'
  BY NextRowsKept DEF PurgeInv
<1> USE DEF ListedPastGrace
<1>0. /\ worker \in [Workers -> WorkerState] /\ now \in Nat
      /\ shipment \in [Shipments -> ShipmentRow]
  BY DEF TypeOK
<1>1. worker[w].at \in Nat /\ worker[w].batch \subseteq Shipments
  BY <1>0 DEF WorkerState
<1>2. now <= now' /\ now' \in Nat
  <2>1. CASE Tick
    BY <1>0, <2>1 DEF Tick
  <2>2. CASE ~Tick
    <3>1. now' = now
      BY <2>2, OwnerFrame, ResendFrame, RequestFrame, WorkerFrame DEF Next, vars
    <3>2. QED
      BY <1>0, <3>1
  <2>3. QED
    BY <2>1, <2>2
<1>3. ASSUME worker'[w].at = worker[w].at,
             worker'[w].pc = "purge" => worker[w].pc = "purge",
             worker'[w].batch \subseteq worker[w].batch
      PROVE  ListedPastGrace(w)'
  <2>1. worker'[w].at <= now'
    BY <1>0, <1>1, <1>2, <1>3 DEF PurgeInv
  <2>2. ASSUME worker'[w].pc = "purge", NEW s \in worker'[w].batch
        PROVE  (shipment[s].status = "purged" \/ PastGrace(s, worker[w].at))'
    <3>1. s \in Shipments /\ (shipment[s].status = "purged" \/ PastGrace(s, worker[w].at))
      BY <1>1, <1>3, <2>2 DEF PurgeInv
    <3>2. QED
      BY <1>3, <3>1 DEF RowsKept, KeepsRow, PastGrace
  <2>3. QED
    BY <2>1, <2>2
<1>4. ASSUME NEW v \in Workers, StartRun(v)
      PROVE  \/ worker'[w] = worker[w]
             \/ worker'[w].at = now /\ worker'[w].pc = "expire"
  <2>1. PICK B \in SUBSET ListExpired(now) :
          worker' = [worker EXCEPT ![v] = [pc |-> "expire", at |-> now, batch |-> B]]
    BY <1>4 DEF StartRun, Batches
  <2>2. QED
    BY <1>0, <2>1
<1>5. ASSUME NEW v \in Workers, StartPurge(v), worker'[w] # worker[w]
      PROVE  /\ worker'[w].at = worker[w].at /\ shipment' = shipment
             /\ worker'[w].batch \subseteq ListDeleted(worker[w].at)
  <2>1. PICK B \in SUBSET ListDeleted(worker[v].at) :
          worker' = [worker EXCEPT ![v].pc = "purge", ![v].batch = B]
    BY <1>5 DEF StartPurge, Batches
  <2>2. v = w
    BY <1>0, <1>5, <2>1
  <2>3. shipment' = shipment
    BY <1>5 DEF StartPurge
  <2>4. QED
    BY <1>0, <2>1, <2>2, <2>3 DEF WorkerState
<1>6. CASE \E v \in Workers : StartRun(v)
  <2>1. CASE worker'[w] = worker[w]
    BY <1>3, <2>1
  <2>2. CASE worker'[w] # worker[w]
    BY <1>0, <1>2, <1>4, <1>6, <2>2
  <2>3. QED
    BY <2>1, <2>2
<1>7. CASE \E v \in Workers : StartPurge(v)
  <2>1. CASE worker'[w] = worker[w]
    BY <1>3, <2>1
  <2>2. CASE worker'[w] # worker[w]
    <3>1. /\ worker'[w].at = worker[w].at /\ shipment' = shipment
          /\ worker'[w].batch \subseteq ListDeleted(worker[w].at)
      BY <1>5, <1>7, <2>2
    <3>2. worker'[w].at <= now'
      BY <1>0, <1>1, <1>2, <3>1 DEF PurgeInv
    <3>3. ASSUME NEW s \in worker'[w].batch PROVE PastGrace(s, worker[w].at)'
      <4>1. /\ s \in Shipments /\ shipment[s].status = "deleted"
            /\ shipment[s].deletedAt < worker[w].at - Grace
        BY <3>1 DEF ListDeleted
      <4>2. shipment[s].deletedAt \in Nat
        BY <1>0, <4>1 DEF ShipmentRow
      <4>3. shipment[s].deletedAt + Grace < worker[w].at
        BY <1>1, <4>1, <4>2, ConstantsAssumption
      <4>4. QED
        BY <3>1, <4>1, <4>3 DEF PastGrace
    <3>4. QED
      BY <3>2, <3>3
  <2>3. QED
    BY <2>1, <2>2
<1>8. CASE \E v \in Workers : EndRun(v)
  <2>1. \/ worker'[w] = worker[w]
        \/ worker'[w].pc = "idle" /\ worker'[w].at = 0
    BY <1>0, <1>8 DEF EndRun, IdleWorker
  <2>2. CASE worker'[w] = worker[w]
    BY <1>3, <2>2
  <2>3. CASE worker'[w] # worker[w]
    BY <1>2, <2>1, <2>3
  <2>4. QED
    BY <2>2, <2>3
<1>9. CASE \E v \in Workers, s \in Shipments :
             MarkExpired(v, s) \/ Purge(v, s) \/ SkipShipment(v, s)
  <2>1. /\ worker'[w].at = worker[w].at /\ worker'[w].pc = worker[w].pc
        /\ worker'[w].batch \subseteq worker[w].batch
    <3>1. PICK v \in Workers, s \in Shipments :
            worker' = [worker EXCEPT ![v].batch = @ \ {s}]
      BY <1>9 DEF MarkExpired, Purge, SkipShipment
    <3>2. QED
      BY <1>0, <3>1 DEF WorkerState
  <2>2. QED
    BY <1>3, <2>1
<1>10. CASE UNCHANGED worker
  BY <1>3, <1>10
<1>11. QED
  <2>1. CASE WorkerStep
    BY <1>6, <1>7, <1>8, <1>9, <2>1 DEF WorkerStep
  <2>2. CASE ~WorkerStep
    BY <1>10, <2>2, OwnerFrame, ResendFrame, RequestFrame DEF Next, Tick, vars
  <2>3. QED
    BY <2>1, <2>2

OnlyAfterGrace(s) ==
  shipment[s].status # "purged" /\ shipment'[s].status = "purged" =>
    shipment[s].status = "deleted" /\ shipment[s].deletedAt + Grace < now

LEMMA StepPurgesAfterGrace ==
  ASSUME TypeOK, PurgeInv, [Next]_vars
  PROVE  [\A s \in Shipments : OnlyAfterGrace(s)]_shipment
<1> SUFFICES ASSUME Next, NEW q \in Shipments,
                    shipment[q].status # "purged", shipment'[q].status = "purged"
             PROVE  shipment[q].status = "deleted" /\ shipment[q].deletedAt + Grace < now
  BY DEF vars, OnlyAfterGrace
<1>0. shipment \in [Shipments -> ShipmentRow]
  BY DEF TypeOK
<1>1. ASSUME NEW s \in Shipments, CreateDraft(s) PROVE FALSE
  BY <1>0, <1>1 DEF CreateDraft, NoShipment
<1>2. ASSUME NEW s \in Shipments, FinalizeShipment(s) PROVE FALSE
  BY <1>2, FinalizedRow
<1>3. ASSUME NEW s \in Shipments, DeleteShipment(s) PROVE FALSE
  BY <1>0, <1>3 DEF DeleteShipment, ShipmentRow
<1>4. ASSUME NEW w \in Workers, NEW s \in Shipments, MarkExpired(w, s) PROVE FALSE
  <2>1. shipment' = shipment \/ shipment' = [shipment EXCEPT ![s].status = "expired"]
    BY <1>4 DEF MarkExpired
  <2>2. QED
    BY <1>0, <2>1 DEF ShipmentRow
<1>5. ASSUME NEW r \in Requests, IncrementShipmentDownloadCount(r) PROVE FALSE
  <2> DEFINE s == ShipmentOf[req[r].tok]
  <2>1. shipment' = [shipment EXCEPT ![s].current = @ + 1, ![s].status = AfterDownload(@)]
    BY <1>5 DEF IncrementShipmentDownloadCount
  <2> HIDE DEF s
  <2>2. QED
    BY <1>0, <2>1 DEF ShipmentRow, AfterDownload
<1>6. ASSUME NEW w \in Workers, NEW s \in Shipments, Purge(w, s)
      PROVE  shipment[q].status = "deleted" /\ shipment[q].deletedAt + Grace < now
  <2>1. q = s /\ s \in worker[w].batch /\ worker[w].pc = "purge"
    BY <1>0, <1>6 DEF Purge
  <2>2. PastGrace(s, worker[w].at) /\ worker[w].at <= now
    BY <2>1 DEF PurgeInv, ListedPastGrace
  <2>3. /\ now \in Nat /\ worker[w].at \in Nat /\ shipment[s].deletedAt \in Nat
    BY DEF TypeOK, WorkerState, ShipmentRow
  <2>4. QED
    BY <2>1, <2>2, <2>3, ConstantsAssumption DEF PastGrace
<1>7. shipment' # shipment
  OBVIOUS
<1>8. QED
  BY <1>1, <1>2, <1>3, <1>4, <1>5, <1>6, <1>7, ResendFrame
     DEF Next, OwnerStep, RevokeAccessTokens, RequestStep, ReadToken, ReadShipment, CountDownloads, CheckLimit, CreateDownloadEvent,
         UpdateAccessTokenUsage, Abandon,
         WorkerStep, StartRun, StartPurge, SkipShipment, EndRun, Tick

\* A run that is slow, restarted, or overlaps another one purges no row early.
THEOREM PurgedAfterGrace == Spec => PurgedOnlyAfterGrace
<1>1. Spec => [](TypeOK /\ PurgeInv)
  BY InitTypeOK, NextTypeOK, InitPurgeInv, NextPurgeInv, PTL DEF Spec
<1>2. [][\A s \in Shipments : OnlyAfterGrace(s)]_shipment => PurgedOnlyAfterGrace
  BY DEF PurgedOnlyAfterGrace, OnlyAfterGrace
<1>3. QED
  BY <1>1, <1>2, StepPurgesAfterGrace, PTL DEF Spec

-----------------------------------------------------------------------------
(***************************************************************************)
(* Access after the end.  Tokens exist only for finalized rows, also the   *)
(* tokens that a resend inserts from a row it read long ago; the expiry of *)
(* a finalized row is fixed; and a closed row stays closed.  So a request   *)
(* that was late when it read its token fails the check of the row.        *)
(***************************************************************************)
TokensFinalized == \A t \in Tokens : TokenExists(t) => Finalized(ShipmentOf[t])

NeverPrepared == \A s \in Shipments : shipment[s].status \notin {"draft", "ready"}

ResendsFinalized == \A x \in Resenders : resend[x].pc = "loop" => Finalized(resend[x].s)

EndedAt(s, at) ==
  Finalized(s) /\ (shipment[s].status \in Closed \cup {"purged"} \/ shipment[s].expiresAt < at)

LateStopped(r) ==
  req[r].late => \/ req[r].pc = "idle"
                 \/ req[r].pc = "token" /\ EndedAt(ShipmentOf[req[r].tok], req[r].at)

AccessInv ==
  TokensFinalized /\ NeverPrepared /\ ResendsFinalized /\ \A r \in Requests : LateStopped(r)

LEMMA InitAccessInv == Init => AccessInv
  BY ConstantsAssumption
     DEF Init, AccessInv, TokensFinalized, NeverPrepared, ResendsFinalized, LateStopped,
         TokenExists, NoToken, NoShipment, IdleResend, IdleRequest

LEMMA FinalizedKept ==
  ASSUME RowsKept, NEW s \in Shipments, Finalized(s)
  PROVE  /\ Finalized(s)'
         /\ \A at : EndedAt(s, at) => EndedAt(s, at)'
<1>1. Finalized(s)'
  BY DEF RowsKept, KeepsRow, Finalized
<1>2. ASSUME NEW at, EndedAt(s, at) PROVE EndedAt(s, at)'
  BY <1>1, <1>2 DEF RowsKept, KeepsRow, Finalized, EndedAt, Closed
<1>3. QED
  BY <1>1, <1>2

\* A step that inserts no token.
LEMMA SameTokens ==
  ASSUME TokensFinalized, RowsKept, \A t \in Tokens : TokenExists(t)' => TokenExists(t)
  PROVE  TokensFinalized'
<1>1. \A t \in Tokens : ShipmentOf[t] \in Shipments
  BY ConstantsAssumption
<1>2. QED
  BY <1>1, FinalizedKept DEF TokensFinalized

LEMMA RevokeExists ==
  ASSUME TypeOK, NEW s \in Shipments, token' = Revoke(s), NEW t \in Tokens, TokenExists(t)'
  PROVE  TokenExists(t)
  BY DEF Revoke, TokenExists

LEMMA NextTokensFinalized ==
  ASSUME TypeOK, AccessInv, RowsKept, [Next]_vars
  PROVE  TokensFinalized'
<1>0. TokensFinalized /\ \A t \in Tokens : ShipmentOf[t] \in Shipments
  BY ConstantsAssumption DEF AccessInv
<1>1. CASE token' = token
  BY <1>0, <1>1, SameTokens DEF TokenExists
<1>2. ASSUME NEW s \in Shipments, FinalizeShipment(s) PROVE TokensFinalized'
  <2>1. PICK e \in now + MinTTL .. now + MaxTTL, max \in Limits,
             new \in (SUBSET FreshTokens(s)) \ {{}} :
          token' = [t \in Tokens |-> IF t \in new THEN ActiveToken(e, max) ELSE token[t]]
    BY <1>2 DEF FinalizeShipment
  <2>2. Finalized(s)'
    BY <1>2, FinalizedRow DEF Finalized, Downloadable
  <2>3. ASSUME NEW t \in Tokens, TokenExists(t)' PROVE Finalized(ShipmentOf[t])'
    <3>1. CASE t \in new
      BY <2>2, <3>1 DEF FreshTokens, TokensOf
    <3>2. CASE t \notin new
      <4>1. TokenExists(t)
        BY <2>1, <2>3, <3>2 DEF TokenExists
      <4>2. QED
        BY <1>0, <4>1, FinalizedKept DEF TokensFinalized
    <3>3. QED
      BY <3>1, <3>2
  <2>4. QED
    BY <2>3 DEF TokensFinalized
<1>3. ASSUME NEW x \in Resenders, NEW n \in Tokens, ResendToken(x, n) PROVE TokensFinalized'
  <2>1. Finalized(ShipmentOf[n])'
    BY <1>0, <1>3, FinalizedKept
       DEF ResendToken, AccessInv, ResendsFinalized, FreshTokens, TokensOf
  <2>2. ASSUME NEW t \in Tokens, TokenExists(t)', t # n PROVE Finalized(ShipmentOf[t])'
    <3>1. TokenExists(t)
      BY <1>3, <2>2 DEF ResendToken, TokenExists, TypeOK
    <3>2. QED
      BY <1>0, <3>1, FinalizedKept DEF TokensFinalized
  <2>3. QED
    BY <2>1, <2>2 DEF TokensFinalized
<1>4. ASSUME NEW s \in Shipments, DeleteShipment(s) \/ RevokeAccessTokens(s)
      PROVE  TokensFinalized'
  BY <1>0, <1>4, RevokeExists, SameTokens DEF DeleteShipment, RevokeAccessTokens
<1>5. ASSUME NEW r \in Requests, UpdateAccessTokenUsage(r) PROVE TokensFinalized'
  <2> DEFINE u == req[r].tok
  <2>1. /\ TokenExists(u)
        /\ token' = [token EXCEPT
             ![u].used   = @ + 1,
             ![u].status = IF token[u].used + 1 >= token[u].maxUses THEN "used" ELSE @]
    BY <1>5 DEF UpdateAccessTokenUsage
  <2> HIDE DEF u
  <2>2. \A t \in Tokens : TokenExists(t)' => TokenExists(t)
    BY <2>1 DEF TokenExists, TypeOK
  <2>3. QED
    BY <1>0, <2>2, SameTokens
<1>6. ASSUME NEW w \in Workers, NEW s \in Shipments, Purge(w, s) PROVE TokensFinalized'
  <2>1. \A t \in Tokens : TokenExists(t)' => TokenExists(t)
    BY <1>6 DEF Purge, TokenExists, NoToken
  <2>2. QED
    BY <1>0, <2>1, SameTokens
<1>7. QED
  BY <1>1, <1>2, <1>3, <1>4, <1>5, <1>6
     DEF Next, vars, OwnerStep, CreateDraft, ResendStep, StartResend, EndResend, RequestStep,
         ReadToken, ReadShipment, CountDownloads, CheckLimit, CreateDownloadEvent,
         IncrementShipmentDownloadCount, Abandon,
         WorkerStep, StartRun, MarkExpired, StartPurge, SkipShipment, EndRun, Tick

LEMMA NextResendsFinalized ==
  ASSUME TypeOK, AccessInv, RowsKept, [Next]_vars
  PROVE  ResendsFinalized'
<1>0. resend \in [Resenders -> ResendState] /\ \A x \in Resenders : resend[x].s \in Shipments
  BY DEF TypeOK, ResendState
<1>1. CASE UNCHANGED resend
  BY <1>0, <1>1, FinalizedKept DEF AccessInv, ResendsFinalized
<1>2. ASSUME NEW x \in Resenders, NEW s \in Shipments, StartResend(x, s)
      PROVE  ResendsFinalized'
  <2>1. Finalized(s)
    BY <1>2 DEF StartResend, AccessInv, NeverPrepared, Finalized, Downloadable
  <2>2. /\ resend'[x].s = s /\ shipment' = shipment
        /\ \A y \in Resenders \ {x} : resend'[y] = resend[y]
    BY <1>0, <1>2 DEF StartResend
  <2>3. QED
    BY <2>1, <2>2 DEF AccessInv, ResendsFinalized, Finalized
<1>3. ASSUME NEW x \in Resenders, EndResend(x) PROVE ResendsFinalized'
  <2>1. /\ resend'[x].pc = "idle" /\ shipment' = shipment
        /\ \A y \in Resenders \ {x} : resend'[y] = resend[y]
    BY <1>0, <1>3 DEF EndResend, IdleResend
  <2>2. QED
    BY <2>1 DEF AccessInv, ResendsFinalized, Finalized
<1>4. CASE ResendStep
  BY <1>1, <1>2, <1>3, <1>4 DEF ResendStep, ResendToken
<1>5. CASE ~ResendStep
  BY <1>1, <1>5, OwnerFrame, RequestFrame, WorkerFrame DEF Next, Tick, vars
<1>6. QED
  BY <1>4, <1>5

\* The row check refuses a late request.
LEMMA LateNotAccessible ==
  ASSUME TypeOK, NEW s \in Shipments, NEW at \in Nat, EndedAt(s, at)
  PROVE  ~Accessible(s, at)
  BY DEF TypeOK, ShipmentRow, EndedAt, Accessible, ShipmentExists, Stored, PreSend,
         Downloadable, Closed

LEMMA RequestLateStopped ==
  ASSUME TypeOK, AccessInv, RowsKept, RequestStep, NEW r \in Requests
  PROVE  LateStopped(r)'
<1>0. /\ req \in [Requests -> RequestState]
      /\ ShipmentOf[req[r].tok] \in Shipments /\ req[r].at \in Nat
  BY ConstantsAssumption DEF TypeOK, RequestState
<1>1. LateStopped(r)
  BY DEF AccessInv
<1>2. CASE req'[r] = req[r]
  BY <1>0, <1>1, <1>2, FinalizedKept DEF LateStopped, EndedAt
<1>3. CASE req'[r] # req[r]
  <2>1. PICK o \in Requests :
          \/ \E t \in Tokens : ReadToken(o, t)
          \/ ReadShipment(o) \/ CountDownloads(o) \/ CheckLimit(o)
          \/ CreateDownloadEvent(o) \/ UpdateAccessTokenUsage(o)
          \/ IncrementShipmentDownloadCount(o) \/ Abandon(o)
    BY DEF RequestStep
  <2>2. \A q \in Requests \ {o} : req'[q] = req[q]
    BY <1>0, <2>1
       DEF ReadToken, ReadShipment, CountDownloads, CheckLimit, CreateDownloadEvent,
           UpdateAccessTokenUsage, IncrementShipmentDownloadCount, Abandon
  <2>3. o = r
    BY <1>3, <2>2
  <2>4. ASSUME NEW t \in Tokens, ReadToken(r, t) PROVE LateStopped(r)'
    <3>1. /\ req'[r].late = Ended(ShipmentOf[t]) /\ req'[r].pc = "token"
          /\ req'[r].tok = t /\ req'[r].at = now /\ shipment' = shipment
      BY <1>0, <2>4 DEF ReadToken, IdleRequest
    <3>2. Finalized(ShipmentOf[t])
      BY <2>4 DEF ReadToken, AccessInv, TokensFinalized
    <3>3. QED
      BY <3>1, <3>2 DEF LateStopped, EndedAt, Ended, Finalized
  <2>5. CASE ReadShipment(r)
    <3>1. ~req[r].late
      BY <1>0, <1>1, <2>5, LateNotAccessible DEF LateStopped, ReadShipment
    <3>2. req'[r].late = req[r].late
      BY <1>0, <2>5 DEF ReadShipment, RequestState
    <3>3. QED
      BY <3>1, <3>2 DEF LateStopped
  <2>6. CASE CountDownloads(r) \/ CheckLimit(r) \/ CreateDownloadEvent(r)
             \/ UpdateAccessTokenUsage(r)
    <3>1. req[r].pc \notin {"idle", "token"}
      BY <2>6 DEF CountDownloads, CheckLimit, CreateDownloadEvent, UpdateAccessTokenUsage
    <3>2. req'[r].late = req[r].late
      BY <1>0, <2>6
         DEF CountDownloads, CheckLimit, CreateDownloadEvent, UpdateAccessTokenUsage, RequestState
    <3>3. QED
      BY <1>1, <3>1, <3>2 DEF LateStopped
  <2>7. CASE IncrementShipmentDownloadCount(r) \/ Abandon(r)
    <3>1. req' = [req EXCEPT ![r] = IdleRequest]
      BY <2>7 DEF IncrementShipmentDownloadCount, Abandon
    <3>2. req'[r].pc = "idle"
      BY <1>0, <3>1 DEF IdleRequest
    <3>3. QED
      BY <3>2 DEF LateStopped
  <2>8. QED
    BY <2>1, <2>3, <2>4, <2>5, <2>6, <2>7
<1>4. QED
  BY <1>2, <1>3

LEMMA NextAccessInv == TypeOK /\ AccessInv /\ [Next]_vars => AccessInv'
<1> SUFFICES ASSUME TypeOK, AccessInv, [Next]_vars, RowsKept PROVE AccessInv'
  BY NextRowsKept
<1>1. TokensFinalized' /\ ResendsFinalized'
  BY NextTokensFinalized, NextResendsFinalized
<1>2. NeverPrepared'
  BY DEF AccessInv, NeverPrepared, RowsKept, KeepsRow
<1>3. ASSUME NEW r \in Requests PROVE LateStopped(r)'
  <2>1. CASE RequestStep
    BY <2>1, RequestLateStopped
  <2>2. CASE ~RequestStep
    <3>1. req' = req
      BY <2>2, OwnerFrame, ResendFrame, WorkerFrame DEF Next, Tick, vars
    <3>2. ShipmentOf[req[r].tok] \in Shipments
      BY ConstantsAssumption DEF TypeOK, RequestState
    <3>3. QED
      BY <3>1, <3>2, FinalizedKept DEF AccessInv, LateStopped, EndedAt
  <2>3. QED
    BY <2>1, <2>2
<1>4. QED
  BY <1>1, <1>2, <1>3 DEF AccessInv

\* No request that comes after the end of a shipment gets a URL, whatever tokens a
\* resend running across the delete has left active.
THEOREM NoLateAccess == Spec => []NoAccessAfterEnd
<1>1. Spec => [](TypeOK /\ AccessInv)
  BY InitTypeOK, NextTypeOK, InitAccessInv, NextAccessInv, PTL DEF Spec
<1>2. AccessInv => NoAccessAfterEnd
  BY DEF AccessInv, LateStopped, NoAccessAfterEnd
<1>3. QED
  BY <1>1, <1>2, PTL

-----------------------------------------------------------------------------
(***************************************************************************)
(* The three tallies.  UsesOf sums with a fold; the proofs count the uses   *)
(* of tokens one by one instead, which steps change by one element, and     *)
(* show once that both are the same number.  A fold of a set is a recursive *)
(* function on its subsets, and what it yields is shown by looking at a     *)
(* smallest subset for which it is something else.                         *)
(***************************************************************************)

\* The uses of the tokens of T, one by one.
UsesIn(T) == UNION {{t} \X (1 .. token[t].used) : t \in T}

\* Among subsets of a finite set there is one that has no other of them in it.
LEMMA SmallestSubset ==
  ASSUME NEW S, IsFiniteSet(S), NEW C, C \subseteq SUBSET S, C # {}
  PROVE  \E A \in C : \A B \in C : B \subseteq A => B = A
<1>1. IsWellFoundedOn(StrictSubsetOrdering(S), SUBSET S)
  BY FS_StrictSubsetOrderingWellFounded, FS_FiniteSubsetsOfFinite
<1>2. PICK A \in C : \A B \in C : <<B, A>> \notin StrictSubsetOrdering(S)
  BY <1>1, WFMin
<1>3. ASSUME NEW B \in C, B \subseteq A
      PROVE  B = A
  <2>1. <<B, A>> \in (SUBSET S) \X (SUBSET S)
    OBVIOUS
  <2>2. B # A => <<B, A>> \in StrictSubsetOrdering(S)
    BY <1>3, <2>1 DEF StrictSubsetOrdering
  <2> QED
    BY <1>2, <2>2
<1> QED
  BY <1>3

\* The first n numbers are n, and one thing is one.
LEMMA FirstNumbers == \A n \in Nat : IsFiniteSet(1 .. n) /\ Cardinality(1 .. n) = n
<1> SUFFICES ASSUME NEW n \in Nat PROVE IsFiniteSet(1 .. n) /\ Cardinality(1 .. n) = n
  OBVIOUS
<1> QED
  BY FS_Interval

LEMMA OneThing ==
  ASSUME NEW x
  PROVE  IsFiniteSet({x}) /\ Cardinality({x}) = 1
BY FS_Singleton

\* Uses are pairs of a token and a number.
LEMMA UseOfToken ==
  ASSUME NEW T, NEW t, NEW k
  PROVE  <<t, k>> \in UsesIn(T) <=> t \in T /\ k \in 1 .. token[t].used
BY DEF UsesIn

\* Finitely many tokens have finitely many uses.
LEMMA UsesFinite ==
  ASSUME TypeOK, IsFiniteSet(Tokens), NEW T \in SUBSET Tokens
  PROVE  IsFiniteSet(UsesIn(T)) /\ Cardinality(UsesIn(T)) \in Nat
<1> DEFINE parts == {{t} \X (1 .. token[t].used) : t \in T}
           f == [t \in T |-> {t} \X (1 .. token[t].used)]
<1>1. IsFiniteSet(T)
  BY FS_Subset
<1>2. f \in Surjection(T, parts)
  BY DEF Surjection
<1>3. IsFiniteSet(parts)
  BY <1>1, <1>2, FS_Surjection
<1>4. ASSUME NEW p \in parts
      PROVE  IsFiniteSet(p)
  <2>1. PICK t \in T : p = {t} \X (1 .. token[t].used)
    OBVIOUS
  <2>2. token[t].used \in Nat
    BY DEF TypeOK, TokenRow
  <2>3. IsFiniteSet({t}) /\ IsFiniteSet(1 .. token[t].used)
    BY <2>2, FirstNumbers, OneThing
  <2> QED
    BY <2>1, <2>3, FS_Product
<1>5. IsFiniteSet(UNION parts)
  BY <1>3, <1>4, FS_UNION
<1> QED
  BY <1>5, FS_CardinalityType DEF UsesIn

\* The uses of one token are as many as its row says.
LEMMA OneTokenUses ==
  ASSUME TypeOK, IsFiniteSet(Tokens), NEW T \in SUBSET Tokens, NEW t \in T
  PROVE  Cardinality(UsesIn(T)) = token[t].used + Cardinality(UsesIn(T \ {t}))
<1> DEFINE own == {t} \X (1 .. token[t].used)
<1>1. token[t].used \in Nat
  BY DEF TypeOK, TokenRow
<1>2. IsFiniteSet({t}) /\ Cardinality({t}) = 1
      /\ IsFiniteSet(1 .. token[t].used) /\ Cardinality(1 .. token[t].used) = token[t].used
  <2>1. PICK n \in Nat : n = token[t].used
    BY <1>1
  <2>2. IsFiniteSet(1 .. n) /\ Cardinality(1 .. n) = n
    BY FirstNumbers
  <2>3. IsFiniteSet({t}) /\ Cardinality({t}) = 1
    BY OneThing
  <2> QED
    BY <2>1, <2>2, <2>3
<1>3. IsFiniteSet(own) /\ Cardinality(own) = token[t].used
  <2>1. /\ IsFiniteSet(own)
        /\ Cardinality(own) = Cardinality({t}) * Cardinality(1 .. token[t].used)
    BY <1>2, FS_Product
  <2>2. 1 * token[t].used = token[t].used
    BY <1>1
  <2> HIDE DEF own
  <2> QED
    BY <1>2, <2>1, <2>2
<1>4. IsFiniteSet(UsesIn(T \ {t})) /\ Cardinality(UsesIn(T \ {t})) \in Nat
  BY UsesFinite
<1>5. UsesIn(T) = UsesIn(T \ {t}) \cup own
  BY DEF UsesIn
<1>6. UsesIn(T \ {t}) \cap own = {}
  BY DEF UsesIn
<1>7. Cardinality(UsesIn(T)) =
        Cardinality(UsesIn(T \ {t})) + Cardinality(own) - Cardinality(UsesIn(T \ {t}) \cap own)
  BY <1>3, <1>4, <1>5, FS_Union
<1>8. Cardinality(UsesIn(T \ {t}) \cap own) = 0
  BY <1>6, FS_EmptySet
<1> HIDE DEF own
<1> QED
  BY <1>1, <1>3, <1>4, <1>7, <1>8

\* One step of the fold.
SumStep(x, g) ==
  IF x = {} THEN 0
  ELSE LET t == CHOOSE y \in x : TRUE IN token[t].used + g[x \ {t}]

LEMMA UsesFold ==
  ASSUME NEW s
  PROVE  UsesOf(s) =
           (CHOOSE g : g = [x \in SUBSET TokensOf(s) |-> SumStep(x, g)])[TokensOf(s)]
BY DEF UsesOf, MapThenSumSet, MapThenFoldSet, SumStep

\* The sum of the uses is the number of uses.
LEMMA UsesCounted ==
  ASSUME TypeOK, IsFiniteSet(Tokens), NEW s
  PROVE  UsesOf(s) = Cardinality(UsesIn(TokensOf(s)))
<1> DEFINE S == TokensOf(s)
           h == [x \in SUBSET S |-> Cardinality(UsesIn(x))]
           g == CHOOSE f : f = [x \in SUBSET S |-> SumStep(x, f)]
<1>1. S \subseteq Tokens /\ IsFiniteSet(S)
  <2>1. S \subseteq Tokens
    BY DEF TokensOf
  <2> QED
    BY <2>1, FS_Subset
<1>2. ASSUME NEW x \in SUBSET S
      PROVE  h[x] = SumStep(x, h)
  <2>1. CASE x = {}
    <3>1. UsesIn({}) = {}
      BY DEF UsesIn
    <3> QED
      BY <2>1, <3>1, FS_EmptySet DEF SumStep
  <2>2. CASE x # {}
    <3> DEFINE t == CHOOSE y \in x : TRUE
    <3>1. t \in x
      BY <2>2
    <3>2. x \in SUBSET Tokens /\ x \ {t} \in SUBSET S
      BY <1>1
    <3>3. Cardinality(UsesIn(x)) = token[t].used + Cardinality(UsesIn(x \ {t}))
      BY <3>1, <3>2, OneTokenUses
    <3>4. SumStep(x, h) = token[t].used + h[x \ {t}]
      BY <2>2 DEF SumStep
    <3> HIDE DEF t
    <3> QED
      BY <3>2, <3>3, <3>4
  <2> QED
    BY <2>1, <2>2
<1>3. h = [x \in SUBSET S |-> SumStep(x, h)]
  <2> DEFINE k == [x \in SUBSET S |-> SumStep(x, h)]
  <2>1. DOMAIN h = DOMAIN k /\ \A x \in SUBSET S : h[x] = k[x]
    BY <1>2
  <2> HIDE DEF S
  <2> QED
    BY <2>1
<1>4. g = [x \in SUBSET S |-> SumStep(x, g)]
  <2> HIDE DEF h, S
  <2> QED
    BY <1>3
<1> HIDE DEF g
<1>5. \A x \in SUBSET S : g[x] = h[x]
  <2> DEFINE Wrong == {x \in SUBSET S : g[x] # h[x]}
  <2>1. SUFFICES ASSUME Wrong # {} PROVE FALSE
    OBVIOUS
  <2>2. PICK x \in Wrong : \A y \in Wrong : y \subseteq x => y = x
    <3>1. Wrong \subseteq SUBSET S
      OBVIOUS
    <3> HIDE DEF Wrong, S, h
    <3> QED
      BY <1>1, <2>1, <3>1, SmallestSubset
  <2>3. x \in SUBSET S /\ g[x] # h[x]
    OBVIOUS
  <2>4. g[x] = SumStep(x, g) /\ h[x] = SumStep(x, h)
    BY <1>2, <1>4, <2>3
  <2>5. CASE x = {}
    BY <2>3, <2>4, <2>5 DEF SumStep
  <2>6. CASE x # {}
    <3> DEFINE t == CHOOSE y \in x : TRUE
    <3>1. t \in x
      BY <2>6
    <3>2. x \ {t} \in SUBSET S /\ x \ {t} \notin Wrong
      BY <2>2, <2>3, <3>1
    <3>3. g[x \ {t}] = h[x \ {t}]
      BY <3>2
    <3>4. SumStep(x, g) = token[t].used + g[x \ {t}] /\ SumStep(x, h) = token[t].used + h[x \ {t}]
      BY <2>6 DEF SumStep
    <3> QED
      BY <2>3, <2>4, <3>3, <3>4
  <2> QED
    BY <2>5, <2>6
<1>6. UsesOf(s) = g[S]
  BY UsesFold DEF g
<1>7. S \in SUBSET S /\ h[S] = Cardinality(UsesIn(S))
  OBVIOUS
<1> QED
  BY <1>5, <1>6, <1>7

\* Requests that have written their event, or their token's use, but no more.
At(s, pc) == {r \in Requests : req[r].pc = pc /\ ShipmentOf[req[r].tok] = s}

\* Tokens live as long as their shipment, and count no uses before and after.
TokenTallied(t) ==
  /\ TokenExists(t) => ShipmentExists(ShipmentOf[t])
  /\ ~TokenExists(t) => token[t].used = 0

\* A request between two of its writes accounts for one that is missing.
RowTallied(s) ==
  /\ shipment[s].current + Cardinality(At(s, "tallied")) <= Cardinality(UsesIn(TokensOf(s)))
  /\ Cardinality(UsesIn(TokensOf(s))) + Cardinality(At(s, "logged")) <= events[s]

TallyInv ==
  /\ \A t \in Tokens : TokenTallied(t)
  /\ \A s \in Shipments :
       IF ShipmentExists(s) THEN RowTallied(s) ELSE shipment[s].current = 0

\* Requests are finitely many.
LEMMA AtFinite ==
  ASSUME NEW s, NEW pc
  PROVE  /\ IsFiniteSet(At(s, pc)) /\ Cardinality(At(s, pc)) \in Nat
         /\ \A S \in SUBSET At(s, pc) : Cardinality(S) \in Nat /\ Cardinality(S) <= Cardinality(At(s, pc))
<1>1. At(s, pc) \subseteq Requests
  BY DEF At
<1>2. IsFiniteSet(At(s, pc))
  BY <1>1, FS_Subset, ConstantsAssumption
<1> QED
  BY <1>2, FS_Subset, FS_CardinalityType

\* Without tokens in use there are no uses.
LEMMA NoUses ==
  ASSUME NEW s, \A t \in TokensOf(s) : token[t].used = 0
  PROVE  Cardinality(UsesIn(TokensOf(s))) = 0
<1>1. UsesIn(TokensOf(s)) = {}
  BY DEF UsesIn
<1> QED
  BY <1>1, FS_EmptySet

\* A row keeps its tallies when no count changes and no request goes on to a later write.
RowQuiet(s) ==
  /\ shipment'[s].current = shipment[s].current
  /\ events'[s] = events[s]
  /\ \A t \in TokensOf(s) : token'[t].used = token[t].used
  /\ At(s, "tallied")' \subseteq At(s, "tallied")
  /\ At(s, "logged")' \subseteq At(s, "logged")

LEMMA SameUses ==
  ASSUME NEW s, \A t \in TokensOf(s) : token'[t].used = token[t].used
  PROVE  UsesIn(TokensOf(s))' = UsesIn(TokensOf(s))
BY DEF UsesIn, TokensOf

LEMMA QuietRow ==
  ASSUME TypeOK, IsFiniteSet(Tokens), NEW s \in Shipments, RowTallied(s), RowQuiet(s)
  PROVE  RowTallied(s)'
<1>1. Cardinality(UsesIn(TokensOf(s)))' = Cardinality(UsesIn(TokensOf(s)))
  BY SameUses DEF RowQuiet
<1>2. /\ Cardinality(At(s, "tallied"))' <= Cardinality(At(s, "tallied"))
      /\ Cardinality(At(s, "tallied"))' \in Nat
      /\ Cardinality(At(s, "logged"))' <= Cardinality(At(s, "logged"))
      /\ Cardinality(At(s, "logged"))' \in Nat
  BY AtFinite DEF RowQuiet
<1>3. /\ Cardinality(At(s, "tallied")) \in Nat /\ Cardinality(At(s, "logged")) \in Nat
      /\ Cardinality(UsesIn(TokensOf(s))) \in Nat
  <2>1. TokensOf(s) \in SUBSET Tokens
    BY DEF TokensOf
  <2> QED
    BY <2>1, AtFinite, UsesFinite
<1>4. shipment[s].current \in Nat /\ events[s] \in Nat
  BY DEF TypeOK, ShipmentRow
<1> QED
  BY <1>1, <1>2, <1>3, <1>4 DEF RowTallied, RowQuiet

\* A row that has just come has no uses and no request.
LEMMA NewRow ==
  ASSUME TypeOK, LimitInv, TallyInv, NEW s \in Shipments,
         shipment[s].status = "none", RowQuiet(s)
  PROVE  RowTallied(s)'
<1>1. At(s, "tallied") = {} /\ At(s, "logged") = {}
  BY DEF At, LimitInv, ReadFinalized, PassedShipment, Finalized, Downloadable, Closed
<1>2. Cardinality(At(s, "tallied"))' = 0 /\ Cardinality(At(s, "logged"))' = 0
  <2>1. At(s, "tallied")' = {} /\ At(s, "logged")' = {}
    BY <1>1 DEF RowQuiet
  <2> QED
    BY <2>1, FS_EmptySet
<1>3. ~ShipmentExists(s)
  BY DEF ShipmentExists, Stored, PreSend, Downloadable, Closed
<1>4. \A t \in TokensOf(s) : token[t].used = 0
  BY <1>3 DEF TallyInv, TokenTallied, TokensOf
<1>5. Cardinality(UsesIn(TokensOf(s)))' = 0
  <2>1. UsesIn(TokensOf(s))' = UsesIn(TokensOf(s))
    BY SameUses DEF RowQuiet
  <2> QED
    BY <1>4, <2>1, NoUses
<1>6. shipment'[s].current = 0 /\ events'[s] \in Nat
  BY <1>3 DEF TallyInv, RowQuiet, TypeOK
<1> QED
  BY <1>2, <1>5, <1>6 DEF RowTallied

\* What a step of anybody but a request has to show: rows are quiet unless they go, and a
\* row is new or was there.
LEMMA QuietTallies ==
  ASSUME TypeOK, IsFiniteSet(Tokens), LimitInv, TallyInv,
         \A t \in Tokens : TokenTallied(t)',
         \A s \in Shipments :
           IF ShipmentExists(s)'
           THEN (ShipmentExists(s) \/ shipment[s].status = "none") /\ RowQuiet(s)
           ELSE shipment'[s].current = 0
  PROVE  TallyInv'
<1>1. ASSUME NEW s \in Shipments, ShipmentExists(s)'
      PROVE  RowTallied(s)'
  BY <1>1, QuietRow, NewRow DEF TallyInv
<1> QED
  BY <1>1 DEF TallyInv

\* Revoking changes no count, and no row comes or goes.
LEMMA RevokeCounts ==
  ASSUME TypeOK, NEW s, token' = Revoke(s), NEW t \in Tokens
  PROVE  token'[t].used = token[t].used /\ (TokenExists(t)' <=> TokenExists(t))
<1>1. token[t] \in TokenRow
  BY DEF TypeOK
<1>2. CASE t \in TokensOf(s) /\ TokenExists(t)
  <2>1. token'[t] = [token[t] EXCEPT !.status = "revoked", !.revokedAt = TRUE]
    BY <1>2 DEF Revoke
  <2> QED
    BY <1>1, <1>2, <2>1 DEF TokenRow, TokenExists
<1>3. CASE ~(t \in TokensOf(s) /\ TokenExists(t))
  <2>1. token'[t] = token[t]
    BY <1>3 DEF Revoke
  <2> QED
    BY <2>1 DEF TokenExists
<1> QED
  BY <1>2, <1>3

\* Requests stay where they are.
LEMMA SameAt ==
  ASSUME UNCHANGED req, NEW s, NEW pc
  PROVE  At(s, pc)' = At(s, pc)
BY DEF At

\* The owner.
LEMMA OwnerTallies ==
  ASSUME TypeOK, IsFiniteSet(Tokens), LimitInv, TallyInv, OwnerStep
  PROVE  TallyInv'
<1> SUFFICES ASSUME NEW s \in Shipments,
                    \/ CreateDraft(s) \/ FinalizeShipment(s)
                    \/ DeleteShipment(s) \/ RevokeAccessTokens(s)
             PROVE  TallyInv'
  BY DEF OwnerStep
<1> USE DEF Stored, PreSend, Downloadable, Closed
<1>1. /\ events' = events /\ \A q, pc : At(q, pc)' = At(q, pc)
  BY OwnerFrame, SameAt DEF OwnerStep
<1>2. /\ \A t \in Tokens : TokenTallied(t) /\ ShipmentOf[t] \in Shipments
      /\ shipment \in [Shipments -> ShipmentRow]
  BY ConstantsAssumption DEF TypeOK, TallyInv
<1>3. CASE CreateDraft(s)
  <2>1. /\ shipment[s].status = "none" /\ token' = token
        /\ \A q \in Shipments \ {s} : shipment'[q] = shipment[q]
        /\ shipment'[s].status = "uploading" /\ shipment'[s].current = 0
    BY <1>2, <1>3 DEF CreateDraft, NoShipment
  <2>2. \A t \in Tokens : TokenTallied(t)'
    BY <1>2, <2>1 DEF TokenTallied, TokenExists, ShipmentExists
  <2>3. shipment[s].current = 0
    BY <2>1 DEF TallyInv, ShipmentExists
  <2>4. \A q \in Shipments : RowQuiet(q)
    BY <1>1, <2>1, <2>3 DEF RowQuiet
  <2>5. \A q \in Shipments : ShipmentExists(q)' => ShipmentExists(q) \/ shipment[q].status = "none"
    BY <2>1 DEF ShipmentExists
  <2>6. \A q \in Shipments : ~ShipmentExists(q)' => shipment'[q].current = 0
    BY <2>1 DEF ShipmentExists, TallyInv
  <2> QED
    BY <2>2, <2>4, <2>5, <2>6, QuietTallies
<1>4. ASSUME /\ ShipmentExists(s)' <=> ShipmentExists(s)
             /\ shipment'[s].current = shipment[s].current
             /\ \A q \in Shipments \ {s} : shipment'[q] = shipment[q]
             /\ \A t \in Tokens : token'[t].used = token[t].used
             /\ \A t \in Tokens : TokenTallied(t)'
      PROVE  TallyInv'
  <2>1. \A q \in Shipments : ShipmentExists(q)' <=> ShipmentExists(q)
    BY <1>4 DEF ShipmentExists
  <2>2. \A q \in Shipments : RowQuiet(q)
    BY <1>1, <1>4 DEF RowQuiet, TokensOf
  <2>3. \A q \in Shipments : ~ShipmentExists(q) => shipment'[q].current = 0
    BY <1>4 DEF TallyInv
  <2> QED
    BY <1>4, <2>1, <2>2, <2>3, QuietTallies
<1>5. CASE FinalizeShipment(s)
  <2>1. PICK mode \in {"recipient_restricted", "url_shared"},
             e \in now + MinTTL .. now + MaxTTL, max \in Limits,
             new \in (SUBSET FreshTokens(s)) \ {{}} :
          /\ shipment[s].status \in PreSend
          /\ mode = "url_shared" => Cardinality(new) = 1
          /\ shipment' = [shipment EXCEPT ![s].status = "sent", ![s].mode = mode,
                                          ![s].expiresAt = e, ![s].max = max]
          /\ token' = [t \in Tokens |-> IF t \in new THEN ActiveToken(e, max) ELSE token[t]]
          /\ UNCHANGED <<now, events, req, resend, deleting, worker>>
    BY <1>5, Zenon DEF FinalizeShipment
  <2>2. /\ ShipmentExists(s)' /\ ShipmentExists(s)
        /\ shipment'[s].current = shipment[s].current
        /\ \A q \in Shipments \ {s} : shipment'[q] = shipment[q]
    BY <1>2, <2>1 DEF ShipmentRow, ShipmentExists
  <2>3. ASSUME NEW t \in Tokens
        PROVE  token'[t].used = token[t].used /\ TokenTallied(t)'
    <3>1. CASE t \in new
      <4>1. t \in TokensOf(s) /\ token[t].status = "none"
        BY <2>1, <3>1 DEF FreshTokens
      <4>2. token[t].used = 0
        BY <1>2, <4>1 DEF TokenTallied, TokenExists
      <4>3. token'[t].used = 0 /\ token'[t].status = "active"
        BY <2>1, <3>1 DEF ActiveToken
      <4> QED
        BY <2>2, <4>1, <4>2, <4>3 DEF TokenTallied, TokenExists, TokensOf
    <3>2. CASE t \notin new
      <4>1. token'[t] = token[t] /\ TokenTallied(t) /\ ShipmentOf[t] \in Shipments
        BY <1>2, <2>1, <3>2
      <4> QED
        BY <2>2, <4>1 DEF TokenTallied, TokenExists, ShipmentExists
    <3> QED
      BY <3>1, <3>2
  <2> QED
    BY <1>4, <2>2, <2>3
<1>6. CASE DeleteShipment(s)
  <2>1. /\ ShipmentExists(s)' /\ ShipmentExists(s) /\ token' = Revoke(s)
        /\ shipment'[s].current = shipment[s].current
        /\ \A q \in Shipments \ {s} : shipment'[q] = shipment[q]
    BY <1>2, <1>6 DEF DeleteShipment, ShipmentRow, ShipmentExists
  <2>2. \A q \in Shipments : ShipmentExists(q)' <=> ShipmentExists(q)
    BY <2>1 DEF ShipmentExists
  <2>3. ASSUME NEW t \in Tokens
        PROVE  token'[t].used = token[t].used /\ TokenTallied(t)'
    BY <1>2, <2>1, <2>2, RevokeCounts DEF TokenTallied
  <2> QED
    BY <1>4, <2>1, <2>3
<1>7. CASE RevokeAccessTokens(s)
  <2>1. shipment' = shipment /\ token' = Revoke(s)
    BY <1>7 DEF RevokeAccessTokens
  <2>2. \A q \in Shipments : ShipmentExists(q)' <=> ShipmentExists(q)
    BY <2>1 DEF ShipmentExists
  <2>3. ASSUME NEW t \in Tokens
        PROVE  token'[t].used = token[t].used /\ TokenTallied(t)'
    BY <1>2, <2>1, <2>2, RevokeCounts DEF TokenTallied
  <2> QED
    BY <1>4, <2>1, <2>2, <2>3
<1> QED
  BY <1>3, <1>5, <1>6, <1>7

\* A resend issues a token, unused, for a shipment that there is.
LEMMA ResendTallies ==
  ASSUME TypeOK, IsFiniteSet(Tokens), LimitInv, TallyInv, ResendStep
  PROVE  TallyInv'
<1>1. /\ UNCHANGED <<shipment, events>>
      /\ \A q, pc : At(q, pc)' = At(q, pc)
  BY ResendFrame, SameAt
<1>2. ASSUME NEW t \in Tokens
      PROVE  token'[t].used = token[t].used /\ TokenTallied(t)'
  <2>1. TokenTallied(t)
    BY DEF TallyInv
  <2>2. CASE token' = token
    BY <1>1, <2>1, <2>2 DEF TokenTallied, TokenExists, ShipmentExists
  <2>3. ASSUME NEW x \in Resenders, NEW u \in Tokens, ResendToken(x, u)
        PROVE  token'[t].used = token[t].used /\ TokenTallied(t)'
    <3>1. CASE t = u
      <4>1. t \in TokensOf(resend[x].s) /\ token[t].status = "none" /\ ShipmentExists(resend[x].s)
        BY <2>3, <3>1 DEF ResendToken, FreshTokens
      <4>2. token[t].used = 0
        BY <2>1, <4>1 DEF TokenTallied, TokenExists
      <4>3. token'[t].used = 0 /\ token'[t].status = "active"
        BY <2>3, <3>1 DEF ResendToken, ActiveToken, TypeOK
      <4> QED
        BY <1>1, <4>1, <4>2, <4>3 DEF TokenTallied, TokenExists, TokensOf, ShipmentExists
    <3>2. CASE t # u
      <4>1. token'[t] = token[t]
        BY <2>3, <3>2 DEF ResendToken, TypeOK
      <4> QED
        BY <1>1, <2>1, <4>1 DEF TokenTallied, TokenExists, ShipmentExists
    <3> QED
      BY <3>1, <3>2
  <2> QED
    BY <2>2, <2>3 DEF ResendStep, StartResend, EndResend
<1>3. \A s \in Shipments : RowQuiet(s)
  BY <1>1, <1>2 DEF RowQuiet, TokensOf
<1>4. \A s \in Shipments : ShipmentExists(s)' <=> ShipmentExists(s)
  BY <1>1 DEF ShipmentExists
<1>5. \A s \in Shipments : ~ShipmentExists(s) => shipment'[s].current = 0
  BY <1>1 DEF TallyInv
<1> QED
  BY <1>2, <1>3, <1>4, <1>5, QuietTallies

\* The cleanup worker takes a shipment along with its tokens and events.
LEMMA WorkerTallies ==
  ASSUME TypeOK, IsFiniteSet(Tokens), LimitInv, TallyInv, WorkerStep
  PROVE  TallyInv'
<1> USE DEF Stored, PreSend, Downloadable, Closed
<1>1. \A q, pc : At(q, pc)' = At(q, pc)
  BY WorkerFrame, SameAt
<1>2. /\ \A t \in Tokens : TokenTallied(t) /\ ShipmentOf[t] \in Shipments
      /\ shipment \in [Shipments -> ShipmentRow]
  BY ConstantsAssumption DEF TypeOK, TallyInv
<1>3. ASSUME token' = token, events' = events,
             \A q \in Shipments : /\ ShipmentExists(q)' <=> ShipmentExists(q)
                                  /\ shipment'[q].current = shipment[q].current
      PROVE  TallyInv'
  <2>1. \A t \in Tokens : TokenTallied(t)'
    BY <1>2, <1>3 DEF TokenTallied, TokenExists
  <2>2. \A q \in Shipments : RowQuiet(q)
    BY <1>1, <1>3 DEF RowQuiet
  <2>3. \A q \in Shipments : ~ShipmentExists(q) => shipment'[q].current = 0
    BY <1>3 DEF TallyInv
  <2> QED
    BY <1>3, <2>1, <2>2, <2>3, QuietTallies
<1>4. CASE UNCHANGED <<shipment, token, events>>
  BY <1>3, <1>4 DEF ShipmentExists
<1>5. ASSUME NEW w \in Workers, NEW s \in Shipments, MarkExpired(w, s)
      PROVE  TallyInv'
  <2>1. CASE shipment' = shipment
    BY <1>4, <1>5, <2>1 DEF MarkExpired
  <2>2. CASE shipment' # shipment
    <3>1. ShipmentExists(s) /\ shipment' = [shipment EXCEPT ![s].status = "expired"]
      BY <1>5, <2>2 DEF MarkExpired
    <3>2. \A q \in Shipments : /\ ShipmentExists(q)' <=> ShipmentExists(q)
                               /\ shipment'[q].current = shipment[q].current
      BY <1>2, <3>1 DEF ShipmentExists, ShipmentRow
    <3> QED
      BY <1>3, <1>5, <3>2 DEF MarkExpired
  <2> QED
    BY <2>1, <2>2
<1>6. ASSUME NEW w \in Workers, NEW s \in Shipments, Purge(w, s)
      PROVE  TallyInv'
  <2>1. /\ shipment'[s].status = "purged" /\ shipment'[s].current = 0
        /\ \A q \in Shipments \ {s} : shipment'[q] = shipment[q] /\ events'[q] = events[q]
    BY <1>2, <1>6 DEF Purge, NoShipment, TypeOK
  <2>2. ~ShipmentExists(s)'
    BY <2>1 DEF ShipmentExists
  <2>3. \A q \in Shipments \ {s} : ShipmentExists(q)' <=> ShipmentExists(q)
    BY <2>1 DEF ShipmentExists
  <2>4. ASSUME NEW t \in Tokens
        PROVE  TokenTallied(t)' /\ (ShipmentOf[t] # s => token'[t].used = token[t].used)
    <3>1. CASE t \in TokensOf(s) /\ TokenExists(t)
      <4>1. token'[t].status = "purged" /\ token'[t].used = 0 /\ ShipmentOf[t] = s
        BY <1>6, <3>1 DEF Purge, NoToken, TokensOf
      <4> QED
        BY <4>1 DEF TokenTallied, TokenExists
    <3>2. CASE ~(t \in TokensOf(s) /\ TokenExists(t))
      <4>1. token'[t] = token[t] /\ (ShipmentOf[t] = s => ~TokenExists(t))
        BY <1>6, <3>2 DEF Purge, TokensOf
      <4> QED
        BY <1>2, <2>3, <4>1 DEF TokenTallied, TokenExists
    <3> QED
      BY <3>1, <3>2
  <2>5. \A q \in Shipments \ {s} : RowQuiet(q)
    BY <1>1, <2>1, <2>4 DEF RowQuiet, TokensOf
  <2>6. \A q \in Shipments \ {s} : ~ShipmentExists(q) => shipment'[q].current = 0
    BY <2>1 DEF TallyInv
  <2> QED
    BY <2>1, <2>2, <2>3, <2>4, <2>5, <2>6, QuietTallies
<1> QED
  BY <1>4, <1>5, <1>6 DEF WorkerStep, StartRun, StartPurge, SkipShipment, EndRun

\* One request moves: it leaves its set, or enters another one.
LEMMA AtLeft ==
  ASSUME NEW r \in Requests, \A o \in Requests \ {r} : req'[o] = req[o], NEW s, NEW pc, req'[r].pc # pc
  PROVE  At(s, pc)' = At(s, pc) \ {r}
BY DEF At

LEMMA AtEntered ==
  ASSUME NEW r \in Requests, \A o \in Requests \ {r} : req'[o] = req[o], NEW s,
         NEW pc, req[r].pc # pc, req'[r].pc = pc, req'[r].tok = req[r].tok
  PROVE  /\ ShipmentOf[req[r].tok] = s => At(s, pc)' = At(s, pc) \cup {r} /\ r \notin At(s, pc)
         /\ ShipmentOf[req[r].tok] # s => At(s, pc)' = At(s, pc)
BY DEF At

\* What a write of a request has to show: its own row keeps its tallies.
LEMMA OneRowTallies ==
  ASSUME TypeOK, IsFiniteSet(Tokens), TallyInv, NEW s \in Shipments,
         \A t \in Tokens : token'[t].used = token[t].used \/ TokenExists(t),
         \A t \in Tokens : TokenExists(t)' <=> TokenExists(t),
         \A q \in Shipments : ShipmentExists(q)' <=> ShipmentExists(q),
         \A q \in Shipments \ {s} : RowQuiet(q),
         ShipmentExists(s), RowTallied(s)'
  PROVE  TallyInv'
<1>1. ASSUME NEW t \in Tokens
      PROVE  TokenTallied(t)'
  BY ConstantsAssumption DEF TallyInv, TokenTallied
<1>2. ASSUME NEW q \in Shipments \ {s}
      PROVE  IF ShipmentExists(q)' THEN RowTallied(q)' ELSE shipment'[q].current = 0
  BY QuietRow DEF TallyInv, RowQuiet
<1> QED
  BY <1>1, <1>2 DEF TallyInv

\* Numbers and sets of one row.
LEMMA TallyTypes ==
  ASSUME TypeOK, IsFiniteSet(Tokens), NEW s \in Shipments
  PROVE  /\ shipment[s].current \in Nat /\ events[s] \in Nat
         /\ IsFiniteSet(UsesIn(TokensOf(s))) /\ Cardinality(UsesIn(TokensOf(s))) \in Nat
         /\ \A pc : IsFiniteSet(At(s, pc)) /\ Cardinality(At(s, pc)) \in Nat
<1>1. TokensOf(s) \in SUBSET Tokens
  BY DEF TokensOf
<1> QED
  BY <1>1, AtFinite, UsesFinite DEF TypeOK, ShipmentRow

\* The event is written, and the request accounts for the use that is missing.
LEMMA EventTallies ==
  ASSUME TypeOK, IsFiniteSet(Tokens), TallyInv, NEW r \in Requests, CreateDownloadEvent(r)
  PROVE  TallyInv'
<1>1. PICK s \in Shipments : s = ShipmentOf[req[r].tok]
  BY ConstantsAssumption DEF TypeOK, RequestState
<1>2. /\ \A o \in Requests \ {r} : req'[o] = req[o]
      /\ req[r].pc = "granted" /\ req'[r].pc = "logged" /\ req'[r].tok = req[r].tok
      /\ shipment' = shipment /\ token' = token /\ ShipmentExists(s)
      /\ events'[s] = events[s] + 1 /\ \A q \in Shipments \ {s} : events'[q] = events[q]
  BY <1>1 DEF CreateDownloadEvent, TypeOK, RequestState
<1>3. \A q \in Shipments \ {s} : RowQuiet(q)
  <2>1. ASSUME NEW q \in Shipments \ {s}
        PROVE  At(q, "tallied")' \subseteq At(q, "tallied") /\ At(q, "logged")' \subseteq At(q, "logged")
    BY <1>1, <1>2, AtLeft, AtEntered
  <2> QED
    BY <1>2, <2>1 DEF RowQuiet
<1>4. RowTallied(s)'
  <2>1. RowTallied(s)
    BY <1>1, <1>2 DEF TallyInv
  <2>2. At(s, "tallied")' = At(s, "tallied") \ {r} /\ r \notin At(s, "tallied")
    <3>1. At(s, "tallied")' = At(s, "tallied") \ {r}
      BY <1>2, AtLeft
    <3>2. r \notin At(s, "tallied")
      BY <1>2 DEF At
    <3> QED
      BY <3>1, <3>2
  <2>3. At(s, "logged")' = At(s, "logged") \cup {r} /\ r \notin At(s, "logged")
    <3>1. ShipmentOf[req[r].tok] = s /\ req[r].pc # "logged"
      BY <1>1, <1>2
    <3> QED
      BY <1>2, <3>1, AtEntered
  <2>4. Cardinality(At(s, "tallied"))' = Cardinality(At(s, "tallied"))
    <3>1. At(s, "tallied")' = At(s, "tallied")
      BY <2>2
    <3> QED
      BY <3>1
  <2>5. Cardinality(At(s, "logged"))' = Cardinality(At(s, "logged")) + 1
    BY <1>1, <2>3, TallyTypes, FS_AddElement
  <2>6. Cardinality(UsesIn(TokensOf(s)))' = Cardinality(UsesIn(TokensOf(s)))
    BY <1>2, SameUses
  <2> QED
    BY <1>1, <1>2, <2>1, <2>4, <2>5, <2>6, TallyTypes DEF RowTallied
<1> QED
  BY <1>1, <1>2, <1>3, <1>4, OneRowTallies DEF ShipmentExists, TokenExists

\* The use is counted, and the request accounts for the count of the shipment.
LEMMA UseTallies ==
  ASSUME TypeOK, IsFiniteSet(Tokens), TallyInv, NEW r \in Requests, UpdateAccessTokenUsage(r)
  PROVE  TallyInv'
<1>1. PICK t \in Tokens, s \in Shipments :
         /\ t = req[r].tok /\ s = ShipmentOf[req[r].tok]
         /\ t \in TokensOf(s) /\ token[t] \in TokenRow
  BY ConstantsAssumption DEF TypeOK, RequestState, TokensOf
<1>2. /\ \A o \in Requests \ {r} : req'[o] = req[o]
      /\ req[r].pc = "logged" /\ req'[r].pc = "tallied" /\ req'[r].tok = req[r].tok
      /\ shipment' = shipment /\ events' = events /\ TokenExists(t)
      /\ token' = [token EXCEPT ![t].used = @ + 1,
                     ![t].status = IF token[t].used + 1 >= token[t].maxUses THEN "used" ELSE @]
  BY <1>1 DEF UpdateAccessTokenUsage, TypeOK, RequestState
<1>3. /\ token'[t].used = token[t].used + 1
      /\ TokenExists(t)'
      /\ \A u \in Tokens \ {t} : token'[u] = token[u]
  BY <1>1, <1>2 DEF TypeOK, TokenRow, TokenExists
<1>4. \A q \in Shipments \ {s} : RowQuiet(q)
  <2>1. ASSUME NEW q \in Shipments \ {s}
        PROVE  At(q, "tallied")' \subseteq At(q, "tallied") /\ At(q, "logged")' \subseteq At(q, "logged")
    <3>0. ShipmentOf[req[r].tok] # q /\ req[r].pc # "tallied"
      BY <1>1, <1>2
    <3>1. At(q, "tallied")' = At(q, "tallied")
      BY <1>2, <3>0, AtEntered
    <3>2. At(q, "logged")' = At(q, "logged") \ {r}
      BY <1>2, AtLeft
    <3> QED
      BY <3>1, <3>2
  <2>2. \A q \in Shipments \ {s} : \A u \in TokensOf(q) : token'[u] = token[u]
    BY <1>1, <1>3 DEF TokensOf
  <2> QED
    BY <1>2, <2>1, <2>2 DEF RowQuiet
<1>5. ShipmentExists(s)
  BY <1>1, <1>2 DEF TallyInv, TokenTallied
<1>6. RowTallied(s)'
  <2>1. RowTallied(s)
    BY <1>1, <1>5 DEF TallyInv
  <2>2. At(s, "logged")' = At(s, "logged") \ {r} /\ r \in At(s, "logged")
    <3>1. At(s, "logged")' = At(s, "logged") \ {r}
      BY <1>2, AtLeft
    <3>2. r \in At(s, "logged")
      BY <1>1, <1>2 DEF At
    <3> QED
      BY <3>1, <3>2
  <2>3. At(s, "tallied")' = At(s, "tallied") \cup {r} /\ r \notin At(s, "tallied")
    BY <1>1, <1>2, AtEntered
  <2>4. Cardinality(At(s, "logged"))' = Cardinality(At(s, "logged")) - 1
    BY <1>1, <2>2, TallyTypes, FS_RemoveElement
  <2>5. Cardinality(At(s, "tallied"))' = Cardinality(At(s, "tallied")) + 1
    BY <1>1, <2>3, TallyTypes, FS_AddElement
  <2>6. PICK n \in Nat : n = token[t].used
    BY <1>1 DEF TokenRow
  <2>7. UsesIn(TokensOf(s))' = UsesIn(TokensOf(s)) \cup {<<t, n + 1>>} /\ <<t, n + 1>> \notin UsesIn(TokensOf(s))
    <3>1. 1 .. token'[t].used = (1 .. token[t].used) \cup {n + 1} /\ n + 1 \notin 1 .. token[t].used
      BY <1>3, <2>6
    <3>2. UsesIn(TokensOf(s))' = UNION {{u} \X (1 .. token'[u].used) : u \in TokensOf(s)}
      BY DEF UsesIn, TokensOf
    <3>3. \A u \in TokensOf(s) : u # t => token'[u] = token[u]
      BY <1>3 DEF TokensOf
    <3>4. UsesIn(TokensOf(s))' \subseteq UsesIn(TokensOf(s)) \cup {<<t, n + 1>>}
      BY <1>1, <3>1, <3>2, <3>3 DEF UsesIn
    <3>5. UsesIn(TokensOf(s)) \cup {<<t, n + 1>>} \subseteq UsesIn(TokensOf(s))'
      BY <1>1, <3>1, <3>2, <3>3 DEF UsesIn
    <3>6. <<t, n + 1>> \notin UsesIn(TokensOf(s))
      BY <3>1, UseOfToken
    <3> QED
      BY <3>4, <3>5, <3>6
  <2>8. Cardinality(UsesIn(TokensOf(s)))' = Cardinality(UsesIn(TokensOf(s))) + 1
    BY <1>1, <2>7, TallyTypes, FS_AddElement
  <2> QED
    <3>1. /\ shipment[s].current \in Nat /\ events[s] \in Nat
          /\ shipment'[s].current = shipment[s].current /\ events'[s] = events[s]
          /\ Cardinality(UsesIn(TokensOf(s))) \in Nat
          /\ Cardinality(At(s, "tallied")) \in Nat /\ Cardinality(At(s, "logged")) \in Nat
      BY <1>2, TallyTypes
    <3> QED
      BY <2>1, <2>4, <2>5, <2>8, <3>1 DEF RowTallied
<1>7. /\ \A u \in Tokens : token'[u].used = token[u].used \/ TokenExists(u)
      /\ \A u \in Tokens : TokenExists(u)' <=> TokenExists(u)
  BY <1>2, <1>3 DEF TokenExists
<1> QED
  BY <1>1, <1>2, <1>4, <1>5, <1>6, <1>7, OneRowTallies DEF ShipmentExists

\* The shipment is counted last.
LEMMA CountTallies ==
  ASSUME TypeOK, IsFiniteSet(Tokens), TallyInv, NEW r \in Requests, IncrementShipmentDownloadCount(r)
  PROVE  TallyInv'
<1>1. PICK s \in Shipments : s = ShipmentOf[req[r].tok] /\ shipment[s] \in ShipmentRow
  BY ConstantsAssumption DEF TypeOK, RequestState
<1>2. /\ \A o \in Requests \ {r} : req'[o] = req[o]
      /\ req[r].pc = "tallied" /\ req'[r].pc = "idle"
      /\ token' = token /\ events' = events /\ ShipmentExists(s)
      /\ shipment' = [shipment EXCEPT ![s].current = @ + 1, ![s].status = AfterDownload(@)]
  BY <1>1 DEF IncrementShipmentDownloadCount, TypeOK, IdleRequest
<1>3. /\ shipment'[s].current = shipment[s].current + 1
      /\ shipment'[s].status = AfterDownload(shipment[s].status)
      /\ \A q \in Shipments \ {s} : shipment'[q] = shipment[q]
  BY <1>1, <1>2 DEF TypeOK, ShipmentRow
<1>4. ShipmentExists(s)'
  BY <1>2, <1>3 DEF ShipmentExists, AfterDownload, Stored, Downloadable
<1>5. \A q \in Shipments \ {s} : RowQuiet(q)
  <2>1. ASSUME NEW q \in Shipments \ {s}
        PROVE  At(q, "tallied")' \subseteq At(q, "tallied") /\ At(q, "logged")' \subseteq At(q, "logged")
    BY <1>2, AtLeft
  <2> QED
    BY <1>2, <1>3, <2>1 DEF RowQuiet
<1>6. RowTallied(s)'
  <2>1. RowTallied(s)
    BY <1>1, <1>2 DEF TallyInv
  <2>2. At(s, "logged")' = At(s, "logged")
    BY <1>2, AtLeft DEF At
  <2>3. At(s, "tallied")' = At(s, "tallied") \ {r} /\ r \in At(s, "tallied")
    <3>1. At(s, "tallied")' = At(s, "tallied") \ {r}
      BY <1>2, AtLeft
    <3>2. r \in At(s, "tallied")
      BY <1>1, <1>2 DEF At
    <3> QED
      BY <3>1, <3>2
  <2>4. Cardinality(At(s, "tallied"))' = Cardinality(At(s, "tallied")) - 1
    BY <1>1, <2>3, TallyTypes, FS_RemoveElement
  <2>5. Cardinality(UsesIn(TokensOf(s)))' = Cardinality(UsesIn(TokensOf(s)))
    BY <1>2, SameUses
  <2>6. Cardinality(At(s, "logged"))' = Cardinality(At(s, "logged"))
    BY <2>2
  <2> QED
    <3>1. /\ shipment[s].current \in Nat /\ events[s] \in Nat /\ events'[s] = events[s]
          /\ Cardinality(UsesIn(TokensOf(s))) \in Nat
          /\ Cardinality(At(s, "tallied")) \in Nat /\ Cardinality(At(s, "logged")) \in Nat
      BY <1>2, TallyTypes
    <3> QED
      BY <1>3, <2>1, <2>4, <2>5, <2>6, <3>1 DEF RowTallied
<1>7. \A q \in Shipments : ShipmentExists(q)' <=> ShipmentExists(q)
  BY <1>2, <1>3, <1>4 DEF ShipmentExists
<1> QED
  BY <1>1, <1>2, <1>5, <1>6, <1>7, OneRowTallies DEF TokenExists

\* Everything else a request does writes nothing.
LEMMA ReadTallies ==
  ASSUME TypeOK, IsFiniteSet(Tokens), LimitInv, TallyInv, NEW r \in Requests,
         \/ \E t \in Tokens : ReadToken(r, t)
         \/ ReadShipment(r) \/ CountDownloads(r) \/ CheckLimit(r) \/ Abandon(r)
  PROVE  TallyInv'
<1>1. /\ \A o \in Requests \ {r} : req'[o] = req[o]
      /\ req'[r].pc \in {"idle", "token", "shipment", "counted", "granted"}
      /\ UNCHANGED <<shipment, token, events>>
  <2>1. ASSUME NEW t \in Tokens, ReadToken(r, t)
        PROVE  /\ \A o \in Requests \ {r} : req'[o] = req[o]
               /\ req'[r].pc = "token"
               /\ UNCHANGED <<shipment, token, events>>
    BY <2>1 DEF ReadToken, TypeOK, IdleRequest
  <2>2. CASE ReadShipment(r)
    BY <2>2 DEF ReadShipment, TypeOK, RequestState
  <2>3. CASE CountDownloads(r)
    BY <2>3 DEF CountDownloads, TypeOK, RequestState
  <2>4. CASE CheckLimit(r)
    BY <2>4 DEF CheckLimit, TypeOK, RequestState
  <2>5. CASE Abandon(r)
    BY <2>5 DEF Abandon, TypeOK, IdleRequest
  <2> QED
    BY <2>1, <2>2, <2>3, <2>4, <2>5
<1>2. ASSUME NEW s
      PROVE  At(s, "tallied")' \subseteq At(s, "tallied") /\ At(s, "logged")' \subseteq At(s, "logged")
  <2>1. At(s, "tallied")' = At(s, "tallied") \ {r}
    BY <1>1, AtLeft
  <2>2. At(s, "logged")' = At(s, "logged") \ {r}
    BY <1>1, AtLeft
  <2> QED
    BY <2>1, <2>2
<1>3. \A s \in Shipments : RowQuiet(s)
  BY <1>1, <1>2 DEF RowQuiet
<1>4. \A t \in Tokens : TokenTallied(t)'
  BY <1>1 DEF TallyInv, TokenTallied, TokenExists, ShipmentExists
<1>5. \A s \in Shipments : ShipmentExists(s)' <=> ShipmentExists(s)
  BY <1>1 DEF ShipmentExists
<1>6. \A s \in Shipments : ~ShipmentExists(s) => shipment'[s].current = 0
  BY <1>1 DEF TallyInv
<1> QED
  BY <1>3, <1>4, <1>5, <1>6, QuietTallies

\* Nothing was counted at first.
LEMMA InitTallyInv == Init => TallyInv
  BY ConstantsAssumption
     DEF Init, TallyInv, TokenTallied, TokenExists, ShipmentExists, NoToken, NoShipment, Stored,
         PreSend, Downloadable, Closed

LEMMA NextTallyInv ==
  ASSUME IsFiniteSet(Tokens), TypeOK, LimitInv, TallyInv, [Next]_vars
  PROVE  TallyInv'
<1>1. CASE RequestStep
  BY <1>1, ReadTallies, EventTallies, UseTallies, CountTallies DEF RequestStep
<1>2. CASE Tick \/ UNCHANGED vars
  <2>1. UNCHANGED <<shipment, token, events, req>>
    BY <1>2 DEF Tick, vars
  <2>2. \A t \in Tokens : TokenTallied(t)'
    BY <2>1 DEF TallyInv, TokenTallied, TokenExists, ShipmentExists
  <2>3. \A s \in Shipments : RowQuiet(s) /\ (ShipmentExists(s)' <=> ShipmentExists(s))
    BY <2>1 DEF RowQuiet, ShipmentExists, At
  <2>4. \A s \in Shipments : ~ShipmentExists(s) => shipment'[s].current = 0
    BY <2>1 DEF TallyInv
  <2> QED
    BY <2>2, <2>3, <2>4, QuietTallies
<1> QED
  BY <1>1, <1>2, OwnerTallies, ResendTallies, WorkerTallies DEF Next

\* What is counted one by one is in order, and so are the sums.
LEMMA TalliesInOrder ==
  ASSUME IsFiniteSet(Tokens), TypeOK, TallyInv
  PROVE  TalliesOrdered
<1> SUFFICES ASSUME NEW s \in Shipments
             PROVE  shipment[s].current <= UsesOf(s) /\ UsesOf(s) <= events[s]
  BY DEF TalliesOrdered
<1>1. UsesOf(s) = Cardinality(UsesIn(TokensOf(s)))
  BY UsesCounted
<1>2. CASE ShipmentExists(s)
  <2>1. RowTallied(s)
    BY <1>2 DEF TallyInv
  <2>2. /\ shipment[s].current \in Nat /\ events[s] \in Nat
        /\ Cardinality(UsesIn(TokensOf(s))) \in Nat
        /\ Cardinality(At(s, "tallied")) \in Nat /\ Cardinality(At(s, "logged")) \in Nat
    BY TallyTypes
  <2> QED
    BY <1>1, <2>1, <2>2 DEF RowTallied
<1>3. CASE ~ShipmentExists(s)
  <2>1. \A t \in TokensOf(s) : token[t].used = 0
    BY <1>3 DEF TallyInv, TokenTallied, TokensOf
  <2>2. UsesOf(s) = 0
    BY <1>1, <2>1, NoUses
  <2>3. shipment[s].current = 0 /\ events[s] \in Nat
    BY <1>3 DEF TallyInv, TypeOK
  <2> QED
    BY <2>2, <2>3
<1> QED
  BY <1>2, <1>3

\* The counter of a shipment never exceeds the uses of its tokens, nor these the events of
\* its downloads: GenerateDownloadURL writes the event first and the counter last, and a
\* request that dies in between leaves the later ones behind.  Tokens are the ids that ever
\* get a row: they are finitely many in what the program does, and a sum needs them to be.
THEOREM TalliesCorrect ==
  ASSUME IsFiniteSet(Tokens)
  PROVE  Spec => []TalliesOrdered
<1>1. Init => TypeOK /\ LimitInv /\ TallyInv
  BY InitTypeOK, InitLimitInv, InitTallyInv
<1>2. TypeOK /\ LimitInv /\ TallyInv /\ [Next]_vars => (TypeOK /\ LimitInv /\ TallyInv)'
  BY NextTypeOK, NextLimitInv, NextTallyInv
<1>3. TypeOK /\ LimitInv /\ TallyInv => TalliesOrdered
  BY TalliesInOrder
<1> QED
  BY <1>1, <1>2, <1>3, PTL DEF Spec

-----------------------------------------------------------------------------
(***************************************************************************)
(* ShipmentAccess implements ShipmentGate.  A step maps to at most one      *)
(* step of the gate; that nobody else opens it, nobody who is late comes    *)
(* in and nobody takes above the limit rests on the invariants above.       *)
(***************************************************************************)
GateInv == TypeOK /\ LimitInv /\ AccessInv /\ PurgeInv

\* The stages of a row.
LEMMA LifeStages ==
  ASSUME NEW row \in ShipmentRow, NEW t \in Nat
  PROVE  /\ row.status = "none" => LifeAt(row, t) = "none"
         /\ row.status \in PreSend => LifeAt(row, t) = "draft"
         /\ row.status \in Downloadable /\ row.expiresAt >= t => LifeAt(row, t) = "open"
         /\ row.status \in Downloadable /\ row.expiresAt < t => LifeAt(row, t) = "closed"
         /\ row.status \in Closed => LifeAt(row, t) = "closed"
         /\ row.status = "purged" => LifeAt(row, t) = "gone"
BY DEF LifeAt, ShipmentRow, Stored, PreSend, Downloadable, Closed

\* The stages of a request.
LEMMA VisitStages ==
  ASSUME NEW q \in RequestState
  PROVE  /\ q.pc \in {"token", "shipment"} /\ ~q.late => VisitAt(q) = Gate!Inside(ShipmentOf[q.tok])
         /\ q.pc \in {"token", "shipment"} /\ q.late => VisitAt(q) = Gate!Outside
         /\ q.pc \in {"counted", "granted"} =>
              VisitAt(q) = Gate!Informed(ShipmentOf[q.tok], q.count)
         /\ q.pc \in {"idle", "logged", "tallied"} => VisitAt(q) = Gate!Outside
BY DEF VisitAt, RequestState, Gate!Inside, Gate!Outside, Gate!Informed

\* The rows and requests have their types.
LEMMA GateTypes ==
  ASSUME TypeOK
  PROVE  /\ now \in Nat /\ \A s \in Shipments : shipment[s] \in ShipmentRow
         /\ \A r \in Requests : req[r] \in RequestState /\ ShipmentOf[req[r].tok] \in Shipments
         /\ events \in [Shipments -> Nat]
BY ConstantsAssumption DEF TypeOK, RequestState

\* What the gate does not notice.
LEMMA GateStutters ==
  ASSUME \A s \in Shipments : LifeAt(shipment'[s], now') = LifeAt(shipment[s], now)
                              /\ shipment'[s].max = shipment[s].max
                              /\ (shipment'[s].status = "purged" <=> shipment[s].status = "purged"),
         events' = events,
         \A r \in Requests : VisitAt(req'[r]) = VisitAt(req[r])
  PROVE  UNCHANGED Gate!vars
<1>1. GateLife' = GateLife
  BY DEF GateLife
<1>2. GateLimit' = GateLimit
  BY DEF GateLimit
<1>3. GateVisit' = GateVisit
  BY DEF GateVisit
<1> QED
  BY <1>1, <1>2, <1>3 DEF Gate!vars

LEMMA GateSleeps ==
  ASSUME UNCHANGED <<now, shipment, events, req>>
  PROVE  UNCHANGED Gate!vars
BY DEF Gate!vars, GateLife, GateLimit, GateVisit

\* One row changes.
LEMMA OneLife ==
  ASSUME NEW s \in Shipments, \A q \in Shipments \ {s} : shipment'[q] = shipment[q], now' = now
  PROVE  /\ GateLife' = [GateLife EXCEPT ![s] = LifeAt(shipment'[s], now')]
         /\ GateLimit' = [GateLimit EXCEPT ![s] = GateLimit'[s]]
         /\ GateLimit'[s] = IF shipment'[s].status = "purged" THEN 0 ELSE shipment'[s].max
BY DEF GateLife, GateLimit

\* No row changes, and one request moves.
LEMMA OneVisit ==
  ASSUME NEW r \in Requests, \A q \in Requests \ {r} : req'[q] = req[q]
  PROVE  GateVisit' = [GateVisit EXCEPT ![r] = VisitAt(req'[r])]
BY DEF GateVisit

LEMMA SameLife ==
  ASSUME UNCHANGED <<now, shipment>>
  PROVE  GateLife' = GateLife /\ GateLimit' = GateLimit
BY DEF GateLife, GateLimit

LEMMA SameVisits ==
  ASSUME req' = req
  PROVE  GateVisit' = GateVisit
BY DEF GateVisit

\* Shipments whose stage is not closed are closed, the others stay as they are.
LEMMA SomeClosed ==
  ASSUME NEW S \in SUBSET Shipments,
         \A s \in S : LifeAt(shipment[s], now) \in {"draft", "open"}
                      /\ LifeAt(shipment'[s], now') = "closed",
         \A s \in Shipments \ S : LifeAt(shipment'[s], now') = LifeAt(shipment[s], now),
         \A s \in Shipments : shipment'[s].max = shipment[s].max
                              /\ (shipment'[s].status = "purged" <=> shipment[s].status = "purged"),
         events' = events,
         \A r \in Requests : VisitAt(req'[r]) = VisitAt(req[r])
  PROVE  [Gate!Next]_(Gate!vars)
<1>1. CASE S = {}
  BY <1>1, GateStutters
<1>2. CASE S # {}
  <2>1. \A s \in S : GateLife[s] \in {"draft", "open"}
    BY DEF GateLife
  <2>2. GateLife' = [s \in Shipments |-> IF s \in S THEN "closed" ELSE GateLife[s]]
    BY DEF GateLife
  <2>3. GateLimit' = GateLimit /\ GateVisit' = GateVisit
    BY DEF GateLimit, GateVisit
  <2>4. Gate!Close(S)
    BY <1>2, <2>1, <2>2, <2>3 DEF Gate!Close
  <2> QED
    BY <2>4 DEF Gate!Next
<1> QED
  BY <1>1, <1>2

\* A row that is not gone is closed by its status, if it was not closed before.
LEMMA ClosedRow ==
  ASSUME TypeOK, TypeOK', UNCHANGED <<now, events, req>>, NEW s \in Shipments,
         \A q \in Shipments \ {s} : shipment'[q] = shipment[q],
         shipment[s].status \in PreSend \cup Downloadable \cup Closed,
         shipment'[s].status \in Closed, shipment'[s].max = shipment[s].max
  PROVE  [Gate!Next]_(Gate!vars)
<1>1. now \in Nat /\ shipment[s] \in ShipmentRow /\ shipment'[s] \in ShipmentRow
  BY DEF TypeOK
<1>2. LifeAt(shipment'[s], now') = "closed"
  BY <1>1, LifeStages
<1>3. shipment[s].expiresAt >= now \/ shipment[s].expiresAt < now
  BY <1>1 DEF ShipmentRow
<1>4. LifeAt(shipment[s], now) \in {"draft", "open", "closed"}
  BY <1>1, <1>3, LifeStages
<1>5. /\ \A q \in Shipments : shipment'[q].max = shipment[q].max
      /\ \A q \in Shipments : shipment'[q].status = "purged" <=> shipment[q].status = "purged"
  BY DEF PreSend, Downloadable, Closed
<1>6. \A q \in Shipments \ {s} : LifeAt(shipment'[q], now') = LifeAt(shipment[q], now)
  OBVIOUS
<1>7. CASE LifeAt(shipment[s], now) = "closed"
  BY <1>2, <1>5, <1>6, <1>7, GateStutters
<1>8. CASE LifeAt(shipment[s], now) \in {"draft", "open"}
  BY <1>2, <1>5, <1>6, <1>8, SomeClosed
<1> QED
  BY <1>4, <1>7, <1>8

\* The owner drafts, shares and deletes.
LEMMA OwnerGate ==
  ASSUME GateInv, TypeOK', OwnerStep
  PROVE  [Gate!Next]_(Gate!vars)
<1>1. UNCHANGED <<now, events, req>>
  BY OwnerFrame
<1>2. PICK s \in Shipments : \/ CreateDraft(s) \/ FinalizeShipment(s)
                             \/ DeleteShipment(s) \/ RevokeAccessTokens(s)
  BY DEF OwnerStep
<1>3. /\ TypeOK /\ now \in Nat /\ shipment[s] \in ShipmentRow /\ shipment'[s] \in ShipmentRow
      /\ shipment \in [Shipments -> ShipmentRow]
  BY GateTypes DEF GateInv, TypeOK
<1>4. GateVisit' = GateVisit
  BY <1>1, SameVisits
<1>5. GateLife[s] = LifeAt(shipment[s], now) /\ GateLife \in [Shipments -> {LifeAt(shipment[q], now) : q \in Shipments}]
  BY DEF GateLife
<1>6. CASE CreateDraft(s)
  <2>1. /\ \A q \in Shipments \ {s} : shipment'[q] = shipment[q]
        /\ shipment[s].status = "none" /\ shipment'[s].status = "uploading"
    BY <1>3, <1>6 DEF CreateDraft, NoShipment
  <2>2. LifeAt(shipment[s], now) = "none" /\ LifeAt(shipment'[s], now') = "draft"
    BY <1>1, <1>3, <2>1, LifeStages DEF PreSend
  <2>3. Gate!Prepare(s)
    BY <1>1, <1>4, <1>5, <2>1, <2>2, OneLife DEF Gate!Prepare
  <2> QED
    BY <2>3 DEF Gate!Next
<1>7. CASE FinalizeShipment(s)
  <2>1. PICK mode \in {"recipient_restricted", "url_shared"},
             e \in now + MinTTL .. now + MaxTTL, max \in Limits :
          /\ shipment[s].status \in PreSend
          /\ shipment' = [shipment EXCEPT ![s].status = "sent", ![s].mode = mode,
                                          ![s].expiresAt = e, ![s].max = max]
    BY <1>7 DEF FinalizeShipment
  <2>2. /\ \A q \in Shipments \ {s} : shipment'[q] = shipment[q]
        /\ shipment[s].status \in PreSend /\ shipment'[s].status = "sent" /\ shipment'[s].expiresAt = e
    BY <1>3, <2>1 DEF ShipmentRow
  <2>3. e >= now
    BY <1>3, <2>1, ConstantsAssumption
  <2>4. LifeAt(shipment[s], now) = "draft" /\ LifeAt(shipment'[s], now') = "open"
    BY <1>1, <1>3, <2>2, <2>3, LifeStages DEF Downloadable
  <2>5. Gate!Open(s)
    BY <1>1, <1>4, <1>5, <2>2, <2>4, OneLife DEF Gate!Open
  <2> QED
    BY <2>5 DEF Gate!Next
<1>8. CASE DeleteShipment(s)
  <2>1. /\ \A q \in Shipments \ {s} : shipment'[q] = shipment[q]
        /\ shipment[s].status \in PreSend \cup Downloadable \cup Closed
        /\ shipment'[s].status = "deleted" /\ shipment'[s].max = shipment[s].max
    BY <1>3, <1>8 DEF DeleteShipment, ShipmentRow, ShipmentExists, Stored
  <2> QED
    BY <1>1, <1>3, <2>1, ClosedRow DEF Closed
<1>9. CASE RevokeAccessTokens(s)
  BY <1>1, <1>9, GateSleeps DEF RevokeAccessTokens
<1> QED
  BY <1>2, <1>6, <1>7, <1>8, <1>9

\* A resend inserts tokens: the gate does not notice.
LEMMA ResendGate ==
  ASSUME ResendStep
  PROVE  UNCHANGED Gate!vars
BY ResendFrame, GateSleeps

\* The date of shipments passes.
LEMMA TickGate ==
  ASSUME GateInv, Tick
  PROVE  [Gate!Next]_(Gate!vars)
<1> DEFINE S == {s \in Shipments : shipment[s].status \in Downloadable
                                   /\ shipment[s].expiresAt >= now /\ shipment[s].expiresAt < now + 1}
<1>1. /\ now \in Nat /\ now' = now + 1 /\ UNCHANGED <<shipment, events, req>>
      /\ \A s \in Shipments : shipment[s] \in ShipmentRow
  BY GateTypes DEF GateInv, Tick
<1>2. ASSUME NEW s \in S
      PROVE  LifeAt(shipment[s], now) = "open" /\ LifeAt(shipment'[s], now') = "closed"
  BY <1>1, LifeStages
<1>3. ASSUME NEW s \in Shipments \ S
      PROVE  LifeAt(shipment[s], now + 1) = LifeAt(shipment[s], now)
  <2>1. shipment[s].expiresAt \in Nat /\ shipment[s].status \in Stored \cup {"none", "purged"}
    BY <1>1 DEF ShipmentRow
  <2>2. CASE shipment[s].status \in Downloadable
    <3>1. shipment[s].expiresAt < now \/ shipment[s].expiresAt >= now + 1
      BY <1>1, <2>1, <2>2
    <3> QED
      BY <1>1, <2>1, <2>2, <3>1, LifeStages
  <2>3. CASE shipment[s].status \notin Downloadable
    BY <1>1, <2>1, <2>3, LifeStages DEF Stored
  <2> QED
    BY <2>2, <2>3
<1> QED
  BY <1>1, <1>2, <1>3, SomeClosed

\* A run marks shipments as expired and purges those that were deleted.
LEMMA WorkerGate ==
  ASSUME GateInv, TypeOK', WorkerStep
  PROVE  [Gate!Next]_(Gate!vars)
<1>1. UNCHANGED <<now, req>> /\ TypeOK /\ shipment \in [Shipments -> ShipmentRow]
  BY WorkerFrame DEF GateInv, TypeOK
<1>2. PICK w \in Workers :
        \/ StartRun(w) \/ StartPurge(w) \/ EndRun(w)
        \/ \E s \in Shipments : MarkExpired(w, s) \/ Purge(w, s) \/ SkipShipment(w, s)
  BY DEF WorkerStep
<1>3. CASE StartRun(w) \/ StartPurge(w) \/ EndRun(w) \/ \E s \in Shipments : SkipShipment(w, s)
  BY <1>3, GateSleeps DEF StartRun, StartPurge, EndRun, SkipShipment
<1>4. ASSUME NEW s \in Shipments, MarkExpired(w, s)
      PROVE  [Gate!Next]_(Gate!vars)
  <2>1. events' = events
    BY <1>4 DEF MarkExpired
  <2>2. CASE shipment' = shipment
    BY <1>1, <2>1, <2>2, GateSleeps
  <2>3. CASE ShipmentExists(s) /\ shipment' = [shipment EXCEPT ![s].status = "expired"]
    <3>1. /\ \A q \in Shipments \ {s} : shipment'[q] = shipment[q]
          /\ shipment[s].status \in PreSend \cup Downloadable \cup Closed
          /\ shipment'[s].status = "expired" /\ shipment'[s].max = shipment[s].max
      BY <1>1, <2>3 DEF ShipmentRow, ShipmentExists, Stored
    <3> QED
      BY <1>1, <2>1, <3>1, ClosedRow DEF Closed
  <2> QED
    BY <1>4, <2>2, <2>3 DEF MarkExpired
<1>5. ASSUME NEW s \in Shipments, Purge(w, s)
      PROVE  [Gate!Next]_(Gate!vars)
  <2>1. /\ \A q \in Shipments \ {s} : shipment'[q] = shipment[q]
        /\ shipment'[s] = [NoShipment EXCEPT !.status = "purged"]
        /\ shipment'[s].status = "purged"
        /\ events' = [events EXCEPT ![s] = 0]
    BY <1>1, <1>5 DEF Purge, NoShipment
  <2>2. shipment[s].status \in {"deleted", "purged"}
    BY <1>5 DEF GateInv, PurgeInv, ListedPastGrace, PastGrace, Purge
  <2>3. now \in Nat /\ shipment[s] \in ShipmentRow /\ shipment'[s] \in ShipmentRow
        /\ events \in [Shipments -> Nat]
    BY <1>1 DEF TypeOK
  <2>4. LifeAt(shipment'[s], now') = "gone" /\ GateVisit' = GateVisit
    BY <1>1, <2>1, <2>3, LifeStages, SameVisits
  <2>5. CASE shipment[s].status = "deleted"
    <3>1. GateLife[s] = "closed"
      BY <2>3, <2>5, LifeStages DEF GateLife, Closed
    <3>2. Gate!Forget(s)
      BY <1>1, <2>1, <2>4, <3>1, OneLife DEF Gate!Forget
    <3> QED
      BY <3>2 DEF Gate!Next
  <2>6. CASE shipment[s].status = "purged"
    <3>1. events[s] = 0
      BY <2>6 DEF GateInv, LimitInv, EventsOfFinalized
    <3>2. events' = events
      BY <2>1, <2>3, <3>1
    <3>3. LifeAt(shipment[s], now) = "gone"
      BY <2>3, <2>6, LifeStages
    <3>4. GateLife' = GateLife
      BY <1>1, <2>1, <2>4, <3>3 DEF GateLife
    <3>5. GateLimit' = GateLimit
      BY <2>1, <2>6 DEF GateLimit
    <3> QED
      BY <2>4, <3>2, <3>4, <3>5 DEF Gate!vars
  <2> QED
    BY <2>2, <2>5, <2>6
<1> QED
  BY <1>2, <1>3, <1>4, <1>5

\* A request that changes no row: it enters, looks, takes or leaves, or nobody notices.
LEMMA QuietRequest ==
  ASSUME UNCHANGED <<now, shipment, events>>, NEW r \in Requests,
         \A q \in Requests \ {r} : req'[q] = req[q], VisitAt(req'[r]) = VisitAt(req[r])
  PROVE  [Gate!Next]_(Gate!vars)
<1>1. GateVisit' = GateVisit
  BY DEF GateVisit
<1> QED
  BY <1>1, SameLife DEF Gate!vars

\* Only who reads a token in time comes in.
LEMMA EnterGate ==
  ASSUME GateInv, TypeOK', NEW r \in Requests, NEW t \in Tokens, ReadToken(r, t)
  PROVE  [Gate!Next]_(Gate!vars)
<1> DEFINE s == ShipmentOf[t]
<1>1. /\ UNCHANGED <<now, shipment, events>> /\ now \in Nat /\ s \in Shipments
      /\ shipment[s] \in ShipmentRow /\ req[r] \in RequestState /\ req'[r] \in RequestState
      /\ \A q \in Requests \ {r} : req'[q] = req[q]
  BY ConstantsAssumption DEF GateInv, TypeOK, ReadToken
<1>2. /\ req[r].pc = "idle" /\ req'[r].pc = "token" /\ req'[r].tok = t
      /\ req'[r].late = Ended(s)
  BY DEF ReadToken, GateInv, TypeOK, IdleRequest
<1>3. VisitAt(req[r]) = Gate!Outside
  BY <1>1, <1>2, VisitStages
<1>4. CASE Ended(s)
  <2>1. VisitAt(req'[r]) = Gate!Outside
    BY <1>1, <1>2, <1>4, VisitStages
  <2> QED
    BY <1>1, <1>3, <2>1, QuietRequest
<1>5. CASE ~Ended(s)
  <2>1. VisitAt(req'[r]) = Gate!Inside(s)
    BY <1>1, <1>2, <1>5, VisitStages
  <2>2. TokenExists(t)
    BY DEF ReadToken
  <2>3. Finalized(s)
    BY <2>2 DEF GateInv, AccessInv, TokensFinalized
  <2>4. shipment[s].status \in Downloadable /\ shipment[s].expiresAt >= now
    BY <1>1, <1>5, <2>3 DEF Ended, Finalized, ShipmentRow
  <2>5. GateLife[s] = "open"
    BY <1>1, <2>4, LifeStages DEF GateLife
  <2>6. GateVisit[r] = Gate!Outside /\ GateVisit' = [GateVisit EXCEPT ![r] = Gate!Inside(s)]
    BY <1>1, <1>3, <2>1, OneVisit DEF GateVisit
  <2>7. Gate!Enter(r, s)
    BY <1>1, <2>5, <2>6, SameLife DEF Gate!Enter
  <2> QED
    BY <1>1, <2>7 DEF Gate!Next
<1> QED
  BY <1>4, <1>5

\* Who has passed the check of the row was in time.
LEMMA LookGate ==
  ASSUME GateInv, TypeOK', NEW r \in Requests, CountDownloads(r)
  PROVE  [Gate!Next]_(Gate!vars)
<1>1. PICK s \in Shipments : s = ShipmentOf[req[r].tok]
  BY GateTypes DEF GateInv
<1>2. /\ UNCHANGED <<now, shipment, events>>
      /\ req[r] \in RequestState /\ req'[r] \in RequestState
      /\ \A q \in Requests \ {r} : req'[q] = req[q]
  BY DEF GateInv, TypeOK, CountDownloads
<1>3. /\ req[r].pc = "shipment" /\ req'[r].pc = "counted"
      /\ req'[r].tok = req[r].tok /\ req'[r].count = events[s]
  BY <1>1 DEF CountDownloads, GateInv, TypeOK, RequestState
<1>4. ~req[r].late
  BY <1>3 DEF GateInv, AccessInv, LateStopped
<1>5. VisitAt(req[r]) = Gate!Inside(s)
  BY <1>1, <1>2, <1>3, <1>4, VisitStages
<1>6. VisitAt(req'[r]) = Gate!Informed(s, events[s])
  BY <1>1, <1>2, <1>3, VisitStages
<1>7. GateVisit[r] = Gate!Inside(s) /\ GateVisit' = [GateVisit EXCEPT ![r] = Gate!Informed(s, events[s])]
  BY <1>2, <1>5, <1>6, OneVisit DEF GateVisit
<1>8. Gate!Look(r, s)
  BY <1>2, <1>7, SameLife DEF Gate!Look
<1> QED
  BY <1>8 DEF Gate!Next

\* Who takes the shipment saw fewer downloads than its limit.
LEMMA TakeGate ==
  ASSUME GateInv, TypeOK', NEW r \in Requests, CreateDownloadEvent(r)
  PROVE  [Gate!Next]_(Gate!vars)
<1>1. PICK s \in Shipments : s = ShipmentOf[req[r].tok]
  BY GateTypes DEF GateInv
<1>2. /\ UNCHANGED <<now, shipment>> /\ now \in Nat /\ shipment[s] \in ShipmentRow
      /\ req[r] \in RequestState /\ req'[r] \in RequestState
      /\ \A q \in Requests \ {r} : req'[q] = req[q]
  BY DEF GateInv, TypeOK, CreateDownloadEvent
<1>3. /\ req[r].pc = "granted" /\ req'[r].pc = "logged" /\ ShipmentExists(s)
      /\ events' = [events EXCEPT ![s] = events[s] + 1]
  BY <1>1 DEF CreateDownloadEvent, GateInv, TypeOK, RequestState
<1>4. Finalized(s) /\ (shipment[s].status # "purged" => req[r].max = shipment[s].max)
  BY <1>1, <1>3 DEF GateInv, LimitInv, ReadFinalized, PassedShipment
<1>5. shipment[s].status \in Downloadable \cup Closed /\ shipment[s].status # "purged"
  BY <1>3, <1>4 DEF ShipmentExists, Stored, Finalized, PreSend, Downloadable, Closed
<1>6. req[r].count < shipment[s].max
  BY <1>3, <1>4, <1>5 DEF GateInv, LimitInv, GrantedBelowLimit
<1>7. GateLimit[s] = shipment[s].max
  BY <1>5 DEF GateLimit
<1>8. GateLife[s] \in {"open", "closed"}
  <2>1. shipment[s].expiresAt >= now \/ shipment[s].expiresAt < now
    BY <1>2 DEF ShipmentRow
  <2> QED
    BY <1>2, <1>5, <2>1, LifeStages DEF GateLife
<1>9. GateVisit[r] = Gate!Informed(s, req[r].count)
  BY <1>1, <1>2, <1>3, VisitStages DEF GateVisit
<1>10. GateVisit' = [GateVisit EXCEPT ![r] = Gate!Outside]
  <2>1. VisitAt(req'[r]) = Gate!Outside
    BY <1>2, <1>3, VisitStages
  <2> QED
    BY <1>2, <2>1, OneVisit
<1>11. /\ GateVisit[r].stage = "informed" /\ GateVisit[r].of = s
       /\ GateVisit[r].seen < GateLimit[s]
  BY <1>6, <1>7, <1>9 DEF Gate!Informed
<1>12. Gate!Take(r, s)
  BY <1>2, <1>3, <1>8, <1>10, <1>11, SameLife DEF Gate!Take
<1> QED
  BY <1>12 DEF Gate!Next

\* The last statement moves sent to accessed, and nothing else.
LEMMA CountedGate ==
  ASSUME GateInv, TypeOK', NEW r \in Requests, IncrementShipmentDownloadCount(r)
  PROVE  UNCHANGED Gate!vars
<1>1. PICK s \in Shipments : s = ShipmentOf[req[r].tok]
  BY GateTypes DEF GateInv
<1>2. /\ UNCHANGED <<now, events>> /\ now \in Nat
      /\ shipment \in [Shipments -> ShipmentRow]
      /\ req \in [Requests -> RequestState] /\ req' = [req EXCEPT ![r] = IdleRequest]
      /\ req[r].pc = "tallied"
      /\ shipment' = [shipment EXCEPT ![s].current = @ + 1, ![s].status = AfterDownload(@)]
  BY <1>1 DEF IncrementShipmentDownloadCount, GateInv, TypeOK
<1>3. /\ \A q \in Shipments \ {s} : shipment'[q] = shipment[q]
      /\ shipment'[s].status = AfterDownload(shipment[s].status)
      /\ shipment'[s].max = shipment[s].max /\ shipment'[s].expiresAt = shipment[s].expiresAt
  BY <1>2 DEF ShipmentRow
<1>4. LifeAt(shipment'[s], now') = LifeAt(shipment[s], now)
  BY <1>2, <1>3 DEF AfterDownload, LifeAt, PreSend, Downloadable
<1>5. shipment'[s].status = "purged" <=> shipment[s].status = "purged"
  BY <1>3 DEF AfterDownload
<1>6. VisitAt(req'[r]) = VisitAt(req[r])
  <2>1. req'[r] = IdleRequest /\ IdleRequest \in RequestState /\ req[r] \in RequestState
    BY <1>2, IdleTypes
  <2>2. IdleRequest.pc = "idle"
    BY DEF IdleRequest
  <2> QED
    BY <1>2, <2>1, <2>2, VisitStages
<1>7. \A q \in Requests \ {r} : req'[q] = req[q]
  BY <1>2
<1> QED
  BY <1>2, <1>3, <1>4, <1>5, <1>6, <1>7, GateStutters

\* A request that stops leaves, if it was in.
LEMMA LeaveGate ==
  ASSUME GateInv, TypeOK', NEW r \in Requests, Abandon(r)
  PROVE  [Gate!Next]_(Gate!vars)
<1>1. /\ UNCHANGED <<now, shipment, events>> /\ req \in [Requests -> RequestState]
      /\ req' = [req EXCEPT ![r] = IdleRequest]
  BY DEF Abandon, GateInv, TypeOK
<1>2. VisitAt(req'[r]) = Gate!Outside
  <2>1. req'[r] = IdleRequest /\ IdleRequest \in RequestState
    BY <1>1, IdleTypes
  <2>2. IdleRequest.pc = "idle"
    BY DEF IdleRequest
  <2> QED
    BY <2>1, <2>2, VisitStages
<1>3. \A q \in Requests \ {r} : req'[q] = req[q]
  BY <1>1
<1>4. CASE VisitAt(req[r]) = Gate!Outside
  BY <1>1, <1>2, <1>3, <1>4, QuietRequest
<1>5. CASE VisitAt(req[r]) # Gate!Outside
  <2>1. GateVisit[r] # Gate!Outside /\ GateVisit' = [GateVisit EXCEPT ![r] = Gate!Outside]
    BY <1>2, <1>3, <1>5, OneVisit DEF GateVisit
  <2>2. Gate!Leave(r)
    BY <1>1, <2>1, SameLife DEF Gate!Leave
  <2> QED
    BY <2>2 DEF Gate!Next
<1> QED
  BY <1>4, <1>5

\* A download.
LEMMA RequestGate ==
  ASSUME GateInv, TypeOK', RequestStep
  PROVE  [Gate!Next]_(Gate!vars)
<1>1. PICK r \in Requests :
        \/ \E t \in Tokens : ReadToken(r, t)
        \/ ReadShipment(r) \/ CountDownloads(r) \/ CheckLimit(r)
        \/ CreateDownloadEvent(r) \/ UpdateAccessTokenUsage(r)
        \/ IncrementShipmentDownloadCount(r) \/ Abandon(r)
  BY DEF RequestStep
<1>2. CASE ReadShipment(r) \/ CheckLimit(r) \/ UpdateAccessTokenUsage(r)
  <2>1. /\ UNCHANGED <<now, shipment, events>> /\ req[r] \in RequestState /\ req'[r] \in RequestState
        /\ \A q \in Requests \ {r} : req'[q] = req[q]
    BY <1>2 DEF ReadShipment, CheckLimit, UpdateAccessTokenUsage, GateInv, TypeOK
  <2>2. /\ req'[r].tok = req[r].tok /\ req'[r].late = req[r].late /\ req'[r].count = req[r].count
        /\ \/ req[r].pc = "token" /\ req'[r].pc = "shipment"
           \/ req[r].pc = "counted" /\ req'[r].pc = "granted"
           \/ req[r].pc = "logged" /\ req'[r].pc = "tallied"
    BY <1>2 DEF ReadShipment, CheckLimit, UpdateAccessTokenUsage, GateInv, TypeOK, RequestState
  <2>3. VisitAt(req'[r]) = VisitAt(req[r])
    BY <2>2 DEF VisitAt
  <2> QED
    BY <2>1, <2>3, QuietRequest
<1> QED
  BY <1>1, <1>2, EnterGate, LookGate, TakeGate, CountedGate, LeaveGate

\* No row and no request is there to begin with.
LEMMA InitGate ==
  ASSUME Init
  PROVE  Gate!Init
<1>1. GateLife = [s \in Shipments |-> "none"]
  <2>1. TypeOK /\ now = 0 /\ \A s \in Shipments : shipment[s] = NoShipment
    BY InitTypeOK DEF Init
  <2>2. \A s \in Shipments : NoShipment \in ShipmentRow /\ NoShipment.status = "none"
    BY <2>1 DEF TypeOK, NoShipment
  <2>3. \A s \in Shipments : LifeAt(shipment[s], now) = "none"
    BY <2>1, <2>2, LifeStages
  <2> QED
    BY <2>3 DEF GateLife
<1>2. GateLimit \in [Shipments -> Nat]
  BY ConstantsAssumption DEF Init, GateLimit, NoShipment
<1>3. GateVisit = [r \in Requests |-> Gate!Outside]
  BY DEF Init, GateVisit, VisitAt, IdleRequest, Gate!Outside
<1>4. events = [s \in Shipments |-> 0]
  BY DEF Init
<1> QED
  BY <1>1, <1>2, <1>3, <1>4 DEF Gate!Init

\* Every step is a step of the gate or goes unnoticed.
LEMMA NextGate ==
  ASSUME GateInv, TypeOK', [Next]_vars
  PROVE  [Gate!Next]_(Gate!vars)
<1>1. CASE UNCHANGED vars
  BY <1>1, GateSleeps DEF vars
<1> QED
  BY <1>1, OwnerGate, ResendGate, RequestGate, WorkerGate, TickGate DEF Next

\* However tokens, resends, deletes and cleanup runs interleave, a shipment opens once and
\* closes for good, only who asks in time gets in, and takes it at most once, on a limit
\* that does not change and a count read since.
THEOREM GateCorrect == Spec => GateKept
<1>1. Spec => []GateInv
  <2>1. Init => GateInv
    BY InitTypeOK, InitLimitInv, InitAccessInv, InitPurgeInv DEF GateInv
  <2>2. GateInv /\ [Next]_vars => GateInv'
    BY NextTypeOK, NextLimitInv, NextAccessInv, NextPurgeInv DEF GateInv
  <2> QED
    BY <2>1, <2>2, PTL DEF Spec
<1>2. Init => Gate!Init
  BY InitGate
<1>3. GateInv /\ GateInv' /\ [Next]_vars => [Gate!Next]_(Gate!vars)
  BY NextGate DEF GateInv
<1> QED
  BY <1>1, <1>2, <1>3, PTL DEF Spec, GateKept, Gate!Spec
=============================================================================
