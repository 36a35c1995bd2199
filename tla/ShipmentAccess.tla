--------------------------- MODULE ShipmentAccess ---------------------------
(***************************************************************************)
(* The life of a shipment row and of the access tokens that open it:       *)
(* the draft made by an upload, CreateShipment (finalize), resend, delete, *)
(* the cleanup worker, and the download-url requests of recipients.        *)
(*                                                                         *)
(* A statement sent to PostgreSQL, and a transaction, is one atomic step.  *)
(* GenerateDownloadURL sends seven statements outside any transaction, so  *)
(* it is seven steps, and any number of requests, resends, deletes and     *)
(* cleanup runs interleave between them.  A request may stop after any     *)
(* step (error of a statement, refusal by a check, client gone, process    *)
(* killed): Abandon.                                                       *)
(*                                                                         *)
(* Abstracted: passwords and the rate guard (AccessGuard), the files (a    *)
(* file row lives as long as its shipment row here), mails, audit rows.    *)
(* A token row is written for one shipment and never moved: ShipmentOf     *)
(* fixes which shipment a not yet generated token would be for.            *)
(***************************************************************************)
EXTENDS Integers, FiniteSets, FiniteSetsExt

CONSTANTS
  Shipments,    \* ids of shipment rows
  Tokens,       \* ids of access_tokens rows
  Requests,     \* concurrent POST /v1/access/{token}/download-url handlers
  Resenders,    \* concurrent POST /v1/shipments/{id}/resend handlers
  Workers,      \* cleanup worker processes
  ShipmentOf,   \* the shipment a token is generated for
  DraftTTL,     \* expiry of a draft, 7 days in the code
  MinTTL,       \* smallest expiry accepted at finalize, 1 day
  MaxTTL,       \* largest expiry accepted at finalize, 14 days
  DefaultMax,   \* max_downloads of a draft, 10 in the code
  MaxLimit,     \* largest max_downloads accepted at finalize, 100
  Grace,        \* DeletionGrace, 24 hours
  BatchSize,    \* CLEANUP_BATCH_SIZE
  MaxClock      \* bound of the model on the clock

ASSUME ConstantsAssumption ==
  /\ Shipments # {} /\ Tokens # {}
  /\ IsFiniteSet(Requests)
  /\ ShipmentOf \in [Tokens -> Shipments]
  /\ DraftTTL \in Nat /\ MinTTL \in Nat /\ MaxTTL \in Nat
  /\ DefaultMax \in Nat \ {0}
  /\ MaxLimit \in Nat \ {0}
  /\ Grace \in Nat
  /\ BatchSize \in Nat \ {0}
  /\ MaxClock \in Nat

VARIABLES
  now,        \* the clock every process reads
  shipment,   \* rows of shipments
  token,      \* rows of access_tokens
  events,     \* number of download_events rows with result 'success', per shipment
  req,        \* local state of the download-url handlers
  resend,     \* local state of the resend handlers
  deleting,   \* deletes whose second RevokeAccessTokensByShipment is outstanding
  worker      \* local state of the cleanup workers

vars == <<now, shipment, token, events, req, resend, deleting, worker>>

----------------------------------------------------------------------------
(* Rows.  "none" is a row not inserted yet, "purged" one physically gone. *)

PreSend      == {"draft", "uploading", "ready"}
Downloadable == {"sent", "accessed"}
Closed       == {"expired", "deleted", "revoked"}
Stored       == PreSend \cup Downloadable \cup Closed

ShipmentRow == [status    : Stored \cup {"none", "purged"},
                mode      : {"recipient_restricted", "url_shared"},
                expiresAt : Nat,
                max       : Nat \ {0},
                current   : Nat,
                deletedAt : Nat]

TokenRow == [status    : {"none", "active", "used", "revoked", "purged"},
             revokedAt : BOOLEAN,
             expiresAt : Nat,
             maxUses   : Nat,
             used      : Nat]

NoShipment == [status |-> "none", mode |-> "recipient_restricted",
               expiresAt |-> 0, max |-> DefaultMax, current |-> 0, deletedAt |-> 0]
NoToken    == [status |-> "none", revokedAt |-> FALSE,
               expiresAt |-> 0, maxUses |-> 0, used |-> 0]

ShipmentExists(s) == shipment[s].status \in Stored
TokenExists(t)    == token[t].status \in {"active", "used", "revoked"}
TokensOf(s)       == {t \in Tokens : ShipmentOf[t] = s}
FreshTokens(s)    == {t \in TokensOf(s) : token[t].status = "none"}

\* Local states.  A handler keeps what it has read: the token row, the time, the
\* limit and the number of downloads.  late is history: the shipment had already
\* ended when the token was read.
RequestState == [pc    : {"idle", "token", "shipment", "counted",
                          "granted", "logged", "tallied"},
                 tok   : Tokens,
                 at    : Nat,
                 max   : Nat \ {0},
                 count : Nat,
                 late  : BOOLEAN]

ResendState == [pc : {"idle", "loop"}, s : Shipments, expiresAt : Nat, max : Nat]

WorkerState == [pc : {"idle", "expire", "purge"}, at : Nat, batch : SUBSET Shipments]

\* The shipment can no longer be opened by somebody who asks now.
Ended(s) == shipment[s].status \in Closed \cup {"purged"} \/ shipment[s].expiresAt < now

IdleRequest == [pc |-> "idle", tok |-> CHOOSE t \in Tokens : TRUE,
                at |-> 0, max |-> 1, count |-> 0, late |-> FALSE]
IdleResend  == [pc |-> "idle", s |-> CHOOSE s \in Shipments : TRUE, expiresAt |-> 0, max |-> 0]
IdleWorker  == [pc |-> "idle", at |-> 0, batch |-> {}]

Init ==
  /\ now = 0
  /\ shipment = [s \in Shipments |-> NoShipment]
  /\ token = [t \in Tokens |-> NoToken]
  /\ events = [s \in Shipments |-> 0]
  /\ req = [r \in Requests |-> IdleRequest]
  /\ resend = [x \in Resenders |-> IdleResend]
  /\ deleting = {}
  /\ worker = [w \in Workers |-> IdleWorker]

----------------------------------------------------------------------------
(* The owner: draft, finalize, delete, resend. *)

\* CreateUploadSession without a shipment id inserts a draft first.
CreateDraft(s) ==
  /\ shipment[s].status = "none"
  /\ shipment' = [shipment EXCEPT ![s] = [NoShipment EXCEPT
                     !.status = "uploading", !.expiresAt = now + DraftTTL]]
  /\ UNCHANGED <<now, token, events, req, resend, deleting, worker>>

ActiveToken(expiresAt, maxUses) ==
  [status |-> "active", revokedAt |-> FALSE,
   expiresAt |-> expiresAt, maxUses |-> maxUses, used |-> 0]

\* Values of max_downloads that validateAndNormalize accepts.
LimitsFromZero == 0 .. MaxLimit      \* with the lower bound forgotten
Limits == 1 .. MaxLimit

\* FinalizeShipment: locks the row, re-checks the status under the lock, sets
\* the row to sent and inserts one token per recipient, or one for the URL.
\* It looks at the status only: a draft past its own expires_at is accepted.
FinalizeShipment(s) ==
  \E mode \in {"recipient_restricted", "url_shared"},
     expiresAt \in now + MinTTL .. now + MaxTTL,
     max \in Limits,
     new \in (SUBSET FreshTokens(s)) \ {{}} :
       /\ shipment[s].status \in PreSend
       /\ mode = "url_shared" => Cardinality(new) = 1
       /\ shipment' = [shipment EXCEPT ![s].status = "sent", ![s].mode = mode,
                                       ![s].expiresAt = expiresAt, ![s].max = max]
       /\ token' = [t \in Tokens |->
                      IF t \in new THEN ActiveToken(expiresAt, max) ELSE token[t]]
       /\ UNCHANGED <<now, events, req, resend, deleting, worker>>

Revoke(s) ==
  [t \in Tokens |->
    IF t \in TokensOf(s) /\ TokenExists(t)
    THEN [token[t] EXCEPT !.status = "revoked", !.revokedAt = TRUE]
    ELSE token[t]]

\* The transaction of TransactionalAuditQueries.DeleteShipment.  The status
\* that DeleteShipmentByUser read before it is re-checked by its UPDATE.
DeleteShipment(s) ==
  /\ ShipmentExists(s)
  /\ shipment[s].status \notin {"deleted", "revoked"}
  /\ shipment' = [shipment EXCEPT ![s].status = "deleted", ![s].deletedAt = now]
  /\ token' = Revoke(s)
  /\ deleting' = deleting \cup {s}
  /\ UNCHANGED <<now, events, req, resend, worker>>

\* DeleteShipmentByUser revokes once more after the transaction.
RevokeAccessTokens(s) ==
  /\ s \in deleting
  /\ token' = Revoke(s)
  /\ deleting' = deleting \ {s}
  /\ UNCHANGED <<now, shipment, events, req, resend, worker>>

\* ResendShipmentNotification reads the row once, without a lock ...
StartResend(x, s) ==
  /\ resend[x].pc = "idle"
  /\ ShipmentExists(s)
  /\ shipment[s].mode = "recipient_restricted"
  /\ shipment[s].status \in {"sent", "ready"}
  /\ shipment[s].expiresAt >= now
  /\ resend' = [resend EXCEPT ![x] = [pc |-> "loop", s |-> s,
                   expiresAt |-> shipment[s].expiresAt, max |-> shipment[s].max]]
  /\ UNCHANGED <<now, shipment, token, events, req, deleting, worker>>

\* ... and inserts a token per target from what it read; the foreign key needs the row.
ResendToken(x, t) ==
  /\ resend[x].pc = "loop"
  /\ t \in FreshTokens(resend[x].s)
  /\ ShipmentExists(resend[x].s)
  /\ token' = [token EXCEPT ![t] = ActiveToken(resend[x].expiresAt, resend[x].max)]
  /\ UNCHANGED <<now, shipment, events, req, resend, deleting, worker>>

EndResend(x) ==
  /\ resend[x].pc = "loop"
  /\ resend' = [resend EXCEPT ![x] = IdleResend]
  /\ UNCHANGED <<now, shipment, token, events, req, deleting, worker>>

----------------------------------------------------------------------------
(* GenerateDownloadURL, one action per statement. *)

ReadToken(r, t) ==
  /\ req[r].pc = "idle"
  /\ TokenExists(t)
  /\ token[t].status # "revoked" /\ ~token[t].revokedAt
  /\ token[t].expiresAt >= now
  /\ ~(token[t].maxUses > 0 /\ token[t].used >= token[t].maxUses)
  /\ req' = [req EXCEPT ![r] = [IdleRequest EXCEPT !.pc = "token", !.tok = t, !.at = now,
                                  !.late = Ended(ShipmentOf[t])]]
  /\ UNCHANGED <<now, shipment, token, events, resend, deleting, worker>>

\* The checks of resolveAccessState on the shipment row.
UnexpiredOnly(s, at) == ShipmentExists(s) /\ shipment[s].expiresAt >= at    \* status not looked at
Accessible(s, at) ==
  /\ ShipmentExists(s)
  /\ shipment[s].expiresAt >= at
  /\ shipment[s].status \in Downloadable

\* The expiry is compared with the time taken right after the token was read.
ReadShipment(r) ==
  LET s == ShipmentOf[req[r].tok] IN
  /\ req[r].pc = "token"
  /\ Accessible(s, req[r].at)
  /\ req' = [req EXCEPT ![r].pc = "shipment", ![r].max = shipment[s].max]
  /\ UNCHANGED <<now, shipment, token, events, resend, deleting, worker>>

CountDownloads(r) ==
  /\ req[r].pc = "shipment"
  /\ req' = [req EXCEPT ![r].pc = "counted", ![r].count = events[ShipmentOf[req[r].tok]]]
  /\ UNCHANGED <<now, shipment, token, events, resend, deleting, worker>>

AtMostLimit(r) == req[r].count <= req[r].max      \* off by one
BelowLimit(r)  == req[r].count < req[r].max

\* GetFileByID, the comparison with the limit, and the presigned URL.
CheckLimit(r) ==
  /\ req[r].pc = "counted"
  /\ ShipmentExists(ShipmentOf[req[r].tok])
  /\ BelowLimit(r)
  /\ req' = [req EXCEPT ![r].pc = "granted"]
  /\ UNCHANGED <<now, shipment, token, events, resend, deleting, worker>>

\* The insert failed and the error is dropped, as logDownloadEvent does.
IgnoreEventError(r) ==
  /\ req[r].pc = "granted"
  /\ req' = [req EXCEPT ![r].pc = "logged"]
  /\ UNCHANGED <<now, shipment, token, events, resend, deleting, worker>>

CreateDownloadEvent(r) ==
  LET s == ShipmentOf[req[r].tok] IN
  /\ req[r].pc = "granted"
  /\ ShipmentExists(s)
  /\ events' = [events EXCEPT ![s] = @ + 1]
  /\ req' = [req EXCEPT ![r].pc = "logged"]
  /\ UNCHANGED <<now, shipment, token, resend, deleting, worker>>

\* A revoked token is overwritten with 'used' at its last use; revoked_at stays.
UpdateAccessTokenUsage(r) ==
  LET t == req[r].tok IN
  /\ req[r].pc = "logged"
  /\ TokenExists(t)
  /\ token' = [token EXCEPT
       ![t].used   = @ + 1,
       ![t].status = IF token[t].used + 1 >= token[t].maxUses THEN "used" ELSE @]
  /\ req' = [req EXCEPT ![r].pc = "tallied"]
  /\ UNCHANGED <<now, shipment, events, resend, deleting, worker>>

AlwaysAccessed(st) == "accessed"      \* without the CASE
AfterDownload(st)  == IF st = "sent" THEN "accessed" ELSE st

\* The last statement; the URL is returned after it.
IncrementShipmentDownloadCount(r) ==
  LET s == ShipmentOf[req[r].tok] IN
  /\ req[r].pc = "tallied"
  /\ ShipmentExists(s)
  /\ shipment' = [shipment EXCEPT
       ![s].current = @ + 1,
       ![s].status  = AfterDownload(@)]
  /\ req' = [req EXCEPT ![r] = IdleRequest]
  /\ UNCHANGED <<now, token, events, resend, deleting, worker>>

Abandon(r) ==
  /\ req[r].pc # "idle"
  /\ req' = [req EXCEPT ![r] = IdleRequest]
  /\ UNCHANGED <<now, shipment, token, events, resend, deleting, worker>>

----------------------------------------------------------------------------
(* CleanupWorker.RunOnce. *)

\* ORDER BY key LIMIT BatchSize.
Batches(S, key) ==
  {B \in SUBSET S :
     /\ Cardinality(B) = Min({Cardinality(S), BatchSize})
     /\ \A b \in B, x \in S \ B : key[b] <= key[x]}

ListExpiredSent(at) ==      \* only never accessed shipments
  {s \in Shipments : shipment[s].status = "sent" /\ shipment[s].expiresAt < at}

ListExpired(at) ==
  {s \in Shipments : ShipmentExists(s) /\ shipment[s].expiresAt < at /\ shipment[s].status \notin Closed}

ListDeletedAtOnce(at) ==      \* without the grace period
  {s \in Shipments : shipment[s].status = "deleted"}

ListDeletedLately(at) ==      \* comparison the wrong way round
  {s \in Shipments : shipment[s].status = "deleted" /\ shipment[s].deletedAt > at - Grace}

ListDeleted(at) ==
  {s \in Shipments : shipment[s].status = "deleted" /\ shipment[s].deletedAt < at - Grace}

StartRun(w) ==
  /\ worker[w].pc = "idle"
  /\ \E B \in Batches(ListExpired(now), [s \in Shipments |-> shipment[s].expiresAt]) :
       worker' = [worker EXCEPT ![w] = [pc |-> "expire", at |-> now, batch |-> B]]
  /\ UNCHANGED <<now, shipment, token, events, req, resend, deleting>>

\* The UPDATE looks at the status, not at expires_at.
MarkExpired(w, s) ==
  /\ worker[w].pc = "expire"
  /\ s \in worker[w].batch
  /\ shipment' = IF ShipmentExists(s) /\ shipment[s].status \notin Closed
                 THEN [shipment EXCEPT ![s].status = "expired"]
                 ELSE shipment
  /\ worker' = [worker EXCEPT ![w].batch = @ \ {s}]
  /\ UNCHANGED <<now, token, events, req, resend, deleting>>

StartPurge(w) ==
  /\ worker[w].pc = "expire"
  /\ worker[w].batch = {}
  /\ \E B \in Batches(ListDeleted(worker[w].at), [s \in Shipments |-> shipment[s].deletedAt]) :
       worker' = [worker EXCEPT ![w].pc = "purge", ![w].batch = B]
  /\ UNCHANGED <<now, shipment, token, events, req, resend, deleting>>

\* All objects deleted, then DeleteShipmentCascade in one transaction.
Purge(w, s) ==
  /\ worker[w].pc = "purge"
  /\ s \in worker[w].batch
  /\ shipment' = [shipment EXCEPT ![s] = [NoShipment EXCEPT !.status = "purged"]]
  /\ token' = [t \in Tokens |-> IF t \in TokensOf(s) /\ TokenExists(t)
                                THEN [NoToken EXCEPT !.status = "purged"] ELSE token[t]]
  /\ events' = [events EXCEPT ![s] = 0]
  /\ worker' = [worker EXCEPT ![w].batch = @ \ {s}]
  /\ UNCHANGED <<now, req, resend, deleting>>

\* One shipment failed (an UPDATE, S3 after its retries, the cascade): logged, next one.
SkipShipment(w, s) ==
  /\ s \in worker[w].batch
  /\ worker' = [worker EXCEPT ![w].batch = @ \ {s}]
  /\ UNCHANGED <<now, shipment, token, events, req, resend, deleting>>

\* RunOnce returned, by an error of a list query too, or the process was restarted.
EndRun(w) ==
  /\ worker[w].pc # "idle"
  /\ worker' = [worker EXCEPT ![w] = IdleWorker]
  /\ UNCHANGED <<now, shipment, token, events, req, resend, deleting>>

Tick ==
  /\ now < MaxClock
  /\ now' = now + 1
  /\ UNCHANGED <<shipment, token, events, req, resend, deleting, worker>>

----------------------------------------------------------------------------
OwnerStep ==
  \E s \in Shipments :
    \/ CreateDraft(s)
    \/ FinalizeShipment(s)
    \/ DeleteShipment(s)
    \/ RevokeAccessTokens(s)

ResendStep ==
  \E x \in Resenders :
    \/ \E s \in Shipments : StartResend(x, s)
    \/ \E t \in Tokens : ResendToken(x, t)
    \/ EndResend(x)

RequestStep ==
  \E r \in Requests :
    \/ \E t \in Tokens : ReadToken(r, t)
    \/ ReadShipment(r)
    \/ CountDownloads(r)
    \/ CheckLimit(r)
    \/ CreateDownloadEvent(r)
    \/ UpdateAccessTokenUsage(r)
    \/ IncrementShipmentDownloadCount(r)
    \/ Abandon(r)

WorkerStep ==
  \E w \in Workers :
    \/ StartRun(w)
    \/ \E s \in Shipments : MarkExpired(w, s)
    \/ StartPurge(w)
    \/ \E s \in Shipments : Purge(w, s)
    \/ \E s \in Shipments : SkipShipment(w, s)
    \/ EndRun(w)

Next == OwnerStep \/ ResendStep \/ RequestStep \/ WorkerStep \/ Tick

Spec == Init /\ [][Next]_vars

\* The worker's ticker starts a run again and again; a run that is cut short or
\* a shipment that fails is retried by the next run, and not for ever.
Fairness ==
  \A w \in Workers :
    /\ WF_vars(StartRun(w))
    /\ SF_vars(StartPurge(w))
    /\ WF_vars(EndRun(w))
    /\ \A s \in Shipments : SF_vars(MarkExpired(w, s)) /\ SF_vars(Purge(w, s))

FairSpec == Spec /\ Fairness

----------------------------------------------------------------------------
(* Properties. *)

\* Every row holds what its columns allow (status enum, CHECK max_downloads > 0), and a
\* handler's local state is well formed.
TypeOK ==
  /\ now \in Nat
  /\ shipment \in [Shipments -> ShipmentRow]
  /\ token \in [Tokens -> TokenRow]
  /\ events \in [Shipments -> Nat]
  /\ req \in [Requests -> RequestState]
  /\ resend \in [Resenders -> ResendState]
  /\ deleting \subseteq Shipments
  /\ worker \in [Workers -> WorkerState]

\* Requests that have read a count below the limit and not yet written their event.
InFlight(s) ==
  {r \in Requests : /\ req[r].pc \in {"counted", "granted"}
                    /\ ShipmentOf[req[r].tok] = s
                    /\ req[r].count < req[r].max}

\* The limit is checked against a count read before the event is written, so it can
\* be exceeded, but never by more than the requests that run at the same time, less
\* one: however resends, deletes and cleanup interleave, the successful downloads of
\* a shipment stay below max_downloads plus the number of concurrent handlers.
OvershootBounded ==
  \A s \in Shipments : events[s] <= shipment[s].max + Cardinality(Requests) - 1

UsesOf(s) == MapThenSumSet(LAMBDA t : token[t].used, TokensOf(s))

\* The three tallies of a download are written by three separate statements, event
\* first, shipment counter last, and a request may die between any two: the counter
\* of the row never exceeds the uses of its tokens, nor these the recorded events.
TalliesOrdered ==
  \A s \in Shipments : shipment[s].current <= UsesOf(s) /\ UsesOf(s) <= events[s]

\* A request that reads its token after its shipment was deleted, expired, or ran past
\* its expiry gets no URL, even with a token that the revocation missed (a resend
\* that read the row before the delete inserts one afterwards).
NoAccessAfterEnd ==
  \A r \in Requests : req[r].late => req[r].pc \in {"idle", "token"}

Rank(st) == CASE st = "none"       -> 0
              [] st \in PreSend    -> 1
              [] st = "sent"       -> 2
              [] st = "accessed"   -> 3
              [] st = "expired"    -> 4
              [] st = "deleted"    -> 5
              [] st = "revoked"    -> 5
              [] st = "purged"     -> 6

\* The status of a shipment only moves forward: a download that finishes late, a
\* finalize or an expiry run never brings back a shipment that a delete, an expiry
\* or the physical purge has closed.
StatusOnlyAdvances ==
  [][\A s \in Shipments : Rank(shipment[s].status) <= Rank(shipment'[s].status)]_shipment

\* Rows are physically purged only when the owner deleted the shipment more than the
\* grace period ago, whatever the purging run had listed.
PurgedOnlyAfterGrace ==
  [][\A s \in Shipments :
       shipment[s].status # "purged" /\ shipment'[s].status = "purged" =>
         shipment[s].status = "deleted" /\ shipment[s].deletedAt + Grace < now]_shipment

\* How ShipmentGate sees a row at time t: it is closed once its date has passed, before any
\* cleanup run says so.
LifeAt(row, t) ==
  CASE row.status = "none"                                 -> "none"
    [] row.status \in PreSend                              -> "draft"
    [] row.status \in Downloadable /\ row.expiresAt >= t    -> "open"
    [] row.status = "purged"                               -> "gone"
    [] OTHER                                               -> "closed"

\* And a request: one that was late when it read its token never comes in, and one that has
\* written its event is out.
VisitAt(q) ==
  CASE q.pc \in {"token", "shipment"} /\ ~q.late -> [stage |-> "in", of |-> ShipmentOf[q.tok]]
    [] q.pc \in {"counted", "granted"} ->
         [stage |-> "informed", of |-> ShipmentOf[q.tok], seen |-> q.count]
    [] OTHER -> [stage |-> "out"]

GateLife  == [s \in Shipments |-> LifeAt(shipment[s], now)]
GateLimit == [s \in Shipments |-> IF shipment[s].status = "purged" THEN 0 ELSE shipment[s].max]
GateVisit == [r \in Requests |-> VisitAt(req[r])]

Gate == INSTANCE ShipmentGate WITH
  Visitors <- Requests, life <- GateLife, limit <- GateLimit,
  downloads <- events, visit <- GateVisit

\* Whatever tokens, resends, deletes and cleanup runs do: a shipment opens once and closes
\* for good, by deletion, by a cleanup run or by its date; only who asks while it is open
\* gets in, and takes it at most once, on a limit that never changes and a count it has
\* read after it came in.
GateKept == Gate!Spec

\* Every stored shipment past its expiry is eventually closed by the cleanup runs,
\* unless it was a draft that its owner still finalized with a new expiry.
ExpiredEventuallyClosed ==
  \A s \in Shipments :
    (ShipmentExists(s) /\ shipment[s].expiresAt < now)
      ~> (shipment[s].status \in Closed \cup {"purged"} \/ shipment[s].expiresAt >= now)

\* Every deleted shipment past the grace period is eventually purged, although
\* deleting its objects may fail in any finite number of runs.
DeletedEventuallyPurged ==
  \A s \in Shipments :
    (shipment[s].status = "deleted" /\ shipment[s].deletedAt + Grace < now)
      ~> shipment[s].status = "purged"

(* What the documents say and the code does not do. *)

\* Only a shipment past its expires_at is marked expired.
ExpiredOnlyPastExpiry ==
  \A s \in Shipments : shipment[s].status = "expired" => shipment[s].expiresAt < now
=============================================================================
