---------------------------- MODULE OrgSeatsProofs ----------------------------
(***************************************************************************)
(* Proofs about OrgSeats, for any accounts, handlers and numbers of seats: *)
(* types, that an invitation is accepted once and by its latest token,     *)
(* that its status is final, that a pending one has its mail, that the     *)
(* members exceed the seats by overtaken handlers only, and with the       *)
(* invitations by what does not count them only.  The argument follows the *)
(* locks: a locked row is pending and belongs to a handler in its          *)
(* transaction, and no two handlers that lock the organization are past    *)
(* their count together.                                                   *)
(***************************************************************************)
EXTENDS OrgSeats, SequenceTheorems, FiniteSetTheorems, TLAPS

Seated  == Adders \cup Acceptors
Issued  == {"mail", "remail", "revoke", "failed"}
Counted == {"mail", "remail", "revoke", "refresh", "done", "refused", "failed"}
Created == {p \in Inviters : req[p].pc \in Counted}
Spent   == {q \in overtaken : ~ At(q, "insert")}

TypeInv ==
  /\ member \in [Users -> Roles \cup {"none"}]
  /\ invitation \in Seq(InvitationRow)
  /\ orgLock \in Inviters \cup Acceptors \cup {None}
  /\ limit \in 1 .. MaxSeats /\ peak \in limit .. MaxSeats /\ changes \in 0 .. MaxChanges
  /\ mailed \subseteq InvIds \X Tokens
  /\ joined \subseteq [by : Acceptors, inv : InvIds, token : Tokens, user : Users]
  /\ overtaken \subseteq Seated
  /\ req \in [Requests -> RequestState]

\* A locked row is pending, and its holder is at work on it.
LockFine(i) ==
  LET p == invitation[i].lock IN
  p # None =>
    /\ Pending(i) /\ p \in Inviters \cup Acceptors
    /\ p \in Inviters => req[p].pc \in {"count", "insert"}
    /\ p \in Acceptors => req[p].pc \in {"org", "count", "insert"} /\ req[p].inv = i

MailFine(i) ==
  Pending(i) => \/ <<i, invitation[i].token>> \in mailed
                \/ LET p == invitation[i].token
                   IN p # None /\ req[p].inv = i /\ req[p].pc \in Issued

AdderFine(p) ==
  /\ req[p].pc \in {"start", "limit", "usage", "insert", "sync", "undo", "done", "failed"}
  /\ req[p].pc = "usage" => req[p].limit <= peak

RemoverFine(p) == req[p].pc \in {"start", "done", "failed"}

InviterFine(p) ==
  /\ req[p].pc \in {"start", "begin", "org", "stale", "count", "insert", "mail", "remail",
                    "revoke", "refresh", "done", "refused", "failed"}
  /\ req[p].pc \notin {"start", "done", "refused", "failed"} => req[p].token = p
  /\ req[p].pc \in {"mail", "remail", "revoke", "refresh"} => req[p].inv \in DOMAIN invitation

\* An acceptance that has locked its row holds it as it was found, and then the organization.
AcceptorFine(p) ==
  /\ req[p].pc \in {"start", "row", "org", "count", "insert", "done", "failed"}
  /\ req[p].pc \in {"row", "org", "count", "insert"} =>
       req[p].inv \in DOMAIN invitation /\ invitation[req[p].inv].email = req[p].user
  /\ req[p].pc \in {"org", "count", "insert"} =>
       /\ invitation[req[p].inv].lock = p /\ Pending(req[p].inv)
       /\ invitation[req[p].inv].token = req[p].token
  /\ req[p].pc \in {"count", "insert"} => orgLock = p

\* Who has counted and was not overtaken still finds the seat free.
SeatFine(p) ==
  /\ req[p].pc = "insert" /\ p \notin overtaken => Cardinality(Members) < peak
  /\ p \in overtaken => req[p].pc \in {"insert", "sync", "undo", "done", "failed"}

OrgFine == orgLock # None => req[orgLock].pc \in {"stale", "count", "insert"}

JoinFine ==
  /\ \A x, y \in joined : x.inv = y.inv => x = y
  /\ \A x \in joined : /\ x.inv \in DOMAIN invitation
                       /\ invitation[x.inv].status = "accepted"
                       /\ invitation[x.inv].token = x.token /\ invitation[x.inv].email = x.user

\* Only overtaken handlers that have inserted their row, or given up, count.
SpentFine == Cardinality(Members) <= peak + Cardinality(Spent)

LengthFine == Len(invitation) <= Cardinality(Invited) + Cardinality(Created)

IInv ==
  /\ TypeInv
  /\ \A i \in DOMAIN invitation : LockFine(i) /\ MailFine(i)
  /\ \A p \in Adders : AdderFine(p)
  /\ \A p \in Removers : RemoverFine(p)
  /\ \A p \in Inviters : InviterFine(p)
  /\ \A p \in Acceptors : AcceptorFine(p)
  /\ \A p \in Seated : SeatFine(p)
  /\ OrgFine /\ JoinFine /\ SpentFine /\ LengthFine

\* What a step may do to the rows that are there.
Final ==
  \A i \in DOMAIN invitation :
    /\ i \in DOMAIN invitation' /\ invitation'[i].email = invitation[i].email
    /\ ~ Pending(i) => /\ invitation'[i].status = invitation[i].status
                       /\ invitation'[i].token = invitation[i].token

\* A step of one handler: the others, and the rows they have locked, stay as they are.
StepOf(p) ==
  /\ \A q \in Requests \ {p} : req'[q] = req[q]
  /\ \A i \in DOMAIN invitation :
       invitation[i].lock \notin {None, p} => invitation'[i] = invitation[i]
  /\ orgLock \notin {None, p} => orgLock' = orgLock

----------------------------------------------------------------------------
(* Types and numbers. *)

\* Classes of handlers.
LEMMA Classes ==
  /\ Requests = Adders \cup Removers \cup Inviters \cup Acceptors
  /\ None \notin Requests
  /\ Adders \cap (Removers \cup Inviters \cup Acceptors) = {}
  /\ Acceptors \cap (Removers \cup Inviters) = {} /\ Removers \cap Inviters = {}
BY SeatsAssumption DEF Requests

\* Rows and local states.
LEMMA Fields ==
  ASSUME TypeInv
  PROVE  /\ DOMAIN invitation = 1 .. Len(invitation) /\ Len(invitation) \in Nat
         /\ invitation \in [DOMAIN invitation -> InvitationRow]
         /\ \A i \in DOMAIN invitation :
              /\ invitation[i] \in InvitationRow /\ invitation[i].email \in Users
              /\ invitation[i].status \in {"pending", "accepted", "revoked"}
              /\ invitation[i].token \in Inviters \cup {None}
         /\ \A p \in Requests :
              /\ req[p] \in RequestState /\ req[p].user \in Users /\ req[p].token \in Tokens
              /\ req[p].inv \in 0 .. MaxInvitations /\ req[p].limit \in 0 .. MaxSeats
<1>1. invitation \in Seq(InvitationRow)
  BY DEF TypeInv
<1>2. DOMAIN invitation = 1 .. Len(invitation) /\ Len(invitation) \in Nat
      /\ invitation \in [1 .. Len(invitation) -> InvitationRow]
  BY <1>1, LenProperties
<1>3. \A i \in DOMAIN invitation : invitation[i] \in InvitationRow
  BY <1>2
<1>4. \A p \in Requests : req[p] \in RequestState
  BY DEF TypeInv
<1> QED
  BY <1>2, <1>3, <1>4 DEF InvitationRow, RequestState, Tokens

\* A table with the same indices.
LEMMA Rewritten ==
  ASSUME TypeInv, NEW table \in [DOMAIN invitation -> InvitationRow]
  PROVE  table \in Seq(InvitationRow) /\ Len(table) = Len(invitation)
         /\ DOMAIN table = DOMAIN invitation
<1>1. DOMAIN invitation = 1 .. Len(invitation) /\ Len(invitation) \in Nat
  BY Fields
<1>2. table \in Seq(InvitationRow)
  BY <1>1, SeqDef
<1>3. DOMAIN table = 1 .. Len(table) /\ Len(table) \in Nat /\ DOMAIN table = DOMAIN invitation
  BY <1>2, LenProperties
<1> QED
  BY <1>1, <1>2, <1>3

\* Members are finite, ...
LEMMA MembersFinite ==
  IsFiniteSet(Members) /\ Cardinality(Members) \in Nat
<1>1. Members \in SUBSET Users
  BY DEF Members
<1> QED
  BY <1>1, SeatsAssumption, FS_Subset, FS_CardinalityType

\* ... and so are handlers.
LEMMA HandlersFinite ==
  /\ \A S \in SUBSET Seated : IsFiniteSet(S) /\ Cardinality(S) \in Nat
  /\ \A S \in SUBSET Inviters : /\ IsFiniteSet(S) /\ Cardinality(S) \in Nat
                                /\ Cardinality(S) <= Cardinality(Inviters)
  /\ Cardinality(Inviters) \in Nat /\ Cardinality(Invited) \in Nat
<1>1. IsFiniteSet(Seated)
  BY SeatsAssumption, FS_Union DEF Seated
<1>2. IsFiniteSet(Invited)
  BY SeatsAssumption, FS_Subset
<1> QED
  BY <1>1, <1>2, SeatsAssumption, FS_Subset, FS_CardinalityType

\* Identifiers of rows are in bounds.
LEMMA IdsInBounds ==
  ASSUME TypeInv, LengthFine
  PROVE  Len(invitation) <= MaxInvitations /\ DOMAIN invitation \subseteq InvIds
         /\ MaxInvitations \in Nat
<1>1. Cardinality(Created) \in Nat /\ Cardinality(Created) <= Cardinality(Inviters)
  BY HandlersFinite DEF Created
<1> QED
  BY <1>1, HandlersFinite, Fields DEF LengthFine, MaxInvitations, InvIds

\* Fields of a record that changes.
LEMMA Updates ==
  ASSUME NEW A, NEW B, NEW C, NEW D, NEW E, NEW F,
         NEW r \in [pc : A, user : B, inv : C, token : D, limit : E, stale : F], NEW a \in A
  PROVE  /\ [r EXCEPT !.pc = a] \in [pc : A, user : B, inv : C, token : D, limit : E, stale : F]
         /\ \A b \in B : [r EXCEPT !.pc = a, !.user = b]
                         \in [pc : A, user : B, inv : C, token : D, limit : E, stale : F]
         /\ \A c \in C : [r EXCEPT !.pc = a, !.inv = c]
                         \in [pc : A, user : B, inv : C, token : D, limit : E, stale : F]
         /\ \A e \in E : [r EXCEPT !.pc = a, !.limit = e]
                         \in [pc : A, user : B, inv : C, token : D, limit : E, stale : F]
         /\ \A f \in F : [r EXCEPT !.pc = a, !.stale = f]
                         \in [pc : A, user : B, inv : C, token : D, limit : E, stale : F]
         /\ \A b \in B, d \in D : [r EXCEPT !.pc = a, !.user = b, !.token = d]
                         \in [pc : A, user : B, inv : C, token : D, limit : E, stale : F]
         /\ \A c \in C, d \in D : [r EXCEPT !.pc = a, !.inv = c, !.token = d]
                         \in [pc : A, user : B, inv : C, token : D, limit : E, stale : F]
         /\ \A c \in C, f \in F : [r EXCEPT !.pc = a, !.inv = c, !.stale = f]
                         \in [pc : A, user : B, inv : C, token : D, limit : E, stale : F]
         /\ \A b \in B, c \in C, d \in D : [r EXCEPT !.pc = a, !.user = b, !.inv = c, !.token = d]
                         \in [pc : A, user : B, inv : C, token : D, limit : E, stale : F]
OBVIOUS

\* The answer of a handler, and its local state before.
LEMMA Answers ==
  ASSUME TypeInv, LengthFine, NEW p \in Requests, NEW s \in {"done", "refused", "failed"}
  PROVE  /\ Idle \in RequestState /\ Idle.pc = "start"
         /\ LET r == [Idle EXCEPT !.pc = s, !.inv = IF p \in Inviters THEN req[p].inv ELSE 0]
            IN /\ r \in RequestState /\ r.pc = s
               /\ r.inv = IF p \in Inviters THEN req[p].inv ELSE 0
<1>1. MaxInvitations \in Nat /\ req[p].inv \in 0 .. MaxInvitations
  BY IdsInBounds, Fields
<1>2. Idle \in RequestState /\ Idle.pc = "start"
  BY <1>1, SeatsAssumption DEF Idle, RequestState, Tokens
<1> DEFINE c == IF p \in Inviters THEN req[p].inv ELSE 0
           r == [Idle EXCEPT !.pc = s, !.inv = c]
<1>3. c \in 0 .. MaxInvitations
  BY <1>1
<1> HIDE DEF c
<1>4. r \in RequestState
  BY <1>2, <1>3, Updates DEF RequestState
<1>5. r.pc = s /\ r.inv = c
  BY <1>2 DEF RequestState
<1> QED
  BY <1>2, <1>4, <1>5 DEF c

\* The larger of two limits.
LEMMA MaxOfTwo ==
  ASSUME NEW a \in Int, NEW b \in Int
  PROVE  Max({a, b}) \in {a, b} /\ Max({a, b}) >= a /\ Max({a, b}) >= b
<1>1. \E x \in {a, b} : \A y \in {a, b} : x >= y
  OBVIOUS
<1> QED
  BY <1>1 DEF Max
----------------------------------------------------------------------------
(* What a step of one handler leaves as it is. *)

\* The other handlers.
LEMMA OthersKept ==
  ASSUME IInv, NEW p \in Requests, StepOf(p), Final, peak' \in Int, peak' >= peak
  PROVE  /\ \A q \in Adders \ {p} : AdderFine(q)'
         /\ \A q \in Removers \ {p} : RemoverFine(q)'
         /\ \A q \in Inviters \ {p} : InviterFine(q)'
         /\ \A q \in Acceptors \ {p} : AcceptorFine(q)'
<1>1. \A q \in Requests \ {p} : req'[q] = req[q]
  BY DEF StepOf
<1>2. peak \in Int /\ \A q \in Requests : req[q].limit \in Int
  BY Fields, SeatsAssumption DEF IInv, TypeInv
<1>3. ASSUME NEW q \in Adders \ {p}
      PROVE  AdderFine(q)'
  <2>1. AdderFine(q) /\ req'[q] = req[q] /\ req[q].limit \in Int
    BY <1>1, <1>2, Classes DEF IInv
  <2> QED
    BY <1>2, <2>1 DEF AdderFine
<1>4. ASSUME NEW q \in Removers \ {p}
      PROVE  RemoverFine(q)'
  BY <1>1, Classes DEF IInv, RemoverFine
<1>5. ASSUME NEW q \in Inviters \ {p}
      PROVE  InviterFine(q)'
  <2>1. InviterFine(q) /\ req'[q] = req[q]
    BY <1>1, Classes DEF IInv
  <2> QED
    BY <2>1 DEF InviterFine, Final
<1>6. ASSUME NEW q \in Acceptors \ {p}
      PROVE  AcceptorFine(q)'
  <2> DEFINE i == req[q].inv
  <2>1. AcceptorFine(q) /\ req'[q] = req[q] /\ q # None
    BY <1>1, Classes DEF IInv
  <2>2. req[q].pc \in {"row", "org", "count", "insert"} =>
          i \in DOMAIN invitation' /\ invitation'[i].email = req[q].user
    BY <2>1 DEF AcceptorFine, Final
  <2>3. req[q].pc \in {"org", "count", "insert"} => invitation'[i] = invitation[i]
    BY <2>1 DEF AcceptorFine, StepOf
  <2>4. req[q].pc \in {"count", "insert"} => orgLock' = q
    BY <2>1 DEF AcceptorFine, StepOf
  <2> QED
    BY <2>1, <2>2, <2>3, <2>4 DEF AcceptorFine, Pending
<1> QED
  BY <1>3, <1>4, <1>5, <1>6

\* The seats, when nobody joins.
LEMMA SeatsKept ==
  ASSUME IInv, NEW p \in Requests, StepOf(p), Members' \subseteq Members, overtaken' = overtaken,
         peak' \in Int, peak' >= peak,
         p \in overtaken => req'[p].pc \in {"sync", "undo", "done", "failed"},
         p \in Seated /\ req'[p].pc = "insert" => Cardinality(Members) < peak
  PROVE  (\A q \in Seated : SeatFine(q)') /\ SpentFine'
<1>1. \A q \in Requests \ {p} : req'[q] = req[q]
  BY DEF StepOf
<1>2. peak \in Int
  BY SeatsAssumption DEF IInv, TypeInv
<1>3. /\ Cardinality(Members) \in Nat /\ Cardinality(Members') \in Nat
      /\ Cardinality(Members') <= Cardinality(Members)
  <2>1. Members' \in SUBSET Members
    OBVIOUS
  <2> QED
    BY <2>1, MembersFinite, FS_Subset, FS_CardinalityType
<1>4. ASSUME NEW q \in Seated
      PROVE  SeatFine(q)'
  <2>1. SeatFine(q)
    BY DEF IInv
  <2>2. CASE q = p
    BY <1>2, <1>3, <2>1, <2>2 DEF SeatFine
  <2>3. CASE q # p
    <3>1. req'[q] = req[q]
      BY <1>1, <2>3 DEF Seated, Requests
    <3> QED
      BY <1>2, <1>3, <2>1, <3>1 DEF SeatFine
  <2> QED
    BY <2>2, <2>3
<1>5. SpentFine'
  <2>1. /\ overtaken \subseteq Seated /\ Spent \in SUBSET Seated /\ Spent' \in SUBSET Seated
    BY DEF IInv, TypeInv, Spent
  <2>2. Spent \in SUBSET Spent'
    <3>1. ASSUME NEW q \in Spent
          PROVE  q \in Spent'
      <4>1. q \in overtaken /\ req[q].pc # "insert" /\ q \in Requests
        BY <2>1 DEF Spent, At, Seated, Requests
      <4>2. req'[q].pc # "insert"
        BY <1>1, <4>1
      <4> QED
        BY <4>1, <4>2 DEF Spent, At
    <3> QED
      BY <3>1
  <2>3. /\ Cardinality(Spent) \in Nat /\ Cardinality(Spent') \in Nat
        /\ Cardinality(Spent) <= Cardinality(Spent')
    BY <2>1, <2>2, HandlersFinite, FS_Subset
  <2>4. SpentFine
    BY DEF IInv
  <2> QED
    BY <1>2, <1>3, <2>3, <2>4 DEF SpentFine
<1> QED
  BY <1>4, <1>5

\* A row that keeps its token and its status.
LEMMA RowKept ==
  ASSUME IInv, NEW p \in Requests, StepOf(p), mailed \subseteq mailed', NEW i \in DOMAIN invitation,
         invitation'[i].status = invitation[i].status, invitation'[i].token = invitation[i].token,
         invitation'[i].lock \in {invitation[i].lock, p, None},
         invitation'[i].lock = p =>
           /\ Pending(i) /\ p \in Inviters \cup Acceptors
           /\ p \in Inviters => req'[p].pc \in {"count", "insert"}
           /\ p \in Acceptors => req'[p].pc \in {"org", "count", "insert"} /\ req'[p].inv = i,
         p \in Inviters /\ req[p].pc \in Issued /\ req[p].inv = i /\ invitation[i].token = p =>
           <<i, p>> \in mailed' \/ (req'[p].inv = i /\ req'[p].pc \in Issued)
  PROVE  LockFine(i)' /\ MailFine(i)'
<1>1. \A q \in Requests \ {p} : req'[q] = req[q]
  BY DEF StepOf
<1>2. LockFine(i) /\ MailFine(i) /\ invitation[i].token \in Inviters \cup {None}
  BY Fields DEF IInv
<1>3. LockFine(i)'
  <2> DEFINE q == invitation'[i].lock
  <2>1. CASE q = p
    BY <1>2, <2>1 DEF LockFine, Pending
  <2>2. CASE q # p /\ q # None
    <3>1. q = invitation[i].lock
      BY <2>2
    <3>2. req'[q] = req[q]
      BY <1>1, <1>2, <2>2, <3>1, Classes DEF LockFine
    <3> QED
      BY <1>2, <3>1, <3>2 DEF LockFine, Pending
  <2>3. CASE q = None
    BY <2>3 DEF LockFine
  <2> QED
    BY <2>1, <2>2, <2>3
<1>4. MailFine(i)'
  <2> DEFINE t == invitation[i].token
  <2>1. CASE t = p
    BY <1>2, <2>1, Classes DEF MailFine, Pending
  <2>2. CASE t # p
    <3>1. t # None => req'[t] = req[t]
      BY <1>1, <1>2, <2>2, Classes
    <3> QED
      BY <1>2, <3>1 DEF MailFine, Pending
  <2> QED
    BY <2>1, <2>2
<1> QED
  BY <1>3, <1>4

\* The number of rows.
LEMMA LengthKept ==
  ASSUME IInv, NEW p \in Requests, StepOf(p), Len(invitation') = Len(invitation),
         p \in Inviters /\ req[p].pc \in Counted => req'[p].pc \in Counted
  PROVE  LengthFine'
<1>1. Created \in SUBSET Created' /\ Created' \in SUBSET Inviters /\ Created \in SUBSET Inviters
  <2>1. ASSUME NEW q \in Created
        PROVE  q \in Created'
    BY <2>1, Classes DEF Created, StepOf
  <2> QED
    BY <2>1 DEF Created
<1>2. /\ Cardinality(Created) \in Nat /\ Cardinality(Created') \in Nat
      /\ Cardinality(Created) <= Cardinality(Created')
  BY <1>1, HandlersFinite, FS_Subset
<1>3. LengthFine /\ Len(invitation) \in Nat /\ Cardinality(Invited) \in Nat
  BY HandlersFinite, Fields DEF IInv
<1> QED
  BY <1>2, <1>3 DEF LengthFine

\* Acceptances.
LEMMA JoinKept ==
  ASSUME IInv, Final, joined' = joined
  PROVE  JoinFine'
BY DEF IInv, JoinFine, Final, Pending

\* The lock of the organization.
LEMMA OrgKept ==
  ASSUME IInv, NEW p \in Requests, StepOf(p), orgLock' \in {orgLock, p, None},
         orgLock' = p => req'[p].pc \in {"stale", "count", "insert"}
  PROVE  OrgFine'
<1>1. OrgFine /\ orgLock \in Requests \cup {None}
  BY Classes DEF IInv, TypeInv
<1> QED
  BY <1>1 DEF OrgFine, StepOf

\* All together.
LEMMA Together ==
  ASSUME IInv, NEW p \in Requests, StepOf(p), Final, TypeInv', peak' = peak, joined' = joined,
         Members' \subseteq Members, overtaken' = overtaken,
         orgLock' \in {orgLock, p, None},
         orgLock' = p => req'[p].pc \in {"stale", "count", "insert"},
         Len(invitation') = Len(invitation),
         p \in Inviters /\ req[p].pc \in Counted => req'[p].pc \in Counted,
         p \in overtaken => req'[p].pc \in {"sync", "undo", "done", "failed"},
         p \in Seated /\ req'[p].pc = "insert" => Cardinality(Members) < peak,
         \A i \in DOMAIN invitation : LockFine(i)' /\ MailFine(i)',
         p \in Adders => AdderFine(p)', p \in Removers => RemoverFine(p)',
         p \in Inviters => InviterFine(p)', p \in Acceptors => AcceptorFine(p)'
  PROVE  IInv'
<1>1. peak' \in Int /\ peak' >= peak
  BY SeatsAssumption DEF IInv, TypeInv
<1>2. DOMAIN invitation' = DOMAIN invitation
  <2>1. DOMAIN invitation = 1 .. Len(invitation)
    BY Fields DEF IInv
  <2>2. DOMAIN invitation' = 1 .. Len(invitation')
    BY LenProperties DEF TypeInv
  <2> QED
    BY <2>1, <2>2
<1>3. /\ \A q \in Adders : AdderFine(q)'
      /\ \A q \in Removers : RemoverFine(q)'
      /\ \A q \in Inviters : InviterFine(q)'
      /\ \A q \in Acceptors : AcceptorFine(q)'
  BY <1>1, OthersKept
<1>4. (\A q \in Seated : SeatFine(q)') /\ SpentFine'
  BY <1>1, SeatsKept
<1>5. LengthFine' /\ JoinFine' /\ OrgFine'
  BY LengthKept, JoinKept, OrgKept
<1> QED
  BY <1>2, <1>3, <1>4, <1>5 DEF IInv

\* A step that writes to its own local state only.
LEMMA QuietInvariant ==
  ASSUME IInv, NEW p \in Requests, UNCHANGED rows, NEW r \in RequestState,
         req' = [req EXCEPT ![p] = r],
         req[p].pc \notin Counted,
         p \in overtaken => r.pc \in {"sync", "undo", "done", "failed"},
         p \in Inviters \cup Acceptors /\ req[p].pc \in {"org", "count", "insert"} =>
           r.pc \in {"count", "insert"} /\ r.inv = req[p].inv,
         orgLock = p => r.pc \in {"stale", "count", "insert"},
         p \in Seated /\ r.pc = "insert" => Cardinality(Members) < peak,
         p \in Adders => AdderFine(p)', p \in Removers => RemoverFine(p)',
         p \in Inviters => InviterFine(p)', p \in Acceptors => AcceptorFine(p)'
  PROVE  IInv' /\ Final
<1>1. /\ member' = member /\ invitation' = invitation /\ orgLock' = orgLock /\ limit' = limit
      /\ changes' = changes /\ peak' = peak /\ overtaken' = overtaken /\ mailed' = mailed
      /\ joined' = joined
  BY DEF rows
<1>2. req \in [Requests -> RequestState] /\ req'[p] = r /\ req' \in [Requests -> RequestState]
  BY DEF IInv, TypeInv
<1>3. StepOf(p)
  BY <1>1, <1>2 DEF StepOf
<1>4. Final
  BY <1>1 DEF Final
<1>5. TypeInv'
  BY <1>1, <1>2 DEF IInv, TypeInv
<1>6. ASSUME NEW i \in DOMAIN invitation
      PROVE  LockFine(i)' /\ MailFine(i)'
  <2>1. LockFine(i)
    BY DEF IInv
  <2>2. invitation[i].lock = p =>
          /\ Pending(i) /\ p \in Inviters \cup Acceptors /\ r.pc \in {"count", "insert"}
          /\ p \in Acceptors => r.inv = i
    BY <2>1, Classes DEF LockFine
  <2>3. req[p].pc \notin Issued
    BY DEF Counted, Issued
  <2> QED
    BY <1>1, <1>2, <1>3, <2>2, <2>3, RowKept
<1>7. Members' \subseteq Members
  BY <1>1 DEF Members
<1> QED
  BY <1>1, <1>2, <1>3, <1>4, <1>5, <1>6, <1>7, Together

----------------------------------------------------------------------------
(* Quiet steps. *)

\* What the invariant says of a handler.
LEMMA Standing ==
  ASSUME IInv, NEW p \in Requests
  PROVE  /\ p \in Adders => AdderFine(p) /\ SeatFine(p)
         /\ p \in Acceptors => AcceptorFine(p) /\ SeatFine(p)
         /\ p \in Inviters => InviterFine(p) /\ p \notin overtaken
         /\ p \in Removers => RemoverFine(p) /\ p \notin overtaken
         /\ orgLock = p => req[p].pc \in {"stale", "count", "insert"}
         /\ overtaken \subseteq Seated
BY Classes DEF IInv, Seated, OrgFine, TypeInv

\* A step of a direct addition that writes nothing.
LEMMA AdderQuiet ==
  ASSUME IInv, NEW p \in Requests,
         \/ \E u \in Users : AddMember(p, u)
         \/ GetSeatLimit(p) \/ GetCurrentSeatUsage(p) \/ SyncSucceeds(p) \/ SyncFails(p)
  PROVE  IInv' /\ Final
<1>1. /\ TypeInv /\ req \in [Requests -> RequestState] /\ req[p] \in RequestState
      /\ req[p].limit \in 0 .. MaxSeats /\ limit \in 1 .. MaxSeats /\ peak \in limit .. MaxSeats
      /\ MaxSeats \in Nat
  BY Fields, SeatsAssumption DEF IInv, TypeInv
<1>2. /\ p \in Adders => AdderFine(p) /\ SeatFine(p)
      /\ orgLock = p => req[p].pc \in {"stale", "count", "insert"}
  BY Standing
<1>3. p \in Adders
  BY Standing, Classes DEF AddMember, GetSeatLimit, GetCurrentSeatUsage, SyncSucceeds, SyncFails, At,
                           AcceptorFine, InviterFine, RemoverFine
<1>4. p \notin Inviters \cup Acceptors \cup Removers
  BY <1>3, Classes
<1>5. ASSUME NEW u \in Users, AddMember(p, u)
      PROVE  IInv' /\ Final
  <2> DEFINE r == [req[p] EXCEPT !.pc = "limit", !.user = u]
  <2>1. UNCHANGED rows /\ req' = [req EXCEPT ![p] = r] /\ req[p].pc = "start"
    BY <1>5 DEF AddMember, At
  <2>2. r \in RequestState /\ r.pc = "limit"
    BY <1>1 DEF RequestState
  <2>3. req'[p] = r
    BY <1>1, <2>1
  <2> HIDE DEF r
  <2>4. AdderFine(p)'
    BY <2>2, <2>3 DEF AdderFine
  <2>5. p \notin overtaken /\ orgLock # p
    BY <1>2, <1>3, <2>1 DEF SeatFine
  <2> QED
    BY <1>4, <2>1, <2>2, <2>4, <2>5, QuietInvariant DEF Counted
<1>6. CASE GetSeatLimit(p)
  <2> DEFINE r == [req[p] EXCEPT !.pc = "usage", !.limit = limit]
  <2>1. UNCHANGED rows /\ req' = [req EXCEPT ![p] = r] /\ req[p].pc = "limit"
    BY <1>6 DEF GetSeatLimit, At
  <2>2. r \in RequestState /\ r.pc = "usage" /\ r.limit = limit
    <3>1. limit \in 0 .. MaxSeats
      BY <1>1
    <3>2. r \in RequestState
      BY <1>1, <3>1, Updates DEF RequestState
    <3> QED
      BY <1>1, <3>2 DEF RequestState
  <2>3. req'[p] = r /\ peak' = peak
    BY <1>1, <2>1 DEF rows
  <2> HIDE DEF r
  <2>4. AdderFine(p)'
    BY <1>1, <2>2, <2>3 DEF AdderFine
  <2>5. p \notin overtaken /\ orgLock # p
    BY <1>2, <1>3, <2>1 DEF SeatFine
  <2> QED
    BY <1>4, <2>1, <2>2, <2>4, <2>5, QuietInvariant DEF Counted
<1>7. CASE GetCurrentSeatUsage(p)
  <2> DEFINE r == [req[p] EXCEPT !.pc = "insert", !.limit = 0]
  <2>1. /\ UNCHANGED rows /\ req' = [req EXCEPT ![p] = r] /\ req[p].pc = "usage"
        /\ Cardinality(Members) < req[p].limit
    BY <1>7 DEF GetCurrentSeatUsage, At
  <2>2. r \in RequestState /\ r.pc = "insert"
    <3>1. 0 \in 0 .. MaxSeats
      BY <1>1
    <3>2. r \in RequestState
      BY <1>1, <3>1, Updates DEF RequestState
    <3> QED
      BY <1>1, <3>2 DEF RequestState
  <2>3. req'[p] = r
    BY <1>1, <2>1
  <2> HIDE DEF r
  <2>4. AdderFine(p)'
    BY <2>2, <2>3 DEF AdderFine
  <2>5. p \notin overtaken /\ orgLock # p
    BY <1>2, <1>3, <2>1 DEF SeatFine
  <2>6. Cardinality(Members) < peak
    BY <1>1, <1>2, <1>3, <2>1, MembersFinite DEF AdderFine
  <2> QED
    BY <1>4, <2>1, <2>2, <2>4, <2>5, <2>6, QuietInvariant DEF Counted
<1>8. CASE SyncSucceeds(p) \/ SyncFails(p)
  <2>1. PICK r \in RequestState : req' = [req EXCEPT ![p] = r] /\ r.pc \in {"done", "undo"}
    <3>1. CASE SyncSucceeds(p)
      <4> DEFINE r == [Idle EXCEPT !.pc = "done", !.inv = IF p \in Inviters THEN req[p].inv ELSE 0]
      <4>1. req' = [req EXCEPT ![p] = r]
        BY <3>1 DEF SyncSucceeds, Finish
      <4>2. r \in RequestState /\ r.pc = "done"
        BY Answers DEF IInv
      <4> QED
        BY <4>1, <4>2
    <3>2. CASE SyncFails(p)
      <4> DEFINE r == [req[p] EXCEPT !.pc = "undo"]
      <4>1. req' = [req EXCEPT ![p] = r]
        BY <3>2 DEF SyncFails, Goto
      <4>2. r \in RequestState /\ r.pc = "undo"
        BY <1>1 DEF RequestState
      <4> QED
        BY <4>1, <4>2
    <3> QED
      BY <1>8, <3>1, <3>2
  <2>2. UNCHANGED rows /\ req[p].pc = "sync"
    BY <1>8 DEF SyncSucceeds, SyncFails, At
  <2>3. req'[p] = r
    BY <1>1, <2>1
  <2>4. AdderFine(p)'
    BY <2>1, <2>3 DEF AdderFine
  <2>5. orgLock # p
    BY <1>2, <2>2
  <2> QED
    BY <1>4, <2>1, <2>2, <2>4, <2>5, QuietInvariant DEF Counted
<1> QED
  BY <1>5, <1>6, <1>7, <1>8

\* A step of an inviting handler that writes nothing.
LEMMA InviterQuiet ==
  ASSUME IInv, NEW p \in Requests,
         \/ \E u \in Users : CreateInvitation(p, u)
         \/ \E i \in DOMAIN invitation : ResendInvitation(p, i)
         \/ BeginCreate(p) \/ CountReserved(p)
  PROVE  IInv' /\ Final
<1>1. /\ TypeInv /\ req \in [Requests -> RequestState] /\ req[p] \in RequestState
      /\ DOMAIN invitation \subseteq InvIds /\ MaxInvitations \in Nat
      /\ invitation \in [DOMAIN invitation -> InvitationRow]
  BY Fields, IdsInBounds DEF IInv, TypeInv
<1>2. p \in Inviters /\ p \notin Adders \cup Acceptors \cup Removers
  BY Standing, Classes DEF CreateInvitation, ResendInvitation, BeginCreate, CountReserved, At,
                           AdderFine, AcceptorFine, RemoverFine
<1>3. /\ InviterFine(p) /\ p \in Tokens /\ p \notin overtaken /\ p \notin Seated
      /\ orgLock = p => req[p].pc \in {"stale", "count", "insert"}
  BY <1>2, Standing DEF Tokens, Seated
<1>4. ASSUME NEW u \in Users, CreateInvitation(p, u)
      PROVE  IInv' /\ Final
  <2> DEFINE r == [req[p] EXCEPT !.pc = "begin", !.user = u, !.token = p]
  <2>1. UNCHANGED rows /\ req' = [req EXCEPT ![p] = r] /\ req[p].pc = "start"
    BY <1>4 DEF CreateInvitation, At
  <2>2. r \in RequestState /\ r.pc = "begin" /\ r.token = p
    <3>1. r \in RequestState
      BY <1>1, <1>3, Updates DEF RequestState
    <3> QED
      BY <1>1, <3>1 DEF RequestState
  <2>3. req'[p] = r
    BY <1>1, <2>1
  <2> HIDE DEF r
  <2>4. InviterFine(p)'
    BY <2>2, <2>3 DEF InviterFine
  <2> QED
    BY <1>2, <1>3, <2>1, <2>2, <2>4, QuietInvariant DEF Counted
<1>5. ASSUME NEW i \in DOMAIN invitation, ResendInvitation(p, i)
      PROVE  IInv' /\ Final
  <2> DEFINE r == [req[p] EXCEPT !.pc = "refresh", !.inv = i, !.token = p]
  <2>1. UNCHANGED rows /\ req' = [req EXCEPT ![p] = r] /\ req[p].pc = "start"
    BY <1>5 DEF ResendInvitation, At
  <2>2. r \in RequestState /\ r.pc = "refresh" /\ r.token = p /\ r.inv = i
    <3>1. i \in 0 .. MaxInvitations
      BY <1>1 DEF InvIds
    <3>2. r \in RequestState
      BY <1>1, <1>3, <3>1, Updates DEF RequestState
    <3> QED
      BY <1>1, <3>2 DEF RequestState
  <2>3. req'[p] = r /\ invitation' = invitation
    BY <1>1, <2>1 DEF rows
  <2> HIDE DEF r
  <2>4. InviterFine(p)'
    BY <2>2, <2>3 DEF InviterFine
  <2> QED
    BY <1>2, <1>3, <2>1, <2>2, <2>4, QuietInvariant DEF Counted
<1>6. CASE BeginCreate(p)
  <2> DEFINE S == {<<i, invitation[i].token>> : i \in Stale}
             r == [req[p] EXCEPT !.pc = "org", !.stale = S]
  <2>1. UNCHANGED rows /\ req' = [req EXCEPT ![p] = r] /\ req[p].pc = "begin"
    BY <1>6 DEF BeginCreate, At
  <2>2. S \in SUBSET (InvIds \X Tokens)
    BY <1>1, Fields DEF Stale, Tokens
  <2>3. r \in RequestState /\ r.pc = "org" /\ r.token = req[p].token
    <3> HIDE DEF S
    <3>1. r \in RequestState
      BY <1>1, <2>2, Updates DEF RequestState
    <3> QED
      BY <1>1, <3>1 DEF RequestState
  <2>4. req'[p] = r
    BY <1>1, <2>1
  <2> HIDE DEF r
  <2>5. InviterFine(p)'
    BY <1>3, <2>1, <2>3, <2>4 DEF InviterFine
  <2> QED
    BY <1>2, <1>3, <2>1, <2>3, <2>5, QuietInvariant DEF Counted
<1>7. CASE CountReserved(p)
  <2> DEFINE r == [req[p] EXCEPT !.pc = "insert"]
  <2>1. UNCHANGED rows /\ req' = [req EXCEPT ![p] = r] /\ req[p].pc = "count"
    BY <1>7 DEF CountReserved, Goto, At
  <2>2. r \in RequestState /\ r.pc = "insert" /\ r.token = req[p].token /\ r.inv = req[p].inv
    <3>1. r \in RequestState
      BY <1>1, Updates DEF RequestState
    <3> QED
      BY <1>1, <3>1 DEF RequestState
  <2>3. req'[p] = r
    BY <1>1, <2>1
  <2> HIDE DEF r
  <2>4. InviterFine(p)'
    BY <1>3, <2>1, <2>2, <2>3 DEF InviterFine
  <2> QED
    BY <1>2, <1>3, <2>1, <2>2, <2>4, QuietInvariant DEF Counted
<1> QED
  BY <1>4, <1>5, <1>6, <1>7

\* A step of an accepting handler that writes nothing.
LEMMA AcceptorQuiet ==
  ASSUME IInv, NEW p \in Requests,
         \/ \E i \in DOMAIN invitation : AcceptInvitation(p, i) \/ AlreadyAccepted(p, i)
         \/ CountMembers(p)
  PROVE  IInv' /\ Final
<1>1. /\ TypeInv /\ req \in [Requests -> RequestState] /\ req[p] \in RequestState
      /\ DOMAIN invitation \subseteq InvIds /\ MaxInvitations \in Nat
      /\ invitation \in [DOMAIN invitation -> InvitationRow]
  BY Fields, IdsInBounds DEF IInv, TypeInv
<1>2. p \in Acceptors /\ p \notin Adders \cup Inviters \cup Removers
  BY Classes DEF AcceptInvitation, AlreadyAccepted, CountMembers
<1>3. /\ AcceptorFine(p) /\ SeatFine(p) /\ p \in Seated
      /\ orgLock = p => req[p].pc \in {"stale", "count", "insert"}
  BY <1>2, Standing DEF Seated
<1>4. ASSUME NEW i \in DOMAIN invitation, AcceptInvitation(p, i)
      PROVE  IInv' /\ Final
  <2> DEFINE u == invitation[i].email
             t == invitation[i].token
             r == [req[p] EXCEPT !.pc = "row", !.user = u, !.inv = i, !.token = t]
  <2>1. UNCHANGED rows /\ req' = [req EXCEPT ![p] = r] /\ req[p].pc = "start"
    BY <1>4 DEF AcceptInvitation, At
  <2>2. u \in Users /\ t \in Tokens /\ i \in 0 .. MaxInvitations
    BY <1>1, Fields DEF InvIds, Tokens
  <2> HIDE DEF u, t
  <2>3. r \in RequestState /\ r.pc = "row" /\ r.user = u /\ r.inv = i
    <3>1. r \in RequestState
      BY <1>1, <2>2, Updates DEF RequestState
    <3> QED
      BY <1>1, <3>1 DEF RequestState
  <2>4. req'[p] = r /\ invitation' = invitation
    BY <1>1, <2>1 DEF rows
  <2> HIDE DEF r
  <2>5. AcceptorFine(p)'
    BY <2>3, <2>4 DEF AcceptorFine, u
  <2>6. p \notin overtaken
    BY <1>3, <2>1 DEF SeatFine
  <2> QED
    BY <1>2, <1>3, <2>1, <2>3, <2>5, <2>6, QuietInvariant DEF Counted
<1>5. ASSUME NEW i \in DOMAIN invitation, AlreadyAccepted(p, i)
      PROVE  IInv' /\ Final
  <2>1. PICK s \in {"done", "failed"} : Finish(p, s)
    BY <1>5 DEF AlreadyAccepted
  <2> DEFINE r == [Idle EXCEPT !.pc = s, !.inv = IF p \in Inviters THEN req[p].inv ELSE 0]
  <2>2. UNCHANGED rows /\ req' = [req EXCEPT ![p] = r] /\ req[p].pc = "start"
    BY <1>5, <2>1 DEF AlreadyAccepted, Finish, At
  <2>3. r \in RequestState /\ r.pc = s
    BY <1>1, Answers DEF IInv
  <2>4. req'[p] = r
    BY <1>1, <2>2
  <2> HIDE DEF r
  <2>5. AcceptorFine(p)'
    BY <2>3, <2>4 DEF AcceptorFine
  <2>6. p \notin overtaken
    BY <1>3, <2>2 DEF SeatFine
  <2> QED
    BY <1>2, <1>3, <2>2, <2>3, <2>5, <2>6, QuietInvariant DEF Counted
<1>6. CASE CountMembers(p)
  <2> DEFINE r == [req[p] EXCEPT !.pc = "insert"]
  <2>1. /\ UNCHANGED rows /\ req' = [req EXCEPT ![p] = r] /\ req[p].pc = "count"
        /\ Cardinality(Members) < limit
    BY <1>6 DEF CountMembers, Goto, At
  <2>2. /\ r \in RequestState /\ r.pc = "insert" /\ r.token = req[p].token /\ r.inv = req[p].inv
        /\ r.user = req[p].user
    <3>1. r \in RequestState
      BY <1>1, Updates DEF RequestState
    <3> QED
      BY <1>1, <3>1 DEF RequestState
  <2>3. req'[p] = r /\ invitation' = invitation /\ orgLock' = orgLock
    BY <1>1, <2>1 DEF rows
  <2> HIDE DEF r
  <2>4. AcceptorFine(p)'
    BY <1>3, <2>1, <2>2, <2>3 DEF AcceptorFine, Pending
  <2>5. p \notin overtaken /\ Cardinality(Members) < peak
    BY <1>1, <1>3, <2>1, MembersFinite, SeatsAssumption DEF SeatFine, TypeInv
  <2> QED
    BY <1>2, <1>3, <2>1, <2>2, <2>4, <2>5, QuietInvariant DEF Counted
<1> QED
  BY <1>4, <1>5, <1>6

----------------------------------------------------------------------------
(* Steps that write, and let nobody in. *)

\* The lock of the organization comes to a handler in its transaction.
LEMMA LockInvariant ==
  ASSUME IInv, NEW p \in Requests, LockOrganization(p)
  PROVE  IInv' /\ Final
<1>1. /\ TypeInv /\ req \in [Requests -> RequestState] /\ req[p] \in RequestState
  BY Fields DEF IInv, TypeInv
<1> DEFINE s == IF p \in Inviters THEN "stale" ELSE "count"
           r == [req[p] EXCEPT !.pc = s]
<1>2. /\ req[p].pc = "org" /\ orgLock = None /\ orgLock' = p /\ req' = [req EXCEPT ![p] = r]
      /\ UNCHANGED <<member, invitation, limit, changes, peak, overtaken, revived, mailed, joined>>
  BY DEF LockOrganization, Goto, At
<1>3. p \in Inviters \cup Acceptors /\ p \notin Adders \cup Removers /\ p # None
  BY <1>2, Standing, Classes DEF AdderFine, RemoverFine
<1>4. /\ r \in RequestState /\ r.pc = s /\ r.token = req[p].token /\ r.inv = req[p].inv
      /\ r.user = req[p].user
  <2>1. s \in {"stale", "count"}
    OBVIOUS
  <2> HIDE DEF s
  <2>2. r \in RequestState
    BY <1>1, <2>1, Updates DEF RequestState
  <2> QED
    BY <1>1, <2>2 DEF RequestState
<1>5. req'[p] = r /\ req' \in [Requests -> RequestState]
  BY <1>1, <1>2, <1>4
<1> HIDE DEF r
<1>6. StepOf(p) /\ Final /\ TypeInv' /\ Members' = Members
  BY <1>1, <1>2, <1>3, <1>5 DEF StepOf, Final, TypeInv, Members
<1>7. ASSUME NEW i \in DOMAIN invitation
      PROVE  LockFine(i)' /\ MailFine(i)'
  <2>1. LockFine(i)
    BY DEF IInv
  <2>2. invitation[i].lock = p =>
          Pending(i) /\ p \in Acceptors /\ p \notin Inviters /\ r.pc = "count" /\ r.inv = i
    BY <1>2, <1>3, <1>4, <2>1, Classes DEF LockFine
  <2> QED
    BY <1>2, <1>3, <1>5, <1>6, <2>2, RowKept DEF Issued
<1>8. p \in Inviters => InviterFine(p)'
  BY <1>2, <1>4, <1>5, Standing DEF InviterFine
<1>9. p \in Acceptors => p \notin Inviters /\ AcceptorFine(p)'
  BY <1>2, <1>4, <1>5, Standing, Classes DEF AcceptorFine, Pending
<1>10. p \notin overtaken
  BY <1>2, Standing, Classes, <1>3 DEF SeatFine
<1> QED
  BY <1>1, <1>2, <1>3, <1>4, <1>5, <1>6, <1>7, <1>8, <1>9, <1>10, Together DEF Counted

\* Rows that are locked to be ended.
LEMMA ExpireInvariant ==
  ASSUME IInv, NEW p \in Requests, ExpireStale(p)
  PROVE  IInv' /\ Final
<1>1. /\ TypeInv /\ req \in [Requests -> RequestState] /\ req[p] \in RequestState
  BY Fields DEF IInv, TypeInv
<1> DEFINE r == [req[p] EXCEPT !.pc = "count"]
<1>2. /\ req[p].pc = "stale" /\ \A i \in StaleRows(p) : invitation[i].lock = None
      /\ invitation' = [i \in DOMAIN invitation |->
           IF i \in StaleRows(p) THEN [invitation[i] EXCEPT !.lock = p] ELSE invitation[i]]
      /\ req' = [req EXCEPT ![p] = r]
      /\ UNCHANGED <<member, orgLock, limit, changes, peak, overtaken, revived, mailed, joined>>
  BY DEF ExpireStale, Goto, At, Free
<1>3. p \in Inviters /\ p \notin Adders \cup Removers \cup Acceptors /\ p # None
  BY <1>2, Standing, Classes DEF AdderFine, RemoverFine, AcceptorFine
<1>4. r \in RequestState /\ r.pc = "count" /\ r.token = req[p].token
  <2>1. r \in RequestState
    BY <1>1, Updates DEF RequestState
  <2> QED
    BY <1>1, <2>1 DEF RequestState
<1>5. req'[p] = r /\ req' \in [Requests -> RequestState]
  BY <1>1, <1>2, <1>4
<1> HIDE DEF r
<1>6. ASSUME NEW i \in DOMAIN invitation
      PROVE  /\ invitation'[i] \in InvitationRow
             /\ invitation'[i].status = invitation[i].status
             /\ invitation'[i].token = invitation[i].token
             /\ invitation'[i].email = invitation[i].email
             /\ invitation'[i].lock \in {invitation[i].lock, p}
             /\ invitation'[i] # invitation[i] => invitation[i].lock = None
             /\ invitation'[i].lock # invitation[i].lock => Pending(i)
  <2>1. invitation[i] \in InvitationRow
    BY <1>1, Fields
  <2>2. CASE i \in StaleRows(p)
    <3>1. invitation'[i] = [invitation[i] EXCEPT !.lock = p] /\ invitation[i].lock = None /\ Pending(i)
      BY <1>2, <2>2 DEF StaleRows, Stale
    <3> QED
      BY <2>1, <3>1 DEF InvitationRow
  <2>3. CASE i \notin StaleRows(p)
    BY <1>2, <2>1, <2>3
  <2> QED
    BY <2>2, <2>3
<1>7. /\ invitation' \in Seq(InvitationRow) /\ Len(invitation') = Len(invitation)
      /\ DOMAIN invitation' = DOMAIN invitation
  <2>1. invitation' \in [DOMAIN invitation -> InvitationRow]
    BY <1>2, <1>6
  <2> QED
    BY <1>1, <2>1, Rewritten
<1>8. StepOf(p) /\ Final /\ TypeInv' /\ Members' = Members
  <2>1. StepOf(p)
    BY <1>1, <1>2, <1>5, <1>6 DEF StepOf
  <2>2. Final
    BY <1>6, <1>7 DEF Final
  <2> QED
    BY <1>1, <1>2, <1>5, <1>7, <2>1, <2>2 DEF TypeInv, Members
<1>9. ASSUME NEW i \in DOMAIN invitation
      PROVE  LockFine(i)' /\ MailFine(i)'
  <2>1. LockFine(i)
    BY DEF IInv
  <2>2. invitation'[i].lock = p => Pending(i)
    BY <1>3, <1>6, <2>1 DEF LockFine
  <2> QED
    BY <1>2, <1>3, <1>4, <1>5, <1>6, <1>8, <2>2, RowKept DEF Issued
<1>10. InviterFine(p)' /\ p \notin overtaken
  BY <1>2, <1>3, <1>4, <1>5, Standing DEF InviterFine
<1> QED
  BY <1>1, <1>2, <1>3, <1>4, <1>5, <1>7, <1>8, <1>9, <1>10, Together DEF Counted, Seated

\* A mail is queued, or seems not to be.
LEMMA EnqueueInvariant ==
  ASSUME IInv, NEW p \in Requests, EnqueueInvitation(p) \/ EnqueueFails(p)
  PROVE  IInv' /\ Final
<1>1. /\ TypeInv /\ req \in [Requests -> RequestState] /\ req[p] \in RequestState
      /\ DOMAIN invitation \subseteq InvIds
  BY Fields, IdsInBounds DEF IInv, TypeInv
<1>2. /\ req[p].pc \in {"mail", "remail"}
      /\ mailed' \in {mailed, mailed \cup {<<req[p].inv, req[p].token>>}}
      /\ UNCHANGED <<member, invitation, orgLock, limit, changes, peak, overtaken, revived, joined>>
  BY DEF EnqueueInvitation, EnqueueFails
<1>3. p \in Inviters /\ p \notin Adders \cup Removers \cup Acceptors /\ p # None /\ p \notin overtaken
  BY <1>2, Standing, Classes DEF AdderFine, RemoverFine, AcceptorFine
<1>4. /\ req[p].token = p /\ req[p].inv \in DOMAIN invitation /\ orgLock # p /\ p \in Tokens
  BY <1>2, <1>3, Standing DEF InviterFine, Tokens
<1>5. PICK r \in RequestState :
        /\ req' = [req EXCEPT ![p] = r] /\ r.inv = req[p].inv
        /\ \/ r.pc \in {"done", "failed"}
           \/ r.pc = "revoke" /\ r.token = p
        /\ r.pc = "done" => mailed' = mailed \cup {<<req[p].inv, p>>}
  <2>1. ASSUME NEW s \in {"done", "failed"}, Finish(p, s),
               s = "done" => mailed' = mailed \cup {<<req[p].inv, p>>}
        PROVE  \E r \in RequestState :
                 /\ req' = [req EXCEPT ![p] = r] /\ r.inv = req[p].inv
                 /\ r.pc \in {"done", "failed"}
                 /\ r.pc = "done" => mailed' = mailed \cup {<<req[p].inv, p>>}
    <3> DEFINE r == [Idle EXCEPT !.pc = s, !.inv = IF p \in Inviters THEN req[p].inv ELSE 0]
    <3>1. req' = [req EXCEPT ![p] = r]
      BY <2>1 DEF Finish
    <3>2. r \in RequestState /\ r.pc = s /\ r.inv = req[p].inv
      BY <1>1, <1>3, Answers DEF IInv
    <3> HIDE DEF r
    <3> QED
      BY <2>1, <3>1, <3>2
  <2>2. CASE EnqueueInvitation(p)
    <3>1. Finish(p, "done") /\ mailed' = mailed \cup {<<req[p].inv, p>>}
      BY <1>4, <2>2 DEF EnqueueInvitation
    <3> QED
      BY <2>1, <3>1
  <2>3. CASE EnqueueFails(p) /\ req[p].pc = "mail"
    <3> DEFINE r == [req[p] EXCEPT !.pc = "revoke"]
    <3>1. req' = [req EXCEPT ![p] = r]
      BY <2>3 DEF EnqueueFails, At, Goto
    <3>2. r \in RequestState /\ r.pc = "revoke" /\ r.inv = req[p].inv /\ r.token = req[p].token
      <4>1. r \in RequestState
        BY <1>1, Updates DEF RequestState
      <4> QED
        BY <1>1, <4>1 DEF RequestState
    <3> HIDE DEF r
    <3> QED
      BY <1>4, <3>1, <3>2
  <2>4. CASE EnqueueFails(p) /\ req[p].pc # "mail"
    <3>1. Finish(p, "failed")
      BY <2>4 DEF EnqueueFails, At
    <3> QED
      BY <2>1, <3>1
  <2> QED
    BY <2>2, <2>3, <2>4
<1>6. req'[p] = r /\ req' \in [Requests -> RequestState]
  BY <1>1, <1>5
<1>7. StepOf(p) /\ Final /\ Members' = Members
  BY <1>1, <1>2, <1>5 DEF StepOf, Final, Members, TypeInv
<1>8. TypeInv'
  <2>1. mailed' \subseteq InvIds \X Tokens
    BY <1>1, <1>2, <1>4 DEF TypeInv
  <2> QED
    BY <1>1, <1>2, <1>6, <2>1 DEF TypeInv
<1>9. ASSUME NEW i \in DOMAIN invitation
      PROVE  LockFine(i)' /\ MailFine(i)'
  <2>1. LockFine(i)
    BY DEF IInv
  <2>2. invitation[i].lock # p
    BY <1>2, <1>3, <2>1 DEF LockFine
  <2>3. req[p].inv = i => <<i, p>> \in mailed' \/ (req'[p].inv = i /\ req'[p].pc \in Issued)
    <3>1. CASE r.pc = "done"
      BY <1>5, <3>1
    <3>2. CASE r.pc # "done"
      BY <1>5, <1>6, <3>2 DEF Issued
    <3> QED
      BY <3>1, <3>2
  <2>4. mailed \subseteq mailed'
    BY <1>2
  <2> QED
    BY <1>2, <1>7, <2>2, <2>3, <2>4, RowKept
<1>10. InviterFine(p)'
  BY <1>2, <1>4, <1>5, <1>6 DEF InviterFine
<1> QED
  BY <1>1, <1>2, <1>3, <1>4, <1>5, <1>6, <1>7, <1>8, <1>9, <1>10, Together DEF Counted, Seated

\* A row is revoked, by whoever issued it or by anybody with the role.
LEMMA RevokeInvariant ==
  ASSUME IInv, NEW p \in Requests,
         RevokeUnsent(p) \/ \E i \in DOMAIN invitation : RevokeInvitation(p, i)
  PROVE  IInv' /\ Final
<1>1. /\ TypeInv /\ req \in [Requests -> RequestState] /\ req[p] \in RequestState
      /\ invitation \in [DOMAIN invitation -> InvitationRow]
  BY Fields DEF IInv, TypeInv
<1>2. PICK k \in DOMAIN invitation, s \in {"done", "refused"} :
        /\ RevokeOrganizationInvitation(k) /\ Finish(p, s)
        /\ \/ req[p].pc = "revoke" /\ k = req[p].inv
           \/ req[p].pc = "start"
  BY DEF RevokeUnsent, RevokeInvitation, RevokeOrganizationInvitation, At
<1>3. /\ req[p].pc \in {"revoke", "start"}
      /\ UNCHANGED <<member, orgLock, limit, changes, peak, overtaken, revived, mailed, joined>>
  BY DEF RevokeUnsent, RevokeInvitation, At
<1>4. p \in Inviters /\ p \notin Adders \cup Removers \cup Acceptors /\ p # None /\ p \notin overtaken
  BY Standing, Classes DEF RevokeUnsent, RevokeInvitation, At, AdderFine, RemoverFine, AcceptorFine
<1> DEFINE r == [Idle EXCEPT !.pc = s, !.inv = IF p \in Inviters THEN req[p].inv ELSE 0]
<1>5. req' = [req EXCEPT ![p] = r] /\ r \in RequestState /\ r.pc = s /\ r.inv = req[p].inv
  BY <1>1, <1>2, <1>4, Answers DEF IInv, Finish
<1> HIDE DEF r
<1>6. req'[p] = r /\ req' \in [Requests -> RequestState]
  BY <1>1, <1>5
<1> DEFINE row == [invitation[k] EXCEPT !.status = IF Pending(k) THEN "revoked" ELSE @, !.expired = FALSE]
<1>7. /\ row \in InvitationRow /\ row.email = invitation[k].email /\ row.token = invitation[k].token
      /\ row.lock = None /\ row.status # "pending"
      /\ ~ Pending(k) => row.status = invitation[k].status
  <2>1. invitation[k] \in InvitationRow /\ invitation[k].lock = None
    BY <1>1, <1>2 DEF RevokeOrganizationInvitation, Free
  <2> QED
    BY <2>1 DEF InvitationRow, Pending
<1>8. invitation' = [invitation EXCEPT ![k] = row] /\ invitation[k].lock = None
  BY <1>2 DEF RevokeOrganizationInvitation, Free
<1> HIDE DEF row
<1>9. /\ invitation' \in Seq(InvitationRow) /\ Len(invitation') = Len(invitation)
      /\ DOMAIN invitation' = DOMAIN invitation
  <2>1. invitation' \in [DOMAIN invitation -> InvitationRow]
    BY <1>1, <1>7, <1>8
  <2> QED
    BY <1>1, <2>1, Rewritten
<1>10. invitation'[k] = row /\ \A i \in DOMAIN invitation \ {k} : invitation'[i] = invitation[i]
  BY <1>1, <1>8
<1>11. StepOf(p) /\ Final /\ Members' = Members /\ TypeInv'
  <2>1. StepOf(p)
    BY <1>1, <1>3, <1>5, <1>8, <1>10 DEF StepOf
  <2>2. Final
    BY <1>7, <1>9, <1>10 DEF Final
  <2> QED
    BY <1>1, <1>3, <1>6, <1>9, <2>1, <2>2 DEF TypeInv, Members
<1>12. ASSUME NEW i \in DOMAIN invitation
       PROVE  LockFine(i)' /\ MailFine(i)'
  <2>1. CASE i = k
    BY <1>7, <1>10, <2>1 DEF LockFine, MailFine, Pending
  <2>2. CASE i # k
    <3>1. LockFine(i)
      BY DEF IInv
    <3>2. invitation[i].lock # p /\ ~ (req[p].pc \in Issued /\ req[p].inv = i)
      BY <1>2, <1>3, <1>4, <2>2, <3>1 DEF LockFine, Issued
    <3>3. invitation'[i] = invitation[i] /\ StepOf(p) /\ mailed' = mailed
      BY <1>3, <1>10, <1>11, <2>2
    <3> QED
      BY <3>2, <3>3, RowKept
  <2> QED
    BY <2>1, <2>2
<1>13. InviterFine(p)' /\ orgLock # p
  BY <1>2, <1>3, <1>5, <1>6, Standing DEF InviterFine
<1> QED
  BY <1>1, <1>2, <1>3, <1>4, <1>5, <1>6, <1>9, <1>11, <1>12, <1>13, Together DEF Counted, Seated

\* A pending row gets another token, and its handler is about to mail it.
LEMMA RefreshInvariant ==
  ASSUME IInv, NEW p \in Requests, RefreshOrganizationInvitation(p)
  PROVE  IInv' /\ Final
<1> DEFINE k == req[p].inv
           r == [req[p] EXCEPT !.pc = "remail"]
           row == [invitation[k] EXCEPT !.token = p, !.expired = FALSE]
<1>1. /\ TypeInv /\ req \in [Requests -> RequestState] /\ req[p] \in RequestState
      /\ invitation \in [DOMAIN invitation -> InvitationRow]
  BY Fields DEF IInv, TypeInv
<1>2. /\ req[p].pc = "refresh" /\ invitation[k].lock = None /\ Pending(k)
      /\ invitation' = [invitation EXCEPT ![k] = row] /\ req' = [req EXCEPT ![p] = r]
      /\ UNCHANGED <<member, orgLock, limit, changes, peak, overtaken, mailed, joined>>
  BY DEF RefreshOrganizationInvitation, At, Free, Goto
<1>3. p \in Inviters /\ p \notin Adders \cup Removers \cup Acceptors /\ p # None /\ p \notin overtaken
  BY <1>2, Standing, Classes DEF AdderFine, RemoverFine, AcceptorFine
<1>4. k \in DOMAIN invitation /\ req[p].token = p /\ p \in Tokens /\ orgLock # p
  BY <1>2, <1>3, Standing DEF InviterFine, Tokens
<1>5. r \in RequestState /\ r.pc = "remail" /\ r.inv = k /\ r.token = p
  <2>1. r \in RequestState
    BY <1>1, Updates DEF RequestState
  <2> QED
    BY <1>1, <1>4, <2>1 DEF RequestState
<1> HIDE DEF r
<1>6. req'[p] = r /\ req' \in [Requests -> RequestState]
  BY <1>1, <1>2, <1>5
<1>7. /\ row \in InvitationRow /\ row.email = invitation[k].email /\ row.token = p
      /\ row.lock = None /\ row.status = "pending"
  <2>1. invitation[k] \in InvitationRow
    BY <1>1, <1>4
  <2> QED
    BY <1>2, <1>4, <2>1 DEF InvitationRow, Pending
<1> HIDE DEF row, k
<1>8. /\ invitation' \in Seq(InvitationRow) /\ Len(invitation') = Len(invitation)
      /\ DOMAIN invitation' = DOMAIN invitation
  <2>1. invitation' \in [DOMAIN invitation -> InvitationRow]
    BY <1>1, <1>2, <1>7
  <2> QED
    BY <1>1, <2>1, Rewritten
<1>9. invitation'[k] = row /\ \A i \in DOMAIN invitation \ {k} : invitation'[i] = invitation[i]
  BY <1>1, <1>2, <1>4
<1>10. StepOf(p) /\ Final /\ Members' = Members /\ TypeInv'
  <2>1. StepOf(p)
    BY <1>1, <1>2, <1>5, <1>9 DEF StepOf
  <2>2. Final
    BY <1>2, <1>7, <1>8, <1>9 DEF Final
  <2> QED
    BY <1>1, <1>2, <1>6, <1>8, <2>1, <2>2 DEF TypeInv, Members
<1>11. ASSUME NEW i \in DOMAIN invitation
       PROVE  LockFine(i)' /\ MailFine(i)'
  <2>1. CASE i = k
    BY <1>3, <1>5, <1>6, <1>7, <1>9, <2>1 DEF LockFine, MailFine, Issued
  <2>2. CASE i # k
    <3>1. LockFine(i)
      BY DEF IInv
    <3>2. invitation[i].lock # p /\ req[p].pc \notin Issued
      BY <1>2, <1>3, <3>1 DEF LockFine, Issued
    <3> QED
      BY <1>2, <1>9, <1>10, <2>2, <3>2, RowKept
  <2> QED
    BY <2>1, <2>2
<1>12. InviterFine(p)'
  BY <1>4, <1>5, <1>6, <1>8 DEF InviterFine
<1> QED
  BY <1>1, <1>2, <1>3, <1>4, <1>5, <1>6, <1>8, <1>10, <1>11, <1>12, Together DEF Counted, Seated

\* An acceptance locks the row it has found, if it is still what it was.
LEMMA LockRowInvariant ==
  ASSUME IInv, NEW p \in Requests, LockInvitation(p)
  PROVE  IInv' /\ Final
<1> DEFINE k == req[p].inv
           r == [req[p] EXCEPT !.pc = "org"]
           row == [invitation[k] EXCEPT !.lock = p]
<1>1. /\ TypeInv /\ req \in [Requests -> RequestState] /\ req[p] \in RequestState
      /\ invitation \in [DOMAIN invitation -> InvitationRow]
  BY Fields DEF IInv, TypeInv
<1>2. /\ req[p].pc = "row" /\ invitation[k].lock = None /\ Pending(k) /\ k \in DOMAIN invitation
      /\ invitation[k].token = req[p].token
      /\ invitation' = [invitation EXCEPT ![k] = row] /\ req' = [req EXCEPT ![p] = r]
      /\ UNCHANGED <<member, orgLock, limit, changes, peak, overtaken, revived, mailed, joined>>
  BY DEF LockInvitation, At, Free, Goto, Valid
<1>3. p \in Acceptors /\ p \notin Adders \cup Removers \cup Inviters /\ p # None
  BY <1>2, Standing, Classes DEF AdderFine, RemoverFine, InviterFine
<1>4. invitation[k].email = req[p].user /\ p \notin overtaken /\ orgLock # p
  BY <1>2, <1>3, Standing DEF AcceptorFine, SeatFine
<1>5. /\ r \in RequestState /\ r.pc = "org" /\ r.inv = k /\ r.token = req[p].token
      /\ r.user = req[p].user
  <2>1. r \in RequestState
    BY <1>1, Updates DEF RequestState
  <2> QED
    BY <1>1, <2>1 DEF RequestState
<1> HIDE DEF r
<1>6. req'[p] = r /\ req' \in [Requests -> RequestState]
  BY <1>1, <1>2, <1>5
<1>7. /\ row \in InvitationRow /\ row.email = invitation[k].email /\ row.token = invitation[k].token
      /\ row.lock = p /\ row.status = "pending"
  <2>1. invitation[k] \in InvitationRow
    BY <1>1, <1>2
  <2> QED
    BY <1>2, <2>1 DEF InvitationRow, Pending
<1> HIDE DEF row, k
<1>8. /\ invitation' \in Seq(InvitationRow) /\ Len(invitation') = Len(invitation)
      /\ DOMAIN invitation' = DOMAIN invitation
  <2>1. invitation' \in [DOMAIN invitation -> InvitationRow]
    BY <1>1, <1>2, <1>7
  <2> QED
    BY <1>1, <2>1, Rewritten
<1>9. invitation'[k] = row /\ \A i \in DOMAIN invitation \ {k} : invitation'[i] = invitation[i]
  BY <1>1, <1>2
<1>10. StepOf(p) /\ Final /\ Members' = Members /\ TypeInv'
  <2>1. StepOf(p)
    BY <1>1, <1>2, <1>5, <1>9 DEF StepOf
  <2>2. Final
    BY <1>2, <1>7, <1>8, <1>9 DEF Final
  <2> QED
    BY <1>1, <1>2, <1>6, <1>8, <2>1, <2>2 DEF TypeInv, Members
<1>11. ASSUME NEW i \in DOMAIN invitation
       PROVE  LockFine(i)' /\ MailFine(i)'
  <2>1. CASE i = k
    BY <1>2, <1>3, <1>5, <1>6, <1>7, <1>9, <1>10, <2>1, RowKept DEF Pending
  <2>2. CASE i # k
    <3>1. LockFine(i)
      BY DEF IInv
    <3>2. invitation[i].lock # p
      BY <1>2, <1>3, <3>1 DEF LockFine
    <3> QED
      BY <1>2, <1>3, <1>9, <1>10, <2>2, <3>2, RowKept
  <2> QED
    BY <2>1, <2>2
<1>12. AcceptorFine(p)'
  BY <1>2, <1>4, <1>5, <1>6, <1>7, <1>8, <1>9 DEF AcceptorFine, Pending
<1> QED
  BY <1>1, <1>2, <1>3, <1>4, <1>5, <1>6, <1>8, <1>10, <1>11, <1>12, Together DEF Counted, Seated

\* A handler that gives up holds nothing any more.
LEMMA GiveUpInvariant ==
  ASSUME IInv, NEW p \in Requests, GiveUp(p)
  PROVE  IInv' /\ Final
<1>1. /\ TypeInv /\ req \in [Requests -> RequestState] /\ req[p] \in RequestState
      /\ invitation \in [DOMAIN invitation -> InvitationRow]
  BY Fields DEF IInv, TypeInv
<1> DEFINE r == [Idle EXCEPT !.pc = "failed", !.inv = IF p \in Inviters THEN req[p].inv ELSE 0]
<1>2. /\ req[p].pc \notin {"start", "done", "refused", "failed"} /\ req' = [req EXCEPT ![p] = r]
      /\ invitation' = Unlocked(p, invitation)
      /\ orgLock' = IF orgLock = p THEN None ELSE orgLock
      /\ UNCHANGED <<member, limit, changes, peak, overtaken, revived, mailed, joined>>
  BY DEF GiveUp, Finish, Release
<1>3. r \in RequestState /\ r.pc = "failed" /\ r.inv = IF p \in Inviters THEN req[p].inv ELSE 0
  BY <1>1, Answers DEF IInv
<1> HIDE DEF r
<1>4. req'[p] = r /\ req' \in [Requests -> RequestState]
  BY <1>1, <1>2, <1>3
<1>5. p # None
  BY Classes
<1>6. ASSUME NEW i \in DOMAIN invitation
      PROVE  /\ invitation'[i] \in InvitationRow
             /\ invitation'[i].status = invitation[i].status
             /\ invitation'[i].token = invitation[i].token
             /\ invitation'[i].email = invitation[i].email
             /\ invitation'[i].lock = IF invitation[i].lock = p THEN None ELSE invitation[i].lock
             /\ invitation[i].lock # p => invitation'[i] = invitation[i]
  <2>1. /\ invitation[i] \in InvitationRow
        /\ invitation'[i] = IF invitation[i].lock = p THEN [invitation[i] EXCEPT !.lock = None]
                                                     ELSE invitation[i]
    BY <1>1, <1>2 DEF Unlocked
  <2> QED
    BY <2>1 DEF InvitationRow
<1>7. /\ invitation' \in Seq(InvitationRow) /\ Len(invitation') = Len(invitation)
      /\ DOMAIN invitation' = DOMAIN invitation
  <2>1. invitation' \in [DOMAIN invitation -> InvitationRow]
    BY <1>2, <1>6 DEF Unlocked
  <2> QED
    BY <1>1, <2>1, Rewritten
<1>8. StepOf(p) /\ Final /\ Members' = Members /\ TypeInv'
  <2>1. StepOf(p)
    BY <1>1, <1>2, <1>3, <1>6 DEF StepOf
  <2>2. Final
    BY <1>6, <1>7 DEF Final
  <2> QED
    BY <1>1, <1>2, <1>4, <1>7, <2>1, <2>2 DEF TypeInv, Members
<1>9. ASSUME NEW i \in DOMAIN invitation
      PROVE  LockFine(i)' /\ MailFine(i)'
  <2>1. p \in Inviters /\ req[p].inv = i => req'[p].inv = i /\ req'[p].pc \in Issued
    BY <1>3, <1>4 DEF Issued
  <2>2. invitation'[i].lock # p /\ invitation'[i].lock \in {invitation[i].lock, None}
    BY <1>5, <1>6
  <2> QED
    BY <1>2, <1>6, <1>8, <2>1, <2>2, RowKept
<1>10. /\ p \in Adders => AdderFine(p)'
       /\ p \in Removers => RemoverFine(p)'
       /\ p \in Inviters => InviterFine(p)'
       /\ p \in Acceptors => AcceptorFine(p)'
  BY <1>3, <1>4 DEF AdderFine, RemoverFine, InviterFine, AcceptorFine
<1>11. orgLock' \in {orgLock, p, None} /\ orgLock' # p
  BY <1>2, <1>5
<1> QED
  BY <1>2, <1>3, <1>4, <1>7, <1>8, <1>9, <1>10, <1>11, Together DEF Counted

\* A member goes, by a compensation or a removal.
LEMMA LeaveInvariant ==
  ASSUME IInv, NEW p \in Requests,
         UndoAddMember(p) \/ \E u, a \in Users : RemoveMember(p, a, u)
  PROVE  IInv' /\ Final
<1>1. /\ TypeInv /\ req \in [Requests -> RequestState] /\ req[p] \in RequestState
      /\ \A i \in Users : member[i] \in Roles \cup {"none"}
      /\ member \in [Users -> Roles \cup {"none"}] /\ req[p].user \in Users
  BY Fields DEF IInv, TypeInv
<1>2. PICK u \in Users, s \in {"done", "failed"} : Leaves(u) /\ Finish(p, s)
  BY <1>1 DEF UndoAddMember, RemoveMember
<1>3. /\ req[p].pc \in {"undo", "start"}
      /\ UNCHANGED <<invitation, orgLock, limit, changes, peak, overtaken, revived, mailed, joined>>
  BY DEF UndoAddMember, RemoveMember, At
<1>4. /\ \/ p \in Adders /\ p \notin Removers
         \/ p \in Removers /\ p \notin Adders /\ p \notin overtaken
      /\ p \notin Inviters \cup Acceptors /\ orgLock # p
  BY <1>3, Standing, Classes DEF UndoAddMember, RemoveMember, At, RemoverFine, InviterFine, AcceptorFine
<1> DEFINE r == [Idle EXCEPT !.pc = s, !.inv = IF p \in Inviters THEN req[p].inv ELSE 0]
<1>5. req' = [req EXCEPT ![p] = r] /\ r \in RequestState /\ r.pc = s
  BY <1>1, <1>2, Answers DEF IInv, Finish
<1> HIDE DEF r
<1>6. req'[p] = r /\ req' \in [Requests -> RequestState]
  BY <1>1, <1>5
<1>7. member' \in [Users -> Roles \cup {"none"}] /\ Members' \subseteq Members
  BY <1>1, <1>2 DEF Leaves, Members
<1>8. StepOf(p) /\ Final /\ TypeInv'
  BY <1>1, <1>3, <1>5, <1>6, <1>7 DEF StepOf, Final, TypeInv
<1>9. ASSUME NEW i \in DOMAIN invitation
      PROVE  LockFine(i)' /\ MailFine(i)'
  <2>1. LockFine(i)
    BY DEF IInv
  <2>2. invitation[i].lock # p
    BY <1>4, <2>1, Classes DEF LockFine
  <2> QED
    BY <1>3, <1>4, <1>8, <2>2, RowKept
<1>10. /\ p \in Adders => AdderFine(p)'
       /\ p \in Removers => RemoverFine(p)'
  BY <1>5, <1>6 DEF AdderFine, RemoverFine
<1> QED
  BY <1>3, <1>4, <1>5, <1>6, <1>7, <1>8, <1>9, <1>10, Together

----------------------------------------------------------------------------
(* Steps that let somebody in. *)

\* Who counted and is not overtaken still finds a seat, and the step of an overtaken handler
\* uses up its share.
LEMMA JoinSeats ==
  ASSUME IInv, NEW p \in Seated, NEW u \in Users, NEW role, Joins(p, u, role), role # "none",
         StepOf(p), req[p].pc = "insert", req'[p].pc \in {"sync", "done"}, peak' = peak
  PROVE  /\ \A q \in Seated : SeatFine(q)'
         /\ SpentFine' /\ overtaken' \subseteq Seated
<1>1. /\ member \in [Users -> Roles \cup {"none"}] /\ peak \in Int /\ overtaken \subseteq Seated
      /\ Seated \subseteq Requests /\ p \in Requests
  BY SeatsAssumption, Classes DEF IInv, TypeInv, Seated
<1>2. \A q \in Requests \ {p} : req'[q] = req[q]
  BY DEF StepOf
<1> DEFINE Over == {q \in Requests \ {p} : At(q, "insert") /\ q \notin Inviters /\ {p, q} \cap Adders # {}}
<1>3. overtaken' = overtaken \cup Over /\ member[u] = "none" /\ member' = [member EXCEPT ![u] = role]
  BY DEF Joins
<1>4. \A q \in Over : q \in Seated /\ q # p /\ req[q].pc = "insert" /\ req'[q].pc = "insert"
  <2> TAKE q \in Over
  <2>1. q \in Requests /\ q # p /\ req[q].pc = "insert" /\ q \notin Inviters
    BY DEF At
  <2>2. q \notin Removers
    BY <2>1, Standing DEF RemoverFine
  <2> QED
    BY <1>2, <2>1, <2>2, Classes DEF Seated
<1>5. \A q \in Seated \ {p} : req[q].pc = "insert" => q \in Over
  <2> TAKE q \in Seated \ {p}
  <2> HAVE req[q].pc = "insert"
  <2>1. q \in Requests /\ q \notin Inviters
    BY Classes DEF Seated
  <2>2. p \in Adders \/ q \in Adders
    <3> SUFFICES ASSUME p \in Acceptors, q \in Acceptors PROVE FALSE
      BY DEF Seated
    <3>1. orgLock = p /\ orgLock = q
      BY <1>1, <2>1, Standing DEF AcceptorFine
    <3> QED
      BY <3>1
  <2> QED
    BY <2>1, <2>2 DEF At
<1>6. /\ Cardinality(Members) \in Nat /\ Cardinality(Members') = Cardinality(Members) + 1
  <2>1. Members' = Members \cup {u} /\ u \notin Members
    BY <1>1, <1>3 DEF Members
  <2> QED
    BY <2>1, MembersFinite, FS_AddElement
<1>7. ASSUME NEW q \in Seated
      PROVE  SeatFine(q)'
  <2>1. SeatFine(q)
    BY DEF IInv
  <2>2. CASE q = p
    BY <2>2 DEF SeatFine
  <2>3. CASE q # p
    <3>1. req'[q] = req[q]
      BY <1>1, <1>2, <2>3
    <3>2. req[q].pc = "insert" => q \in overtaken'
      BY <1>3, <1>5, <2>3
    <3>3. q \in overtaken' => req[q].pc \in {"insert", "sync", "undo", "done", "failed"}
      BY <1>3, <1>4, <2>1 DEF SeatFine
    <3> QED
      BY <3>1, <3>2, <3>3 DEF SeatFine
  <2> QED
    BY <2>2, <2>3
<1> HIDE DEF Over
<1>8. overtaken' \subseteq Seated
  BY <1>1, <1>3, <1>4
<1>9. SpentFine'
  <2>1. Spent \in SUBSET Seated /\ Spent' \in SUBSET Seated /\ SpentFine
    BY <1>1, <1>8 DEF Spent, IInv
  <2>2. /\ IsFiniteSet(Spent) /\ Cardinality(Spent) \in Nat
        /\ IsFiniteSet(Spent') /\ Cardinality(Spent') \in Nat
    BY <2>1, HandlersFinite
  <2>3. \A q \in Spent : q # p /\ q \in Spent'
    <3> TAKE q \in Spent
    <3>1. q \in overtaken /\ req[q].pc # "insert" /\ q \in Requests /\ q # p
      BY <1>1 DEF Spent, At
    <3>2. req'[q] = req[q]
      BY <1>2, <3>1
    <3> QED
      BY <1>3, <3>1, <3>2 DEF Spent, At
  <2>4. CASE p \in overtaken
    <3>1. p \in Spent'
      BY <1>3, <2>4 DEF Spent, At
    <3>2. Spent \cup {p} \in SUBSET Spent' /\ p \notin Spent
      BY <2>3, <3>1
    <3>3. Cardinality(Spent) + 1 <= Cardinality(Spent')
      <4>1. Cardinality(Spent \cup {p}) = Cardinality(Spent) + 1
        BY <2>2, <3>2, FS_AddElement
      <4>2. Cardinality(Spent \cup {p}) <= Cardinality(Spent')
        BY <2>2, <3>2, FS_Subset
      <4> QED
        BY <4>1, <4>2
    <3> QED
      BY <1>1, <1>6, <2>1, <2>2, <3>3 DEF SpentFine
  <2>5. CASE p \notin overtaken
    <3>1. Cardinality(Members) < peak
      BY <2>5 DEF IInv, SeatFine
    <3> QED
      BY <1>1, <1>6, <2>2, <3>1 DEF SpentFine
  <2> QED
    BY <2>4, <2>5
<1> QED
  BY <1>7, <1>8, <1>9

\* A direct addition.
LEMMA InsertInvariant ==
  ASSUME IInv, NEW p \in Requests, NEW role \in Grants, InsertMember(p, role)
  PROVE  IInv' /\ Final
<1>1. /\ TypeInv /\ req \in [Requests -> RequestState] /\ req[p] \in RequestState
      /\ member \in [Users -> Roles \cup {"none"}] /\ req[p].user \in Users
      /\ role \in Roles /\ role # "none"
  BY Fields, SeatsAssumption DEF IInv, TypeInv, Roles
<1> DEFINE r == [req[p] EXCEPT !.pc = "sync"]
<1>2. /\ p \in Adders /\ req[p].pc = "insert" /\ Joins(p, req[p].user, role)
      /\ req' = [req EXCEPT ![p] = r]
      /\ UNCHANGED <<invitation, orgLock, limit, changes, peak, revived, mailed, joined>>
  BY DEF InsertMember, At, Goto
<1>3. /\ p \in Seated /\ p \notin Removers \cup Inviters \cup Acceptors /\ orgLock # p
  <2>1. p \in Seated /\ p \notin Removers \cup Inviters \cup Acceptors /\ p # None
    BY <1>2, Classes DEF Seated
  <2>2. orgLock \in Inviters \cup Acceptors \cup {None}
    BY DEF IInv, TypeInv
  <2> QED
    BY <2>1, <2>2
<1>4. r \in RequestState /\ r.pc = "sync"
  <2>1. r \in RequestState
    BY <1>1, Updates DEF RequestState
  <2> QED
    BY <1>1, <2>1 DEF RequestState
<1> HIDE DEF r
<1>5. req'[p] = r /\ req' \in [Requests -> RequestState]
  BY <1>1, <1>2, <1>4
<1>6. StepOf(p) /\ Final
  BY <1>1, <1>2 DEF StepOf, Final
<1>7. (\A q \in Seated : SeatFine(q)') /\ SpentFine' /\ overtaken' \subseteq Seated
  BY <1>1, <1>2, <1>3, <1>4, <1>5, <1>6, JoinSeats
<1>8. TypeInv'
  <2>1. member' \in [Users -> Roles \cup {"none"}]
    BY <1>1, <1>2 DEF Joins
  <2> QED
    BY <1>1, <1>2, <1>5, <1>7, <2>1 DEF TypeInv
<1>9. ASSUME NEW i \in DOMAIN invitation
      PROVE  LockFine(i)' /\ MailFine(i)'
  <2>1. LockFine(i)
    BY DEF IInv
  <2>2. invitation[i].lock # p
    BY <1>3, <2>1, Classes DEF LockFine
  <2> QED
    BY <1>2, <1>3, <1>6, <2>2, RowKept
<1>10. AdderFine(p)'
  BY <1>4, <1>5 DEF AdderFine
<1>11. /\ \A q \in Adders : AdderFine(q)'
       /\ \A q \in Removers : RemoverFine(q)'
       /\ \A q \in Inviters : InviterFine(q)'
       /\ \A q \in Acceptors : AcceptorFine(q)'
  <2>1. peak' \in Int /\ peak' >= peak
    BY <1>2, SeatsAssumption DEF IInv, TypeInv
  <2> QED
    BY <1>3, <1>6, <1>10, <2>1, OthersKept
<1>12. LengthFine' /\ JoinFine' /\ OrgFine'
  BY <1>2, <1>3, <1>6, LengthKept, JoinKept, OrgKept
<1> QED
  BY <1>2, <1>6, <1>7, <1>8, <1>9, <1>11, <1>12 DEF IInv

\* An acceptance: the member and the status, in one commit.
LEMMA AcceptInvariant ==
  ASSUME IInv, NEW p \in Requests, NEW role \in Grants, AcceptOrganizationInvitation(p, role)
  PROVE  IInv' /\ Final
<1> DEFINE k == req[p].inv
           u == req[p].user
           r == [Idle EXCEPT !.pc = "done", !.inv = IF p \in Inviters THEN req[p].inv ELSE 0]
           row == [invitation[k] EXCEPT !.status = "accepted", !.expired = FALSE, !.lock = None]
           x == [by |-> p, inv |-> k, token |-> req[p].token, user |-> u]
<1>1. /\ TypeInv /\ req \in [Requests -> RequestState] /\ req[p] \in RequestState
      /\ member \in [Users -> Roles \cup {"none"}] /\ u \in Users /\ req[p].token \in Tokens
      /\ role \in Roles /\ role # "none" /\ DOMAIN invitation \subseteq InvIds
      /\ invitation \in [DOMAIN invitation -> InvitationRow]
  BY Fields, IdsInBounds, SeatsAssumption DEF IInv, TypeInv, Roles
<1>2. /\ p \in Acceptors /\ req[p].pc = "insert" /\ Joins(p, u, role)
      /\ invitation' = [invitation EXCEPT ![k] = row] /\ joined' = joined \cup {x}
      /\ orgLock' = IF orgLock = p THEN None ELSE orgLock
      /\ req' = [req EXCEPT ![p] = r]
      /\ UNCHANGED <<limit, changes, peak, revived, mailed>>
  BY DEF AcceptOrganizationInvitation, At, Release, Finish
<1>3. p \in Seated /\ p \notin Removers \cup Inviters \cup Adders /\ p # None
  BY <1>2, Classes DEF Seated
<1>4. r \in RequestState /\ r.pc = "done"
  BY <1>1, Answers DEF IInv
<1> HIDE DEF r
<1>5. req'[p] = r /\ req' \in [Requests -> RequestState]
  BY <1>1, <1>2, <1>4
<1>6. /\ k \in DOMAIN invitation /\ invitation[k].email = u /\ invitation[k].lock = p /\ Pending(k)
      /\ invitation[k].token = req[p].token /\ orgLock = p
  BY <1>2, Standing DEF AcceptorFine
<1>7. /\ row \in InvitationRow /\ row.status = "accepted" /\ row.lock = None
      /\ row.token = invitation[k].token /\ row.email = invitation[k].email
  <2>1. invitation[k] \in InvitationRow
    BY <1>1, <1>6
  <2> QED
    BY <2>1 DEF InvitationRow
<1>8. /\ x.inv = k /\ x.token = req[p].token /\ x.user = u
      /\ x \in [by : Acceptors, inv : InvIds, token : Tokens, user : Users]
  BY <1>1, <1>2, <1>6
<1> HIDE DEF row, k, u, x
<1>9. /\ invitation' \in Seq(InvitationRow) /\ Len(invitation') = Len(invitation)
      /\ DOMAIN invitation' = DOMAIN invitation
  <2>1. invitation' \in [DOMAIN invitation -> InvitationRow]
    BY <1>1, <1>2, <1>7
  <2> QED
    BY <1>1, <2>1, Rewritten
<1>10. invitation'[k] = row /\ \A i \in DOMAIN invitation \ {k} : invitation'[i] = invitation[i]
  BY <1>1, <1>2, <1>6
<1>11. StepOf(p) /\ Final
  <2>1. StepOf(p)
    BY <1>1, <1>2, <1>6, <1>10 DEF StepOf
  <2>2. Final
    BY <1>6, <1>7, <1>9, <1>10 DEF Final
  <2> QED
    BY <2>1, <2>2
<1>12. (\A q \in Seated : SeatFine(q)') /\ SpentFine' /\ overtaken' \subseteq Seated
  BY <1>1, <1>2, <1>3, <1>4, <1>5, <1>11, JoinSeats
<1>13. TypeInv'
  <2>1. member' \in [Users -> Roles \cup {"none"}]
    BY <1>1, <1>2 DEF Joins
  <2> QED
    BY <1>1, <1>2, <1>5, <1>8, <1>9, <1>12, <2>1 DEF TypeInv
<1>14. ASSUME NEW i \in DOMAIN invitation
       PROVE  LockFine(i)' /\ MailFine(i)'
  <2>1. CASE i = k
    BY <1>7, <1>10, <2>1 DEF LockFine, MailFine, Pending
  <2>2. CASE i # k
    <3>1. LockFine(i)
      BY DEF IInv
    <3>2. invitation[i].lock # p
      BY <1>2, <1>3, <2>2, <3>1 DEF LockFine, k
    <3> QED
      BY <1>2, <1>3, <1>10, <1>11, <2>2, <3>2, RowKept
  <2> QED
    BY <2>1, <2>2
<1>15. AcceptorFine(p)'
  BY <1>4, <1>5 DEF AcceptorFine
<1>16. /\ \A q \in Adders : AdderFine(q)'
       /\ \A q \in Removers : RemoverFine(q)'
       /\ \A q \in Inviters : InviterFine(q)'
       /\ \A q \in Acceptors : AcceptorFine(q)'
  <2>1. peak' \in Int /\ peak' >= peak
    BY <1>2, SeatsAssumption DEF IInv, TypeInv
  <2> QED
    BY <1>3, <1>11, <1>15, <2>1, OthersKept
<1>17. JoinFine'
  <2>1. \A y \in joined : y.inv # k /\ y.inv \in DOMAIN invitation'
                          /\ invitation'[y.inv] = invitation[y.inv]
    BY <1>6, <1>9, <1>10 DEF IInv, JoinFine, Pending
  <2>2. /\ k \in DOMAIN invitation' /\ invitation'[k].status = "accepted"
        /\ invitation'[k].token = x.token /\ invitation'[k].email = x.user
    BY <1>6, <1>7, <1>8, <1>9, <1>10
  <2>3. JoinFine
    BY DEF IInv
  <2> QED
    BY <1>2, <1>8, <2>1, <2>2, <2>3 DEF JoinFine
<1>18. LengthFine' /\ OrgFine'
  BY <1>2, <1>3, <1>6, <1>9, <1>11, LengthKept, OrgKept
<1> QED
  BY <1>9, <1>11, <1>12, <1>13, <1>14, <1>16, <1>17, <1>18 DEF IInv

\* A creation: the rows it found stale end, and one row more is pending.
LEMMA CreateInvariant ==
  ASSUME IInv, NEW p \in Requests, CreateOrganizationInvitation(p)
  PROVE  IInv' /\ Final
<1> DEFINE n == Len(invitation) + 1
           new == NewInvitation(req[p].user, p)
           ended == [i \in DOMAIN invitation |-> IF invitation[i].lock = p
                      THEN [invitation[i] EXCEPT !.status = "revoked", !.expired = FALSE, !.lock = None]
                      ELSE invitation[i]]
           r == [req[p] EXCEPT !.pc = "mail", !.inv = n, !.stale = {}]
<1>1. /\ TypeInv /\ req \in [Requests -> RequestState] /\ req[p] \in RequestState
      /\ req[p].user \in Users /\ Len(invitation) \in Nat
      /\ DOMAIN invitation = 1 .. Len(invitation)
  BY Fields DEF IInv, TypeInv
<1>2. /\ p \in Inviters /\ req[p].pc = "insert"
      /\ invitation' = Append(ended, new)
      /\ orgLock' = IF orgLock = p THEN None ELSE orgLock
      /\ req' = [req EXCEPT ![p] = r]
      /\ UNCHANGED <<member, limit, changes, peak, overtaken, revived, mailed, joined>>
  BY DEF CreateOrganizationInvitation, At, Release
<1>3. /\ p \notin Adders \cup Removers \cup Acceptors /\ p # None /\ p \notin overtaken
      /\ p \notin Seated /\ p \in Tokens
  BY <1>2, Standing, Classes DEF Seated, Tokens
<1>4. n <= MaxInvitations /\ Cardinality(Created \cup {p}) = Cardinality(Created) + 1
      /\ n <= Cardinality(Invited) + Cardinality(Created \cup {p}) /\ MaxInvitations \in Nat
  <2>1. Created \cup {p} \in SUBSET Inviters /\ Created \in SUBSET Inviters /\ p \notin Created
    BY <1>2 DEF Created, Counted
  <2>2. /\ IsFiniteSet(Created) /\ Cardinality(Created) \in Nat
        /\ Cardinality(Created \cup {p}) <= Cardinality(Inviters)
    BY <2>1, HandlersFinite
  <2>3. Cardinality(Created \cup {p}) = Cardinality(Created) + 1
    BY <2>1, <2>2, FS_AddElement
  <2>4. LengthFine
    BY DEF IInv
  <2> QED
    BY <1>1, <2>2, <2>3, <2>4, HandlersFinite DEF LengthFine, MaxInvitations
<1>5. r \in RequestState /\ r.pc = "mail" /\ r.inv = n /\ r.token = req[p].token
  <2>1. n \in 0 .. MaxInvitations /\ {} \in SUBSET (InvIds \X Tokens)
    BY <1>1, <1>4
  <2>2. r \in RequestState
    BY <1>1, <2>1, Updates DEF RequestState
  <2> QED
    BY <1>1, <2>2 DEF RequestState
<1> HIDE DEF r
<1>6. req'[p] = r /\ req' \in [Requests -> RequestState]
  BY <1>1, <1>2, <1>5
<1>7. /\ new \in InvitationRow /\ new.status = "pending" /\ new.token = p /\ new.lock = None
  BY <1>1, <1>3 DEF NewInvitation, InvitationRow
<1> HIDE DEF new
<1>8. ASSUME NEW i \in DOMAIN invitation
      PROVE  /\ ended[i] \in InvitationRow
             /\ ended[i].email = invitation[i].email /\ ended[i].token = invitation[i].token
             /\ invitation[i].lock # p => ended[i] = invitation[i]
             /\ invitation[i].lock = p => /\ Pending(i) /\ ended[i].status = "revoked"
                                          /\ ended[i].lock = None
  <2>1. invitation[i] \in InvitationRow /\ LockFine(i)
    BY <1>1, Fields DEF IInv
  <2>2. CASE invitation[i].lock = p
    <3>1. ended[i] = [invitation[i] EXCEPT !.status = "revoked", !.expired = FALSE, !.lock = None]
      BY <2>2
    <3>2. Pending(i)
      BY <1>3, <2>1, <2>2 DEF LockFine
    <3> QED
      BY <2>1, <2>2, <3>1, <3>2 DEF InvitationRow
  <2>3. CASE invitation[i].lock # p
    BY <2>1, <2>3
  <2> QED
    BY <2>2, <2>3
<1>9. ended \in Seq(InvitationRow) /\ Len(ended) = Len(invitation)
  <2>1. ended \in [DOMAIN invitation -> InvitationRow]
    BY <1>8
  <2> QED
    BY <1>1, <2>1, Rewritten
<1>10. /\ invitation' \in Seq(InvitationRow) /\ Len(invitation') = n
       /\ DOMAIN invitation' = DOMAIN invitation \cup {n} /\ invitation'[n] = new
       /\ \A i \in DOMAIN invitation : invitation'[i] = ended[i]
  <2> HIDE DEF ended
  <2>1. /\ Append(ended, new) \in Seq(InvitationRow)
        /\ Len(Append(ended, new)) = Len(ended) + 1
        /\ \A i \in 1 .. Len(ended) : Append(ended, new)[i] = ended[i]
        /\ Append(ended, new)[Len(ended) + 1] = new
    BY <1>7, <1>9, AppendProperties
  <2>2. DOMAIN invitation' = 1 .. n
    BY <1>2, <1>9, <2>1, LenProperties
  <2> QED
    BY <1>1, <1>2, <1>9, <2>1, <2>2
<1> HIDE DEF ended, n
<1>11. StepOf(p) /\ Final
  <2>1. StepOf(p)
    BY <1>1, <1>2, <1>6, <1>8, <1>10 DEF StepOf
  <2>2. Final
    BY <1>8, <1>10 DEF Final, Pending
  <2> QED
    BY <2>1, <2>2
<1>12. TypeInv' /\ Members' = Members
  <2>1. orgLock' \in Inviters \cup Acceptors \cup {None}
    BY <1>1, <1>2 DEF TypeInv
  <2> QED
    BY <1>1, <1>2, <1>6, <1>10, <2>1 DEF TypeInv, Members
<1>13. ASSUME NEW i \in DOMAIN invitation'
       PROVE  LockFine(i)' /\ MailFine(i)'
  <2>1. CASE i = n
    <3>1. LockFine(i)'
      BY <1>7, <1>10, <2>1 DEF LockFine
    <3>2. MailFine(i)'
      BY <1>3, <1>5, <1>6, <1>7, <1>10, <2>1 DEF MailFine, Issued
    <3> QED
      BY <3>1, <3>2
  <2>2. CASE i \in DOMAIN invitation /\ invitation[i].lock = p
    <3>1. invitation'[i].status = "revoked" /\ invitation'[i].lock = None
      BY <1>8, <1>10, <2>2
    <3> QED
      BY <3>1 DEF LockFine, MailFine, Pending
  <2>3. CASE i \in DOMAIN invitation /\ invitation[i].lock # p
    <3>1. invitation'[i] = invitation[i] /\ req[p].pc \notin Issued
      BY <1>2, <1>8, <1>10, <2>3 DEF Issued
    <3> QED
      BY <1>2, <1>11, <2>3, <3>1, RowKept
  <2> QED
    BY <1>10, <2>1, <2>2, <2>3
<1>14. InviterFine(p)'
  <2>1. req[p].token = p
    BY <1>2, Standing DEF InviterFine
  <2> QED
    BY <1>5, <1>6, <1>10, <2>1 DEF InviterFine
<1>15. /\ \A q \in Adders : AdderFine(q)'
       /\ \A q \in Removers : RemoverFine(q)'
       /\ \A q \in Inviters : InviterFine(q)'
       /\ \A q \in Acceptors : AcceptorFine(q)'
  <2>1. peak' \in Int /\ peak' >= peak
    BY <1>2, SeatsAssumption DEF IInv, TypeInv
  <2> QED
    BY <1>3, <1>11, <1>14, <2>1, OthersKept
<1>16. (\A q \in Seated : SeatFine(q)') /\ SpentFine'
  <2>1. peak' \in Int /\ peak' >= peak
    BY <1>2, SeatsAssumption DEF IInv, TypeInv
  <2> QED
    BY <1>2, <1>3, <1>11, <1>12, <2>1, SeatsKept
<1>17. LengthFine'
  <2>1. Created' = Created \cup {p}
    <3>1. \A q \in Inviters \ {p} : req'[q] = req[q]
      BY <1>11, Classes DEF StepOf
    <3> QED
      BY <1>2, <1>5, <1>6, <3>1 DEF Created, Counted
  <2> QED
    BY <1>4, <1>10, <2>1 DEF LengthFine
<1>18. JoinFine' /\ OrgFine'
  BY <1>2, <1>3, <1>11, JoinKept, OrgKept
<1> QED
  BY <1>11, <1>12, <1>13, <1>15, <1>16, <1>17, <1>18 DEF IInv

----------------------------------------------------------------------------
(* Steps of the environment. *)

\* Time passes, the subscription changes, or nothing happens.
LEMMA EnvironmentKept ==
  ASSUME IInv, TypeInv', UNCHANGED <<member, orgLock, overtaken, mailed, joined, req>>,
         peak' >= peak, DOMAIN invitation' = DOMAIN invitation, Len(invitation') = Len(invitation),
         \A i \in DOMAIN invitation :
           /\ invitation'[i].email = invitation[i].email
           /\ invitation'[i].status = invitation[i].status
           /\ invitation'[i].token = invitation[i].token
           /\ invitation'[i].lock = invitation[i].lock
  PROVE  IInv' /\ Final
<1>1. /\ member' = member /\ orgLock' = orgLock /\ overtaken' = overtaken /\ mailed' = mailed
      /\ joined' = joined /\ req' = req
  OBVIOUS
<1>2. /\ Members' = Members /\ Spent' = Spent /\ Created' = Created
      /\ Cardinality(Members) \in Nat /\ Cardinality(Spent) \in Nat
  <2>1. Spent \in SUBSET Seated
    BY DEF IInv, TypeInv, Spent
  <2> QED
    BY <1>1, <2>1, MembersFinite, HandlersFinite DEF Members, Spent, Created, At
<1>3. peak \in Int /\ peak' \in Int
  BY SeatsAssumption DEF IInv, TypeInv
<1>4. Final
  BY DEF Final
<1>5. \A i \in DOMAIN invitation' : LockFine(i)' /\ MailFine(i)'
  BY <1>1 DEF IInv, LockFine, MailFine, Pending
<1>6. ASSUME NEW p \in Adders
      PROVE  AdderFine(p)'
  <2>1. AdderFine(p) /\ req[p].limit \in Int
    BY Classes, Fields, SeatsAssumption DEF IInv
  <2> QED
    BY <1>1, <1>3, <2>1 DEF AdderFine
<1>7. \A p \in Removers : RemoverFine(p)'
  BY <1>1 DEF IInv, RemoverFine
<1>8. \A p \in Inviters : InviterFine(p)'
  BY <1>1 DEF IInv, InviterFine
<1>9. \A p \in Acceptors : AcceptorFine(p)'
  BY <1>1 DEF IInv, AcceptorFine, Pending
<1>10. \A p \in Seated : SeatFine(p)'
  BY <1>1, <1>2, <1>3 DEF IInv, SeatFine
<1>11. OrgFine' /\ JoinFine'
  BY <1>1, <1>4, JoinKept DEF IInv, OrgFine
<1>12. SpentFine' /\ LengthFine'
  BY <1>2, <1>3 DEF IInv, SpentFine, LengthFine
<1> QED
  BY <1>4, <1>5, <1>6, <1>7, <1>8, <1>9, <1>10, <1>11, <1>12 DEF IInv

\* An invitation expires.
LEMMA TimeInvariant ==
  ASSUME IInv, NEW k \in InvIds, Expire(k)
  PROVE  IInv' /\ Final
<1> DEFINE row == [invitation[k] EXCEPT !.expired = TRUE]
<1>1. /\ TypeInv /\ k \in DOMAIN invitation /\ invitation[k] \in InvitationRow
      /\ invitation \in [DOMAIN invitation -> InvitationRow]
      /\ invitation' = [invitation EXCEPT ![k] = row]
      /\ UNCHANGED <<member, orgLock, limit, changes, peak, overtaken, revived, mailed, joined, req>>
  BY Fields DEF IInv, Expire, Valid
<1>2. /\ row \in InvitationRow /\ row.email = invitation[k].email
      /\ row.status = invitation[k].status /\ row.token = invitation[k].token
      /\ row.lock = invitation[k].lock
  BY <1>1 DEF InvitationRow
<1> HIDE DEF row
<1>3. invitation'[k] = row /\ \A i \in DOMAIN invitation \ {k} : invitation'[i] = invitation[i]
  BY <1>1
<1>4. /\ invitation' \in Seq(InvitationRow) /\ Len(invitation') = Len(invitation)
      /\ DOMAIN invitation' = DOMAIN invitation
  <2>1. invitation' \in [DOMAIN invitation -> InvitationRow]
    BY <1>1, <1>2
  <2> QED
    BY <1>1, <2>1, Rewritten
<1>5. TypeInv' /\ peak' >= peak
  BY <1>1, <1>4, SeatsAssumption DEF TypeInv
<1> QED
  BY <1>1, <1>2, <1>3, <1>4, <1>5, EnvironmentKept

\* The subscription changes.
LEMMA LimitInvariant ==
  ASSUME IInv, SubscriptionChanges
  PROVE  IInv' /\ Final
<1>1. /\ TypeInv /\ limit \in Int /\ peak \in limit .. MaxSeats /\ changes \in 0 .. MaxChanges
      /\ MaxSeats \in Nat /\ MaxChanges \in Nat
  BY SeatsAssumption DEF IInv, TypeInv
<1>2. /\ limit' \in 1 .. MaxSeats /\ changes' = changes + 1 /\ changes < MaxChanges
      /\ peak' = Max({peak, limit'})
      /\ UNCHANGED <<member, invitation, orgLock, overtaken, revived, mailed, joined, req>>
  BY DEF SubscriptionChanges
<1>3. peak' \in {peak, limit'} /\ peak' >= peak /\ peak' >= limit'
  BY <1>1, <1>2, MaxOfTwo
<1>4. peak' \in limit' .. MaxSeats /\ changes' \in 0 .. MaxChanges
  BY <1>1, <1>2, <1>3
<1>5. TypeInv'
  BY <1>1, <1>2, <1>4 DEF TypeInv
<1> QED
  BY <1>2, <1>3, <1>5, EnvironmentKept

----------------------------------------------------------------------------
(* The invariant. *)

LEMMA InitInvariant == Init => IInv
<1> SUFFICES ASSUME Init PROVE IInv
  OBVIOUS
<1>1. PICK n \in 0 .. Cardinality(Invited) : \E order \in [1 .. n -> Invited] :
        invitation = [i \in 1 .. n |-> NewInvitation(order[i], None)]
  BY DEF Init
<1>2. PICK order \in [1 .. n -> Invited] :
        invitation = [i \in 1 .. n |-> NewInvitation(order[i], None)]
  BY <1>1
<1>3. n \in Nat /\ Cardinality(Invited) \in Nat /\ Cardinality(Inviters) \in Nat
  BY HandlersFinite
<1>4. DOMAIN invitation = 1 .. n /\ \A i \in 1 .. n :
        /\ invitation[i] \in InvitationRow /\ invitation[i].status = "pending"
        /\ invitation[i].token = None /\ invitation[i].lock = None
  <2>1. ASSUME NEW i \in 1 .. n
        PROVE  /\ NewInvitation(order[i], None) \in InvitationRow
               /\ NewInvitation(order[i], None).status = "pending"
               /\ NewInvitation(order[i], None).token = None
               /\ NewInvitation(order[i], None).lock = None
    <3>1. order[i] \in Users
      BY SeatsAssumption
    <3> QED
      BY <3>1 DEF NewInvitation, InvitationRow, Tokens
  <2> QED
    BY <1>2, <2>1
<1>5. invitation \in Seq(InvitationRow) /\ Len(invitation) = n
  <2>1. invitation \in [1 .. n -> InvitationRow]
    BY <1>2, <1>4
  <2>2. invitation \in Seq(InvitationRow)
    BY <1>3, <2>1, SeqDef
  <2>3. DOMAIN invitation = 1 .. Len(invitation) /\ Len(invitation) \in Nat
    BY <2>2, LenProperties
  <2> QED
    BY <1>3, <1>4, <2>2, <2>3
<1>6. /\ Idle \in RequestState /\ Idle.pc = "start"
  <2>1. 0 \in 0 .. MaxInvitations /\ 0 \in 0 .. MaxSeats
    BY <1>3, SeatsAssumption DEF MaxInvitations
  <2> QED
    BY <2>1, SeatsAssumption DEF Idle, RequestState, Tokens
<1>7. /\ req = [p \in Requests |-> Idle] /\ orgLock = None /\ joined = {} /\ overtaken = {}
      /\ limit \in 1 .. MaxSeats /\ changes = 0 /\ peak = limit
      /\ mailed = {<<i, None>> : i \in DOMAIN invitation}
      /\ member = [u \in Users |-> IF u = Owner THEN "owner" ELSE "none"]
  BY DEF Init
<1>8. \A p \in Requests : req[p] = Idle /\ req[p].pc = "start"
  BY <1>6, <1>7
<1>9. TypeInv
  <2>1. mailed \subseteq InvIds \X Tokens
    BY <1>3, <1>4, <1>7 DEF InvIds, MaxInvitations, Tokens
  <2>2. member \in [Users -> Roles \cup {"none"}]
    BY <1>7 DEF Roles
  <2>3. req \in [Requests -> RequestState]
    BY <1>6, <1>7
  <2>4. limit \in 1 .. MaxSeats /\ peak \in limit .. MaxSeats /\ changes \in 0 .. MaxChanges
    BY <1>7, SeatsAssumption
  <2> QED
    BY <1>5, <1>7, <2>1, <2>2, <2>3, <2>4 DEF TypeInv
<1>10. \A i \in DOMAIN invitation : LockFine(i) /\ MailFine(i)
  BY <1>4, <1>7 DEF LockFine, MailFine
<1>11. /\ \A p \in Adders : AdderFine(p)
       /\ \A p \in Removers : RemoverFine(p)
       /\ \A p \in Inviters : InviterFine(p)
       /\ \A p \in Acceptors : AcceptorFine(p)
       /\ \A p \in Seated : SeatFine(p)
  BY <1>7, <1>8, Classes DEF AdderFine, RemoverFine, InviterFine, AcceptorFine, SeatFine, Seated
<1>12. OrgFine /\ JoinFine
  BY <1>7 DEF OrgFine, JoinFine
<1>13. SpentFine
  <2>1. Members = {Owner}
    BY <1>7, SeatsAssumption DEF Members
  <2>2. Cardinality(Members) = 1
    BY <2>1, FS_Singleton
  <2>3. Spent = {}
    BY <1>7 DEF Spent
  <2>4. Cardinality(Spent) = 0
    BY <2>3, FS_EmptySet
  <2>5. peak \in Int /\ peak >= 1
    BY <1>7, SeatsAssumption
  <2> QED
    BY <2>2, <2>4, <2>5 DEF SpentFine
<1>14. LengthFine
  <2>1. Cardinality(Created) \in Nat
    BY HandlersFinite DEF Created
  <2> QED
    BY <1>3, <1>5, <2>1 DEF LengthFine
<1> QED
  BY <1>9, <1>10, <1>11, <1>12, <1>13, <1>14 DEF IInv

LEMMA StepInvariant == IInv /\ [Next]_vars => IInv' /\ Final
<1> SUFFICES ASSUME IInv, [Next]_vars PROVE IInv' /\ Final
  OBVIOUS
<1>1. ASSUME NEW p \in Requests, LockOrganization(p) \/ GiveUp(p)
      PROVE  IInv' /\ Final
  BY <1>1, LockInvariant, GiveUpInvariant
<1>2. ASSUME NEW p \in Requests, MemberStep(p)
      PROVE  IInv' /\ Final
  BY <1>2, AdderQuiet, LeaveInvariant, InsertInvariant DEF MemberStep
<1>3. ASSUME NEW p \in Requests, InviteStep(p)
      PROVE  IInv' /\ Final
  BY <1>3, InviterQuiet, RevokeInvariant, ExpireInvariant, CreateInvariant, EnqueueInvariant,
     RefreshInvariant DEF InviteStep
<1>4. ASSUME NEW p \in Requests, AcceptStep(p)
      PROVE  IInv' /\ Final
  BY <1>4, AcceptorQuiet, LockRowInvariant, AcceptInvariant DEF AcceptStep
<1>5. ASSUME NEW i \in InvIds, Expire(i)
      PROVE  IInv' /\ Final
  BY <1>5, TimeInvariant
<1>6. CASE SubscriptionChanges
  BY <1>6, LimitInvariant
<1>7. CASE UNCHANGED vars
  <2>1. TypeInv' /\ peak' >= peak
    BY <1>7, SeatsAssumption DEF IInv, TypeInv, vars
  <2> QED
    BY <1>7, <2>1, EnvironmentKept DEF vars
<1> QED
  BY <1>1, <1>2, <1>3, <1>4, <1>5, <1>6, <1>7 DEF Next

\* The inductive invariant holds in every reachable state.
THEOREM Invariance == Spec => []IInv
<1>1. IInv /\ [Next]_vars => IInv'
  BY StepInvariant
<1> QED
  BY InitInvariant, <1>1, PTL DEF Spec

----------------------------------------------------------------------------
(* The properties. *)

\* Rows, locks and local states keep their types, and every lock belongs to a handler that is
\* in its transaction: no path of a handler ends with a row or the organization locked.
THEOREM TypeCorrect == Spec => []TypeOK
<1>1. IInv => TypeOK
  <2> SUFFICES ASSUME IInv PROVE TypeOK
    OBVIOUS
  <2>1. Len(invitation) <= MaxInvitations
    BY IdsInBounds DEF IInv
  <2>2. \A i \in DOMAIN invitation : LET p == invitation[i].lock IN
          p # None => req[p].pc \in {"org", "count", "insert"}
    BY DEF IInv, LockFine
  <2>3. orgLock \in Requests \cup {None}
        /\ (orgLock # None => req[orgLock].pc \in {"stale", "count", "insert"})
    BY Classes DEF IInv, TypeInv, OrgFine
  <2> QED
    BY <2>1, <2>2, <2>3 DEF IInv, TypeInv, TypeOK
<1> QED
  BY Invariance, <1>1, PTL

\* An invitation lets one account in, once, with the token of its latest mail, whatever tabs,
\* resends and revocations come between: the row is locked when it is looked at again.
THEOREM AcceptedOnce == Spec => []AcceptedOnceByLatestToken
<1>1. IInv => AcceptedOnceByLatestToken
  BY DEF IInv, JoinFine, AcceptedOnceByLatestToken
<1> QED
  BY Invariance, <1>1, PTL

\* A pending invitation has a mail with its token, or its issuer is at work or has failed.
THEOREM MailsKnown == Spec => []PendingHasMail
<1>1. IInv => PendingHasMail
  BY DEF IInv, MailFine, PendingHasMail, Issued
<1> QED
  BY Invariance, <1>1, PTL

\* Accepted and revoked are final, also for a creation whose enqueue seems to have failed.
THEOREM StatusesFinal == Spec => StatusIsFinal
<1>1. IInv /\ [Next]_vars =>
        [\A i \in DOMAIN invitation :
           invitation[i].status # "pending" => invitation'[i].status = invitation[i].status]_vars
  BY StepInvariant DEF Final, Pending
<1> QED
  BY Invariance, <1>1, PTL DEF Spec, StatusIsFinal

\* The members exceed the seats only by handlers that a direct addition overtook, or additions
\* that anybody overtook: acceptances alone never do, for any number of them.
THEOREM SeatsCorrect == Spec => []SeatsHold
<1>1. IInv => SeatsHold
  <2> SUFFICES ASSUME IInv PROVE SeatsHold
    OBVIOUS
  <2>1. overtaken \in SUBSET Seated /\ Spent \in SUBSET overtaken
    BY DEF IInv, TypeInv, Spent
  <2>2. IsFiniteSet(overtaken) /\ Cardinality(overtaken) \in Nat
    BY <2>1, HandlersFinite
  <2>3. Cardinality(Spent) <= Cardinality(overtaken) /\ Cardinality(Spent) \in Nat
    BY <2>1, <2>2, FS_Subset, FS_CardinalityType
  <2>4. peak \in Int /\ SpentFine
    BY SeatsAssumption DEF IInv, TypeInv
  <2> QED
    BY <2>2, <2>3, <2>4, MembersFinite DEF SpentFine, SeatsHold
<1> QED
  BY Invariance, <1>1, PTL

----------------------------------------------------------------------------
(* The seats that invitations reserve. *)

Out     == {"mail", "remail", "revoke", "done", "refused", "failed"}
Came    == {"sync", "undo", "done", "failed"}
Added   == {p \in Adders : req[p].pc \in Came}
Bound   == peak + Cardinality(revived) + Cardinality(Added)

\* Invitations that can still be accepted, or are just being.
Holding == {i \in DOMAIN invitation :
              Pending(i) /\ (~ invitation[i].expired \/ invitation[i].lock \in Acceptors)}

Fresh   == \E i \in DOMAIN invitation : <<i, None>> \notin mailed

\* Once an invitation was created, what is held is within the bound with the members; until
\* then the members are. Who has counted still finds room.
ReserveFine ==
  /\ Cardinality(Members) <= Bound
  /\ Fresh => Cardinality(Members) + Cardinality(Holding) <= Bound
  /\ \A p \in Acceptors : req[p].pc = "insert" => Cardinality(Members) < Bound
  /\ \A p \in Inviters : req[p].pc = "insert" => Cardinality(Members) + Cardinality(Holding) < Bound

TokenFine(t) == t # None => req[t].pc \in Out

\* What a creation takes for stale has been so since it began, and stays locked until it ends.
StaleFine(p) ==
  /\ \A i \in InvIds, t \in Tokens : <<i, t>> \in req[p].stale => TokenFine(t)
  /\ req[p].pc \in {"org", "stale", "count", "insert"} =>
       \A i \in DOMAIN invitation : Pending(i) /\ <<i, invitation[i].token>> \in req[p].stale =>
         /\ invitation[i].expired
         /\ req[p].pc \in {"count", "insert"} => invitation[i].lock = p
  /\ req[p].pc \in {"stale", "count", "insert"} => orgLock = p

RevivedFine ==
  revived \subseteq Inviters /\ \A p \in revived : req[p].pc \in {"remail", "done", "refused", "failed"}

RInv ==
  /\ RevivedFine
  /\ \A i \in DOMAIN invitation : TokenFine(invitation[i].token)
  /\ \A p \in Inviters : StaleFine(p)
  /\ ReserveFine

\* The row stays but for the locks of p and for time, or gets a token that p had not issued.
RowStays(p, i) ==
  /\ i \in DOMAIN invitation /\ invitation'[i].token = invitation[i].token
  /\ Pending(i)' => Pending(i) /\ (invitation[i].expired => invitation'[i].expired)
  /\ invitation[i].lock \notin {None, p} => invitation'[i].lock = invitation[i].lock

RowIssued(p, i) ==
  p \in Inviters /\ invitation'[i].token = p /\ req[p].pc \notin Out /\ req'[p].pc \in Out

\* Numbers of rows.
LEMMA SomeRows ==
  ASSUME NEW n \in Nat, NEW S \in SUBSET (1 .. n)
  PROVE  IsFiniteSet(S) /\ Cardinality(S) \in Nat
<1>1. IsFiniteSet(1 .. n)
  BY FS_Interval
<1> QED
  BY <1>1, FS_Subset, FS_CardinalityType

LEMMA Counts ==
  ASSUME TypeInv, RevivedFine
  PROVE  /\ Cardinality(Members) \in Nat /\ IsFiniteSet(Members)
         /\ Cardinality(Holding) \in Nat /\ IsFiniteSet(Holding)
         /\ peak \in Nat /\ Cardinality(revived) \in Nat /\ Cardinality(Added) \in Nat /\ Bound \in Nat
         /\ IsFiniteSet(revived) /\ IsFiniteSet(Added)
<1>1. Holding \in SUBSET (1 .. Len(invitation)) /\ Len(invitation) \in Nat
  BY Fields DEF Holding
<1>2. Cardinality(Holding) \in Nat /\ IsFiniteSet(Holding)
  BY <1>1, SomeRows
<1>3. Added \in SUBSET Seated /\ revived \in SUBSET Inviters
  BY DEF Added, Seated, RevivedFine
<1>4. peak \in Nat
  BY SeatsAssumption DEF TypeInv
<1>5. IsFiniteSet(Added) /\ Cardinality(Added) \in Nat
      /\ IsFiniteSet(revived) /\ Cardinality(revived) \in Nat
  BY <1>3, HandlersFinite
<1> QED
  BY <1>2, <1>4, <1>5, MembersFinite DEF Bound

\* The same, a step later.
LEMMA CountsNext ==
  ASSUME TypeInv', RevivedFine'
  PROVE  /\ Cardinality(Members') \in Nat /\ IsFiniteSet(Members')
         /\ Cardinality(Holding') \in Nat /\ IsFiniteSet(Holding')
         /\ peak' \in Nat /\ Cardinality(revived') \in Nat /\ Cardinality(Added') \in Nat
         /\ Bound' \in Nat /\ IsFiniteSet(revived') /\ IsFiniteSet(Added')
<1>1. Holding' \in SUBSET (1 .. Len(invitation')) /\ Len(invitation') \in Nat
  BY LenProperties DEF Holding, TypeInv
<1>2. Cardinality(Holding') \in Nat /\ IsFiniteSet(Holding')
  BY <1>1, SomeRows
<1>3. Added' \in SUBSET Seated /\ revived' \in SUBSET Inviters /\ Members' \in SUBSET Users
  BY DEF Added, Seated, RevivedFine, Members
<1>4. peak' \in Nat
  BY SeatsAssumption DEF TypeInv
<1>5. IsFiniteSet(Added') /\ Cardinality(Added') \in Nat
      /\ IsFiniteSet(revived') /\ Cardinality(revived') \in Nat
  BY <1>3, HandlersFinite
<1>6. IsFiniteSet(Members') /\ Cardinality(Members') \in Nat
  BY <1>3, SeatsAssumption, FS_Subset, FS_CardinalityType
<1> QED
  BY <1>2, <1>4, <1>5, <1>6 DEF Bound

\* Tokens and stale rows.
LEMMA RowsStay ==
  ASSUME IInv, IInv', RInv, NEW p, \A q \in Requests \ {p} : req'[q] = req[q],
         \A i \in DOMAIN invitation' : RowStays(p, i) \/ RowIssued(p, i),
         orgLock \notin {None, p} => orgLock' = orgLock,
         p \in Inviters /\ req[p].pc \in Out => req'[p].pc \in Out,
         p \in Inviters => StaleFine(p)'
  PROVE  /\ \A i \in DOMAIN invitation' : TokenFine(invitation[i].token)'
         /\ \A q \in Inviters : StaleFine(q)'
<1>1. ASSUME NEW t \in Tokens, TokenFine(t)
      PROVE  TokenFine(t)'
  <2>1. CASE t = None \/ t = p
    BY <1>1, <2>1, Classes DEF TokenFine, Tokens
  <2>2. CASE t # None /\ t # p
    <3>1. req'[t] = req[t]
      BY <2>2, Classes DEF Tokens
    <3> QED
      BY <1>1, <3>1 DEF TokenFine
  <2> QED
    BY <2>1, <2>2
<1>2. ASSUME NEW i \in DOMAIN invitation'
      PROVE  TokenFine(invitation[i].token)'
  <2>1. CASE RowStays(p, i)
    <3> PICK t \in Tokens : invitation[i].token = t
      BY <2>1, Fields DEF IInv, RowStays, Tokens
    <3>1. TokenFine(t)'
      BY <1>1, <2>1 DEF RInv, RowStays
    <3> QED
      BY <2>1, <3>1 DEF RowStays, TokenFine
  <2>2. CASE RowIssued(p, i)
    BY <2>2 DEF RowIssued, TokenFine
  <2> QED
    BY <2>1, <2>2
<1>3. ASSUME NEW q \in Inviters
      PROVE  StaleFine(q)'
  <2>1. CASE q = p
    BY <2>1
  <2>2. CASE q # p
    <3>1. req'[q] = req[q] /\ q # None /\ StaleFine(q)
      BY <2>2, Classes DEF RInv
    <3>2. \A i \in InvIds, t \in Tokens : <<i, t>> \in req'[q].stale => TokenFine(t)'
      BY <1>1, <3>1 DEF StaleFine
    <3>3. req'[q].pc \in {"stale", "count", "insert"} => orgLock' = q
      BY <2>2, <3>1 DEF StaleFine
    <3>4. ASSUME req'[q].pc \in {"org", "stale", "count", "insert"}, NEW i \in DOMAIN invitation',
                 Pending(i)', <<i, invitation'[i].token>> \in req'[q].stale
          PROVE  /\ invitation'[i].expired
                 /\ req'[q].pc \in {"count", "insert"} => invitation'[i].lock = q
      <4>1. CASE RowStays(p, i)
        BY <2>2, <3>1, <3>4, <4>1 DEF StaleFine, RowStays
      <4>2. CASE RowIssued(p, i)
        <5>1. <<i, p>> \in req[q].stale /\ p \in Tokens /\ p # None /\ req[p].pc \notin Out
          BY <3>1, <3>4, <4>2, Classes DEF RowIssued, Tokens
        <5>2. req[q].stale \subseteq InvIds \X Tokens
          BY Fields, Classes DEF IInv, RequestState
        <5>3. TokenFine(p)
          BY <3>1, <5>1, <5>2 DEF StaleFine
        <5> QED
          BY <5>1, <5>3 DEF TokenFine
      <4> QED
        BY <3>4, <4>1, <4>2
    <3> QED
      BY <3>2, <3>3, <3>4 DEF StaleFine
  <2> QED
    BY <2>1, <2>2
<1> QED
  BY <1>2, <1>3

\* The bound moves at least as far as what it bounds.
LEMMA NumbersMove ==
  ASSUME IInv, IInv', RInv, RevivedFine', NEW p, \A q \in Requests \ {p} : req'[q] = req[q],
         Cardinality(Members') + Bound <= Cardinality(Members) + Bound',
         Cardinality(Members') + Cardinality(Holding') + Bound
           <= Cardinality(Members) + Cardinality(Holding) + Bound',
         Fresh' => Fresh,
         p \in Acceptors /\ req'[p].pc = "insert" => Cardinality(Members) < Bound,
         p \in Inviters /\ req'[p].pc = "insert" => Cardinality(Members) + Cardinality(Holding) < Bound
  PROVE  ReserveFine'
<1>1. /\ Cardinality(Members) \in Nat /\ Cardinality(Holding) \in Nat /\ Bound \in Nat
      /\ Cardinality(Members') \in Nat /\ Cardinality(Holding') \in Nat /\ Bound' \in Nat
  BY Counts, CountsNext DEF IInv, RInv
<1>2. ReserveFine
  BY DEF RInv
<1>3. Cardinality(Members') <= Bound'
  BY <1>1, <1>2 DEF ReserveFine
<1>4. Fresh' => Cardinality(Members') + Cardinality(Holding') <= Bound'
  BY <1>1, <1>2 DEF ReserveFine
<1>5. ASSUME NEW q \in Acceptors, req'[q].pc = "insert"
      PROVE  Cardinality(Members') < Bound'
  <2>1. Cardinality(Members) < Bound
    BY <1>2, <1>5, Classes DEF ReserveFine
  <2> QED
    BY <1>1, <2>1
<1>6. ASSUME NEW q \in Inviters, req'[q].pc = "insert"
      PROVE  Cardinality(Members') + Cardinality(Holding') < Bound'
  <2>1. Cardinality(Members) + Cardinality(Holding) < Bound
    BY <1>2, <1>6, Classes DEF ReserveFine
  <2> QED
    BY <1>1, <2>1
<1> QED
  BY <1>3, <1>4, <1>5, <1>6 DEF ReserveFine

\* A step after which no more is held.
LEMMA ReserveKept ==
  ASSUME IInv, IInv', RInv, NEW p, \A q \in Requests \ {p} : req'[q] = req[q],
         DOMAIN invitation' = DOMAIN invitation,
         \A i \in DOMAIN invitation :
           /\ RowStays(p, i)
           /\ invitation'[i].lock \in Acceptors =>
                invitation[i].lock \in Acceptors \/ ~ invitation[i].expired,
         orgLock \notin {None, p} => orgLock' = orgLock,
         Members' \subseteq Members, mailed \subseteq mailed', revived' = revived, peak' >= peak,
         p \in Adders /\ req[p].pc \in Came => req'[p].pc \in Came,
         p \in Inviters /\ req[p].pc \in Out => req'[p].pc \in Out,
         p \in revived => req'[p].pc \in {"remail", "done", "refused", "failed"},
         p \in Inviters => StaleFine(p)',
         p \in Acceptors /\ req'[p].pc = "insert" => Cardinality(Members) < Bound,
         p \in Inviters /\ req'[p].pc = "insert" => Cardinality(Members) + Cardinality(Holding) < Bound
  PROVE  RInv'
<1>1. RevivedFine'
  BY Classes DEF RInv, RevivedFine
<1>2. /\ Cardinality(Members) \in Nat /\ IsFiniteSet(Members)
      /\ Cardinality(Holding) \in Nat /\ IsFiniteSet(Holding)
      /\ peak \in Nat /\ Cardinality(revived) \in Nat /\ Cardinality(Added) \in Nat
  BY Counts DEF IInv, RInv
<1>3. /\ Cardinality(Members') \in Nat /\ Cardinality(Holding') \in Nat /\ peak' \in Nat
      /\ Cardinality(Added') \in Nat /\ IsFiniteSet(Added')
  BY <1>1, CountsNext DEF IInv
<1>4. Cardinality(Members') <= Cardinality(Members)
  BY <1>2, FS_Subset
<1>5. Cardinality(Holding') <= Cardinality(Holding)
  <2>1. Holding' \in SUBSET Holding
    BY DEF Holding, RowStays
  <2> QED
    BY <1>2, <2>1, FS_Subset
<1>6. Cardinality(Added) <= Cardinality(Added')
  <2>1. Added \in SUBSET Added'
    BY Classes DEF Added
  <2> QED
    BY <1>3, <2>1, FS_Subset
<1>7. Bound' >= Bound /\ Bound \in Nat /\ Bound' \in Nat
  BY <1>2, <1>3, <1>6 DEF Bound
<1>8. Fresh' => Fresh
  BY DEF Fresh
<1>9. ReserveFine'
  <2>1. /\ Cardinality(Members') + Bound <= Cardinality(Members) + Bound'
        /\ Cardinality(Members') + Cardinality(Holding') + Bound
             <= Cardinality(Members) + Cardinality(Holding) + Bound'
    BY <1>2, <1>3, <1>4, <1>5, <1>7
  <2> QED
    BY <1>1, <1>8, <2>1, NumbersMove
<1>10. /\ \A i \in DOMAIN invitation' : TokenFine(invitation[i].token)'
       /\ \A q \in Inviters : StaleFine(q)'
  BY RowsStay
<1> QED
  BY <1>1, <1>9, <1>10 DEF RInv

\* A step that writes to its own local state only.
LEMMA ReserveQuiet ==
  ASSUME IInv, IInv', RInv, NEW p \in Requests, UNCHANGED rows, NEW r, req' = [req EXCEPT ![p] = r],
         p \in Adders /\ req[p].pc \in Came => r.pc \in Came,
         p \in Inviters => req[p].pc \notin Out,
         p \in Inviters => StaleFine(p)',
         p \in Acceptors /\ r.pc = "insert" => Cardinality(Members) < Bound,
         p \in Inviters /\ r.pc = "insert" => Cardinality(Members) + Cardinality(Holding) < Bound
  PROVE  RInv'
<1>1. /\ member' = member /\ invitation' = invitation /\ orgLock' = orgLock /\ peak' = peak
      /\ revived' = revived /\ mailed' = mailed
  BY DEF rows
<1>2. req \in [Requests -> RequestState] /\ peak \in Int
  BY SeatsAssumption DEF IInv, TypeInv
<1>3. req'[p] = r /\ \A q \in Requests \ {p} : req'[q] = req[q]
  BY <1>2
<1>4. p \notin revived
  BY DEF RInv, RevivedFine, Out
<1>5. Members' = Members /\ peak' >= peak
  BY <1>1, <1>2 DEF Members
<1>6. \A i \in DOMAIN invitation :
        /\ RowStays(p, i)
        /\ invitation'[i].lock \in Acceptors =>
             invitation[i].lock \in Acceptors \/ ~ invitation[i].expired
  BY <1>1 DEF RowStays, Pending
<1> QED
  BY <1>1, <1>3, <1>4, <1>5, <1>6, ReserveKept

\* Additions and removals that let nobody in.
LEMMA MemberReserve ==
  ASSUME IInv, IInv', RInv, NEW p \in Requests,
         \/ \E u \in Users : AddMember(p, u) \/ \E a \in Users : RemoveMember(p, a, u)
         \/ GetSeatLimit(p) \/ GetCurrentSeatUsage(p) \/ SyncSucceeds(p) \/ SyncFails(p)
         \/ UndoAddMember(p)
  PROVE  RInv'
<1>1. /\ req \in [Requests -> RequestState] /\ req[p] \in RequestState /\ peak \in Int
      /\ member \in [Users -> Roles \cup {"none"}]
  BY Fields, SeatsAssumption DEF IInv, TypeInv
<1>2. p \notin Inviters \cup Acceptors
  BY Standing, Classes DEF AddMember, RemoveMember, GetSeatLimit, GetCurrentSeatUsage, SyncSucceeds,
                           SyncFails, UndoAddMember, At, AcceptorFine, InviterFine, RemoverFine
<1>3. p \notin revived
  BY <1>2 DEF RInv, RevivedFine
<1>4. /\ invitation' = invitation /\ orgLock' = orgLock /\ mailed' = mailed /\ revived' = revived
      /\ peak' = peak
  BY DEF AddMember, RemoveMember, GetSeatLimit, GetCurrentSeatUsage, SyncSucceeds, SyncFails,
         UndoAddMember, rows
<1>5. Members' \subseteq Members
  BY <1>1 DEF AddMember, RemoveMember, GetSeatLimit, GetCurrentSeatUsage, SyncSucceeds, SyncFails,
              UndoAddMember, rows, Leaves, Members
<1>6. /\ \A q \in Requests \ {p} : req'[q] = req[q]
      /\ p \in Adders /\ req[p].pc \in Came => req'[p].pc \in Came
  <2>1. CASE \/ \E u \in Users : AddMember(p, u)
             \/ GetSeatLimit(p) \/ GetCurrentSeatUsage(p) \/ SyncFails(p)
    BY <1>1, <2>1 DEF AddMember, GetSeatLimit, GetCurrentSeatUsage, SyncFails, At, Goto, Came,
                      RequestState
  <2>2. CASE (\E u, a \in Users : RemoveMember(p, a, u)) \/ SyncSucceeds(p) \/ UndoAddMember(p)
    <3>1. PICK s \in {"done", "failed"} : Finish(p, s)
      BY <2>2 DEF RemoveMember, SyncSucceeds, UndoAddMember
    <3>2. req'[p].pc = s
      BY <1>1, <3>1, Answers DEF IInv, Finish
    <3> QED
      BY <1>1, <3>1, <3>2 DEF Finish, Came
  <2> QED
    BY <2>1, <2>2
<1>7. \A i \in DOMAIN invitation :
        /\ RowStays(p, i)
        /\ invitation'[i].lock \in Acceptors =>
             invitation[i].lock \in Acceptors \/ ~ invitation[i].expired
  BY <1>4 DEF RowStays, Pending
<1> QED
  BY <1>1, <1>2, <1>3, <1>4, <1>5, <1>6, <1>7, ReserveKept

\* A lock of the organization.
LEMMA LockReserve ==
  ASSUME IInv, IInv', RInv, NEW p \in Requests, LockOrganization(p)
  PROVE  RInv'
<1> DEFINE r == [req[p] EXCEPT !.pc = IF p \in Inviters THEN "stale" ELSE "count"]
<1>1. /\ req \in [Requests -> RequestState] /\ req[p] \in RequestState /\ peak \in Int
  BY Fields, SeatsAssumption DEF IInv, TypeInv
<1>2. /\ req[p].pc = "org" /\ orgLock = None /\ orgLock' = p /\ req' = [req EXCEPT ![p] = r]
      /\ UNCHANGED <<member, invitation, limit, changes, peak, overtaken, revived, mailed, joined>>
  BY DEF LockOrganization, At, Goto
<1>3. r.pc = (IF p \in Inviters THEN "stale" ELSE "count") /\ r.stale = req[p].stale
  BY <1>1 DEF RequestState
<1> HIDE DEF r
<1>4. req'[p] = r /\ \A q \in Requests \ {p} : req'[q] = req[q]
  BY <1>1, <1>2
<1>5. p \in Inviters => StaleFine(p)'
  <2> SUFFICES ASSUME p \in Inviters PROVE StaleFine(p)'
    OBVIOUS
  <2>1. StaleFine(p)
    BY DEF RInv
  <2>2. ASSUME NEW t \in Tokens, TokenFine(t)
        PROVE  TokenFine(t)'
    BY <1>2, <1>4, <2>2, Classes DEF TokenFine, Tokens, Out
  <2> QED
    BY <1>2, <1>3, <1>4, <2>1, <2>2 DEF StaleFine, Pending
<1>6. p \notin Adders /\ p \notin revived /\ Members' = Members /\ peak' >= peak
  BY <1>1, <1>2, Standing DEF AdderFine, RInv, RevivedFine, Members
<1>7. \A i \in DOMAIN invitation :
        /\ RowStays(p, i)
        /\ invitation'[i].lock \in Acceptors =>
             invitation[i].lock \in Acceptors \/ ~ invitation[i].expired
  BY <1>2 DEF RowStays, Pending
<1>8. req[p].pc \notin Out /\ req'[p].pc # "insert"
  BY <1>2, <1>3, <1>4 DEF Out
<1> QED
  BY <1>2, <1>4, <1>5, <1>6, <1>7, <1>8, ReserveKept

\* What a handler that answers leaves of its local state.
LEMMA Answered ==
  ASSUME IInv, NEW p \in Requests, NEW s \in {"done", "refused", "failed"}, Finish(p, s)
  PROVE  /\ req'[p].pc = s /\ req'[p].stale = {} /\ \A q \in Requests \ {p} : req'[q] = req[q]
         /\ p \in Inviters => req'[p].inv = req[p].inv
<1> DEFINE r == [Idle EXCEPT !.pc = s, !.inv = IF p \in Inviters THEN req[p].inv ELSE 0]
<1>1. /\ req' = [req EXCEPT ![p] = r] /\ req \in [Requests -> RequestState]
      /\ r.pc = s /\ r.inv = (IF p \in Inviters THEN req[p].inv ELSE 0)
  BY Answers DEF IInv, TypeInv, Finish
<1>2. r.stale = {}
  BY DEF Idle
<1> QED
  BY <1>1, <1>2

\* A handler that ends.
LEMMA GiveUpReserve ==
  ASSUME IInv, IInv', RInv, NEW p \in Requests, GiveUp(p)
  PROVE  RInv'
<1>1. /\ req[p].pc \notin {"start", "done", "refused", "failed"} /\ Finish(p, "failed")
      /\ invitation' = Unlocked(p, invitation)
      /\ orgLock' = IF orgLock = p THEN None ELSE orgLock
      /\ UNCHANGED <<member, limit, changes, peak, overtaken, revived, mailed, joined>>
  BY DEF GiveUp, Release
<1>2. /\ req'[p].pc = "failed" /\ req'[p].stale = {}
      /\ \A q \in Requests \ {p} : req'[q] = req[q]
  BY <1>1, Answered
<1>3. /\ DOMAIN invitation' = DOMAIN invitation
      /\ \A i \in DOMAIN invitation :
           invitation'[i] = IF invitation[i].lock = p THEN [invitation[i] EXCEPT !.lock = None]
                                                     ELSE invitation[i]
  BY <1>1 DEF Unlocked
<1>4. \A i \in DOMAIN invitation :
        /\ RowStays(p, i)
        /\ invitation'[i].lock \in Acceptors =>
             invitation[i].lock \in Acceptors \/ ~ invitation[i].expired
  <2> TAKE i \in DOMAIN invitation
  <2>1. invitation[i] \in InvitationRow /\ None \notin Acceptors
    BY Fields, Classes DEF IInv
  <2>2. CASE invitation[i].lock = p
    <3>1. /\ invitation'[i].token = invitation[i].token /\ invitation'[i].status = invitation[i].status
          /\ invitation'[i].expired = invitation[i].expired /\ invitation'[i].lock = None
      BY <1>3, <2>1, <2>2 DEF InvitationRow
    <3> QED
      BY <2>1, <2>2, <3>1 DEF RowStays, Pending
  <2>3. CASE invitation[i].lock # p
    BY <1>3, <2>3 DEF RowStays, Pending
  <2> QED
    BY <2>2, <2>3
<1>5. p \in Inviters => StaleFine(p)'
  BY <1>2 DEF StaleFine
<1>6. Members' = Members /\ peak' >= peak
  BY <1>1, SeatsAssumption DEF IInv, TypeInv, Members
<1>7. req'[p].pc \in Came /\ req'[p].pc \in Out
  BY <1>2 DEF Came, Out
<1> QED
  BY <1>1, <1>2, <1>3, <1>4, <1>5, <1>6, <1>7, ReserveKept

\* What is held is counted by a creation: what it took for stale is locked by it, and expired.
LEMMA HeldIsCounted ==
  ASSUME IInv, RInv, NEW p \in Inviters, req[p].pc \in {"count", "insert"}
  PROVE  \A i \in Holding : Pending(i) /\ <<i, invitation[i].token>> \notin req[p].stale
<1>1. StaleFine(p) /\ p \notin Acceptors
  BY Classes DEF RInv
<1> QED
  BY <1>1 DEF Holding, StaleFine

\* Invitations before they are inserted, and resent ones before they are refreshed.
LEMMA InviterReserve ==
  ASSUME IInv, IInv', RInv, NEW p \in Requests,
         \/ \E u \in Users : CreateInvitation(p, u)
         \/ \E i \in DOMAIN invitation : ResendInvitation(p, i)
         \/ BeginCreate(p) \/ CountReserved(p)
  PROVE  RInv'
<1>1. /\ req \in [Requests -> RequestState] /\ req[p] \in RequestState
      /\ DOMAIN invitation \subseteq InvIds
  BY Fields, IdsInBounds DEF IInv, TypeInv
<1>2. p \in Inviters /\ p \notin Adders \cup Acceptors
  BY Standing, Classes DEF CreateInvitation, ResendInvitation, BeginCreate, CountReserved, At,
                           AdderFine, AcceptorFine, RemoverFine
<1>3. StaleFine(p)
  BY <1>2 DEF RInv
<1>4. /\ UNCHANGED rows /\ invitation' = invitation /\ orgLock' = orgLock
      /\ req[p].pc \notin Out
  BY DEF CreateInvitation, ResendInvitation, BeginCreate, CountReserved, At, Out, rows
<1>5. ASSUME NEW t \in Tokens, TokenFine(t), \A q \in Requests \ {p} : req'[q] = req[q]
      PROVE  TokenFine(t)'
  BY <1>4, <1>5, Classes DEF TokenFine, Tokens
<1>6. CASE (\E u \in Users : CreateInvitation(p, u)) \/ (\E i \in DOMAIN invitation : ResendInvitation(p, i))
  <2>1. PICK u \in Users, i \in InvIds \cup {req[p].inv}, s \in {"begin", "refresh"} :
          req' = [req EXCEPT ![p] = [req[p] EXCEPT !.pc = s, !.user = u, !.inv = i, !.token = p]]
    <3>1. CASE \E u \in Users : CreateInvitation(p, u)
      <4> PICK u \in Users : CreateInvitation(p, u)
        BY <3>1
      <4>1. req' = [req EXCEPT ![p] = [req[p] EXCEPT !.pc = "begin", !.user = u, !.token = p]]
        BY DEF CreateInvitation
      <4>2. [req[p] EXCEPT !.pc = "begin", !.user = u, !.token = p]
              = [req[p] EXCEPT !.pc = "begin", !.user = u, !.inv = req[p].inv, !.token = p]
        BY <1>1 DEF RequestState
      <4> QED
        BY <4>1, <4>2
    <3>2. CASE \E i \in DOMAIN invitation : ResendInvitation(p, i)
      <4> PICK i \in DOMAIN invitation : ResendInvitation(p, i)
        BY <3>2
      <4>1. req' = [req EXCEPT ![p] = [req[p] EXCEPT !.pc = "refresh", !.inv = i, !.token = p]]
        BY DEF ResendInvitation
      <4>2. [req[p] EXCEPT !.pc = "refresh", !.inv = i, !.token = p]
              = [req[p] EXCEPT !.pc = "refresh", !.user = req[p].user, !.inv = i, !.token = p]
            /\ req[p].user \in Users
        BY <1>1 DEF RequestState
      <4> QED
        BY <1>1, <4>1, <4>2
    <3> QED
      BY <1>6, <3>1, <3>2
  <2> DEFINE r == [req[p] EXCEPT !.pc = s, !.user = u, !.inv = i, !.token = p]
  <2>2. req' = [req EXCEPT ![p] = r] /\ r.pc \in {"begin", "refresh"} /\ r.stale = req[p].stale
    BY <1>1, <2>1 DEF RequestState
  <2> HIDE DEF r
  <2>3. req'[p] = r /\ \A q \in Requests \ {p} : req'[q] = req[q]
    BY <1>1, <2>2
  <2>4. StaleFine(p)'
    BY <1>3, <1>5, <2>2, <2>3 DEF StaleFine
  <2> QED
    BY <1>2, <1>4, <2>2, <2>4, ReserveQuiet
<1>7. CASE BeginCreate(p)
  <2> DEFINE r == [req[p] EXCEPT !.pc = "org", !.stale = {<<i, invitation[i].token>> : i \in Stale}]
  <2>1. req' = [req EXCEPT ![p] = r]
    BY <1>7 DEF BeginCreate
  <2>2. r.pc = "org" /\ r.stale = {<<i, invitation[i].token>> : i \in Stale}
    BY <1>1 DEF RequestState
  <2> HIDE DEF r
  <2>3. req'[p] = r /\ \A q \in Requests \ {p} : req'[q] = req[q]
    BY <1>1, <2>1
  <2>4. StaleFine(p)'
    <3>1. \A i \in InvIds, t \in Tokens : <<i, t>> \in r.stale => TokenFine(t)
      BY <2>2 DEF RInv, Stale
    <3>2. \A i \in InvIds, t \in Tokens : <<i, t>> \in r.stale => TokenFine(t)'
      BY <1>5, <2>3, <3>1
    <3>3. \A i \in DOMAIN invitation : <<i, invitation[i].token>> \in r.stale => invitation[i].expired
      BY <2>2 DEF Stale
    <3> QED
      BY <1>4, <2>2, <2>3, <3>2, <3>3 DEF StaleFine
  <2> QED
    BY <1>2, <1>4, <2>1, <2>2, <2>4, ReserveQuiet
<1>8. CASE CountReserved(p)
  <2> DEFINE r == [req[p] EXCEPT !.pc = "insert"]
             counted == {i \in DOMAIN invitation :
                           Pending(i) /\ <<i, invitation[i].token>> \notin req[p].stale}
  <2>1. /\ req' = [req EXCEPT ![p] = r] /\ req[p].pc = "count"
        /\ Cardinality(Members) + Cardinality(counted) < limit
    BY <1>8 DEF CountReserved, Reserved, Goto, At
  <2>2. r.pc = "insert" /\ r.stale = req[p].stale
    BY <1>1 DEF RequestState
  <2> HIDE DEF r
  <2>3. req'[p] = r /\ \A q \in Requests \ {p} : req'[q] = req[q]
    BY <1>1, <2>1
  <2>4. StaleFine(p)'
    BY <1>3, <1>4, <1>5, <2>1, <2>2, <2>3 DEF StaleFine, Pending
  <2>5. Cardinality(Members) + Cardinality(Holding) < Bound
    <3>1. Holding \in SUBSET counted
      BY <1>2, <2>1, HeldIsCounted DEF Holding
    <3>2. IsFiniteSet(counted) /\ Cardinality(counted) \in Nat
      <4>1. counted \in SUBSET (1 .. Len(invitation)) /\ Len(invitation) \in Nat
        BY Fields DEF IInv
      <4> QED
        BY <4>1, SomeRows
    <3>3. Cardinality(Holding) <= Cardinality(counted)
      BY <3>1, <3>2, FS_Subset
    <3>4. /\ Cardinality(Members) \in Nat /\ Cardinality(Holding) \in Nat /\ peak \in Nat
          /\ Cardinality(revived) \in Nat /\ Cardinality(Added) \in Nat
      BY Counts DEF IInv, RInv
    <3>5. limit \in Int /\ limit <= peak
      BY SeatsAssumption DEF IInv, TypeInv
    <3> HIDE DEF counted
    <3> QED
      BY <2>1, <3>2, <3>3, <3>4, <3>5 DEF Bound
  <2> QED
    BY <1>2, <1>4, <2>1, <2>2, <2>4, <2>5, ReserveQuiet
<1> QED
  BY <1>6, <1>7, <1>8

\* Stale rows are locked.
LEMMA ExpireReserve ==
  ASSUME IInv, IInv', RInv, NEW p \in Requests, ExpireStale(p)
  PROVE  RInv'
<1> DEFINE r == [req[p] EXCEPT !.pc = "count"]
<1>1. /\ req \in [Requests -> RequestState] /\ req[p] \in RequestState /\ peak \in Int
  BY Fields, SeatsAssumption DEF IInv, TypeInv
<1>2. /\ req[p].pc = "stale" /\ \A i \in StaleRows(p) : invitation[i].lock = None
      /\ invitation' = [i \in DOMAIN invitation |->
           IF i \in StaleRows(p) THEN [invitation[i] EXCEPT !.lock = p] ELSE invitation[i]]
      /\ req' = [req EXCEPT ![p] = r]
      /\ UNCHANGED <<member, orgLock, limit, changes, peak, overtaken, revived, mailed, joined>>
  BY DEF ExpireStale, Goto, At, Free
<1>3. p \in Inviters /\ p \notin Adders \cup Removers \cup Acceptors /\ p # None /\ StaleFine(p)
  BY <1>2, Standing, Classes DEF AdderFine, RemoverFine, AcceptorFine, RInv
<1>4. r.pc = "count" /\ r.stale = req[p].stale
  BY <1>1 DEF RequestState
<1> HIDE DEF r
<1>5. req'[p] = r /\ \A q \in Requests \ {p} : req'[q] = req[q]
  BY <1>1, <1>2
<1>6. ASSUME NEW i \in DOMAIN invitation
      PROVE  /\ invitation'[i].status = invitation[i].status
             /\ invitation'[i].token = invitation[i].token
             /\ invitation'[i].expired = invitation[i].expired
             /\ i \in StaleRows(p) => invitation[i].lock = None /\ invitation'[i].lock = p
             /\ i \notin StaleRows(p) => invitation'[i].lock = invitation[i].lock
  <2>1. invitation[i] \in InvitationRow
    BY Fields DEF IInv
  <2>2. CASE i \in StaleRows(p)
    <3>1. invitation'[i] = [invitation[i] EXCEPT !.lock = p]
      BY <1>2, <2>2
    <3> QED
      BY <1>2, <2>1, <2>2, <3>1 DEF InvitationRow
  <2>3. CASE i \notin StaleRows(p)
    BY <1>2, <2>3
  <2> QED
    BY <2>2, <2>3
<1>7. DOMAIN invitation' = DOMAIN invitation
  BY <1>2
<1>8. \A i \in DOMAIN invitation :
        /\ RowStays(p, i)
        /\ invitation'[i].lock \in Acceptors =>
             invitation[i].lock \in Acceptors \/ ~ invitation[i].expired
  BY <1>3, <1>6 DEF RowStays, Pending
<1>9. StaleFine(p)'
  <2>1. ASSUME NEW t \in Tokens, TokenFine(t)
        PROVE  TokenFine(t)'
    BY <1>2, <1>5, <2>1, Classes DEF TokenFine, Tokens, Out
  <2>2. ASSUME NEW i \in DOMAIN invitation', Pending(i)', <<i, invitation'[i].token>> \in r.stale
        PROVE  invitation'[i].expired /\ invitation'[i].lock = p
    <3>1. i \in DOMAIN invitation /\ Pending(i) /\ <<i, invitation[i].token>> \in req[p].stale
      BY <1>4, <1>6, <1>7, <2>2 DEF Pending
    <3>2. invitation[i].expired
      BY <1>2, <1>3, <3>1 DEF StaleFine
    <3>3. i \in StaleRows(p)
      BY <3>1, <3>2 DEF StaleRows, Stale
    <3> QED
      BY <1>6, <3>1, <3>2, <3>3
  <2>3. orgLock' = p
    BY <1>2, <1>3 DEF StaleFine
  <2>4. \A i \in InvIds, t \in Tokens : <<i, t>> \in r.stale => TokenFine(t)'
    BY <1>3, <1>4, <2>1 DEF StaleFine
  <2> QED
    BY <1>4, <1>5, <2>2, <2>3, <2>4 DEF StaleFine
<1>10. Members' = Members /\ peak' >= peak /\ p \notin revived /\ req[p].pc \notin Out
       /\ req'[p].pc # "insert"
  BY <1>1, <1>2, <1>4, <1>5 DEF Members, RInv, RevivedFine, Out
<1> QED
  BY <1>2, <1>3, <1>5, <1>7, <1>8, <1>9, <1>10, ReserveKept

\* A mail is queued, or seems not to be.
LEMMA EnqueueReserve ==
  ASSUME IInv, IInv', RInv, NEW p \in Requests, EnqueueInvitation(p) \/ EnqueueFails(p)
  PROVE  RInv'
<1>1. /\ req \in [Requests -> RequestState] /\ req[p] \in RequestState /\ peak \in Int
  BY Fields, SeatsAssumption DEF IInv, TypeInv
<1>2. /\ req[p].pc \in {"mail", "remail"} /\ mailed \subseteq mailed'
      /\ UNCHANGED <<member, invitation, orgLock, limit, changes, peak, overtaken, revived, joined>>
  BY DEF EnqueueInvitation, EnqueueFails
<1>3. p \in Inviters /\ p \notin Adders \cup Removers \cup Acceptors /\ p # None /\ StaleFine(p)
  BY <1>2, Standing, Classes DEF AdderFine, RemoverFine, AcceptorFine, RInv
<1>4. /\ req'[p].pc \in {"done", "failed", "revoke"}
      /\ req'[p].pc = "revoke" => req[p].pc = "mail"
      /\ req'[p].stale \subseteq req[p].stale /\ \A q \in Requests \ {p} : req'[q] = req[q]
  <2>1. CASE EnqueueFails(p) /\ req[p].pc = "mail"
    <3>1. req' = [req EXCEPT ![p].pc = "revoke"]
      BY <2>1 DEF EnqueueFails, At, Goto
    <3> QED
      BY <1>1, <2>1, <3>1 DEF RequestState
  <2>2. CASE EnqueueInvitation(p) \/ (EnqueueFails(p) /\ req[p].pc # "mail")
    <3>1. PICK s \in {"done", "failed"} : Finish(p, s)
      BY <2>2 DEF EnqueueInvitation, EnqueueFails, At
    <3> QED
      BY <3>1, Answered
  <2> QED
    BY <2>1, <2>2
<1>5. StaleFine(p)'
  <2>1. ASSUME NEW t \in Tokens, TokenFine(t)
        PROVE  TokenFine(t)'
    BY <1>4, <2>1, Classes DEF TokenFine, Tokens, Out
  <2> QED
    BY <1>3, <1>4, <2>1 DEF StaleFine
<1>6. \A i \in DOMAIN invitation :
        /\ RowStays(p, i)
        /\ invitation'[i].lock \in Acceptors =>
             invitation[i].lock \in Acceptors \/ ~ invitation[i].expired
  BY <1>2 DEF RowStays, Pending
<1>7. /\ Members' = Members /\ peak' >= peak /\ req'[p].pc \in Out /\ req'[p].pc # "insert"
      /\ p \in revived => req'[p].pc \in {"remail", "done", "refused", "failed"}
  BY <1>1, <1>2, <1>4 DEF Members, RInv, RevivedFine, Out
<1> QED
  BY <1>2, <1>3, <1>4, <1>5, <1>6, <1>7, ReserveKept

\* A row is revoked.
LEMMA RevokeReserve ==
  ASSUME IInv, IInv', RInv, NEW p \in Requests,
         RevokeUnsent(p) \/ \E i \in DOMAIN invitation : RevokeInvitation(p, i)
  PROVE  RInv'
<1>1. /\ req \in [Requests -> RequestState] /\ req[p] \in RequestState /\ peak \in Int
  BY Fields, SeatsAssumption DEF IInv, TypeInv
<1>2. PICK k \in DOMAIN invitation, s \in {"done", "refused"} :
        /\ RevokeOrganizationInvitation(k) /\ Finish(p, s) /\ req[p].pc \in {"start", "revoke"}
        /\ UNCHANGED <<member, orgLock, limit, changes, peak, overtaken, revived, mailed, joined>>
  BY DEF RevokeUnsent, RevokeInvitation, RevokeOrganizationInvitation, At
<1>3. p \in Inviters /\ p \notin Adders \cup Removers \cup Acceptors /\ p # None
  BY Standing, Classes DEF RevokeUnsent, RevokeInvitation, At, AdderFine, RemoverFine, AcceptorFine
<1>4. /\ req'[p].pc = s /\ req'[p].stale = {} /\ \A q \in Requests \ {p} : req'[q] = req[q]
  BY <1>2, Answered
<1>5. /\ DOMAIN invitation' = DOMAIN invitation
      /\ \A i \in DOMAIN invitation \ {k} : invitation'[i] = invitation[i]
      /\ invitation'[k].status # "pending" /\ invitation'[k].token = invitation[k].token
      /\ invitation'[k].lock = invitation[k].lock /\ invitation[k].lock = None
  <2> DEFINE s2 == IF Pending(k) THEN "revoked" ELSE invitation[k].status
  <2>1. invitation[k] \in InvitationRow /\ invitation[k].lock = None
    BY <1>2, Fields DEF IInv, RevokeOrganizationInvitation, Free
  <2>2. invitation' = [invitation EXCEPT ![k] = [invitation[k] EXCEPT !.status = s2, !.expired = FALSE]]
    BY <1>2 DEF RevokeOrganizationInvitation
  <2>3. s2 # "pending"
    BY DEF Pending
  <2> HIDE DEF s2
  <2> QED
    BY <2>1, <2>2, <2>3 DEF InvitationRow
<1>6. \A i \in DOMAIN invitation :
        /\ RowStays(p, i)
        /\ invitation'[i].lock \in Acceptors =>
             invitation[i].lock \in Acceptors \/ ~ invitation[i].expired
  BY <1>5, Classes DEF RowStays, Pending
<1>7. StaleFine(p)'
  BY <1>4 DEF StaleFine
<1>8. Members' = Members /\ peak' >= peak /\ req'[p].pc \in Out /\ req'[p].pc # "insert"
      /\ req'[p].pc \in {"remail", "done", "refused", "failed"}
  BY <1>1, <1>2, <1>4 DEF Members, Out
<1> QED
  BY <1>2, <1>3, <1>4, <1>5, <1>6, <1>7, <1>8, ReserveKept

\* An acceptance up to its count.
LEMMA AcceptorReserve ==
  ASSUME IInv, IInv', RInv, NEW p \in Requests,
         \/ \E i \in DOMAIN invitation : AcceptInvitation(p, i) \/ AlreadyAccepted(p, i)
         \/ CountMembers(p)
  PROVE  RInv'
<1>1. /\ req \in [Requests -> RequestState] /\ req[p] \in RequestState
  BY Fields DEF IInv, TypeInv
<1>2. p \in Acceptors /\ p \notin Adders \cup Inviters /\ UNCHANGED rows
  BY Classes DEF AcceptInvitation, AlreadyAccepted, CountMembers
<1>3. PICK r : /\ req' = [req EXCEPT ![p] = r]
               /\ r.pc = "insert" => Cardinality(Members) < limit
  <2>1. CASE \E i \in DOMAIN invitation : AcceptInvitation(p, i)
    <3>1. PICK i \in DOMAIN invitation : AcceptInvitation(p, i)
      BY <2>1
    <3> DEFINE s == [req[p] EXCEPT !.pc = "row", !.user = invitation[i].email, !.inv = i,
                                   !.token = invitation[i].token]
    <3>2. req' = [req EXCEPT ![p] = s] /\ s.pc = "row"
      BY <1>1, <3>1 DEF AcceptInvitation, RequestState
    <3> HIDE DEF s
    <3> QED
      BY <3>2
  <2>2. CASE \E i \in DOMAIN invitation : AlreadyAccepted(p, i)
    <3>1. PICK t \in {"done", "failed"} : Finish(p, t)
      BY <2>2 DEF AlreadyAccepted
    <3> DEFINE s == [Idle EXCEPT !.pc = t, !.inv = IF p \in Inviters THEN req[p].inv ELSE 0]
    <3>2. req' = [req EXCEPT ![p] = s] /\ s.pc = t
      BY <3>1, Answers DEF IInv, Finish
    <3> HIDE DEF s
    <3> QED
      BY <3>2
  <2>3. CASE CountMembers(p)
    <3> DEFINE s == [req[p] EXCEPT !.pc = "insert"]
    <3>1. req' = [req EXCEPT ![p] = s] /\ Cardinality(Members) < limit
      BY <2>3 DEF CountMembers, Goto
    <3> HIDE DEF s
    <3> QED
      BY <3>1
  <2> QED
    BY <2>1, <2>2, <2>3
<1>4. limit <= Bound /\ limit \in Int /\ Bound \in Nat /\ Cardinality(Members) \in Nat
  <2>1. /\ peak \in Nat /\ Cardinality(revived) \in Nat /\ Cardinality(Added) \in Nat
        /\ Cardinality(Members) \in Nat
    BY Counts DEF IInv, RInv
  <2>2. limit \in Int /\ limit <= peak
    BY SeatsAssumption DEF IInv, TypeInv
  <2> QED
    BY <2>1, <2>2 DEF Bound
<1>5. r.pc = "insert" => Cardinality(Members) < Bound
  BY <1>3, <1>4
<1> QED
  BY <1>2, <1>3, <1>5, ReserveQuiet

\* Its row is locked while the invitation is valid.
LEMMA LockRowReserve ==
  ASSUME IInv, IInv', RInv, NEW p \in Requests, LockInvitation(p)
  PROVE  RInv'
<1>1. /\ req \in [Requests -> RequestState] /\ req[p] \in RequestState /\ peak \in Int
  BY Fields, SeatsAssumption DEF IInv, TypeInv
<1>2. PICK k : /\ k \in DOMAIN invitation /\ invitation[k].lock = None /\ ~ invitation[k].expired
               /\ invitation' = [invitation EXCEPT ![k].lock = p]
  BY DEF LockInvitation, Free, Valid
<1>3. /\ req[p].pc = "row" /\ req' = [req EXCEPT ![p].pc = "org"]
      /\ UNCHANGED <<member, orgLock, limit, changes, peak, overtaken, revived, mailed, joined>>
  BY DEF LockInvitation, At, Goto
<1>4. p \in Acceptors /\ p \notin Adders \cup Inviters
  BY <1>3, Standing, Classes DEF AdderFine, RemoverFine, InviterFine
<1>5. req'[p].pc = "org" /\ \A q \in Requests \ {p} : req'[q] = req[q]
  BY <1>1, <1>3 DEF RequestState
<1>6. /\ DOMAIN invitation' = DOMAIN invitation
      /\ \A i \in DOMAIN invitation \ {k} : invitation'[i] = invitation[i]
      /\ invitation'[k].status = invitation[k].status /\ invitation'[k].token = invitation[k].token
      /\ invitation'[k].expired = invitation[k].expired
  <2>1. invitation[k] \in InvitationRow
    BY <1>2, Fields DEF IInv
  <2>2. invitation' = [invitation EXCEPT ![k] = [invitation[k] EXCEPT !.lock = p]]
    BY <1>2
  <2> QED
    BY <1>2, <2>1, <2>2 DEF InvitationRow
<1>7. \A i \in DOMAIN invitation :
        /\ RowStays(p, i)
        /\ invitation'[i].lock \in Acceptors =>
             invitation[i].lock \in Acceptors \/ ~ invitation[i].expired
  BY <1>2, <1>6 DEF RowStays, Pending
<1>8. Members' = Members /\ peak' >= peak /\ p \notin revived
  BY <1>1, <1>3, <1>4 DEF Members, RInv, RevivedFine
<1> QED
  BY <1>3, <1>4, <1>5, <1>6, <1>7, <1>8, ReserveKept

\* Time passes, the subscription changes, or nothing happens.
LEMMA EnvironmentReserve ==
  ASSUME IInv, IInv', RInv,
         (\E i \in InvIds : Expire(i)) \/ SubscriptionChanges \/ UNCHANGED vars
  PROVE  RInv'
<1>1. peak \in Int /\ peak' >= peak /\ None \notin Requests
  <2>1. peak \in Int /\ limit \in Int
    BY SeatsAssumption DEF IInv, TypeInv
  <2>2. SubscriptionChanges => limit' \in Int
    BY SeatsAssumption DEF SubscriptionChanges
  <2>3. SubscriptionChanges => peak' = Max({peak, limit'})
    BY DEF SubscriptionChanges
  <2>4. SubscriptionChanges => peak' >= peak
    BY <2>1, <2>2, <2>3, MaxOfTwo
  <2>5. (\E i \in InvIds : Expire(i)) \/ UNCHANGED vars => peak' = peak
    BY DEF Expire, vars
  <2> QED
    BY <2>1, <2>4, <2>5, Classes
<1>2. UNCHANGED <<member, orgLock, revived, mailed, req>>
  BY DEF Expire, SubscriptionChanges, vars
<1>3. DOMAIN invitation' = DOMAIN invitation
      /\ \A i \in DOMAIN invitation :
           /\ invitation'[i].status = invitation[i].status
           /\ invitation'[i].token = invitation[i].token
           /\ invitation'[i].lock = invitation[i].lock
           /\ invitation[i].expired => invitation'[i].expired
  <2>1. CASE \E i \in InvIds : Expire(i)
    <3>1. PICK k \in DOMAIN invitation :
            invitation' = [invitation EXCEPT ![k] = [invitation[k] EXCEPT !.expired = TRUE]]
      BY <2>1 DEF Expire, Valid
    <3>2. invitation[k] \in InvitationRow
      BY <3>1, Fields DEF IInv
    <3> QED
      BY <3>1, <3>2 DEF InvitationRow
  <2>2. CASE SubscriptionChanges \/ UNCHANGED vars
    BY <2>2 DEF SubscriptionChanges, vars
  <2> QED
    BY <2>1, <2>2
<1>4. \A i \in DOMAIN invitation :
        /\ RowStays(None, i)
        /\ invitation'[i].lock \in Acceptors =>
             invitation[i].lock \in Acceptors \/ ~ invitation[i].expired
  BY <1>3 DEF RowStays, Pending
<1>5. Members' = Members /\ None \notin revived
  BY <1>1, <1>2, Classes DEF Members, RInv, RevivedFine
<1> QED
  BY <1>1, <1>2, <1>3, <1>4, <1>5, Classes, ReserveKept

\* One member more.
LEMMA OneMore ==
  ASSUME IInv, NEW p, NEW u, NEW role \in Roles, Joins(p, u, role), u \in Users
  PROVE  Cardinality(Members') = Cardinality(Members) + 1
<1>1. member \in [Users -> Roles \cup {"none"}] /\ role # "none"
  BY DEF IInv, TypeInv, Roles
<1>2. u \notin Members /\ Members' = Members \cup {u}
  BY <1>1 DEF Joins, Members
<1> QED
  BY <1>2, MembersFinite, FS_AddElement

\* A direct addition moves the bound with the members.
LEMMA InsertReserve ==
  ASSUME IInv, IInv', RInv, NEW p \in Requests, NEW role \in Grants, InsertMember(p, role)
  PROVE  RInv'
<1>1. /\ req \in [Requests -> RequestState] /\ req[p] \in RequestState /\ req[p].user \in Users
      /\ role \in Roles
  BY Fields, SeatsAssumption DEF IInv, TypeInv, Roles
<1>2. /\ p \in Adders /\ req[p].pc = "insert" /\ Joins(p, req[p].user, role)
      /\ req' = [req EXCEPT ![p].pc = "sync"]
      /\ UNCHANGED <<invitation, orgLock, limit, changes, peak, revived, mailed, joined>>
  BY DEF InsertMember, At, Goto
<1>3. p \notin Inviters \cup Acceptors /\ p \notin revived
  BY <1>2, Classes DEF RInv, RevivedFine
<1>4. req'[p].pc = "sync" /\ \A q \in Requests \ {p} : req'[q] = req[q]
  BY <1>1, <1>2 DEF RequestState
<1>5. Cardinality(Members') = Cardinality(Members) + 1
  BY <1>1, <1>2, OneMore
<1>6. Cardinality(Added') = Cardinality(Added) + 1
  <2>1. p \notin Added /\ Added' = Added \cup {p}
    BY <1>2, <1>4, Classes DEF Added, Came
  <2> QED
    BY <2>1, Counts, FS_AddElement DEF IInv, RInv
<1>7. RevivedFine'
  BY <1>2, <1>3, <1>4, Classes DEF RInv, RevivedFine
<1>8. /\ Cardinality(Members) \in Nat /\ Cardinality(Holding) \in Nat /\ Holding' = Holding
      /\ Bound' = Bound + 1 /\ Bound \in Nat /\ Fresh' = Fresh
  <2>1. /\ peak \in Nat /\ Cardinality(revived) \in Nat /\ Cardinality(Added) \in Nat
        /\ Cardinality(Members) \in Nat /\ Cardinality(Holding) \in Nat /\ Bound \in Nat
    BY Counts DEF IInv, RInv
  <2>2. Holding' = Holding /\ Fresh' = Fresh
    BY <1>2 DEF Holding, Fresh, Pending
  <2>3. peak' = peak /\ revived' = revived
    BY <1>2
  <2> QED
    BY <1>6, <2>1, <2>2, <2>3 DEF Bound
<1>9. ReserveFine'
  <2>1. /\ Cardinality(Members') + Bound <= Cardinality(Members) + Bound'
        /\ Cardinality(Members') + Cardinality(Holding') + Bound
             <= Cardinality(Members) + Cardinality(Holding) + Bound'
    BY <1>5, <1>8
  <2> QED
    BY <1>3, <1>4, <1>7, <1>8, <2>1, NumbersMove
<1>10. \A i \in DOMAIN invitation' : RowStays(p, i)
  BY <1>2 DEF RowStays, Pending
<1>11. /\ \A i \in DOMAIN invitation' : TokenFine(invitation[i].token)'
       /\ \A q \in Inviters : StaleFine(q)'
  BY <1>2, <1>3, <1>4, <1>10, RowsStay
<1> QED
  BY <1>7, <1>9, <1>11 DEF RInv

\* A resent invitation that had expired moves it by one, too.
LEMMA RefreshReserve ==
  ASSUME IInv, IInv', RInv, NEW p \in Requests, RefreshOrganizationInvitation(p)
  PROVE  RInv'
<1>1. /\ req \in [Requests -> RequestState] /\ req[p] \in RequestState
      /\ member \in [Users -> Roles \cup {"none"}]
  BY Fields DEF IInv, TypeInv
<1>2. /\ req[p].pc = "refresh" /\ req' = [req EXCEPT ![p].pc = "remail"]
      /\ UNCHANGED <<member, orgLock, limit, changes, peak, overtaken, mailed, joined>>
  BY DEF RefreshOrganizationInvitation, At, Goto
<1>3. p \in Inviters /\ p \notin Adders \cup Removers \cup Acceptors /\ p # None /\ p \notin revived
      /\ StaleFine(p)
  BY <1>2, Standing, Classes DEF AdderFine, RemoverFine, AcceptorFine, RInv, RevivedFine
<1>4. PICK k : /\ k \in DOMAIN invitation /\ invitation[k].lock = None /\ Pending(k)
               /\ invitation' = [invitation EXCEPT ![k] = [invitation[k] EXCEPT !.token = p, !.expired = FALSE]]
               /\ revived' = IF invitation[k].expired THEN revived \cup {p} ELSE revived
  BY <1>2, <1>3, Standing DEF RefreshOrganizationInvitation, Free, InviterFine
<1>5. /\ req'[p].pc = "remail" /\ req'[p].stale = req[p].stale
      /\ \A q \in Requests \ {p} : req'[q] = req[q]
  BY <1>1, <1>2 DEF RequestState
<1>6. /\ DOMAIN invitation' = DOMAIN invitation
      /\ \A i \in DOMAIN invitation \ {k} : invitation'[i] = invitation[i]
      /\ invitation'[k].token = p
  <2>1. invitation[k] \in InvitationRow
    BY <1>4, Fields DEF IInv
  <2> QED
    BY <1>4, <2>1 DEF InvitationRow
<1>7. RevivedFine'
  BY <1>3, <1>4, <1>5, Classes DEF RInv, RevivedFine
<1>8. /\ peak \in Nat /\ Cardinality(revived) \in Nat /\ Cardinality(Added) \in Nat
      /\ Cardinality(Members) \in Nat /\ Cardinality(Holding) \in Nat /\ Bound \in Nat
      /\ IsFiniteSet(Holding) /\ IsFiniteSet(revived)
  BY Counts DEF IInv, RInv
<1>9. Members' = Members /\ Added' = Added /\ Fresh' = Fresh /\ peak' = peak
  <2>1. Added' = Added
    BY <1>3, <1>5, Classes DEF Added
  <2> QED
    BY <1>2, <1>6, <2>1 DEF Members, Fresh
<1>10. Cardinality(Holding') + Bound <= Cardinality(Holding) + Bound' /\ Bound <= Bound'
       /\ Cardinality(Holding') \in Nat /\ Bound' \in Nat
  <2>1. Cardinality(Holding') \in Nat /\ Bound' \in Nat
    BY <1>7, CountsNext DEF IInv
  <2>2. CASE invitation[k].expired
    <3>1. Cardinality(revived') = Cardinality(revived) + 1
      BY <1>3, <1>4, <1>8, <2>2, FS_AddElement
    <3>2. Bound' = Bound + 1
      BY <1>8, <1>9, <3>1 DEF Bound
    <3>3. Holding' \in SUBSET (Holding \cup {k})
      BY <1>6 DEF Holding, Pending
    <3>4. IsFiniteSet(Holding \cup {k}) /\ Cardinality(Holding \cup {k}) \in Nat
          /\ Cardinality(Holding \cup {k}) <= Cardinality(Holding) + 1
      <4>1. IsFiniteSet(Holding \cup {k}) /\ Cardinality(Holding \cup {k})
              = IF k \in Holding THEN Cardinality(Holding) ELSE Cardinality(Holding) + 1
        BY <1>8, FS_AddElement
      <4> QED
        BY <1>8, <4>1
    <3>5. Cardinality(Holding') <= Cardinality(Holding \cup {k})
      BY <3>3, <3>4, FS_Subset
    <3> QED
      BY <1>8, <2>1, <3>2, <3>4, <3>5
  <2>3. CASE ~ invitation[k].expired
    <3>1. Bound' = Bound
      BY <1>4, <1>9, <2>3 DEF Bound
    <3>2. Holding' \in SUBSET Holding
      BY <1>4, <1>6, <2>3 DEF Holding, Pending
    <3>3. Cardinality(Holding') <= Cardinality(Holding)
      BY <1>8, <3>2, FS_Subset
    <3> QED
      BY <1>8, <2>1, <3>1, <3>3
  <2> QED
    BY <2>2, <2>3
<1>11. ReserveFine'
  <2>1. /\ Cardinality(Members') + Bound <= Cardinality(Members) + Bound'
        /\ Cardinality(Members') + Cardinality(Holding') + Bound
             <= Cardinality(Members) + Cardinality(Holding) + Bound'
    BY <1>8, <1>9, <1>10
  <2> QED
    BY <1>3, <1>5, <1>7, <1>9, <2>1, NumbersMove
<1>12. \A i \in DOMAIN invitation' : RowStays(p, i) \/ RowIssued(p, i)
  <2> TAKE i \in DOMAIN invitation'
  <2>1. CASE i = k
    BY <1>2, <1>3, <1>5, <1>6, <2>1 DEF RowIssued, Out
  <2>2. CASE i # k
    BY <1>6, <2>2 DEF RowStays, Pending
  <2> QED
    BY <2>1, <2>2
<1>13. StaleFine(p)'
  <2>1. ASSUME NEW t \in Tokens, TokenFine(t)
        PROVE  TokenFine(t)'
    BY <1>5, <2>1, Classes DEF TokenFine, Tokens, Out
  <2> QED
    BY <1>3, <1>5, <2>1 DEF StaleFine
<1>14. /\ \A i \in DOMAIN invitation' : TokenFine(invitation[i].token)'
       /\ \A q \in Inviters : StaleFine(q)'
  BY <1>2, <1>5, <1>12, <1>13, RowsStay DEF Out
<1> QED
  BY <1>7, <1>11, <1>14 DEF RInv

\* A creation takes the room that it has counted: nobody else counts at that time.
LEMMA CreateReserve ==
  ASSUME IInv, IInv', RInv, NEW p \in Requests, CreateOrganizationInvitation(p)
  PROVE  RInv'
<1> DEFINE n == Len(invitation) + 1
           ended == [i \in DOMAIN invitation |-> IF invitation[i].lock = p
                      THEN [invitation[i] EXCEPT !.status = "revoked", !.expired = FALSE, !.lock = None]
                      ELSE invitation[i]]
           r == [req[p] EXCEPT !.pc = "mail", !.inv = n, !.stale = {}]
<1>1. /\ req \in [Requests -> RequestState] /\ req[p] \in RequestState
      /\ Len(invitation) \in Nat /\ DOMAIN invitation = 1 .. Len(invitation) /\ None \notin Acceptors
  BY Fields, Classes DEF IInv, TypeInv
<1>2. /\ p \in Inviters /\ req[p].pc = "insert" /\ req' = [req EXCEPT ![p] = r]
      /\ invitation' = Append(ended, NewInvitation(req[p].user, p))
      /\ orgLock' = IF orgLock = p THEN None ELSE orgLock
      /\ UNCHANGED <<member, limit, changes, peak, overtaken, revived, mailed, joined>>
  BY DEF CreateOrganizationInvitation, At, Release
<1>3. p \notin Adders \cup Acceptors /\ p \notin revived /\ orgLock = p
  BY <1>2, Classes DEF RInv, RevivedFine, StaleFine
<1>4. r.pc = "mail" /\ r.stale = {}
  BY <1>1 DEF RequestState
<1> HIDE DEF r
<1>5. req'[p].pc = "mail" /\ req'[p].stale = {} /\ \A q \in Requests \ {p} : req'[q] = req[q]
  BY <1>1, <1>2, <1>4
<1>6. /\ DOMAIN invitation' = DOMAIN invitation \cup {n} /\ n \notin DOMAIN invitation
      /\ invitation'[n].token = p
      /\ \A i \in DOMAIN invitation :
           invitation'[i] = IF invitation[i].lock = p
             THEN [invitation[i] EXCEPT !.status = "revoked", !.expired = FALSE, !.lock = None]
             ELSE invitation[i]
  <2> DEFINE new == NewInvitation(req[p].user, p)
  <2>1. new.token = p
    BY DEF NewInvitation
  <2>2. ended \in Seq(InvitationRow) /\ Len(ended) = Len(invitation)
    <3>1. \A i \in DOMAIN invitation : invitation[i] \in InvitationRow
      BY Fields DEF IInv
    <3>2. \A i \in DOMAIN invitation : ended[i] \in InvitationRow
      <4> TAKE i \in DOMAIN invitation
      <4> QED
        BY <3>1 DEF InvitationRow
    <3>3. ended \in [DOMAIN invitation -> InvitationRow]
      BY <3>2
    <3> QED
      BY <3>3, Rewritten DEF IInv
  <2>3. \A i \in DOMAIN invitation : ended[i] = IF invitation[i].lock = p
          THEN [invitation[i] EXCEPT !.status = "revoked", !.expired = FALSE, !.lock = None]
          ELSE invitation[i]
    OBVIOUS
  <2>4. new \in InvitationRow
    BY <1>1, <1>2 DEF NewInvitation, InvitationRow, RequestState, Tokens
  <2> HIDE DEF ended, new
  <2>5. /\ Append(ended, new) \in Seq(InvitationRow)
        /\ Len(Append(ended, new)) = Len(ended) + 1
        /\ \A i \in 1 .. Len(ended) : Append(ended, new)[i] = ended[i]
        /\ Append(ended, new)[Len(ended) + 1] = new
    BY <2>2, <2>4, AppendProperties
  <2>6. DOMAIN Append(ended, new) = 1 .. n
    BY <2>2, <2>5, LenProperties
  <2>7. invitation' = Append(ended, new)
    BY <1>2 DEF new
  <2>8. /\ DOMAIN invitation' = DOMAIN invitation \cup {n} /\ n \notin DOMAIN invitation
    BY <1>1, <2>6, <2>7
  <2>9. invitation'[n] = new /\ \A i \in DOMAIN invitation : invitation'[i] = ended[i]
    BY <1>1, <2>2, <2>5, <2>7
  <2> QED
    BY <2>1, <2>3, <2>8, <2>9
<1> HIDE DEF ended, n
<1>7. ASSUME NEW i \in DOMAIN invitation
      PROVE  /\ invitation'[i].token = invitation[i].token
             /\ invitation[i].lock = p => invitation'[i].status = "revoked"
             /\ invitation[i].lock # p => invitation'[i] = invitation[i]
  <2>1. invitation[i] \in InvitationRow
    BY Fields DEF IInv
  <2> QED
    BY <1>6, <2>1 DEF InvitationRow
<1>8. RevivedFine'
  BY <1>2, <1>3, <1>5, Classes DEF RInv, RevivedFine
<1>9. /\ Cardinality(Members) \in Nat /\ Cardinality(Holding) \in Nat /\ Bound \in Nat
      /\ IsFiniteSet(Holding) /\ Cardinality(Holding') \in Nat
  BY <1>8, Counts, CountsNext DEF IInv, RInv
<1>10. Members' = Members /\ Bound' = Bound
  <2>1. Added' = Added
    BY <1>3, <1>5, Classes DEF Added
  <2> QED
    BY <1>2, <2>1 DEF Members, Bound
<1>11. Cardinality(Holding') <= Cardinality(Holding) + 1
  <2>1. Holding' \in SUBSET (Holding \cup {n})
    BY <1>6, <1>7 DEF Holding, Pending
  <2>2. IsFiniteSet(Holding \cup {n}) /\ Cardinality(Holding \cup {n})
          = IF n \in Holding THEN Cardinality(Holding) ELSE Cardinality(Holding) + 1
    BY <1>9, FS_AddElement
  <2>3. Cardinality(Holding') <= Cardinality(Holding \cup {n})
    BY <2>1, <2>2, FS_Subset
  <2> QED
    BY <1>9, <2>2, <2>3
<1>12. ReserveFine'
  <2>1. ReserveFine
    BY DEF RInv
  <2>2. Cardinality(Members) + Cardinality(Holding) < Bound /\ Cardinality(Members) <= Bound
    BY <1>2, <2>1 DEF ReserveFine
  <2>3. ASSUME NEW q \in Acceptors, req'[q].pc = "insert"
        PROVE  Cardinality(Members) < Bound
    BY <1>3, <1>5, <2>1, <2>3, Classes DEF ReserveFine
  <2>4. ASSUME NEW q \in Inviters, req'[q].pc = "insert"
        PROVE  FALSE
    <3>1. q # p /\ req[q].pc = "insert" /\ StaleFine(q)
      BY <1>5, <2>4, Classes DEF RInv
    <3> QED
      BY <1>3, <3>1 DEF StaleFine
  <2>5. Cardinality(Members) + Cardinality(Holding') <= Bound
    BY <1>9, <1>11, <2>2
  <2> QED
    BY <1>10, <2>2, <2>3, <2>4, <2>5 DEF ReserveFine
<1>13. \A i \in DOMAIN invitation' : RowStays(p, i) \/ RowIssued(p, i)
  <2> TAKE i \in DOMAIN invitation'
  <2>1. CASE i = n
    BY <1>2, <1>5, <1>6, <2>1 DEF RowIssued, Out
  <2>2. CASE i # n
    BY <1>6, <1>7, <2>2 DEF RowStays, Pending
  <2> QED
    BY <2>1, <2>2
<1>14. StaleFine(p)'
  BY <1>5 DEF StaleFine
<1>15. /\ \A i \in DOMAIN invitation' : TokenFine(invitation[i].token)'
       /\ \A q \in Inviters : StaleFine(q)'
  BY <1>2, <1>5, <1>13, <1>14, RowsStay DEF Out
<1> QED
  BY <1>8, <1>12, <1>15 DEF RInv

\* An acceptance turns what it held into a member.
LEMMA AcceptReserve ==
  ASSUME IInv, IInv', RInv, NEW p \in Requests, NEW role \in Grants,
         AcceptOrganizationInvitation(p, role)
  PROVE  RInv'
<1>1. /\ req \in [Requests -> RequestState] /\ req[p] \in RequestState /\ req[p].user \in Users
      /\ role \in Roles
  BY Fields, SeatsAssumption DEF IInv, TypeInv, Roles
<1>2. /\ p \in Acceptors /\ req[p].pc = "insert" /\ Joins(p, req[p].user, role) /\ Finish(p, "done")
      /\ orgLock' = IF orgLock = p THEN None ELSE orgLock
      /\ UNCHANGED <<limit, changes, peak, revived, mailed>>
  BY DEF AcceptOrganizationInvitation, At, Release
<1>3. p \notin Inviters \cup Adders /\ p \notin revived /\ orgLock = p
  BY <1>2, Standing, Classes DEF RInv, RevivedFine, AcceptorFine
<1>4. req'[p].pc = "done" /\ \A q \in Requests \ {p} : req'[q] = req[q]
  BY <1>2, Answered
<1>5. PICK k : /\ k \in DOMAIN invitation /\ Pending(k) /\ invitation[k].lock = p
               /\ invitation' = [invitation EXCEPT ![k] =
                    [invitation[k] EXCEPT !.status = "accepted", !.expired = FALSE, !.lock = None]]
  <2>1. AcceptorFine(p)
    BY <1>2, Standing
  <2>2. /\ req[p].inv \in DOMAIN invitation /\ Pending(req[p].inv)
        /\ invitation[req[p].inv].lock = p
    BY <1>2, <2>1 DEF AcceptorFine
  <2>3. invitation' = [invitation EXCEPT ![req[p].inv] =
          [invitation[req[p].inv] EXCEPT !.status = "accepted", !.expired = FALSE, !.lock = None]]
    BY DEF AcceptOrganizationInvitation
  <2> QED
    BY <2>2, <2>3
<1>6. /\ DOMAIN invitation' = DOMAIN invitation
      /\ \A i \in DOMAIN invitation \ {k} : invitation'[i] = invitation[i]
      /\ invitation'[k].status = "accepted" /\ invitation'[k].token = invitation[k].token
  <2>1. invitation[k] \in InvitationRow
    BY <1>5, Fields DEF IInv
  <2> QED
    BY <1>5, <2>1 DEF InvitationRow
<1>7. RevivedFine'
  BY <1>2, <1>3, <1>4, Classes DEF RInv, RevivedFine
<1>8. /\ Cardinality(Members) \in Nat /\ Cardinality(Holding) \in Nat /\ Bound \in Nat
      /\ IsFiniteSet(Holding)
  BY Counts DEF IInv, RInv
<1>9. Bound' = Bound /\ Cardinality(Members') = Cardinality(Members) + 1 /\ Fresh' = Fresh
  <2>1. Added' = Added
    BY <1>3, <1>4, Classes DEF Added
  <2> QED
    BY <1>1, <1>2, <1>6, <2>1, OneMore DEF Bound, Fresh
<1>10. Cardinality(Holding') = Cardinality(Holding) - 1
  <2>1. k \in Holding /\ Holding' = Holding \ {k}
    BY <1>2, <1>5, <1>6 DEF Holding, Pending
  <2> QED
    BY <1>8, <2>1, FS_RemoveElement
<1>11. ReserveFine'
  <2>1. ReserveFine
    BY DEF RInv
  <2>2. Cardinality(Members) < Bound
    BY <1>2, <2>1 DEF ReserveFine
  <2>3. ASSUME NEW q \in Acceptors \cup Inviters, req'[q].pc = "insert"
        PROVE  FALSE
    <3>1. q # p /\ req[q].pc = "insert" /\ q \in Requests
      BY <1>4, <2>3, Classes
    <3>2. orgLock = q
      <4>1. CASE q \in Acceptors
        BY <3>1, <4>1, Standing DEF AcceptorFine
      <4>2. CASE q \in Inviters
        BY <3>1, <4>2 DEF RInv, StaleFine
      <4> QED
        BY <2>3, <4>1, <4>2
    <3> QED
      BY <1>3, <3>1, <3>2
  <2>4. Cardinality(Members') <= Bound'
    BY <1>8, <1>9, <2>2
  <2>5. Fresh' => Cardinality(Members') + Cardinality(Holding') <= Bound'
    BY <1>8, <1>9, <1>10, <2>1 DEF ReserveFine
  <2> QED
    BY <2>3, <2>4, <2>5 DEF ReserveFine
<1>12. \A i \in DOMAIN invitation' : RowStays(p, i)
  <2> TAKE i \in DOMAIN invitation'
  <2>1. CASE i = k
    BY <1>5, <1>6, <2>1 DEF RowStays, Pending
  <2>2. CASE i # k
    BY <1>6, <2>2 DEF RowStays, Pending
  <2> QED
    BY <2>1, <2>2
<1>13. /\ \A i \in DOMAIN invitation' : TokenFine(invitation[i].token)'
       /\ \A q \in Inviters : StaleFine(q)'
  BY <1>2, <1>3, <1>4, <1>12, RowsStay
<1> QED
  BY <1>7, <1>11, <1>13 DEF RInv

\* At the start nothing was created.
LEMMA InitReserve == Init => RInv
<1> SUFFICES ASSUME Init PROVE RInv
  OBVIOUS
<1>1. IInv
  BY InitInvariant
<1>2. \A p \in Requests : req[p].pc = "start" /\ req[p].stale = {}
  BY DEF Init, Idle
<1>3. \A i \in DOMAIN invitation : invitation[i].token = None /\ <<i, None>> \in mailed
  BY DEF Init, NewInvitation
<1>4. revived = {} /\ Members = {Owner}
  BY SeatsAssumption DEF Init, Members
<1>5. RevivedFine
  BY <1>4 DEF RevivedFine
<1>6. /\ Cardinality(Members) = 1 /\ peak >= 1 /\ peak \in Nat
      /\ Cardinality(revived) \in Nat /\ Cardinality(Added) \in Nat
  <2>1. Cardinality(Members) = 1
    BY <1>4, FS_Singleton
  <2>2. limit \in 1 .. MaxSeats /\ peak = limit
    BY DEF Init
  <2> QED
    BY <1>1, <1>5, <2>1, <2>2, Counts, SeatsAssumption DEF IInv
<1>7. Cardinality(Members) <= Bound
  BY <1>6 DEF Bound
<1>8. ~ Fresh
  BY <1>3 DEF Fresh
<1>9. ReserveFine
  BY <1>2, <1>7, <1>8, Classes DEF ReserveFine
<1>10. \A p \in Inviters : StaleFine(p)
  BY <1>2, Classes DEF StaleFine
<1> QED
  BY <1>3, <1>5, <1>9, <1>10 DEF RInv, TokenFine

\* Every step.
LEMMA StepReserve == IInv /\ RInv /\ [Next]_vars => RInv'
<1> SUFFICES ASSUME IInv, RInv, [Next]_vars PROVE RInv'
  OBVIOUS
<1>1. IInv'
  BY StepInvariant
<1>2. ASSUME NEW p \in Requests, LockOrganization(p) \/ GiveUp(p)
      PROVE  RInv'
  BY <1>1, <1>2, LockReserve, GiveUpReserve
<1>3. ASSUME NEW p \in Requests, MemberStep(p)
      PROVE  RInv'
  BY <1>1, <1>3, MemberReserve, InsertReserve DEF MemberStep
<1>4. ASSUME NEW p \in Requests, InviteStep(p)
      PROVE  RInv'
  BY <1>1, <1>4, InviterReserve, RevokeReserve, ExpireReserve, CreateReserve, EnqueueReserve,
     RefreshReserve DEF InviteStep
<1>5. ASSUME NEW p \in Requests, AcceptStep(p)
      PROVE  RInv'
  BY <1>1, <1>5, AcceptorReserve, LockRowReserve, AcceptReserve DEF AcceptStep
<1>6. CASE (\E i \in InvIds : Expire(i)) \/ SubscriptionChanges \/ UNCHANGED vars
  BY <1>1, <1>6, EnvironmentReserve
<1> QED
  BY <1>2, <1>3, <1>4, <1>5, <1>6 DEF Next

\* Members and invitations that were created exceed the seats together by direct additions and
\* by resent expired invitations only, for any number of handlers: a creation counts what can
\* still be accepted, and what it leaves out has expired and is locked until it ends.
THEOREM ReservedCorrect == Spec => []ReservedSeatsHold
<1>1. IInv /\ RInv => ReservedSeatsHold
  <2> SUFFICES ASSUME IInv, RInv PROVE ReservedSeatsHold
    OBVIOUS
  <2> DEFINE created == {i \in Valid : <<i, None>> \notin mailed}
  <2>1. /\ Cardinality(Members) \in Nat /\ Cardinality(Holding) \in Nat /\ Bound \in Nat
        /\ IsFiniteSet(Holding) /\ ReserveFine
    BY Counts DEF IInv, RInv
  <2>2. created \in SUBSET Holding
    BY DEF Valid, Holding
  <2>3. IsFiniteSet(created) /\ Cardinality(created) \in Nat
        /\ Cardinality(created) <= Cardinality(Holding)
    BY <2>1, <2>2, FS_Subset, FS_CardinalityType
  <2>4. Cardinality(Members) + Cardinality(created) <= Bound
    <3>1. CASE created = {}
      <4>1. Cardinality(created) = 0
        BY <3>1, FS_EmptySet
      <4> QED
        BY <2>1, <4>1 DEF ReserveFine
    <3>2. CASE created # {}
      <4>1. Fresh
        BY <3>2 DEF Fresh, Valid
      <4> HIDE DEF created
      <4> QED
        BY <2>1, <2>3, <4>1 DEF ReserveFine
    <3> QED
      BY <3>1, <3>2
  <2>5. Added = {p \in Adders : req[p].pc \in {"sync", "undo", "done", "failed"}}
    BY DEF Added, Came
  <2> QED
    BY <2>4, <2>5 DEF Bound, ReservedSeatsHold
<1>2. IInv /\ RInv /\ [Next]_vars => RInv'
  BY StepReserve
<1>3. Spec => []RInv
  BY Invariance, InitReserve, <1>2, PTL DEF Spec
<1> QED
  BY Invariance, <1>1, <1>3, PTL
=============================================================================
