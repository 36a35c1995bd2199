------------------------------ MODULE OrgSeats ------------------------------
(***************************************************************************)
(* Members, invitations and seats of one organization.                     *)
(*                                                                         *)
(* Handlers read and write PostgreSQL statement by statement: a step is    *)
(* one statement, or one call, and the locks of a transaction are held     *)
(* until it ends.  Adding a member directly takes no lock; creating and    *)
(* accepting an invitation lock the organization.  Any handler may end     *)
(* early: an error of the database or of SQS, a cancelled request, a       *)
(* crash.  Time passes as one invitation after the other expires.          *)
(*                                                                         *)
(* Abstracted: the subscription is the seat limit it amounts to, which     *)
(* webhooks and synchronisations change at any time (module Billing says   *)
(* how); a synchronisation of the seats succeeds or fails; a token is      *)
(* named by the handler that generated it; texts, names, the time of the   *)
(* last mail (shown only), addresses but whose they are.                   *)
(***************************************************************************)
EXTENDS Integers, Sequences, FiniteSetsExt

CONSTANTS
  Users,       \* accounts; each has one address
  Owner,       \* who created the organization
  Invited,     \* accounts that may have a mailed invitation at the start
  Grants,      \* roles given to new members
  Adders,      \* POST /v1/orgs/{id}/members
  Removers,    \* DELETE /v1/orgs/{id}/members/{user}
  Inviters,    \* POST .../invitations, .../invitations/{id}/resend and DELETE
  Acceptors,   \* POST /v1/invitations/accept
  None,        \* no handler
  MaxSeats,    \* seats that are ever sold
  MaxChanges   \* bound: how often the subscription changes

ASSUME SeatsAssumption ==
  /\ IsFiniteSet(Users) /\ Owner \in Users /\ Invited \subseteq Users \ {Owner}
  /\ Grants \subseteq {"owner", "admin", "member"}
  /\ IsFiniteSet(Adders) /\ IsFiniteSet(Acceptors) /\ IsFiniteSet(Inviters)
  /\ None \notin Adders \cup Removers \cup Inviters \cup Acceptors
  /\ Adders \cap (Removers \cup Inviters \cup Acceptors) = {}
  /\ Acceptors \cap (Removers \cup Inviters) = {} /\ Removers \cap Inviters = {}
  /\ MaxSeats \in Nat \ {0} /\ MaxChanges \in Nat

Requests == Adders \cup Removers \cup Inviters \cup Acceptors

VARIABLES
  member,      \* rows of organization_members: the role of every account
  invitation,  \* rows of organization_invitations
  orgLock,     \* who has locked the organizations row
  limit,       \* seats of the latest subscription
  changes,     \* how often it changed
  peak,        \* history: the largest limit so far
  overtaken,   \* history: handlers that somebody overtook between count and insert
  revived,     \* history: handlers that resent an expired invitation
  mailed,      \* history: invitation and token of every mail queued
  joined,      \* history: committed acceptances
  req          \* local state of every handler

vars == <<member, invitation, orgLock, limit, changes, peak, overtaken, revived, mailed, joined, req>>
rows == <<member, invitation, orgLock, limit, changes, peak, overtaken, revived, mailed, joined>>

----------------------------------------------------------------------------
Roles   == {"owner", "admin", "member"}
Tokens  == Inviters \cup {None}
MaxInvitations == Cardinality(Invited) + Cardinality(Inviters)
InvIds  == 1 .. MaxInvitations

InvitationRow == [email : Users, status : {"pending", "accepted", "revoked"}, token : Tokens,
                  expired : BOOLEAN, lock : Requests \cup {None}]

RequestState == [pc : {"start", "limit", "usage", "begin", "org", "stale", "row", "count", "insert",
                       "mail", "remail", "revoke", "refresh", "sync", "undo",
                       "done", "refused", "failed"},
                 user : Users, inv : 0 .. MaxInvitations, token : Tokens,
                 limit : 0 .. MaxSeats, stale : SUBSET (InvIds \X Tokens)]

Members    == {u \in Users : member[u] # "none"}
Managers   == {u \in Users : member[u] \in {"owner", "admin"}}
Pending(i) == invitation[i].status = "pending"
Valid      == {i \in DOMAIN invitation : Pending(i) /\ ~ invitation[i].expired}
Stale      == {i \in DOMAIN invitation : Pending(i) /\ invitation[i].expired}
At(p, s)   == req[p].pc = s
Free(i)    == invitation[i].lock = None

NewInvitation(u, t) ==
  [email |-> u, status |-> "pending", token |-> t, expired |-> FALSE, lock |-> None]

Idle == [pc |-> "start", user |-> Owner, inv |-> 0, token |-> None, limit |-> 0, stale |-> {}]

Init ==
  /\ member = [u \in Users |-> IF u = Owner THEN "owner" ELSE "none"]
  /\ \E n \in 0 .. Cardinality(Invited) : \E order \in [1 .. n -> Invited] :
       /\ \A i, j \in 1 .. n : order[i] = order[j] => i = j
       /\ invitation = [i \in 1 .. n |-> NewInvitation(order[i], None)]
  /\ orgLock = None
  /\ limit \in 1 .. MaxSeats /\ changes = 0 /\ peak = limit
  /\ mailed = {<<i, None>> : i \in DOMAIN invitation}
  /\ joined = {} /\ overtaken = {} /\ revived = {}
  /\ req = [p \in Requests |-> Idle]

----------------------------------------------------------------------------
(* What several handlers do. *)

Goto(p, s) == req' = [req EXCEPT ![p].pc = s]

\* The answer; what the handler worked on is forgotten, but for what an inviter issued.
Finish(p, s) ==
  req' = [req EXCEPT ![p] =
            [Idle EXCEPT !.pc = s, !.inv = IF p \in Inviters THEN req[p].inv ELSE 0]]

\* The end of a transaction: its locks go.
Unlocked(p, table) ==
  [i \in DOMAIN table |-> IF table[i].lock = p THEN [table[i] EXCEPT !.lock = None] ELSE table[i]]

Release(p) == orgLock' = IF orgLock = p THEN None ELSE orgLock

\* The organization is not locked.
LockNothing(p) ==
  /\ At(p, "org")
  /\ Goto(p, IF p \in Inviters THEN "stale" ELSE "count")
  /\ UNCHANGED rows

\* The statement is sent; it waits for the lock of the organization.
LockOrganization(p) ==
  /\ At(p, "org") /\ orgLock = None
  /\ orgLock' = p
  /\ Goto(p, IF p \in Inviters THEN "stale" ELSE "count")
  /\ UNCHANGED <<member, invitation, limit, changes, peak, overtaken, revived, mailed, joined>>

\* Nothing is rolled back.
LocksStay(p) ==
  /\ req[p].pc \notin {"start", "done", "refused", "failed"}
  /\ Finish(p, "failed")
  /\ UNCHANGED rows

\* A refusal, an error, a cancelled request or a crash: the transaction is rolled back, what
\* was committed or queued stays.
GiveUp(p) ==
  /\ req[p].pc \notin {"start", "done", "refused", "failed"}
  /\ invitation' = Unlocked(p, invitation) /\ Release(p)
  /\ Finish(p, "failed")
  /\ UNCHANGED <<member, limit, changes, peak, overtaken, revived, mailed, joined>>

----------------------------------------------------------------------------
(* POST and DELETE /v1/orgs/{id}/members. *)

\* A member more; who had counted already and is not kept off by the lock is overtaken.
Joins(p, u, r) ==
  /\ member[u] = "none" /\ member' = [member EXCEPT ![u] = r]
  /\ overtaken' = overtaken \cup
       {q \in Requests \ {p} : At(q, "insert") /\ q \notin Inviters /\ {p, q} \cap Adders # {}}

\* Whoever inserted the row, it goes.
Leaves(u) == member' = [member EXCEPT ![u] = "none"]

\* Somebody with the role asks for an account that is not a member.
AddMember(p, u) ==
  /\ p \in Adders /\ At(p, "start") /\ Managers # {} /\ member[u] = "none"
  /\ req' = [req EXCEPT ![p].pc = "limit", ![p].user = u]
  /\ UNCHANGED rows

\* The limit is read first ...
GetSeatLimit(p) ==
  /\ At(p, "limit")
  /\ req' = [req EXCEPT ![p].pc = "usage", ![p].limit = limit]
  /\ UNCHANGED rows

\* ... and compared with the members that are counted later.
GetCurrentSeatUsage(p) ==
  /\ At(p, "usage") /\ Cardinality(Members) < req[p].limit
  /\ req' = [req EXCEPT ![p].pc = "insert", ![p].limit = 0]
  /\ UNCHANGED rows

\* The row is inserted without a lock and without a second look at the seats.
InsertMember(p, r) ==
  /\ p \in Adders /\ At(p, "insert") /\ Joins(p, req[p].user, r)
  /\ Goto(p, "sync")
  /\ UNCHANGED <<invitation, orgLock, limit, changes, peak, revived, mailed, joined>>

SyncSucceeds(p) ==
  /\ At(p, "sync") /\ Finish(p, "done")
  /\ UNCHANGED rows

SyncFails(p) ==
  /\ At(p, "sync") /\ Goto(p, "undo")
  /\ UNCHANGED rows

UndoAddMember(p) ==
  /\ At(p, "undo") /\ Leaves(req[p].user)
  /\ Finish(p, "failed")
  /\ UNCHANGED <<invitation, orgLock, limit, changes, peak, overtaken, revived, mailed, joined>>

\* An admin does not remove itself. An error of the synchronisation undoes nothing.
RemoveMember(p, actor, u) ==
  /\ p \in Removers /\ At(p, "start") /\ actor \in Managers /\ u \in Members
  /\ member[actor] = "admin" => actor # u
  /\ Leaves(u)
  /\ Finish(p, "done")
  /\ UNCHANGED <<invitation, orgLock, limit, changes, peak, overtaken, revived, mailed, joined>>

----------------------------------------------------------------------------
(* POST /v1/orgs/{id}/invitations. *)

InvitationSeatAvailable == Cardinality(Members) + Cardinality(Valid) < limit

\* The transaction will look again at everything but the role.
CreateInvitation(p, u) ==
  /\ p \in Inviters /\ At(p, "start") /\ Managers # {} /\ member[u] = "none"
  /\ InvitationSeatAvailable
  /\ req' = [req EXCEPT ![p].pc = "begin", ![p].user = u, ![p].token = p]
  /\ UNCHANGED rows

\* now() is the time the transaction begins: what is stale is decided here, for the token
\* the row has.
BeginCreate(p) ==
  /\ At(p, "begin")
  /\ req' = [req EXCEPT ![p].pc = "org",
                        ![p].stale = {<<i, invitation[i].token>> : i \in Stale}]
  /\ UNCHANGED rows

StaleRows(p) == {i \in Stale : <<i, invitation[i].token>> \in req[p].stale}

\* The rows are updated once nobody else has them locked; the change shows at the commit.
ExpireStale(p) ==
  /\ At(p, "stale") /\ \A i \in StaleRows(p) : Free(i)
  /\ invitation' = [i \in DOMAIN invitation |->
       IF i \in StaleRows(p) THEN [invitation[i] EXCEPT !.lock = p] ELSE invitation[i]]
  /\ Goto(p, "count")
  /\ UNCHANGED <<member, orgLock, limit, changes, peak, overtaken, revived, mailed, joined>>

Reserved(p) ==
  Cardinality(Members)
  + Cardinality({i \in DOMAIN invitation : Pending(i) /\ <<i, invitation[i].token>> \notin req[p].stale})

\* Pending invitations are not counted.
CountMembersOnly(p) ==
  /\ p \in Inviters /\ At(p, "count") /\ Cardinality(Members) < limit
  /\ Goto(p, "insert")
  /\ UNCHANGED rows

CountReserved(p) ==
  /\ p \in Inviters /\ At(p, "count") /\ Reserved(p) < limit
  /\ Goto(p, "insert")
  /\ UNCHANGED rows

\* One pending invitation per address; the commit ends the stale ones.
CreateOrganizationInvitation(p) ==
  LET ended == [i \in DOMAIN invitation |-> IF invitation[i].lock = p
                  THEN [invitation[i] EXCEPT !.status = "revoked", !.expired = FALSE, !.lock = None]
                  ELSE invitation[i]]
  IN /\ p \in Inviters /\ At(p, "insert")
     /\ \A i \in DOMAIN ended :
          ended[i].email = req[p].user => ended[i].status # "pending"
     /\ invitation' = Append(ended, NewInvitation(req[p].user, p))
     /\ Release(p)
     /\ req' = [req EXCEPT ![p].pc = "mail", ![p].inv = Len(invitation) + 1, ![p].stale = {}]
     /\ UNCHANGED <<member, limit, changes, peak, overtaken, revived, mailed, joined>>

EnqueueInvitation(p) ==
  /\ req[p].pc \in {"mail", "remail"}
  /\ mailed' = mailed \cup {<<req[p].inv, req[p].token>>}
  /\ Finish(p, "done")
  /\ UNCHANGED <<member, invitation, orgLock, limit, changes, peak, overtaken, revived, joined>>

\* A new invitation is taken back, a resent one stays as it is. SQS may have taken the
\* message all the same.
EnqueueFails(p) ==
  /\ req[p].pc \in {"mail", "remail"}
  /\ mailed' \in {mailed, mailed \cup {<<req[p].inv, req[p].token>>}}
  /\ IF At(p, "mail") THEN Goto(p, "revoke") ELSE Finish(p, "failed")
  /\ UNCHANGED <<member, invitation, orgLock, limit, changes, peak, overtaken, revived, joined>>

\* The status is not looked at.
RevokeAnyway(i) ==
  /\ i \in DOMAIN invitation /\ Free(i)
  /\ invitation' = [invitation EXCEPT ![i].status = "revoked"]

RevokeOrganizationInvitation(i) ==
  /\ i \in DOMAIN invitation /\ Free(i)
  /\ invitation' = [invitation EXCEPT ![i].status = IF Pending(i) THEN "revoked" ELSE @,
                                     ![i].expired = FALSE]

\* The handler answers, and the invitation stays.
RevokeForgotten(p) == At(p, "revoke") /\ Finish(p, "refused") /\ UNCHANGED rows

\* The handler answers once the invitation is taken back; with an error of the statement, which
\* the code does not look at, it has failed (GiveUp).
RevokeUnsent(p) ==
  /\ At(p, "revoke") /\ RevokeOrganizationInvitation(req[p].inv)
  /\ Finish(p, "refused")
  /\ UNCHANGED <<member, orgLock, limit, changes, peak, overtaken, revived, mailed, joined>>

RevokeInvitation(p, i) ==
  /\ p \in Inviters /\ At(p, "start") /\ Managers # {}
  /\ RevokeOrganizationInvitation(i)
  /\ Finish(p, "done")
  /\ UNCHANGED <<member, orgLock, limit, changes, peak, overtaken, revived, mailed, joined>>

\* Whatever its time says, a pending invitation can be resent ...
ResendInvitation(p, i) ==
  /\ p \in Inviters /\ At(p, "start") /\ Managers # {}
  /\ i \in DOMAIN invitation /\ Pending(i)
  /\ req' = [req EXCEPT ![p].pc = "refresh", ![p].inv = i, ![p].token = p]
  /\ UNCHANGED rows

\* ... with a new token and a new time, and without a look at the seats.
RefreshOrganizationInvitation(p) ==
  LET i == req[p].inv IN
  /\ At(p, "refresh") /\ Free(i) /\ Pending(i)
  /\ invitation' = [invitation EXCEPT ![i].token = p, ![i].expired = FALSE]
  /\ revived' = IF invitation[i].expired THEN revived \cup {p} ELSE revived
  /\ Goto(p, "remail")
  /\ UNCHANGED <<member, orgLock, limit, changes, peak, overtaken, mailed, joined>>

----------------------------------------------------------------------------
(* POST /v1/invitations/accept. *)

\* The link of a mail, with a token that the row still has.
ResolveInvitation(i) == <<i, invitation[i].token>> \in mailed

\* The account the mail was sent to opens the link.
AcceptInvitation(p, i) ==
  LET u == invitation[i].email IN
  /\ p \in Acceptors /\ At(p, "start") /\ ResolveInvitation(i)
  /\ i \in Valid /\ member[u] = "none" /\ Cardinality(Members) < limit
  /\ req' = [req EXCEPT ![p].pc = "row", ![p].user = u, ![p].inv = i,
                        ![p].token = invitation[i].token]
  /\ UNCHANGED rows

\* The account that accepted asks again: nothing is written.
AlreadyAccepted(p, i) ==
  /\ p \in Acceptors /\ At(p, "start") /\ ResolveInvitation(i)
  /\ invitation[i].status = "accepted"
  /\ Finish(p, IF member[invitation[i].email] = "none" THEN "failed" ELSE "done")
  /\ UNCHANGED rows

\* The row is found by its id alone.
LockById(p) ==
  /\ At(p, "row") /\ Free(req[p].inv) /\ req[p].inv \in Valid
  /\ invitation' = [invitation EXCEPT ![req[p].inv].lock = p]
  /\ Goto(p, "org")
  /\ UNCHANGED <<member, orgLock, limit, changes, peak, overtaken, revived, mailed, joined>>

\* The row is looked at again once it is locked.
LockInvitation(p) ==
  LET i == req[p].inv IN
  /\ At(p, "row") /\ Free(i)
  /\ invitation[i].token = req[p].token /\ i \in Valid
  /\ invitation' = [invitation EXCEPT ![i].lock = p]
  /\ Goto(p, "org")
  /\ UNCHANGED <<member, orgLock, limit, changes, peak, overtaken, revived, mailed, joined>>

CountMembers(p) ==
  /\ p \in Acceptors /\ At(p, "count") /\ Cardinality(Members) < limit
  /\ Goto(p, "insert")
  /\ UNCHANGED rows

\* Member and status are one commit. The synchronisation that follows writes nothing here, and
\* its error undoes nothing.
AcceptOrganizationInvitation(p, r) ==
  LET i == req[p].inv  u == req[p].user IN
  /\ p \in Acceptors /\ At(p, "insert") /\ Joins(p, u, r)
  /\ invitation' = [invitation EXCEPT ![i].status = "accepted",
                                     ![i].expired = FALSE, ![i].lock = None]
  /\ joined' = joined \cup {[by |-> p, inv |-> i, token |-> req[p].token, user |-> u]}
  /\ Release(p) /\ Finish(p, "done")
  /\ UNCHANGED <<limit, changes, peak, revived, mailed>>

----------------------------------------------------------------------------
(* The environment. *)

Expire(i) ==
  /\ i \in Valid
  /\ invitation' = [invitation EXCEPT ![i].expired = TRUE]
  /\ UNCHANGED <<member, orgLock, limit, changes, peak, overtaken, revived, mailed, joined, req>>

\* A webhook or a synchronisation writes another number, or the plan ends.
SubscriptionChanges ==
  /\ changes < MaxChanges /\ changes' = changes + 1
  /\ limit' \in 1 .. MaxSeats \ {limit}
  /\ peak' = Max({peak, limit'})
  /\ UNCHANGED <<member, invitation, orgLock, overtaken, revived, mailed, joined, req>>

MemberStep(p) ==
  \/ \E u \in Users : AddMember(p, u) \/ \E a \in Users : RemoveMember(p, a, u)
  \/ GetSeatLimit(p) \/ GetCurrentSeatUsage(p) \/ \E r \in Grants : InsertMember(p, r)
  \/ SyncSucceeds(p) \/ SyncFails(p) \/ UndoAddMember(p)

InviteStep(p) ==
  \/ \E u \in Users : CreateInvitation(p, u)
  \/ \E i \in DOMAIN invitation : RevokeInvitation(p, i) \/ ResendInvitation(p, i)
  \/ BeginCreate(p) \/ ExpireStale(p) \/ CountReserved(p) \/ CreateOrganizationInvitation(p)
  \/ EnqueueInvitation(p) \/ EnqueueFails(p) \/ RevokeUnsent(p)
  \/ RefreshOrganizationInvitation(p)

AcceptStep(p) ==
  \/ \E i \in DOMAIN invitation : AcceptInvitation(p, i) \/ AlreadyAccepted(p, i)
  \/ LockInvitation(p) \/ CountMembers(p)
  \/ \E r \in Grants : AcceptOrganizationInvitation(p, r)

Next ==
  \/ \E p \in Requests :
       \/ LockOrganization(p) \/ GiveUp(p)
       \/ MemberStep(p) \/ InviteStep(p) \/ AcceptStep(p)
  \/ \E i \in InvIds : Expire(i)
  \/ SubscriptionChanges

Spec == Init /\ [][Next]_vars

----------------------------------------------------------------------------
(* Properties *)

\* Rows, locks and local states keep their types, and every lock has a holder at work.
TypeOK ==
  /\ member \in [Users -> Roles \cup {"none"}]
  /\ invitation \in Seq(InvitationRow) /\ Len(invitation) <= MaxInvitations
  /\ \A i \in DOMAIN invitation : LET p == invitation[i].lock IN
       p # None => req[p].pc \in {"org", "count", "insert"}
  /\ orgLock \in Requests \cup {None}
  /\ orgLock # None => req[orgLock].pc \in {"stale", "count", "insert"}
  /\ limit \in 1 .. MaxSeats /\ peak \in limit .. MaxSeats /\ changes \in 0 .. MaxChanges
  /\ mailed \subseteq InvIds \X Tokens
  /\ joined \subseteq [by : Acceptors, inv : InvIds, token : Tokens, user : Users]
  /\ req \in [Requests -> RequestState]

\* However acceptances, creations, additions and changes of the subscription interleave,
\* the members exceed the seats only by handlers that a direct addition overtook, or
\* additions that anybody overtook, between count and insert: acceptances count and insert
\* under the lock of the organization and never overtake each other.
SeatsHold == Cardinality(Members) <= peak + Cardinality(overtaken)

\* A creation counts members and invitations under the lock: together they exceed the seats
\* only by additions, which do not count invitations, and by resending expired invitations,
\* which counts nothing. (Those of the start may have been issued when there were more seats.)
ReservedSeatsHold ==
  Cardinality(Members) + Cardinality({i \in Valid : <<i, None>> \notin mailed})
    <= peak + Cardinality(revived)
       + Cardinality({p \in Adders : req[p].pc \in {"sync", "undo", "done", "failed"}})

\* An invitation lets one account in, once, and by the token of its latest mail: neither a
\* second tab nor a resend or a revocation after the link was opened changes that.
AcceptedOnceByLatestToken ==
  /\ \A x, y \in joined : x.inv = y.inv => x = y
  /\ \A x \in joined : LET row == invitation[x.inv]
                       IN row.token = x.token /\ row.email = x.user

\* An answer of SQS that got lost does not take an accepted invitation back: accepted and
\* revoked are final.
StatusIsFinal ==
  [][\A i \in DOMAIN invitation :
       invitation[i].status # "pending" => invitation'[i].status = invitation[i].status]_vars

\* A pending invitation has a mail with its token, or the handler that issued the token is at
\* work or was stopped by an error. One that answered that the mail was not sent is no excuse:
\* it has taken the invitation back, and no resend or acceptance in between brings it back.
PendingHasMail ==
  \A i \in DOMAIN invitation :
    Pending(i) => \/ <<i, invitation[i].token>> \in mailed
                  \/ LET p == invitation[i].token
                     IN p # None /\ req[p].inv = i
                        /\ req[p].pc \in {"mail", "remail", "revoke", "failed"}
=============================================================================
