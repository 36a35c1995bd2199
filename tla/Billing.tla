------------------------------- MODULE Billing -------------------------------
(***************************************************************************)
(* The subscriptions of one organization, at Stripe and as rows here.      *)
(*                                                                         *)
(* Stripe tells each change of a subscription as an event and delivers it  *)
(* at least once, in any order.  A webhook writes what its event says; a   *)
(* synchronisation after a change of the members reads the latest row,     *)
(* counts the members, sets the quantity at Stripe and writes the row, and *)
(* may end after each of these.  The row that was written last is the      *)
(* subscription of the organization.                                       *)
(*                                                                         *)
(* Abstracted: active, trialing and past_due are "active", they pay alike; *)
(* a signature that does not match, events of other kinds and events       *)
(* without an owner change nothing and are left out; whether a member may  *)
(* be added is decided in one step (module OrgSeats has it in three, and   *)
(* the acceptances, whose synchronisation is that of an addition without   *)
(* the compensation).  The rows of a user's own subscription are written   *)
(* and read by the same code and touch no other row.                       *)
(***************************************************************************)
EXTENDS Integers, Sequences, FiniteSets

CONSTANTS
  Subs,       \* subscriptions that are ever bought
  Users,      \* accounts
  Owner,      \* who created the organization
  Adders,     \* POST /v1/orgs/{id}/members
  Removers,   \* DELETE /v1/orgs/{id}/members/{user}
  None,       \* no subscription
  MaxSeats,   \* seats that are ever sold
  MaxEvents   \* bound: the customer changes nothing after that many events

ASSUME BillingAssumption ==
  /\ None \notin Subs /\ Owner \in Users /\ IsFiniteSet(Users) /\ Adders \cap Removers = {}
  /\ Cardinality(Users) <= MaxSeats /\ MaxSeats \in Nat \ {0} /\ MaxEvents \in Nat

VARIABLES
  stripe,     \* the subscriptions as Stripe has them
  events,     \* every event of Stripe so far; each may be delivered at any time
  row,        \* rows of subscriptions
  latest,     \* the row with the newest updated_at
  member,     \* rows of organization_members
  sync        \* local state of the handlers that change members

billing == <<stripe, events, row, latest, member, sync>>

Handlers == Adders \cup Removers
State    == [status : {"none", "active", "unpaid", "canceled"}, seats : 0 .. MaxSeats]
NoState  == [status |-> "none", seats |-> 0]

Event     == [sub : Subs, status : {"active", "unpaid", "canceled"}, seats : 1 .. MaxSeats]
SyncState == [pc : {"start", "read", "count", "update", "upsert", "error", "done", "failed"},
              user : Users, sub : Subs \cup {None}, seats : 0 .. MaxSeats]

BillingInit ==
  /\ stripe = [s \in Subs |-> NoState] /\ row = [s \in Subs |-> NoState]
  /\ events = <<>> /\ latest = None /\ member = {Owner}
  /\ sync = [p \in Handlers |-> [pc |-> "start", user |-> Owner, sub |-> None, seats |-> 0]]

----------------------------------------------------------------------------
(* Stripe and the customer. *)

\* A change is told, what stays as it was is not.
Becomes(s, state) ==
  /\ stripe' = [stripe EXCEPT ![s] = state]
  /\ events' = IF stripe[s] = state THEN events
               ELSE Append(events, [sub |-> s, status |-> state.status, seats |-> state.seats])

\* Nobody looks whether there is a subscription already.
CheckoutCompletes(s) ==
  /\ Len(events) < MaxEvents /\ stripe[s] = NoState
  /\ Becomes(s, [status |-> "active", seats |-> 1])
  /\ UNCHANGED <<row, latest, member, sync>>

\* The customer buys seats or cancels, a payment fails or is made up for.
CustomerChanges(s, state) ==
  /\ Len(events) < MaxEvents /\ stripe[s].status \in {"active", "unpaid"}
  /\ state.status # "none" /\ state.seats >= 1 /\ state # stripe[s]
  /\ Becomes(s, state)
  /\ UNCHANGED <<row, latest, member, sync>>

----------------------------------------------------------------------------
(* Rows. *)

UpsertSubscription(s, status, seats) ==
  /\ row' = [row EXCEPT ![s] = [status |-> status, seats |-> seats]]
  /\ latest' = s

\* Only the kind and the content of the event count, not its age.
HandleWebhook(e) ==
  /\ UpsertSubscription(e.sub, e.status, e.seats)
  /\ UNCHANGED <<stripe, events, member, sync>>

isPaidActive(status) == status = "active"

GetLatestSubscription == IF latest = None THEN NoState ELSE row[latest]

PaidPlan == isPaidActive(GetLatestSubscription.status)

GetSeatLimit == IF PaidPlan THEN GetLatestSubscription.seats ELSE 1

----------------------------------------------------------------------------
(* Members and the synchronisation of the seats. *)

Step(p, pc) == sync' = [sync EXCEPT ![p].pc = pc]

Leave(p, pc) == sync' = [sync EXCEPT ![p] = [pc |-> pc, user |-> Owner, sub |-> None, seats |-> 0]]

AddMember(p, u) ==
  /\ p \in Adders /\ sync[p].pc = "start"
  /\ u \notin member /\ Cardinality(member) < GetSeatLimit
  /\ member' = member \cup {u}
  /\ sync' = [sync EXCEPT ![p].pc = "read", ![p].user = u]
  /\ UNCHANGED <<stripe, events, row, latest>>

RemoveMember(p, u) ==
  /\ p \in Removers /\ sync[p].pc = "start" /\ u \in member
  /\ member' = member \ {u}
  /\ Step(p, "read")
  /\ UNCHANGED <<stripe, events, row, latest>>

\* Without a paid plan there is nothing to synchronise.
ReadSubscription(p) ==
  /\ sync[p].pc = "read"
  /\ IF PaidPlan THEN sync' = [sync EXCEPT ![p].pc = "count", ![p].sub = latest]
                 ELSE Leave(p, "done")
  /\ UNCHANGED <<stripe, events, row, latest, member>>

\* One seat at least.
CountSeats(p) ==
  /\ sync[p].pc = "count"
  /\ sync' = [sync EXCEPT ![p].pc = "update",
                          ![p].seats = IF member = {} THEN 1 ELSE Cardinality(member)]
  /\ UNCHANGED <<stripe, events, row, latest, member>>

\* Stripe takes a quantity for a subscription that is not canceled, whatever the row says.
\* The answer may get lost.
UpdateSubscriptionQuantity(p) ==
  LET s == sync[p].sub IN
  /\ sync[p].pc = "update" /\ stripe[s].status # "canceled"
  /\ Becomes(s, [stripe[s] EXCEPT !.seats = sync[p].seats])
  /\ \E pc \in {"upsert", "error"} : Step(p, pc)
  /\ UNCHANGED <<row, latest, member>>

\* The status is the one that was read.
WriteSubscription(p) ==
  /\ sync[p].pc = "upsert"
  /\ UpsertSubscription(sync[p].sub, "active", sync[p].seats)
  /\ Leave(p, "done")
  /\ UNCHANGED <<stripe, events, member>>

\* The answer of Stripe is not looked at.
WriteAnyway(p) ==
  /\ sync[p].pc = "update"
  /\ Step(p, "upsert")
  /\ UNCHANGED <<stripe, events, row, latest, member>>

\* A statement or a call fails, a request is cancelled.
SyncFails(p) ==
  /\ sync[p].pc \in {"read", "count", "update", "upsert"}
  /\ Step(p, "error")
  /\ UNCHANGED <<stripe, events, row, latest, member>>

\* An addition is taken back unless that fails, too; a removal stays.
AnswerError(p) ==
  /\ sync[p].pc = "error"
  /\ \/ p \in Adders /\ member' = member \ {sync[p].user}
     \/ UNCHANGED member
  /\ Leave(p, "failed")
  /\ UNCHANGED <<stripe, events, row, latest>>

----------------------------------------------------------------------------
SyncStep(p) ==
  \/ \E u \in Users : AddMember(p, u) \/ RemoveMember(p, u)
  \/ ReadSubscription(p) \/ CountSeats(p) \/ UpdateSubscriptionQuantity(p)
  \/ WriteSubscription(p) \/ SyncFails(p) \/ AnswerError(p)

BillingNext ==
  \/ \E s \in Subs : CheckoutCompletes(s) \/ \E state \in State : CustomerChanges(s, state)
  \/ \E i \in DOMAIN events : HandleWebhook(events[i])
  \/ \E p \in Handlers : SyncStep(p)

----------------------------------------------------------------------------
(* Properties *)

\* However webhooks are delayed or repeated and synchronisations overlap or fail, a row says
\* what Stripe has told of that subscription, but for one case: the status that a
\* synchronisation has read may be out of date, and it writes a quantity that was set after
\* a payment failed as that of a subscription that pays.
RowWasTold ==
  \A s \in Subs : row[s] # NoState =>
    \E i \in DOMAIN events :
      /\ events[i].sub = s /\ events[i].seats = row[s].seats
      /\ events[i].status = row[s].status
         \/ (events[i].status = "unpaid" /\ row[s].status = "active")
=============================================================================
