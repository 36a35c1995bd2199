---------------------------- MODULE BillingProofs ----------------------------
(***************************************************************************)
(* Proofs about Billing, in ShipmentQuota, for any subscriptions, accounts *)
(* and handlers, any number of seats and events, and any finite set of     *)
(* shipments: types, that the row of a subscription says what Stripe has   *)
(* told, and that the free plan sends no more than its limit for an        *)
(* organization, but for drafts that a check could not see.  Nothing       *)
(* Stripe has told is ever untold: whoever writes a row has, or has        *)
(* caused, an event that says the same.                                    *)
(***************************************************************************)
EXTENDS ShipmentQuota, FiniteSetTheorems, TLAPS

\* There is an event of this subscription with these seats and one of these statuses.
Told(s, statuses, seats) ==
  \E i \in DOMAIN events :
    events[i].sub = s /\ events[i].seats = seats /\ events[i].status \in statuses

\* There is a subscription at Stripe, and what it is now was told.
StripeFine(s) == stripe[s] # NoState => Told(s, {stripe[s].status}, stripe[s].seats)

\* Events are about subscriptions that there are.
EventsFine == \A i \in DOMAIN events : stripe[events[i].sub].status # "none"

RowFine(s) ==
  row[s] # NoState =>
    Told(s, IF row[s].status = "active" THEN {"active", "unpaid"} ELSE {row[s].status}, row[s].seats)

\* A synchronisation is about a subscription there is, and writes a quantity Stripe took.
SyncFine(p) ==
  /\ sync[p].pc \in {"count", "update", "upsert"} => stripe[sync[p].sub].status # "none"
  /\ sync[p].pc = "upsert" => Told(sync[p].sub, {"active", "unpaid"}, sync[p].seats)

IInv ==
  /\ TypeOK
  /\ EventsFine
  /\ \A s \in Subs : StripeFine(s) /\ RowFine(s)
  /\ \A p \in Handlers : SyncFine(p)

----------------------------------------------------------------------------
(* What was told stays told. *)

\* Events are only added.
EventsGrow ==
  \A i \in DOMAIN events : i \in DOMAIN events' /\ events'[i] = events[i]

\* Told once, told for ever.
LEMMA ToldStays ==
  ASSUME EventsGrow, NEW s, NEW statuses, NEW seats, Told(s, statuses, seats)
  PROVE  \E i \in DOMAIN events' :
           events'[i].sub = s /\ events'[i].seats = seats /\ events'[i].status \in statuses
BY DEF Told, EventsGrow

\* The fields of what is at Stripe and in the rows.
LEMMA StateFields ==
  ASSUME TypeOK, NEW s \in Subs
  PROVE  /\ stripe[s] \in State /\ row[s] \in State
         /\ stripe[s].status \in {"none", "active", "unpaid", "canceled"}
         /\ stripe[s].seats \in 0 .. MaxSeats
         /\ row[s].status \in {"none", "active", "unpaid", "canceled"}
         /\ row[s].seats \in 0 .. MaxSeats
BY DEF TypeOK, State

\* The fields of an event.
LEMMA EventFields ==
  ASSUME TypeOK, NEW i \in DOMAIN events
  PROVE  /\ events[i].sub \in Subs /\ events[i].status \in {"active", "unpaid", "canceled"}
         /\ events[i].seats \in 1 .. MaxSeats
<1>1. events \in Seq(Event)
  BY DEF TypeOK
<1>2. events[i] \in Event
  BY <1>1
<1> QED
  BY <1>2 DEF Event

\* The fields of a handler.
LEMMA SyncFields ==
  ASSUME TypeOK, NEW p \in Handlers
  PROVE  /\ sync \in [Handlers -> SyncState] /\ sync[p] \in SyncState
         /\ sync[p].user \in Users /\ sync[p].sub \in Subs \cup {None}
         /\ sync[p].seats \in 0 .. MaxSeats
         /\ sync[p].pc \in {"start", "read", "count", "update", "upsert", "error", "done", "failed"}
         /\ sync[p].pc \in {"count", "update", "upsert"} => sync[p].sub \in Subs
         /\ sync[p].pc \in {"update", "upsert"} => sync[p].seats \in 1 .. MaxSeats
<1>1. sync \in [Handlers -> SyncState] /\ sync[p] \in SyncState
  BY DEF TypeOK
<1>2. sync[p].seats \in 0 .. MaxSeats
  BY <1>1 DEF SyncState
<1>3. sync[p].pc \in {"update", "upsert"} => sync[p].seats >= 1
  BY DEF TypeOK
<1>4. sync[p].pc \in {"count", "update", "upsert"} => sync[p].sub \in Subs
  BY DEF TypeOK
<1> QED
  BY <1>1, <1>2, <1>3, <1>4, BillingAssumption DEF SyncState

\* A change at Stripe keeps the types, and is told when it is one.
LEMMA BecomesTells ==
  ASSUME TypeOK, NEW s \in Subs, NEW state \in State, Becomes(s, state),
         state.status # "none", state.seats >= 1, StripeFine(s)
  PROVE  /\ stripe' \in [Subs -> State] /\ events' \in Seq(Event) /\ EventsGrow
         /\ stripe'[s] = state /\ \A t \in Subs : t # s => stripe'[t] = stripe[t]
         /\ \E i \in DOMAIN events' : events'[i].sub = s /\ events'[i].seats = state.seats
                                      /\ events'[i].status \in {state.status}
         /\ \A i \in DOMAIN events' : i \in DOMAIN events \/ events'[i].sub = s
<1>1. /\ stripe \in [Subs -> State] /\ events \in Seq(Event) /\ stripe' = [stripe EXCEPT ![s] = state]
  BY DEF TypeOK, Becomes
<1>2. stripe' \in [Subs -> State] /\ stripe'[s] = state
      /\ \A t \in Subs : t # s => stripe'[t] = stripe[t]
  BY <1>1
<1>3. CASE stripe[s] = state
  <2>1. events' = events
    BY <1>3 DEF Becomes
  <2>2. state # NoState
    BY DEF NoState
  <2>3. Told(s, {state.status}, state.seats)
    BY <1>3, <2>2 DEF StripeFine
  <2> QED
    BY <1>1, <1>2, <2>1, <2>3 DEF Told, EventsGrow
<1>4. CASE stripe[s] # state
  <2> DEFINE e == [sub |-> s, status |-> state.status, seats |-> state.seats]
  <2>1. e \in Event
    BY DEF State, Event
  <2>2. events' = Append(events, e)
    BY <1>4 DEF Becomes
  <2>3. e.sub = s /\ e.seats = state.seats /\ e.status = state.status
    OBVIOUS
  <2> HIDE DEF e
  <2>4. /\ events' \in Seq(Event) /\ DOMAIN events = 1 .. Len(events) /\ Len(events) \in Nat
        /\ DOMAIN events' = 1 .. (Len(events) + 1)
        /\ \A i \in 1 .. Len(events) : events'[i] = events[i]
        /\ events'[Len(events) + 1] = e
    BY <1>1, <2>1, <2>2
  <2>5. EventsGrow
    BY <2>4 DEF EventsGrow
  <2>6. /\ Len(events) + 1 \in DOMAIN events'
        /\ \A i \in DOMAIN events' : i \in DOMAIN events \/ i = Len(events) + 1
    BY <2>4
  <2>7. events'[Len(events) + 1].status \in {state.status}
    BY <2>3, <2>4
  <2> QED
    BY <1>2, <2>3, <2>4, <2>5, <2>6, <2>7
<1> QED
  BY <1>3, <1>4

\* Events are added, and no subscription at Stripe comes to nothing.
Forward ==
  /\ EventsGrow
  /\ \A s \in Subs : stripe[s].status # "none" => stripe'[s].status # "none"

\* A row that is not written still says what was told.
LEMMA RowKept ==
  ASSUME Forward, NEW s \in Subs, row'[s] = row[s], RowFine(s)
  PROVE  RowFine(s)'
<1> SUFFICES ASSUME row[s] # NoState PROVE RowFine(s)'
  BY DEF RowFine, NoState
<1> DEFINE S == IF row[s].status = "active" THEN {"active", "unpaid"} ELSE {row[s].status}
<1>1. Told(s, S, row[s].seats)
  BY DEF RowFine
<1> HIDE DEF S
<1>2. PICK i \in DOMAIN events : events[i].sub = s /\ events[i].seats = row[s].seats
                                 /\ events[i].status \in S
  BY <1>1 DEF Told
<1>3. i \in DOMAIN events' /\ events'[i] = events[i]
  BY DEF Forward, EventsGrow
<1> USE DEF S
<1> QED
  BY <1>2, <1>3 DEF RowFine, Told

\* What a waiting handler is about is still there, and was told.
LEMMA SyncKept ==
  ASSUME TypeOK, Forward, NEW p \in Handlers, sync'[p] = sync[p], SyncFine(p)
  PROVE  SyncFine(p)'
<1>1. sync[p].pc \in {"count", "update", "upsert"} => stripe'[sync[p].sub].status # "none"
  BY SyncFields DEF SyncFine, Forward
<1>2. sync[p].pc = "upsert" =>
        \E i \in DOMAIN events' : events'[i].sub = sync[p].sub /\ events'[i].seats = sync[p].seats
                                  /\ events'[i].status \in {"active", "unpaid"}
  BY DEF Forward, SyncFine, Told, EventsGrow
<1> QED
  BY <1>1, <1>2 DEF SyncFine, Told

\* Stripe stays fine whatever becomes of a subscription.
LEMMA BecomesFine ==
  ASSUME TypeOK, NEW s \in Subs, NEW state \in State, Becomes(s, state),
         state.status # "none", state.seats >= 1,
         EventsFine, \A t \in Subs : StripeFine(t)
  PROVE  /\ Forward /\ EventsFine' /\ \A t \in Subs : StripeFine(t)'
         /\ stripe' \in [Subs -> State] /\ events' \in Seq(Event)
<1>1. /\ stripe' \in [Subs -> State] /\ events' \in Seq(Event) /\ EventsGrow
      /\ stripe'[s] = state /\ \A t \in Subs : t # s => stripe'[t] = stripe[t]
      /\ \E i \in DOMAIN events' : events'[i].sub = s /\ events'[i].seats = state.seats
                                   /\ events'[i].status \in {state.status}
      /\ \A i \in DOMAIN events' : i \in DOMAIN events \/ events'[i].sub = s
  BY BecomesTells
<1>2. Forward
  BY <1>1 DEF Forward
<1>3. EventsFine'
  <2> SUFFICES ASSUME NEW i \in DOMAIN events' PROVE stripe'[events'[i].sub].status # "none"
    BY DEF EventsFine
  <2>1. CASE events'[i].sub = s
    BY <1>1, <2>1
  <2>2. CASE i \in DOMAIN events
    <3>1. events'[i] = events[i] /\ stripe[events[i].sub].status # "none"
      BY <1>1, <2>2 DEF EventsGrow, EventsFine
    <3>2. events[i].sub \in Subs
      BY <2>2, EventFields
    <3> QED
      BY <1>2, <3>1, <3>2 DEF Forward
  <2> QED
    BY <1>1, <2>1, <2>2
<1>4. ASSUME NEW t \in Subs
      PROVE  StripeFine(t)'
  <2>1. CASE t = s
    BY <1>1, <2>1 DEF StripeFine, Told
  <2>2. CASE t # s
    <3>1. stripe'[t] = stripe[t]
      BY <1>1, <2>2
    <3>2. stripe[t] # NoState =>
            \E i \in DOMAIN events' : events'[i].sub = t /\ events'[i].seats = stripe[t].seats
                                      /\ events'[i].status \in {stripe[t].status}
      BY <1>1 DEF StripeFine, Told, EventsGrow
    <3> QED
      BY <3>1, <3>2 DEF StripeFine, Told, NoState
  <2> QED
    BY <2>1, <2>2
<1> QED
  BY <1>1, <1>2, <1>3, <1>4

\* A row that was told is one of a subscription there is.
LEMMA ToldExists ==
  ASSUME EventsFine, NEW s, NEW statuses, NEW seats, Told(s, statuses, seats)
  PROVE  stripe[s].status # "none"
BY DEF EventsFine, Told

----------------------------------------------------------------------------
(* Steps at Stripe, and webhooks. *)

\* The customer's changes reach no row and no handler.
LEMMA CustomerInvariant ==
  ASSUME IInv, NEW s \in Subs, NEW state \in State, UNCHANGED quota,
         CheckoutCompletes(s) \/ CustomerChanges(s, state)
  PROVE  IInv'
<1>1. /\ TypeOK /\ EventsFine
      /\ \A t \in Subs : StripeFine(t) /\ RowFine(t)
      /\ \A p \in Handlers : SyncFine(p)
      /\ row' = row /\ latest' = latest /\ member' = member /\ sync' = sync
      /\ shipment' = shipment /\ free' = free /\ overlapped' = overlapped
  BY DEF IInv, CheckoutCompletes, CustomerChanges, quota
<1>2. [status |-> "active", seats |-> 1] \in State
  BY BillingAssumption DEF State
<1>3. PICK new \in State : Becomes(s, new) /\ new.status # "none" /\ new.seats >= 1
  BY <1>2 DEF CheckoutCompletes, CustomerChanges
<1>4. /\ Forward /\ EventsFine' /\ \A t \in Subs : StripeFine(t)'
      /\ stripe' \in [Subs -> State] /\ events' \in Seq(Event)
  BY <1>1, <1>3, BecomesFine
<1>5. TypeOK'
  BY <1>1, <1>4 DEF TypeOK
<1>6. \A t \in Subs : RowFine(t)'
  BY <1>1, <1>4, RowKept
<1>7. \A p \in Handlers : SyncFine(p)'
  BY <1>1, <1>4, SyncKept
<1> QED
  BY <1>4, <1>5, <1>6, <1>7 DEF IInv

\* A webhook writes what its event says.
LEMMA WebhookInvariant ==
  ASSUME IInv, UNCHANGED quota, NEW i \in DOMAIN events, HandleWebhook(events[i])
  PROVE  IInv'
<1> DEFINE e == events[i]
<1>1. /\ TypeOK /\ EventsFine
      /\ \A t \in Subs : StripeFine(t) /\ RowFine(t)
      /\ \A p \in Handlers : SyncFine(p)
      /\ stripe' = stripe /\ events' = events /\ member' = member /\ sync' = sync
      /\ shipment' = shipment /\ free' = free /\ overlapped' = overlapped
      /\ row' = [row EXCEPT ![e.sub] = [status |-> e.status, seats |-> e.seats]]
      /\ latest' = e.sub
  BY DEF IInv, HandleWebhook, UpsertSubscription, quota
<1>2. /\ e.sub \in Subs /\ e.status \in {"active", "unpaid", "canceled"} /\ e.seats \in 1 .. MaxSeats
      /\ row \in [Subs -> State]
  BY <1>1, EventFields DEF TypeOK
<1>3. Forward
  BY <1>1 DEF Forward, EventsGrow
<1>4. [status |-> e.status, seats |-> e.seats] \in State
  BY <1>2, BillingAssumption DEF State
<1>5. row' \in [Subs -> State]
  BY <1>1, <1>2, <1>4
<1>6. TypeOK'
  BY <1>1, <1>2, <1>5 DEF TypeOK
<1>7. ASSUME NEW t \in Subs
      PROVE  RowFine(t)'
  <2>1. CASE t = e.sub
    <3>1. row'[t].status = e.status /\ row'[t].seats = e.seats
      BY <1>1, <1>2, <2>1
    <3>2. i \in DOMAIN events' /\ events'[i].sub = t /\ events'[i].seats = e.seats
          /\ events'[i].status = e.status
      BY <1>1, <2>1
    <3> QED
      BY <3>1, <3>2 DEF RowFine, Told
  <2>2. CASE t # e.sub
    BY <1>1, <1>2, <1>3, <2>2, RowKept
  <2> QED
    BY <2>1, <2>2
<1>8. EventsFine' /\ \A t \in Subs : StripeFine(t)'
  BY <1>1 DEF EventsFine, StripeFine, Told
<1>9. \A p \in Handlers : SyncFine(p)'
  BY <1>1, <1>3, SyncKept
<1> QED
  BY <1>6, <1>7, <1>8, <1>9 DEF IInv

----------------------------------------------------------------------------
(* Members and the synchronisation. *)

\* The plan is paid only by a subscription there is.
LEMMA PaidExists ==
  ASSUME IInv, PaidPlan
  PROVE  latest \in Subs /\ stripe[latest].status # "none"
<1>1. latest \in Subs /\ row[latest].status = "active"
  BY DEF IInv, TypeOK, PaidPlan, GetLatestSubscription, isPaidActive, NoState
<1>2. row[latest] # NoState
  BY <1>1 DEF NoState
<1>3. Told(latest, {"active", "unpaid"}, row[latest].seats)
  BY <1>1, <1>2 DEF IInv, RowFine
<1> QED
  BY <1>1, <1>3, ToldExists DEF IInv

\* The members fit, and are at least one seat.
LEMMA MemberCount ==
  ASSUME TypeOK
  PROVE  (IF member = {} THEN 1 ELSE Cardinality(member)) \in 1 .. MaxSeats
<1>1. IsFiniteSet(Users) /\ Cardinality(Users) <= MaxSeats /\ MaxSeats \in Nat \ {0}
      /\ member \subseteq Users
  BY BillingAssumption DEF TypeOK
<1>2. IsFiniteSet(member) /\ Cardinality(member) <= Cardinality(Users)
  BY <1>1, FS_Subset
<1>3. Cardinality(member) \in Nat /\ Cardinality(Users) \in Nat
  BY <1>1, <1>2, FS_CardinalityType
<1>4. member # {} => Cardinality(member) # 0
  BY <1>2, FS_EmptySet
<1> QED
  BY <1>1, <1>2, <1>3, <1>4

\* A handler that moves where it owes nothing, whoever joins or leaves.
LEMMA MoveInvariant ==
  ASSUME IInv, UNCHANGED quota, NEW p \in Handlers, NEW s \in SyncState,
         sync' = [sync EXCEPT ![p] = s],
         stripe' = stripe, events' = events, row' = row, latest' = latest,
         member' \subseteq Users,
         s.pc # "upsert",
         s.pc \in {"count", "update"} => s.sub \in Subs /\ stripe[s.sub].status # "none",
         s.pc = "update" => s.seats >= 1
  PROVE  IInv'
<1>1. /\ TypeOK /\ EventsFine
      /\ \A t \in Subs : StripeFine(t) /\ RowFine(t)
      /\ \A q \in Handlers : SyncFine(q)
      /\ shipment' = shipment /\ free' = free /\ overlapped' = overlapped
  BY DEF IInv, quota
<1>2. Forward
  BY DEF Forward, EventsGrow
<1>3. /\ sync' \in [Handlers -> SyncState] /\ sync'[p] = s
      /\ \A q \in Handlers : q # p => sync'[q] = sync[q]
  BY <1>1, SyncFields
<1>4. s.pc \in {"start", "read", "count", "update", "upsert", "error", "done", "failed"}
  BY DEF SyncState
<1>5. TypeOK'
  <2>1. \A q \in Handlers :
          /\ sync'[q].pc \in {"count", "update", "upsert"} => sync'[q].sub \in Subs
          /\ sync'[q].pc \in {"update", "upsert"} => sync'[q].seats >= 1
    BY <1>1, <1>3 DEF TypeOK
  <2> QED
    BY <1>1, <1>3, <2>1 DEF TypeOK
<1>6. \A q \in Handlers : SyncFine(q)'
  <2> TAKE q \in Handlers
  <2>1. CASE q = p
    BY <1>3, <2>1 DEF SyncFine
  <2>2. CASE q # p
    BY <1>1, <1>2, <1>3, <2>2, SyncKept
  <2> QED
    BY <2>1, <2>2
<1>7. EventsFine' /\ \A t \in Subs : StripeFine(t)' /\ RowFine(t)'
  BY <1>1 DEF EventsFine, StripeFine, RowFine, Told
<1> QED
  BY <1>5, <1>6, <1>7 DEF IInv

\* Somebody joins or leaves, and the handler is about to read the subscription.
LEMMA MembersInvariant ==
  ASSUME IInv, UNCHANGED quota, NEW p \in Handlers, NEW u \in Users,
         AddMember(p, u) \/ RemoveMember(p, u)
  PROVE  IInv'
<1>1. TypeOK
  BY DEF IInv
<1>2. stripe' = stripe /\ events' = events /\ row' = row /\ latest' = latest /\ member' \subseteq Users
  BY <1>1 DEF AddMember, RemoveMember, TypeOK
<1>3. PICK s \in SyncState : s.pc = "read" /\ sync' = [sync EXCEPT ![p] = s]
  <2>1. CASE AddMember(p, u)
    <3> DEFINE s == [sync[p] EXCEPT !.pc = "read", !.user = u]
    <3>1. s \in SyncState /\ s.pc = "read"
      BY <1>1, SyncFields DEF SyncState
    <3>2. sync' = [sync EXCEPT ![p] = s]
      BY <1>1, <2>1, SyncFields DEF AddMember, SyncState
    <3> QED
      BY <3>1, <3>2
  <2>2. CASE RemoveMember(p, u)
    <3> DEFINE s == [sync[p] EXCEPT !.pc = "read"]
    <3>1. s \in SyncState /\ s.pc = "read"
      BY <1>1, SyncFields DEF SyncState
    <3>2. sync' = [sync EXCEPT ![p] = s]
      BY <1>1, <2>2, SyncFields DEF RemoveMember, Step, SyncState
    <3> QED
      BY <3>1, <3>2
  <2> QED
    BY <2>1, <2>2
<1> QED
  BY <1>2, <1>3, MoveInvariant

\* What a handler that owes nothing is left with.
LEMMA LeftState ==
  ASSUME NEW pc \in {"done", "failed"}
  PROVE  [pc |-> pc, user |-> Owner, sub |-> None, seats |-> 0] \in SyncState
BY BillingAssumption DEF SyncState

\* The subscription that is read is one there is.
LEMMA ReadInvariant ==
  ASSUME IInv, UNCHANGED quota, NEW p \in Handlers, ReadSubscription(p)
  PROVE  IInv'
<1>1. TypeOK
  BY DEF IInv
<1>2. stripe' = stripe /\ events' = events /\ row' = row /\ latest' = latest /\ member' \subseteq Users
  BY <1>1 DEF ReadSubscription, TypeOK
<1>3. CASE PaidPlan
  <2> DEFINE s == [sync[p] EXCEPT !.pc = "count", !.sub = latest]
  <2>1. latest \in Subs /\ stripe[latest].status # "none"
    BY <1>3, PaidExists
  <2>2. s \in SyncState /\ s.pc = "count" /\ s.sub = latest
    BY <1>1, <2>1, SyncFields DEF SyncState
  <2>3. sync' = [sync EXCEPT ![p] = s]
    BY <1>1, <1>3, SyncFields DEF ReadSubscription, SyncState
  <2> HIDE DEF s
  <2> QED
    BY <1>2, <2>1, <2>2, <2>3, MoveInvariant
<1>4. CASE ~ PaidPlan
  <2> DEFINE s == [pc |-> "done", user |-> Owner, sub |-> None, seats |-> 0]
  <2>1. s \in SyncState /\ s.pc = "done"
    BY LeftState
  <2>2. sync' = [sync EXCEPT ![p] = s]
    BY <1>4 DEF ReadSubscription, Leave
  <2> HIDE DEF s
  <2> QED
    BY <1>2, <2>1, <2>2, MoveInvariant
<1> QED
  BY <1>3, <1>4

\* The count is a number of seats that Stripe takes.
LEMMA CountInvariant ==
  ASSUME IInv, UNCHANGED quota, NEW p \in Handlers, CountSeats(p)
  PROVE  IInv'
<1> DEFINE count == IF member = {} THEN 1 ELSE Cardinality(member)
           s     == [sync[p] EXCEPT !.pc = "update", !.seats = count]
<1>1. TypeOK /\ sync[p].pc = "count" /\ SyncFine(p)
  BY DEF IInv, CountSeats
<1>2. stripe' = stripe /\ events' = events /\ row' = row /\ latest' = latest /\ member' \subseteq Users
  BY <1>1 DEF CountSeats, TypeOK
<1>3. count \in 1 .. MaxSeats
  BY <1>1, MemberCount
<1>4. sync[p].sub \in Subs /\ stripe[sync[p].sub].status # "none"
  BY <1>1, SyncFields DEF SyncFine
<1>5. sync' = [sync EXCEPT ![p] = s]
  BY <1>1, SyncFields DEF CountSeats, SyncState
<1> HIDE DEF count
<1>6. s \in SyncState /\ s.pc = "update" /\ s.sub = sync[p].sub /\ s.seats >= 1
  <2>1. count \in 0 .. MaxSeats /\ count >= 1
    BY <1>3, BillingAssumption
  <2>2. sync[p] \in SyncState
    BY <1>1, SyncFields
  <2> QED
    BY <2>1, <2>2 DEF SyncState
<1> HIDE DEF s
<1> QED
  BY <1>2, <1>4, <1>5, <1>6, MoveInvariant

\* An error owes nothing.
LEMMA ErrorInvariant ==
  ASSUME IInv, UNCHANGED quota, NEW p \in Handlers, SyncFails(p) \/ AnswerError(p)
  PROVE  IInv'
<1>1. TypeOK
  BY DEF IInv
<1>2. stripe' = stripe /\ events' = events /\ row' = row /\ latest' = latest /\ member' \subseteq Users
  BY <1>1 DEF SyncFails, AnswerError, TypeOK
<1>3. CASE SyncFails(p)
  <2> DEFINE s == [sync[p] EXCEPT !.pc = "error"]
  <2>1. s \in SyncState /\ s.pc = "error"
    BY <1>1, SyncFields DEF SyncState
  <2>2. sync' = [sync EXCEPT ![p] = s]
    BY <1>1, <1>3, SyncFields DEF SyncFails, Step, SyncState
  <2> HIDE DEF s
  <2> QED
    BY <1>2, <2>1, <2>2, MoveInvariant
<1>4. CASE AnswerError(p)
  <2> DEFINE s == [pc |-> "failed", user |-> Owner, sub |-> None, seats |-> 0]
  <2>1. s \in SyncState /\ s.pc = "failed"
    BY LeftState
  <2>2. sync' = [sync EXCEPT ![p] = s]
    BY <1>4 DEF AnswerError, Leave
  <2> HIDE DEF s
  <2> QED
    BY <1>2, <2>1, <2>2, MoveInvariant
<1> QED
  BY <1>3, <1>4

\* The quantity that Stripe takes is told, with the status Stripe has.
LEMMA QuantityInvariant ==
  ASSUME IInv, UNCHANGED quota, NEW p \in Handlers, UpdateSubscriptionQuantity(p)
  PROVE  IInv'
<1> DEFINE s   == sync[p].sub
           new == [stripe[s] EXCEPT !.seats = sync[p].seats]
<1>1. /\ TypeOK /\ EventsFine
      /\ \A t \in Subs : StripeFine(t) /\ RowFine(t)
      /\ \A q \in Handlers : SyncFine(q)
      /\ shipment' = shipment /\ free' = free /\ overlapped' = overlapped
      /\ row' = row /\ latest' = latest /\ member' = member
      /\ sync[p].pc = "update" /\ stripe[s].status # "canceled" /\ Becomes(s, new)
  BY DEF IInv, UpdateSubscriptionQuantity, quota
<1>2. PICK pc \in {"upsert", "error"} : sync' = [sync EXCEPT ![p].pc = pc]
  BY DEF UpdateSubscriptionQuantity, Step
<1>3. s \in Subs /\ stripe[s].status # "none" /\ sync[p].seats \in 1 .. MaxSeats
  BY <1>1, SyncFields DEF SyncFine
<1>4. stripe[s] \in State /\ stripe[s].status \in {"active", "unpaid"}
  BY <1>1, <1>3, StateFields
<1>5. new \in State /\ new.status = stripe[s].status /\ new.seats = sync[p].seats
  BY <1>3, <1>4, BillingAssumption DEF State
<1>6. new.status # "none" /\ new.seats >= 1
  BY <1>3, <1>5
<1> HIDE DEF new
<1>7. /\ Forward /\ EventsFine' /\ \A t \in Subs : StripeFine(t)'
      /\ stripe' \in [Subs -> State] /\ events' \in Seq(Event)
  BY <1>1, <1>3, <1>5, <1>6, BecomesFine
<1>8. /\ sync' \in [Handlers -> SyncState]
      /\ sync'[p].pc = pc /\ sync'[p].sub = s /\ sync'[p].seats = sync[p].seats
      /\ \A q \in Handlers : q # p => sync'[q] = sync[q]
  BY <1>1, <1>2, SyncFields DEF SyncState
<1>9. TypeOK'
  <2>1. \A q \in Handlers :
          /\ sync'[q].pc \in {"count", "update", "upsert"} => sync'[q].sub \in Subs
          /\ sync'[q].pc \in {"update", "upsert"} => sync'[q].seats >= 1
    BY <1>1, <1>3, <1>8 DEF TypeOK
  <2> QED
    BY <1>1, <1>7, <1>8, <2>1 DEF TypeOK
<1>10. \A t \in Subs : RowFine(t)'
  BY <1>1, <1>7, RowKept
<1>11. SyncFine(p)'
  <2>1. stripe'[s].status # "none"
    BY <1>3, <1>7 DEF Forward
  <2>2. stripe'[s] = new
    BY <1>1, <1>3 DEF TypeOK, Becomes
  <2>3. stripe'[s] # NoState
    BY <2>1 DEF NoState
  <2>4. \E i \in DOMAIN events' : events'[i].sub = s /\ events'[i].seats = new.seats
                                  /\ events'[i].status \in {new.status}
    BY <1>3, <1>7, <2>2, <2>3 DEF StripeFine, Told
  <2>5. \E i \in DOMAIN events' : events'[i].sub = s /\ events'[i].seats = sync[p].seats
                                  /\ events'[i].status \in {"active", "unpaid"}
    BY <1>4, <1>5, <2>4
  <2> QED
    BY <1>8, <2>1, <2>5 DEF SyncFine, Told
<1>12. \A q \in Handlers : SyncFine(q)'
  <2> TAKE q \in Handlers
  <2>1. CASE q = p
    BY <1>11, <2>1
  <2>2. CASE q # p
    BY <1>1, <1>7, <1>8, <2>2, SyncKept
  <2> QED
    BY <2>1, <2>2
<1> QED
  BY <1>7, <1>9, <1>10, <1>12 DEF IInv

\* The row is written with seats that were told, of a subscription that was paid or not.
LEMMA WriteInvariant ==
  ASSUME IInv, UNCHANGED quota, NEW p \in Handlers, WriteSubscription(p)
  PROVE  IInv'
<1> DEFINE s    == sync[p].sub
           left == [pc |-> "done", user |-> Owner, sub |-> None, seats |-> 0]
           new  == [status |-> "active", seats |-> sync[p].seats]
<1>1. /\ TypeOK /\ EventsFine
      /\ \A t \in Subs : StripeFine(t) /\ RowFine(t)
      /\ \A q \in Handlers : SyncFine(q)
      /\ shipment' = shipment /\ free' = free /\ overlapped' = overlapped
      /\ stripe' = stripe /\ events' = events /\ member' = member /\ latest' = s
      /\ sync[p].pc = "upsert" /\ row' = [row EXCEPT ![s] = new] /\ sync' = [sync EXCEPT ![p] = left]
  BY DEF IInv, WriteSubscription, UpsertSubscription, Leave, quota
<1>2. s \in Subs /\ sync[p].seats \in 1 .. MaxSeats /\ Told(s, {"active", "unpaid"}, sync[p].seats)
  BY <1>1, SyncFields DEF SyncFine
<1>3. new \in State
  BY <1>2, BillingAssumption DEF State
<1>4. row' \in [Subs -> State] /\ row'[s] = new /\ \A t \in Subs : t # s => row'[t] = row[t]
  BY <1>1, <1>2, <1>3 DEF TypeOK
<1>5. left \in SyncState /\ left.pc = "done"
  BY LeftState
<1> HIDE DEF left
<1>6. /\ sync' \in [Handlers -> SyncState] /\ sync'[p] = left
      /\ \A q \in Handlers : q # p => sync'[q] = sync[q]
  BY <1>1, <1>5, SyncFields
<1>7. TypeOK'
  <2>1. \A q \in Handlers :
          /\ sync'[q].pc \in {"count", "update", "upsert"} => sync'[q].sub \in Subs
          /\ sync'[q].pc \in {"update", "upsert"} => sync'[q].seats >= 1
    BY <1>1, <1>5, <1>6 DEF TypeOK
  <2> QED
    BY <1>1, <1>2, <1>4, <1>6, <2>1 DEF TypeOK
<1>8. Forward
  BY <1>1 DEF Forward, EventsGrow
<1>9. ASSUME NEW t \in Subs
      PROVE  RowFine(t)'
  <2>1. CASE t = s
    BY <1>1, <1>2, <1>4, <2>1 DEF RowFine, Told
  <2>2. CASE t # s
    BY <1>1, <1>4, <1>8, <2>2, RowKept
  <2> QED
    BY <2>1, <2>2
<1>10. \A q \in Handlers : SyncFine(q)'
  <2> TAKE q \in Handlers
  <2>1. CASE q = p
    BY <1>5, <1>6, <2>1 DEF SyncFine
  <2>2. CASE q # p
    BY <1>1, <1>6, <1>8, <2>2, SyncKept
  <2> QED
    BY <2>1, <2>2
<1>11. EventsFine' /\ \A t \in Subs : StripeFine(t)'
  BY <1>1 DEF EventsFine, StripeFine, Told
<1> QED
  BY <1>7, <1>9, <1>10, <1>11 DEF IInv

----------------------------------------------------------------------------
(* Shipments. *)

\* A finalize reads the plan and writes rows of shipments alone.
LEMMA QuotaInvariant ==
  ASSUME IInv, NEW x \in Shipments, QuotaStep(x)
  PROVE  IInv'
<1>1. TypeOK /\ UNCHANGED billing
  BY DEF IInv, QuotaStep, CreateDraft, GetPlan, EnforceShipmentLimit, RefuseShipment,
         FinalizeShipment, FinalizeFails, DeletePurgedShipment
<1>2. /\ shipment \in [Shipments -> ShipmentRow] /\ shipment[x] \in ShipmentRow
      /\ shipment[x].pc # "idle" => shipment[x].status = "uploading"
  BY <1>1 DEF TypeOK
<1>3. free' \subseteq Shipments /\ overlapped' \subseteq Shipments
  BY <1>1 DEF TypeOK, QuotaStep, CreateDraft, GetPlan, EnforceShipmentLimit, RefuseShipment,
              FinalizeShipment, FinalizeFails, DeletePurgedShipment
<1>4. /\ shipment' \in [Shipments -> ShipmentRow]
      /\ shipment'[x].pc # "idle" => shipment'[x].status = "uploading"
      /\ \A y \in Shipments : y # x => shipment'[y] = shipment[y]
  <2>1. ASSUME NEW scope \in Scopes, CreateDraft(x, scope)
        PROVE  <1>4!:
    BY <1>2, <2>1 DEF CreateDraft, ShipmentRow
  <2>2. ASSUME NEW scope \in Scopes, GetPlan(x, scope)
        PROVE  <1>4!:
    BY <1>2, <2>2 DEF GetPlan, ShipmentRow
  <2>3. CASE EnforceShipmentLimit(x)
    BY <1>2, <2>3 DEF EnforceShipmentLimit, ShipmentRow
  <2>4. CASE RefuseShipment(x) \/ FinalizeFails(x)
    BY <1>2, <2>4 DEF RefuseShipment, FinalizeFails, ShipmentRow, Scopes
  <2>5. CASE FinalizeShipment(x)
    BY <1>2, <2>5 DEF FinalizeShipment, NoShipment, ShipmentRow, Scopes
  <2>6. CASE DeletePurgedShipment(x)
    BY <1>2, <2>6 DEF DeletePurgedShipment, NoShipment, ShipmentRow, Scopes
  <2> QED
    BY <2>1, <2>2, <2>3, <2>4, <2>5, <2>6 DEF QuotaStep
<1>5. \A y \in Shipments : shipment'[y].pc # "idle" => shipment'[y].status = "uploading"
  BY <1>1, <1>4 DEF TypeOK
<1>6. TypeOK'
  BY <1>1, <1>3, <1>4, <1>5 DEF TypeOK, billing
<1>7. EventsFine' /\ \A s \in Subs : StripeFine(s)' /\ RowFine(s)'
  BY <1>1 DEF IInv, EventsFine, StripeFine, RowFine, Told, billing
<1>8. \A p \in Handlers : SyncFine(p)'
  BY <1>1 DEF IInv, SyncFine, Told, billing
<1> QED
  BY <1>6, <1>7, <1>8 DEF IInv

----------------------------------------------------------------------------
(* Theorems *)

\* Nothing is bought, written or told at the start.
LEMMA InitInvariant ==
  Init => IInv
<1> SUFFICES ASSUME Init PROVE IInv
  OBVIOUS
<1> USE BillingAssumption DEF Init, BillingInit
<1>1. NoState \in State /\ events \in Seq(Event)
  BY DEF NoState, State
<1>2. [pc |-> "start", user |-> Owner, sub |-> None, seats |-> 0] \in SyncState
  BY DEF SyncState
<1>3. NoShipment \in ShipmentRow
  BY DEF NoShipment, ShipmentRow, Scopes
<1>4. stripe \in [Subs -> State] /\ row \in [Subs -> State] /\ latest \in Subs \cup {None}
      /\ member \subseteq Users /\ free \subseteq Shipments /\ overlapped \subseteq Shipments
  BY <1>1
<1>5. sync \in [Handlers -> SyncState] /\ \A p \in Handlers : sync[p].pc = "start"
  BY <1>2
<1>6. shipment \in [Shipments -> ShipmentRow] /\ \A x \in Shipments : shipment[x].pc = "idle"
  BY <1>3 DEF NoShipment
<1>7. TypeOK
  BY <1>1, <1>4, <1>5, <1>6 DEF TypeOK
<1>8. EventsFine /\ \A s \in Subs : StripeFine(s) /\ RowFine(s)
  BY DEF EventsFine, StripeFine, RowFine
<1>9. \A p \in Handlers : SyncFine(p)
  BY <1>5 DEF SyncFine
<1> QED
  BY <1>7, <1>8, <1>9 DEF IInv

\* Every step keeps the invariant.
LEMMA NextInvariant ==
  ASSUME IInv, [Next]_vars
  PROVE  IInv'
<1>1. CASE UNCHANGED vars
  BY <1>1 DEF IInv, TypeOK, EventsFine, StripeFine, RowFine, SyncFine, Told, vars
<1>2. ASSUME BillingNext, UNCHANGED quota
      PROVE  IInv'
  <2>1. ASSUME NEW s \in Subs, CheckoutCompletes(s)
        PROVE  IInv'
    <3>1. NoState \in State
      BY BillingAssumption DEF NoState, State
    <3> QED
      BY <1>2, <2>1, <3>1, CustomerInvariant
  <2>2. ASSUME NEW s \in Subs, NEW state \in State, CustomerChanges(s, state)
        PROVE  IInv'
    BY <1>2, <2>2, CustomerInvariant
  <2>3. ASSUME NEW i \in DOMAIN events, HandleWebhook(events[i])
        PROVE  IInv'
    BY <1>2, <2>3, WebhookInvariant
  <2>4. ASSUME NEW p \in Handlers, SyncStep(p)
        PROVE  IInv'
    BY <1>2, <2>4, MembersInvariant, ReadInvariant, CountInvariant, ErrorInvariant,
       QuantityInvariant, WriteInvariant DEF SyncStep
  <2> QED
    BY <1>2, <2>1, <2>2, <2>3, <2>4 DEF BillingNext
<1> QED
  BY <1>1, <1>2, QuotaInvariant DEF Next

\* In every behaviour, for any constants.
THEOREM Invariance == Spec => []IInv
<1>1. IInv /\ [Next]_vars => IInv'
  BY NextInvariant
<1> QED
  BY InitInvariant, <1>1, PTL DEF Spec

\* Rows, events, local states and shipments keep their types.
THEOREM TypeCorrect == Spec => []TypeOK
<1>1. IInv => TypeOK
  BY DEF IInv
<1> QED
  BY Invariance, <1>1, PTL

\* A row says what Stripe has told, but for a payment that failed meanwhile.
THEOREM RowsCorrect == Spec => []RowWasTold
<1>1. IInv => RowWasTold
  <2> SUFFICES ASSUME IInv, NEW s \in Subs, row[s] # NoState
               PROVE  \E i \in DOMAIN events :
                        /\ events[i].sub = s /\ events[i].seats = row[s].seats
                        /\ events[i].status = row[s].status
                           \/ (events[i].status = "unpaid" /\ row[s].status = "active")
    BY DEF RowWasTold
  <2> DEFINE S == IF row[s].status = "active" THEN {"active", "unpaid"} ELSE {row[s].status}
  <2>1. PICK i \in DOMAIN events : /\ events[i].sub = s /\ events[i].seats = row[s].seats
                                   /\ events[i].status \in S
    BY DEF IInv, RowFine, Told
  <2> QED
    BY <2>1
<1> QED
  BY Invariance, <1>1, PTL

----------------------------------------------------------------------------
(* The shipments of the month. *)

\* Sent, or past the check, for the organization on the free plan.
Passed == {x \in free : shipment[x].status = "sent" \/ shipment[x].pc = "commit"}

\* What was checked for the organization is being finalized for it, or is the organization's.
FreeFine(x) ==
  x \in free =>
    \/ shipment[x].status = "sent" /\ shipment[x].of = "org"
    \/ shipment[x].pc \in {"count", "commit"} /\ shipment[x].scope = "org"

QInv ==
  /\ \A x \in Shipments : FreeFine(x)
  /\ Cardinality(Passed) <= MonthlyShipmentLimit + Cardinality(overlapped)

\* Sets of shipments are finite.
LEMMA ShipmentsFinite ==
  ASSUME NEW S \in SUBSET Shipments
  PROVE  IsFiniteSet(S) /\ Cardinality(S) \in Nat /\ \A T \in SUBSET S : Cardinality(T) <= Cardinality(S)
BY QuotaAssumption, FS_Subset, FS_CardinalityType

\* A check takes the room that it has counted, unless a personal draft overtakes it.
LEMMA EnforceQuota ==
  ASSUME TypeOK, QInv, NEW x \in Shipments, EnforceShipmentLimit(x)
  PROVE  QInv'
<1>1. /\ shipment \in [Shipments -> ShipmentRow] /\ shipment[x] \in ShipmentRow
      /\ free \in SUBSET Shipments /\ overlapped \in SUBSET Shipments
      /\ shipment[x].status = "uploading"
  BY DEF TypeOK, EnforceShipmentLimit
<1>2. /\ shipment[x].pc = "count" /\ UsageBelowLimit(x) /\ free' = free
      /\ shipment' = [shipment EXCEPT ![x] = [shipment[x] EXCEPT !.pc = "commit"]]
      /\ overlapped' = IF shipment[x].scope = "user" THEN overlapped ELSE overlapped \cup
           {y \in free : shipment[y].pc = "commit" /\ shipment[y].of = "user"}
  BY DEF EnforceShipmentLimit
<1>3. /\ shipment'[x].pc = "commit" /\ shipment'[x].status = shipment[x].status
      /\ shipment'[x].scope = shipment[x].scope
      /\ \A y \in Shipments \ {x} : shipment'[y] = shipment[y]
  BY <1>1, <1>2 DEF ShipmentRow
<1>4. \A y \in Shipments : FreeFine(y)'
  BY <1>1, <1>2, <1>3 DEF QInv, FreeFine
<1>5. CASE x \notin free
  <2>1. Passed' = Passed
    BY <1>1, <1>2, <1>3, <1>5 DEF Passed
  <2>2. overlapped' \in SUBSET Shipments /\ overlapped \in SUBSET overlapped'
    BY <1>1, <1>2
  <2>3. /\ Cardinality(overlapped) \in Nat /\ Cardinality(overlapped') \in Nat
        /\ Cardinality(overlapped) <= Cardinality(overlapped')
    BY <1>1, <2>2, ShipmentsFinite
  <2>4. Passed \in SUBSET Shipments
    BY <1>1 DEF Passed
  <2>5. Cardinality(Passed) \in Nat
    BY <2>4, ShipmentsFinite
  <2> QED
    BY <1>4, <2>1, <2>3, <2>5, QuotaAssumption DEF QInv
<1>6. CASE x \in free
  <2> DEFINE O == {y \in free : shipment[y].pc = "commit" /\ shipment[y].of = "user"}
             G == {y \in Rows : shipment[y].of = "org"}
  <2>1. shipment[x].scope = "org"
    BY <1>1, <1>6 DEF QInv, FreeFine
  <2>2. overlapped' = overlapped \cup O /\ Cardinality(G) < MonthlyShipmentLimit
    BY <1>2, <2>1 DEF UsageBelowLimit, GetUsage
  <2>3. Passed \in SUBSET (G \cup O)
    <3> SUFFICES ASSUME NEW y \in Passed, y \notin O PROVE y \in G
      OBVIOUS
    <3>1. y \in free /\ y \in Shipments /\ shipment[y] \in ShipmentRow /\ FreeFine(y)
      BY <1>1 DEF Passed, QInv
    <3>2. CASE shipment[y].status = "sent"
      <4>1. shipment[y].pc = "idle"
        BY <3>1, <3>2 DEF TypeOK
      <4> QED
        BY <3>1, <3>2, <4>1 DEF FreeFine, Rows
    <3>3. CASE shipment[y].pc = "commit"
      <4>1. shipment[y].status = "uploading" /\ shipment[y].of = "org"
        BY <3>1, <3>3 DEF TypeOK, ShipmentRow, Scopes
      <4> QED
        BY <3>1, <4>1 DEF Rows
    <3> QED
      BY <3>2, <3>3 DEF Passed
  <2>4. /\ G \in SUBSET Shipments /\ O \in SUBSET overlapped' /\ overlapped' \in SUBSET Shipments
        /\ Passed' = Passed \cup {x} /\ Passed \in SUBSET Shipments
    BY <1>1, <1>2, <1>3, <1>6, <2>2 DEF Rows, Passed
  <2> HIDE DEF G, O
  <2>5. /\ IsFiniteSet(G) /\ Cardinality(G) \in Nat /\ IsFiniteSet(overlapped')
        /\ Cardinality(overlapped') \in Nat /\ IsFiniteSet(Passed) /\ Cardinality(Passed) \in Nat
    BY <2>4, ShipmentsFinite
  <2>6. Cardinality(Passed) <= Cardinality(G) + Cardinality(overlapped')
    <3>1. Passed \in SUBSET (G \cup overlapped') /\ G \cup overlapped' \in SUBSET Shipments
      BY <2>3, <2>4
    <3>2. Cardinality(Passed) <= Cardinality(G \cup overlapped')
      BY <3>1, ShipmentsFinite
    <3>3. /\ Cardinality(G \cup overlapped')
               = Cardinality(G) + Cardinality(overlapped') - Cardinality(G \cap overlapped')
      BY <2>5, FS_Union
    <3>4. G \cap overlapped' \in SUBSET Shipments
      BY <2>4
    <3>5. Cardinality(G \cap overlapped') \in Nat
      BY <3>4, ShipmentsFinite
    <3> QED
      BY <2>5, <3>2, <3>3, <3>5
  <2>7. Cardinality(Passed') <= Cardinality(Passed) + 1
    <3>1. Cardinality(Passed \cup {x})
            = IF x \in Passed THEN Cardinality(Passed) ELSE Cardinality(Passed) + 1
      BY <2>5, FS_AddElement
    <3> QED
      BY <2>4, <2>5, <3>1
  <2>8. Cardinality(Passed') \in Nat
    <3>1. Passed \cup {x} \in SUBSET Shipments
      BY <2>4
    <3> QED
      BY <2>4, <3>1, ShipmentsFinite
  <2>9. Cardinality(Passed') <= MonthlyShipmentLimit + Cardinality(overlapped')
    BY <2>2, <2>5, <2>6, <2>7, <2>8, QuotaAssumption
  <2> QED
    BY <1>4, <2>9 DEF QInv
<1> QED
  BY <1>5, <1>6

\* Whatever else happens, nobody passes the check.
LEMMA QuotaStays ==
  ASSUME TypeOK, QInv, NEW x \in Shipments,
         \/ \E scope \in Scopes : CreateDraft(x, scope) \/ GetPlan(x, scope)
         \/ RefuseShipment(x) \/ FinalizeShipment(x) \/ FinalizeFails(x) \/ DeletePurgedShipment(x)
  PROVE  QInv'
<1>1. /\ shipment \in [Shipments -> ShipmentRow] /\ shipment[x] \in ShipmentRow
      /\ free \in SUBSET Shipments /\ overlapped \in SUBSET Shipments /\ FreeFine(x)
      /\ shipment[x].pc # "idle" => shipment[x].status = "uploading"
  BY DEF TypeOK, QInv
<1> DEFINE Kept == /\ \A y \in Shipments \ {x} : shipment'[y] = shipment[y]
                   /\ free' \ {x} = free \ {x} /\ overlapped' = overlapped /\ FreeFine(x)'
                   /\ x \in Passed' => x \in Passed
<1>2. ASSUME NEW scope \in Scopes, CreateDraft(x, scope)
      PROVE  Kept
  BY <1>1, <1>2 DEF CreateDraft, ShipmentRow, FreeFine, Passed
<1>3. ASSUME NEW scope \in Scopes, GetPlan(x, scope)
      PROVE  Kept
  <2>1. /\ shipment'[x].status = "uploading" /\ shipment'[x].scope = scope
        /\ shipment'[x].pc = (IF scope = "org" /\ PaidPlan THEN "commit" ELSE "count")
        /\ \A y \in Shipments \ {x} : shipment'[y] = shipment[y]
    BY <1>1, <1>3 DEF GetPlan, ShipmentRow
  <2>2. /\ free' = (IF scope = "org" /\ ~ PaidPlan THEN free \cup {x} ELSE free \ {x})
        /\ overlapped' = overlapped
    BY <1>3 DEF GetPlan
  <2> QED
    BY <2>1, <2>2 DEF FreeFine, Passed
<1>4. ASSUME RefuseShipment(x) \/ FinalizeFails(x)
      PROVE  Kept
  BY <1>1, <1>4 DEF RefuseShipment, FinalizeFails, ShipmentRow, FreeFine, Passed
<1>5. ASSUME FinalizeShipment(x)
      PROVE  Kept
  <2>1. /\ shipment'[x].status = "sent"
        /\ shipment[x].scope = "org" => shipment'[x].of = "org"
        /\ \A y \in Shipments \ {x} : shipment'[y] = shipment[y]
    BY <1>1, <1>5 DEF FinalizeShipment, NoShipment
  <2>2. shipment[x].pc = "commit" /\ free' = free /\ overlapped' = overlapped
    BY <1>5 DEF FinalizeShipment
  <2> QED
    BY <1>1, <2>1, <2>2 DEF FreeFine, Passed
<1>6. ASSUME DeletePurgedShipment(x)
      PROVE  Kept
  BY <1>1, <1>6 DEF DeletePurgedShipment, FreeFine, Passed
<1>7. Kept
  BY <1>2, <1>3, <1>4, <1>5, <1>6
<1>8. \A y \in Shipments : FreeFine(y)'
  BY <1>1, <1>7 DEF QInv, FreeFine
<1>9. Passed' \in SUBSET Passed /\ Passed \in SUBSET Shipments
  <2>1. ASSUME NEW y \in Passed', y # x
        PROVE  y \in Passed
    BY <1>1, <1>7, <2>1 DEF Passed
  <2> QED
    BY <1>1, <1>7, <2>1 DEF Passed
<1>10. /\ Cardinality(Passed') <= Cardinality(Passed) /\ Cardinality(Passed) \in Nat
       /\ Cardinality(Passed') \in Nat
  <2>1. Passed' \in SUBSET Shipments
    BY <1>9
  <2> QED
    BY <1>9, <2>1, ShipmentsFinite
<1>11. overlapped' = overlapped /\ Cardinality(overlapped) \in Nat
  BY <1>1, <1>7, ShipmentsFinite
<1> QED
  BY <1>8, <1>10, <1>11, QuotaAssumption DEF QInv

\* At the start nothing was sent, and Stripe and the members send nothing.
LEMMA QuotaInductive ==
  /\ Init => QInv
  /\ IInv /\ QInv /\ [Next]_vars => QInv'
<1>1. ASSUME Init PROVE QInv
  <2>1. Passed = {} /\ overlapped = {} /\ free = {}
    BY <1>1 DEF Init, Passed
  <2>2. Cardinality(Passed) = 0 /\ Cardinality(overlapped) = 0
    BY <2>1, FS_EmptySet
  <2> QED
    BY <2>1, <2>2, QuotaAssumption DEF QInv, FreeFine
<1>2. ASSUME IInv, QInv, [Next]_vars PROVE QInv'
  <2>1. CASE UNCHANGED quota
    BY <1>2, <2>1 DEF QInv, FreeFine, Passed, quota
  <2>2. ASSUME NEW x \in Shipments, QuotaStep(x)
        PROVE  QInv'
    BY <1>2, <2>2, EnforceQuota, QuotaStays DEF IInv, QuotaStep
  <2> QED
    BY <1>2, <2>1, <2>2 DEF Next, vars, quota
<1> QED
  BY <1>1, <1>2

\* Concurrent finalizes send no more for an organization on the free plan than its limit, but
\* for personal drafts that become the organization's, for any number of shipments: a draft of
\* the organization is counted by the checks of the others before it is sent.
THEOREM QuotaCorrect == Spec => []QuotaHolds
<1>1. IInv /\ QInv => QuotaHolds
  <2> SUFFICES ASSUME IInv, QInv PROVE QuotaHolds
    OBVIOUS
  <2> DEFINE S == {x \in free : shipment[x].status = "sent"}
  <2>1. S \in SUBSET Passed /\ Passed \in SUBSET Shipments /\ overlapped \in SUBSET Shipments
        /\ S \in SUBSET Shipments
    BY DEF IInv, TypeOK, Passed
  <2> HIDE DEF S
  <2>2. /\ Cardinality(S) <= Cardinality(Passed) /\ Cardinality(S) \in Nat
        /\ Cardinality(Passed) \in Nat /\ Cardinality(overlapped) \in Nat
    BY <2>1, ShipmentsFinite
  <2>3. Cardinality(S) <= MonthlyShipmentLimit + Cardinality(overlapped)
    BY <2>2, QuotaAssumption DEF QInv
  <2> QED
    BY <2>3 DEF QuotaHolds, S
<1>2. IInv /\ QInv /\ [Next]_vars => QInv'
  BY QuotaInductive
<1>3. Init => QInv
  BY QuotaInductive
<1>4. Spec => []QInv
  BY Invariance, <1>2, <1>3, PTL DEF Spec
<1> QED
  BY Invariance, <1>1, <1>4, PTL
=============================================================================
