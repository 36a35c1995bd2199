------------------------- MODULE MailDeliveryProofs -------------------------
(***************************************************************************)
(* Proofs about MailDelivery, for any recipients, resends, workers,        *)
(* readers and messages: types, that a row that says sent was mailed, that *)
(* no notification is lost but by a handler that fails, that every mail    *)
(* leaves with a token the download handler knows, that a row says failed  *)
(* after sent only when its message was received twice, that the pages     *)
(* show every row that was there at the first, and that the counts of the  *)
(* recipients cover the summary unless a purge came in between.            *)
(***************************************************************************)
EXTENDS MailDelivery, FiniteSetTheorems, TLAPS

\* What the row of an event says of its mail, its message, its handler and its token.
EventFine(i) ==
  /\ event[i].status = "sent" \/ event[i].sentAt => i \in mailed
  /\ \/ i \in queue \cup mailed
     \/ handler[event[i].by].id = i /\ handler[event[i].by].pc \in {"enqueue", "failed"}
  /\ handler[event[i].by].pc \notin {"idle", "read"}
  /\ event[i].rcpt \in handler[event[i].by].todo =>
       /\ handler[event[i].by].pc = "enqueue" /\ handler[event[i].by].id = i
       /\ handler[event[i].by].rcpt = event[i].rcpt
  /\ Exists => <<event[i].by, event[i].rcpt>> \in token

\* A handler enqueues the event it has inserted, and inserts for a token it has issued.
HandlerFine(h) ==
  /\ handler[h].pc = "enqueue" => handler[h].id \in DOMAIN event
  /\ Exists /\ h = Creator /\ handler[h].pc # "idle" => \A r \in Recipients : <<h, r>> \in token
  /\ Exists /\ h # Creator /\ handler[h].pc = "event" => <<h, handler[h].rcpt>> \in token

\* Whatever a worker is about to mark as sent or to delete was mailed.
WorkerFine(w) == worker[w].pc \in {"sent", "marked"} => worker[w].cur \in mailed

\* A handler inserts one event for each of its recipients.
OneEventEach ==
  \A i, j \in DOMAIN event :
    event[i].by = event[j].by /\ event[i].rcpt = event[j].rcpt => i = j

InvitationsKept == Invitations \subseteq queue \cup mailed

IInv ==
  /\ TypeOK
  /\ \A i \in DOMAIN event : EventFine(i)
  /\ \A h \in Handlers : HandlerFine(h)
  /\ \A w \in Workers : WorkerFine(w)
  /\ OneEventEach
  /\ InvitationsKept

----------------------------------------------------------------------------
(* Numbers and types. *)

\* There are finitely many handlers.
LEMMA MaxEventsType ==
  MaxEvents \in Nat /\ IsFiniteSet(Handlers \X Recipients)
  /\ Cardinality(Handlers \X Recipients) = MaxEvents
<1>1. IsFiniteSet(Handlers)
  BY FS_Singleton, FS_Union, MailAssumption DEF Handlers
<1>2. IsFiniteSet(Recipients)
  BY MailAssumption
<1> QED
  BY <1>1, <1>2, FS_Product, FS_CardinalityType DEF MaxEvents

\* The first n numbers are n.
LEMMA FirstNumbers ==
  ASSUME NEW n \in Nat
  PROVE  IsFiniteSet(1 .. n) /\ Cardinality(1 .. n) = n
BY FS_Interval

\* One event for each handler and recipient: there are never more than that.
LEMMA EventsBounded ==
  ASSUME NEW n \in Nat, NEW ev \in [1 .. n -> EventRow],
         \A i, j \in 1 .. n : ev[i].by = ev[j].by /\ ev[i].rcpt = ev[j].rcpt => i = j
  PROVE  n <= MaxEvents
<1> DEFINE f == [i \in 1 .. n |-> <<ev[i].by, ev[i].rcpt>>]
<1>1. \A i \in 1 .. n : ev[i].by \in Handlers /\ ev[i].rcpt \in Recipients
  BY DEF EventRow
<1>2. f \in [1 .. n -> Handlers \X Recipients]
  BY <1>1
<1>3. \A i, j \in 1 .. n : f[i] = f[j] => i = j
  OBVIOUS
<1>4. f \in Injection(1 .. n, Handlers \X Recipients)
  BY <1>2, <1>3 DEF Injection, IsInjective
<1>5. Cardinality(1 .. n) <= Cardinality(Handlers \X Recipients)
  BY <1>4, MaxEventsType, FS_Injection
<1>6. Cardinality(1 .. n) = n
  BY FirstNumbers
<1> QED
  BY <1>5, <1>6, MaxEventsType

\* The rows are finitely many, and so is any part of them.
LEMMA RowsBounded ==
  ASSUME TypeOK, NEW S \in SUBSET Rows
  PROVE  /\ S \subseteq Ids
         /\ Cardinality(S) \in 0 .. MaxEvents
         /\ Len(event) \in 0 .. MaxEvents
<1>1. Len(event) \in Nat /\ DOMAIN event = 1 .. Len(event) /\ Len(event) <= MaxEvents
      /\ MaxEvents \in Nat
  BY MaxEventsType DEF TypeOK
<1>2. S \subseteq 1 .. Len(event)
  BY <1>1 DEF Rows
<1>3. IsFiniteSet(1 .. Len(event)) /\ Cardinality(1 .. Len(event)) = Len(event)
  BY <1>1, FirstNumbers
<1>4. IsFiniteSet(S) /\ Cardinality(S) <= Len(event)
  BY <1>2, <1>3, FS_Subset
<1>5. Cardinality(S) \in Nat
  BY <1>4, FS_CardinalityType
<1> QED
  BY <1>1, <1>2, <1>4, <1>5 DEF Ids

\* The fields of a handler have their types.
LEMMA HandlerFields ==
  ASSUME TypeOK, NEW h \in Handlers
  PROVE  /\ handler \in [Handlers -> HandlerState]
         /\ handler[h] \in HandlerState
         /\ handler[h].pc \in {"idle", "read", "token", "event", "enqueue", "done", "failed"}
         /\ handler[h].todo \in SUBSET Recipients
         /\ handler[h].rcpt \in Recipients
         /\ handler[h].id \in 0 .. MaxEvents
BY DEF TypeOK, HandlerState

\* The fields of a row have their types.
LEMMA EventFields ==
  ASSUME TypeOK, NEW i \in DOMAIN event
  PROVE  /\ event[i] \in EventRow /\ i \in Nat /\ i \in Ids /\ i \in Messages
         /\ event[i].by \in Handlers /\ event[i].rcpt \in Recipients
         /\ event[i].sentAt \in BOOLEAN
<1>1. Len(event) \in Nat /\ DOMAIN event = 1 .. Len(event) /\ Len(event) <= MaxEvents
      /\ MaxEvents \in Nat /\ event[i] \in EventRow
  BY MaxEventsType DEF TypeOK
<1> QED
  BY <1>1 DEF EventRow, Ids, Messages

\* The fields of a worker have their types.
LEMMA WorkerFields ==
  ASSUME TypeOK, NEW w \in Workers
  PROVE  /\ worker \in [Workers -> WorkerState]
         /\ worker[w] \in WorkerState
         /\ worker[w].pc \in {"poll", "handle", "sent", "unsent", "marked"}
         /\ worker[w].batch \in SUBSET Messages
         /\ worker[w].cur \in Messages \cup {0}
BY DEF TypeOK, WorkerState

----------------------------------------------------------------------------
(* Handlers. *)

\* Handler h ends up in a state of the right type, the others wait, and rows, workers and
\* readers are as before.
Moves(h, pc, todo, rcpt, id) ==
  /\ handler' \in [Handlers -> HandlerState]
  /\ handler'[h].pc = pc /\ handler'[h].todo = todo
  /\ handler'[h].rcpt = rcpt /\ handler'[h].id = id
  /\ \A g \in Handlers : g # h => handler'[g] = handler[g]

\* A local state that is overwritten field by field.
LEMMA Moved ==
  ASSUME TypeOK, NEW h \in Handlers, NEW s \in HandlerState,
         handler' = [handler EXCEPT ![h] = s]
  PROVE  Moves(h, s.pc, s.todo, s.rcpt, s.id)
BY HandlerFields DEF Moves

\* What a handler's step leaves alone, and what only grows with it, when it inserts no row.
Quiet ==
  /\ event' = event /\ mailed' = mailed /\ worker' = worker /\ reader' = reader
  /\ delivered' = delivered
  /\ queue \subseteq queue' /\ queue' \subseteq Messages
  /\ token \subseteq token' /\ token' \subseteq Handlers \X Recipients
  /\ shipment' \in {"uploading", "sent", "deleted", "purged"}
  /\ Exists' => Exists

\* Rows of other handlers stay fine.
LEMMA OthersRows ==
  ASSUME TypeOK, Quiet, NEW h \in Handlers, NEW i \in DOMAIN event, event[i].by # h,
         \A g \in Handlers : g # h => handler'[g] = handler[g], EventFine(i)
  PROVE  EventFine(i)'
<1>1. event[i].by \in Handlers /\ handler'[event[i].by] = handler[event[i].by]
  BY EventFields
<1> QED
  BY <1>1 DEF EventFine, Quiet

\* And so do other handlers.
LEMMA OthersFine ==
  ASSUME TypeOK, Quiet, NEW g \in Handlers, handler'[g] = handler[g], HandlerFine(g)
  PROVE  HandlerFine(g)'
BY DEF HandlerFine, Quiet

\* When no row changes and nothing is taken out of the queue, it is enough to look at the
\* handler that moved and at its own rows.
LEMMA QuietInvariant ==
  ASSUME IInv, Quiet, NEW h \in Handlers,
         handler' \in [Handlers -> HandlerState],
         \A g \in Handlers : g # h => handler'[g] = handler[g],
         \A i \in DOMAIN event : event[i].by = h => EventFine(i)',
         HandlerFine(h)'
  PROVE  IInv'
<1>1. /\ TypeOK /\ OneEventEach /\ InvitationsKept
      /\ \A i \in DOMAIN event : EventFine(i)
      /\ \A g \in Handlers : HandlerFine(g)
      /\ \A w \in Workers : WorkerFine(w)
  BY DEF IInv
<1>2. TypeOK'
  BY <1>1 DEF TypeOK, Quiet
<1>3. \A i \in DOMAIN event' : EventFine(i)'
  <2>1. DOMAIN event' = DOMAIN event
    BY DEF Quiet
  <2>2. \A i \in DOMAIN event : EventFine(i)'
    BY <1>1, OthersRows
  <2> QED
    BY <2>1, <2>2
<1>4. \A g \in Handlers : HandlerFine(g)'
  BY <1>1, OthersFine
<1>5. \A w \in Workers : WorkerFine(w)'
  BY <1>1 DEF WorkerFine, Quiet
<1>6. OneEventEach'
  BY <1>1 DEF OneEventEach, Quiet
<1>7. InvitationsKept'
  BY <1>1 DEF InvitationsKept, Quiet
<1> QED
  BY <1>2, <1>3, <1>4, <1>5, <1>6, <1>7 DEF IInv

\* The handler that finalizes has issued the tokens of all recipients.
LEMMA FinalizeInvariant ==
  ASSUME IInv, Finalize
  PROVE  IInv'
<1> DEFINE h == Creator
<1>1. /\ TypeOK /\ h \in Handlers
      /\ \A i \in DOMAIN event : EventFine(i)
  BY DEF IInv, Handlers
<1>2. /\ Moves(h, "event", Recipients, handler[h].rcpt, handler[h].id)
  <2>1. [handler[h] EXCEPT !.pc = "event", !.todo = Recipients] \in HandlerState
    BY <1>1, HandlerFields DEF HandlerState
  <2>2. handler' = [handler EXCEPT ![h] = [handler[h] EXCEPT !.pc = "event", !.todo = Recipients]]
    BY <1>1, HandlerFields DEF Finalize
  <2>3. handler[h] \in HandlerState
    BY <1>1, HandlerFields
  <2> QED
    BY <1>1, <2>1, <2>2, <2>3, Moved DEF HandlerState
<1>3. Quiet
  BY <1>1 DEF Quiet, Finalize, TypeOK, Exists
<1>4. \A i \in DOMAIN event : event[i].by = h => EventFine(i)'
  BY <1>1 DEF EventFine, Finalize
<1>5. HandlerFine(h)'
  BY <1>2 DEF HandlerFine, Finalize, Moves
<1> QED
  BY <1>1, <1>2, <1>3, <1>4, <1>5, QuietInvariant DEF Moves

\* A resend reads the shipment; it has inserted nothing yet.
LEMMA ReadShipmentInvariant ==
  ASSUME IInv, NEW h \in Handlers, ReadShipment(h)
  PROVE  IInv'
<1>1. /\ TypeOK
      /\ \A i \in DOMAIN event : EventFine(i)
      /\ h # Creator /\ handler[h].pc = "idle"
  BY MailAssumption DEF IInv, ReadShipment
<1>2. Moves(h, "read", handler[h].todo, handler[h].rcpt, handler[h].id)
  <2>1. handler[h] \in HandlerState /\ [handler[h] EXCEPT !.pc = "read"] \in HandlerState
    BY <1>1, HandlerFields DEF HandlerState
  <2>2. handler' = [handler EXCEPT ![h] = [handler[h] EXCEPT !.pc = "read"]]
    BY <1>1, HandlerFields DEF ReadShipment
  <2> QED
    BY <1>1, <2>1, <2>2, Moved DEF HandlerState
<1>3. Quiet
  BY <1>1 DEF Quiet, ReadShipment, TypeOK, Exists
<1>4. \A i \in DOMAIN event : event[i].by = h => EventFine(i)'
  BY <1>1 DEF EventFine
<1>5. HandlerFine(h)'
  BY <1>1, <1>2 DEF HandlerFine, Moves
<1> QED
  BY <1>1, <1>2, <1>3, <1>4, <1>5, QuietInvariant DEF Moves

\* It chooses the recipients.
LEMMA ResolveInvariant ==
  ASSUME IInv, NEW h \in Handlers, NEW T \in SUBSET Recipients, ResolveResendTargets(h, T)
  PROVE  IInv'
<1>1. /\ TypeOK /\ HandlerFine(h)
      /\ \A i \in DOMAIN event : EventFine(i)
      /\ handler[h].pc = "read"
  BY DEF IInv, ResolveResendTargets
<1>2. Moves(h, "token", T, handler[h].rcpt, handler[h].id)
  <2>1. handler[h] \in HandlerState /\ [handler[h] EXCEPT !.pc = "token", !.todo = T] \in HandlerState
    BY <1>1, HandlerFields DEF HandlerState
  <2>2. handler' = [handler EXCEPT ![h] = [handler[h] EXCEPT !.pc = "token", !.todo = T]]
    BY <1>1, HandlerFields DEF ResolveResendTargets
  <2> QED
    BY <1>1, <2>1, <2>2, Moved DEF HandlerState
<1>3. Quiet
  BY <1>1 DEF Quiet, ResolveResendTargets, TypeOK, Exists
<1>4. \A i \in DOMAIN event : event[i].by = h => EventFine(i)'
  BY <1>1 DEF EventFine
<1>5. HandlerFine(h)'
  BY <1>1, <1>2, <1>3 DEF HandlerFine, Moves, Quiet
<1> QED
  BY <1>1, <1>2, <1>3, <1>4, <1>5, QuietInvariant DEF Moves

\* It issues a token, for the event it inserts next.
LEMMA CreateTokenInvariant ==
  ASSUME IInv, NEW h \in Handlers, NEW r \in Recipients, CreateAccessToken(h, r)
  PROVE  IInv'
<1>1. /\ TypeOK /\ HandlerFine(h)
      /\ \A i \in DOMAIN event : EventFine(i)
      /\ handler[h].pc = "token" /\ r \in handler[h].todo
  BY DEF IInv, CreateAccessToken
<1>2. Moves(h, "event", handler[h].todo, r, handler[h].id)
  <2>1. handler[h] \in HandlerState /\ [handler[h] EXCEPT !.pc = "event", !.rcpt = r] \in HandlerState
    BY <1>1, HandlerFields DEF HandlerState
  <2>2. handler' = [handler EXCEPT ![h] = [handler[h] EXCEPT !.pc = "event", !.rcpt = r]]
    BY <1>1, HandlerFields DEF CreateAccessToken
  <2> QED
    BY <1>1, <2>1, <2>2, Moved DEF HandlerState
<1>3. Quiet /\ <<h, r>> \in token'
  BY <1>1 DEF Quiet, CreateAccessToken, TypeOK, Exists
<1>4. \A i \in DOMAIN event : event[i].by = h => EventFine(i)'
  BY <1>1, <1>2, <1>3 DEF EventFine, Moves, Quiet
<1>5. HandlerFine(h)'
  BY <1>1, <1>2, <1>3 DEF HandlerFine, Moves, Quiet
<1> QED
  BY <1>1, <1>2, <1>3, <1>4, <1>5, QuietInvariant DEF Moves

\* A handler gives up and says so.
LEMMA GiveUpInvariant ==
  ASSUME IInv, NEW h \in Handlers, GiveUp(h)
  PROVE  IInv'
<1>1. /\ TypeOK /\ HandlerFine(h)
      /\ \A i \in DOMAIN event : EventFine(i)
      /\ handler[h].pc \notin {"idle", "done", "failed"}
  BY DEF IInv, GiveUp
<1>2. Moves(h, "failed", {}, handler[h].rcpt, handler[h].id)
  <2>1. handler[h] \in HandlerState /\ [handler[h] EXCEPT !.pc = "failed", !.todo = {}] \in HandlerState
    BY <1>1, HandlerFields DEF HandlerState
  <2>2. handler' = [handler EXCEPT ![h] = [handler[h] EXCEPT !.pc = "failed", !.todo = {}]]
    BY <1>1, HandlerFields DEF GiveUp
  <2> QED
    BY <1>1, <2>1, <2>2, Moved DEF HandlerState
<1>3. Quiet
  BY <1>1 DEF Quiet, GiveUp, TypeOK, Exists
<1>4. \A i \in DOMAIN event : event[i].by = h => EventFine(i)'
  BY <1>1, <1>2, <1>3 DEF EventFine, Moves, Quiet
<1>5. HandlerFine(h)'
  BY <1>1, <1>2, <1>3 DEF HandlerFine, Moves, Quiet
<1> QED
  BY <1>1, <1>2, <1>3, <1>4, <1>5, QuietInvariant DEF Moves

\* The message of the event goes into the queue, and the recipient is done; when no answer
\* comes, all are.
LEMMA EnqueueInvariant ==
  ASSUME IInv, NEW h \in Handlers, Enqueue(h) \/ EnqueueUnanswered(h)
  PROVE  IInv'
<1>1. /\ TypeOK /\ HandlerFine(h)
      /\ \A i \in DOMAIN event : EventFine(i)
      /\ handler[h].pc = "enqueue" /\ handler[h].id \in DOMAIN event
  BY DEF IInv, Enqueue, EnqueueUnanswered, HandlerFine
<1>2. PICK pc \in {"event", "token", "done", "failed"}, todo \in SUBSET Recipients :
        /\ Moves(h, pc, todo, handler[h].rcpt, handler[h].id)
        /\ todo \subseteq handler[h].todo \ {handler[h].rcpt}
        /\ pc = "event" => h = Creator
  <2>1. CASE Enqueue(h)
    <3>1. handler[h] \in HandlerState
          /\ [handler[h] EXCEPT !.pc = NextRecipient(h), !.todo = @ \ {handler[h].rcpt}] \in HandlerState
      BY <1>1, HandlerFields DEF HandlerState, NextRecipient
    <3>2. handler' = [handler EXCEPT ![h] = [handler[h] EXCEPT !.pc = NextRecipient(h),
                                                            !.todo = @ \ {handler[h].rcpt}]]
      BY <1>1, <2>1, HandlerFields DEF Enqueue
    <3>3. Moves(h, NextRecipient(h), handler[h].todo \ {handler[h].rcpt}, handler[h].rcpt, handler[h].id)
      BY <1>1, <3>1, <3>2, Moved DEF HandlerState
    <3>4. NextRecipient(h) \in {"event", "token", "done"} /\ (NextRecipient(h) = "event" => h = Creator)
      BY DEF NextRecipient
    <3>5. handler[h].todo \ {handler[h].rcpt} \in SUBSET Recipients
      BY <1>1, HandlerFields
    <3> QED
      BY <3>3, <3>4, <3>5
  <2>2. CASE EnqueueUnanswered(h)
    <3>1. handler[h] \in HandlerState /\ [handler[h] EXCEPT !.pc = "failed", !.todo = {}] \in HandlerState
      BY <1>1, HandlerFields DEF HandlerState
    <3>2. handler' = [handler EXCEPT ![h] = [handler[h] EXCEPT !.pc = "failed", !.todo = {}]]
      BY <1>1, <2>2, HandlerFields DEF EnqueueUnanswered
    <3>3. Moves(h, "failed", {}, handler[h].rcpt, handler[h].id)
      BY <1>1, <3>1, <3>2, Moved DEF HandlerState
    <3> QED
      BY <3>3
  <2> QED
    BY <2>1, <2>2
<1>3. Quiet /\ queue' = queue \cup {handler[h].id}
  <2>1. handler[h].id \in Messages
    BY <1>1, EventFields
  <2> QED
    BY <1>1, <2>1 DEF Quiet, Enqueue, EnqueueUnanswered, EnqueueMail, TypeOK, Exists
<1>4. \A i \in DOMAIN event : event[i].by = h => EventFine(i)'
  BY <1>1, <1>2, <1>3 DEF EventFine, Moves, Quiet
<1>5. HandlerFine(h)'
  BY <1>1, <1>2, <1>3 DEF HandlerFine, Moves, Quiet
<1> QED
  BY <1>1, <1>2, <1>3, <1>4, <1>5, QuietInvariant DEF Moves

----------------------------------------------------------------------------
(* A row is inserted. *)

\* The new row comes last, the others stay as they are.
LEMMA InsertedRow ==
  ASSUME TypeOK, NEW h \in Handlers, NEW r \in Recipients, CreateNotificationEvent(h, r)
  PROVE  /\ event' \in Seq(EventRow) /\ Len(event') = Len(event) + 1 /\ Len(event) \in Nat
         /\ DOMAIN event = 1 .. Len(event) /\ DOMAIN event' = 1 .. (Len(event) + 1)
         /\ Len(event) + 1 \notin DOMAIN event
         /\ \A i \in DOMAIN event : event'[i] = event[i]
         /\ event'[Len(event) + 1] = [by |-> h, rcpt |-> r, status |-> "queued",
                                      sentAt |-> FALSE, failedAt |-> FALSE]
<1> DEFINE new == [by |-> h, rcpt |-> r, status |-> "queued", sentAt |-> FALSE, failedAt |-> FALSE]
<1>1. new \in EventRow
  BY DEF EventRow
<1>2. event \in Seq(EventRow) /\ event' = Append(event, new)
  BY DEF TypeOK, CreateNotificationEvent
<1> HIDE DEF new
<1>3. /\ event' \in Seq(EventRow) /\ Len(event') = Len(event) + 1 /\ Len(event) \in Nat
      /\ DOMAIN event = 1 .. Len(event) /\ DOMAIN event' = 1 .. (Len(event) + 1)
      /\ \A i \in 1 .. Len(event) : event'[i] = event[i]
      /\ event'[Len(event) + 1] = new
  BY <1>1, <1>2
<1> QED
  BY <1>3 DEF new

\* The handler has inserted no row for this recipient yet.
LEMMA NoRowYet ==
  ASSUME IInv, NEW h \in Handlers, NEW r \in Recipients, InsertEvent(h, r), NEW i \in DOMAIN event
  PROVE  ~(event[i].by = h /\ event[i].rcpt = r)
BY DEF IInv, InsertEvent, EventFine

\* The new row is queued, its handler is about to enqueue it, and its token is there.
LEMMA InsertInvariant ==
  ASSUME IInv, NEW h \in Handlers, NEW r \in Recipients, InsertEvent(h, r)
  PROVE  IInv'
<1> DEFINE n == Len(event) + 1
<1>1. /\ TypeOK /\ HandlerFine(h) /\ OneEventEach /\ InvitationsKept
      /\ \A i \in DOMAIN event : EventFine(i)
      /\ \A g \in Handlers : HandlerFine(g)
      /\ \A w \in Workers : WorkerFine(w)
      /\ handler[h].pc = "event" /\ r \in handler[h].todo /\ Exists
      /\ h # Creator => r = handler[h].rcpt
      /\ shipment' = shipment /\ token' = token /\ queue' = queue /\ delivered' = delivered
      /\ mailed' = mailed /\ worker' = worker /\ reader' = reader
  BY DEF IInv, InsertEvent
<1>2. CreateNotificationEvent(h, r)
  BY DEF InsertEvent
<1>3. /\ event' \in Seq(EventRow) /\ Len(event') = n /\ Len(event) \in Nat
      /\ DOMAIN event = 1 .. Len(event) /\ DOMAIN event' = 1 .. n
      /\ n \notin DOMAIN event /\ n \in DOMAIN event' /\ n # 0
      /\ \A i \in DOMAIN event' : i \in DOMAIN event \/ i = n
      /\ \A i \in DOMAIN event : i \in DOMAIN event' /\ event'[i] = event[i]
      /\ event'[n].by = h /\ event'[n].rcpt = r /\ event'[n].status = "queued"
      /\ event'[n].sentAt = FALSE
  <2>1. /\ event' \in Seq(EventRow) /\ Len(event') = Len(event) + 1 /\ Len(event) \in Nat
        /\ DOMAIN event = 1 .. Len(event) /\ DOMAIN event' = 1 .. (Len(event) + 1)
        /\ Len(event) + 1 \notin DOMAIN event
        /\ \A i \in DOMAIN event : event'[i] = event[i]
        /\ event'[Len(event) + 1] = [by |-> h, rcpt |-> r, status |-> "queued",
                                     sentAt |-> FALSE, failedAt |-> FALSE]
    BY <1>1, <1>2, InsertedRow
  <2>2. /\ n \in DOMAIN event' /\ n # 0
        /\ \A i \in DOMAIN event' : i \in DOMAIN event \/ i = n
        /\ \A i \in DOMAIN event : i \in DOMAIN event'
    BY <2>1
  <2> QED
    BY <2>1, <2>2
<1> HIDE DEF n
<1>4. OneEventEach'
  <2> SUFFICES ASSUME NEW i \in DOMAIN event', NEW j \in DOMAIN event',
                      event'[i].by = event'[j].by, event'[i].rcpt = event'[j].rcpt
               PROVE  i = j
    BY DEF OneEventEach
  <2>1. CASE i \in DOMAIN event /\ j \in DOMAIN event
    BY <1>1, <1>3, <2>1 DEF OneEventEach
  <2>2. CASE i \in DOMAIN event /\ j = n
    BY <1>3, <2>2, NoRowYet
  <2>3. CASE i = n /\ j \in DOMAIN event
    BY <1>3, <2>3, NoRowYet
  <2>4. CASE i = n /\ j = n
    BY <2>4
  <2> QED
    BY <1>3, <2>1, <2>2, <2>3, <2>4
<1>5. n \in Nat /\ n <= MaxEvents
  <2>1. n \in Nat
    BY <1>3 DEF n
  <2>2. event' \in [1 .. n -> EventRow]
    BY <1>3
  <2>3. \A i, j \in 1 .. n :
          event'[i].by = event'[j].by /\ event'[i].rcpt = event'[j].rcpt => i = j
    BY <1>3, <1>4 DEF OneEventEach
  <2>4. \A ev \in [1 .. n -> EventRow] :
          (\A i, j \in 1 .. n : ev[i].by = ev[j].by /\ ev[i].rcpt = ev[j].rcpt => i = j)
            => n <= MaxEvents
    BY <2>1, EventsBounded
  <2> QED
    BY <2>1, <2>4, <2>2, <2>3
<1>6. Moves(h, "enqueue", handler[h].todo, r, n)
  <2>1. handler[h] \in HandlerState
        /\ [handler[h] EXCEPT !.pc = "enqueue", !.rcpt = r, !.id = n] \in HandlerState
    <3>1. n \in 0 .. MaxEvents
      BY <1>5, MaxEventsType
    <3>2. handler[h] \in HandlerState
      BY <1>1, HandlerFields
    <3> QED
      BY <3>1, <3>2 DEF HandlerState
  <2>2. handler' = [handler EXCEPT ![h] = [handler[h] EXCEPT !.pc = "enqueue", !.rcpt = r, !.id = n]]
    BY <1>1, HandlerFields DEF InsertEvent, n
  <2> QED
    BY <1>1, <2>1, <2>2, Moved DEF HandlerState
<1>7. TypeOK'
  BY <1>1, <1>3, <1>5, <1>6 DEF TypeOK, Moves
<1>8. \A i \in DOMAIN event' : EventFine(i)'
  <2> TAKE i \in DOMAIN event'
  <2>1. CASE i = n
    <3>1. <<h, r>> \in token
      BY <1>1 DEF HandlerFine
    <3> QED
      BY <1>1, <1>3, <1>6, <2>1, <3>1 DEF EventFine, Moves
  <2>2. CASE i \in DOMAIN event /\ event[i].by = h
    BY <1>1, <1>3, <1>6, <2>2, NoRowYet DEF EventFine, Moves, Exists
  <2>3. CASE i \in DOMAIN event /\ event[i].by # h
    <3>1. handler'[event[i].by] = handler[event[i].by]
      BY <1>1, <1>6, <2>3, EventFields DEF Moves
    <3> QED
      BY <1>1, <1>3, <2>3, <3>1 DEF EventFine, Exists
  <2> QED
    BY <1>3, <2>1, <2>2, <2>3
<1>9. \A g \in Handlers : HandlerFine(g)'
  <2> TAKE g \in Handlers
  <2>1. CASE g = h
    BY <1>1, <1>3, <1>6, <2>1 DEF HandlerFine, Moves, Exists
  <2>2. CASE g # h
    BY <1>1, <1>3, <1>6, <2>2 DEF HandlerFine, Moves, Exists
  <2> QED
    BY <2>1, <2>2
<1>10. \A w \in Workers : WorkerFine(w)'
  BY <1>1 DEF WorkerFine
<1>11. InvitationsKept'
  BY <1>1 DEF InvitationsKept
<1> QED
  BY <1>4, <1>7, <1>8, <1>9, <1>10, <1>11 DEF IInv

\* A handler's step keeps the invariant.
LEMMA HandlerInvariant ==
  ASSUME IInv, NEW h \in Handlers, HandlerStep(h)
  PROVE  IInv'
BY FinalizeInvariant, ReadShipmentInvariant, ResolveInvariant, CreateTokenInvariant,
   GiveUpInvariant, EnqueueInvariant, InsertInvariant DEF HandlerStep

----------------------------------------------------------------------------
(* Rows change: the mail worker, and the purge. *)

\* Rows keep their handler and recipient, and claim a mail only of what was mailed.
Rewritten ==
  /\ event' \in Seq(EventRow) /\ DOMAIN event' = DOMAIN event /\ Len(event') = Len(event)
  /\ \A i \in DOMAIN event :
       /\ event'[i].by = event[i].by /\ event'[i].rcpt = event[i].rcpt
       /\ event'[i].status = "sent" \/ event'[i].sentAt =>
            i \in mailed \/ event[i].status = "sent" \/ event[i].sentAt

\* Handlers, tokens and the shipment stay, or the shipment goes with its tokens.
Away ==
  \/ shipment' = shipment /\ token' = token
  \/ /\ shipment' \in {"deleted", "purged"} /\ (Exists' => Exists)
     /\ token' = token \/ (~Exists' /\ token' = {})

\* Messages leave the queue when they were mailed, or are neither invitations nor events.
Drained ==
  /\ mailed \subseteq mailed' /\ mailed' \subseteq Messages /\ queue' \subseteq Messages
  /\ \A m \in queue : m \in queue' \cup mailed \cup Malformed

\* With handlers at rest, that is all there is to show.
LEMMA OutsideInvariant ==
  ASSUME IInv, Rewritten, Away, Drained, handler' = handler,
         delivered' \in [Messages -> 0 .. 2], worker' \in [Workers -> WorkerState],
         reader' \in [Readers -> ReaderState],
         \A w \in Workers : WorkerFine(w)'
  PROVE  IInv'
<1>1. /\ TypeOK /\ OneEventEach /\ InvitationsKept
      /\ \A i \in DOMAIN event : EventFine(i)
      /\ \A g \in Handlers : HandlerFine(g)
  BY DEF IInv
<1>2. TypeOK'
  BY <1>1 DEF TypeOK, Rewritten, Away, Drained
<1>3. \A i \in DOMAIN event' : EventFine(i)'
  <2> SUFFICES ASSUME NEW i \in DOMAIN event PROVE EventFine(i)'
    BY DEF Rewritten
  <2>1. i \in queue \cup mailed => i \in queue' \cup mailed'
    <3>1. i \notin Malformed
      BY <1>1, EventFields, MailAssumption
    <3> QED
      BY <3>1 DEF Drained
  <2>2. Exists' => Exists /\ token' = token
    BY DEF Away, Exists
  <2>3. i \in mailed => i \in mailed'
    BY DEF Drained
  <2> QED
    BY <1>1, <2>1, <2>2, <2>3 DEF EventFine, Rewritten
<1>4. \A g \in Handlers : HandlerFine(g)'
  <2>1. Exists' => Exists /\ token' = token
    BY DEF Away, Exists
  <2> QED
    BY <1>1, <2>1 DEF HandlerFine, Rewritten
<1>5. OneEventEach'
  BY <1>1 DEF OneEventEach, Rewritten
<1>6. InvitationsKept'
  BY <1>1, MailAssumption DEF InvitationsKept, Drained
<1> QED
  BY <1>2, <1>3, <1>4, <1>5, <1>6 DEF IInv

\* Rows that are not touched are not rewritten into anything worse.
LEMMA Untouched ==
  ASSUME TypeOK, event' = event
  PROVE  Rewritten
BY DEF TypeOK, Rewritten

\* Nor are those that the purge takes along.
LEMMA PurgeRewrites ==
  ASSUME TypeOK, Purge
  PROVE  Rewritten
<1>1. /\ event \in [1 .. Len(event) -> EventRow] /\ Len(event) \in Nat
      /\ event' = [i \in 1 .. Len(event) |-> [event[i] EXCEPT !.status = "none"]]
  BY DEF TypeOK, Purge
<1>2. \A i \in 1 .. Len(event) :
        LET row == [event[i] EXCEPT !.status = "none"]
        IN  /\ row \in EventRow /\ row.by = event[i].by /\ row.rcpt = event[i].rcpt
            /\ row.status = "none" /\ row.sentAt = event[i].sentAt
  BY <1>1 DEF EventRow
<1>3. event' \in [1 .. Len(event) -> EventRow]
  BY <1>1, <1>2
<1>4. event' \in Seq(EventRow) /\ Len(event') = Len(event) /\ DOMAIN event' = DOMAIN event
  BY <1>1, <1>3
<1> QED
  BY <1>1, <1>2, <1>4 DEF Rewritten

\* Marking a row as sent needs its mail, marking it as failed needs nothing.
LEMMA UpdateRewrites ==
  ASSUME TypeOK, NEW m \in Messages \cup {0}, NEW st \in {"sent", "failed"},
         UpdateNotificationEventStatus(m, st) \/ UNCHANGED event,
         st = "sent" => m \in mailed
  PROVE  Rewritten
<1>1. CASE event' = event
  BY <1>1, Untouched
<1>2. CASE m \in DOMAIN event /\ event' = [event EXCEPT ![m] = Overwritten(event[m], st)]
  <2>1. event \in [1 .. Len(event) -> EventRow] /\ Len(event) \in Nat /\ event[m] \in EventRow
    BY <1>2 DEF TypeOK
  <2> DEFINE row == Overwritten(event[m], st)
  <2>2. /\ row \in EventRow /\ row.by = event[m].by /\ row.rcpt = event[m].rcpt
        /\ row.status = "sent" \/ row.sentAt =>
             st = "sent" \/ event[m].status = "sent" \/ event[m].sentAt
    <3>1. CASE event[m].status = "none"
      BY <2>1, <3>1 DEF Overwritten
    <3>2. CASE event[m].status # "none"
      <4>1. row = [event[m] EXCEPT !.status = st, !.sentAt = event[m].sentAt \/ st = "sent",
                                   !.failedAt = event[m].failedAt \/ st = "failed"]
        BY <3>2 DEF Overwritten
      <4>2. (event[m].sentAt \/ st = "sent") \in BOOLEAN /\ (event[m].failedAt \/ st = "failed") \in BOOLEAN
        OBVIOUS
      <4>3. st \in {"queued", "sent", "failed", "none"}
        OBVIOUS
      <4> QED
        BY <2>1, <4>1, <4>2, <4>3 DEF EventRow
    <3> QED
      BY <3>1, <3>2
  <2> HIDE DEF row
  <2>3. event' \in [1 .. Len(event) -> EventRow] /\ event'[m] = row
        /\ \A i \in DOMAIN event : i # m => event'[i] = event[i]
    BY <1>2, <2>1, <2>2 DEF row
  <2>4. event' \in Seq(EventRow) /\ Len(event') = Len(event) /\ DOMAIN event' = DOMAIN event
    BY <2>1, <2>3
  <2> QED
    BY <2>2, <2>3, <2>4 DEF Rewritten
<1> QED
  BY <1>1, <1>2 DEF UpdateNotificationEventStatus

\* The owner deletes, the cleanup worker purges.
LEMMA OwnerInvariant ==
  ASSUME IInv, DeleteShipment \/ Purge
  PROVE  IInv'
<1>1. /\ TypeOK /\ \A w \in Workers : WorkerFine(w)
  BY DEF IInv
<1>2. Rewritten
  BY <1>1, Untouched, PurgeRewrites DEF DeleteShipment
<1>3. Away
  BY DEF DeleteShipment, Purge, Away, Exists
<1>4. Drained
  BY <1>1 DEF DeleteShipment, Purge, Drained, TypeOK
<1>5. /\ handler' = handler /\ delivered' \in [Messages -> 0 .. 2]
      /\ worker' \in [Workers -> WorkerState] /\ reader' \in [Readers -> ReaderState]
  BY <1>1 DEF DeleteShipment, Purge, TypeOK
<1>6. \A w \in Workers : WorkerFine(w)'
  BY <1>1 DEF WorkerFine, DeleteShipment, Purge
<1> QED
  BY <1>2, <1>3, <1>4, <1>5, <1>6, OutsideInvariant

----------------------------------------------------------------------------
(* The mail worker. *)

\* One worker moves; what it is about to mark as sent was mailed.
WorkerMoves(w, s) == worker' = [worker EXCEPT ![w] = s]

\* The others stay as they are.
LEMMA WorkerMoved ==
  ASSUME TypeOK, NEW w \in Workers, NEW s \in WorkerState, WorkerMoves(w, s),
         mailed \subseteq mailed', \A v \in Workers : WorkerFine(v),
         s.pc \in {"sent", "marked"} => s.cur \in mailed'
  PROVE  worker' \in [Workers -> WorkerState] /\ \A v \in Workers : WorkerFine(v)'
<1>1. worker' \in [Workers -> WorkerState]
  BY WorkerFields DEF WorkerMoves
<1>2. ASSUME NEW v \in Workers
      PROVE  WorkerFine(v)'
  <2>1. CASE v = w
    BY <2>1, WorkerFields DEF WorkerFine, WorkerMoves
  <2>2. CASE v # w
    BY <2>2, WorkerFields DEF WorkerFine, WorkerMoves
  <2> QED
    BY <2>1, <2>2
<1> QED
  BY <1>1, <1>2

\* The states a worker moves to have their type.
LEMMA HandledType ==
  ASSUME TypeOK, NEW w \in Workers, NEW m \in Messages \cup {0}
  PROVE  Handled(w, m) \in WorkerState /\ Handled(w, m).pc \in {"poll", "handle"}
BY WorkerFields DEF Handled, WorkerState

\* Nor is anything marked by a worker that has restarted.
LEMMA AtRestType == AtRest \in WorkerState /\ AtRest.pc = "poll"
BY DEF AtRest, WorkerState

\* A worker receives messages, which stay in the queue.
LEMMA ReceiveInvariant ==
  ASSUME IInv, NEW w \in Workers, NEW B \in SUBSET queue, Receive(w, B)
  PROVE  IInv'
<1>1. TypeOK /\ \A v \in Workers : WorkerFine(v)
  BY DEF IInv
<1>2. Rewritten /\ Away /\ Drained /\ mailed \subseteq mailed'
  BY <1>1, Untouched DEF Receive, Away, Drained, TypeOK
<1>3. delivered' \in [Messages -> 0 .. 2]
  <2>1. \A m \in Messages : delivered[m] \in 0 .. 2
    BY <1>1 DEF TypeOK
  <2>2. \A m \in Messages : delivered[m] < 2 => delivered[m] + 1 \in 0 .. 2
    BY <2>1
  <2> QED
    BY <2>1, <2>2 DEF Receive
<1>4. WorkerMoves(w, [worker[w] EXCEPT !.pc = "handle", !.batch = B])
  BY <1>1, WorkerFields DEF Receive, WorkerMoves
<1>5. [worker[w] EXCEPT !.pc = "handle", !.batch = B] \in WorkerState
  BY <1>1, WorkerFields DEF WorkerState, TypeOK
<1>6. [worker[w] EXCEPT !.pc = "handle", !.batch = B].pc = "handle"
  BY <1>1, WorkerFields DEF WorkerState
<1>7. worker' \in [Workers -> WorkerState] /\ \A v \in Workers : WorkerFine(v)'
  BY <1>1, <1>2, <1>4, <1>5, <1>6, WorkerMoved
<1>8. handler' = handler /\ reader' \in [Readers -> ReaderState]
  BY <1>1 DEF Receive, TypeOK
<1> QED
  BY <1>2, <1>3, <1>7, <1>8, OutsideInvariant

\* A message that does not decode leaves the queue, or stays when the delete fails.
LEMMA MalformedInvariant ==
  ASSUME IInv, NEW w \in Workers, NEW m \in Messages, DropMalformed(w, m) \/ KeepMalformed(w, m)
  PROVE  IInv'
<1>1. TypeOK /\ \A v \in Workers : WorkerFine(v)
  BY DEF IInv
<1>2. Rewritten /\ Away /\ Drained /\ mailed \subseteq mailed'
  BY <1>1, Untouched DEF DropMalformed, KeepMalformed, DeleteMessage, Away, Drained, TypeOK
<1>3. WorkerMoves(w, Handled(w, m))
  BY DEF DropMalformed, KeepMalformed, WorkerMoves
<1>4. worker' \in [Workers -> WorkerState] /\ \A v \in Workers : WorkerFine(v)'
  BY <1>1, <1>2, <1>3, HandledType, WorkerMoved
<1>5. /\ handler' = handler /\ reader' \in [Readers -> ReaderState]
      /\ delivered' \in [Messages -> 0 .. 2]
  BY <1>1 DEF DropMalformed, KeepMalformed, TypeOK
<1> QED
  BY <1>2, <1>4, <1>5, OutsideInvariant

\* A mail is sent, or not, or nobody knows.
LEMMA SendInvariant ==
  ASSUME IInv, NEW w \in Workers, NEW m \in Messages, SendEmail(w, m) \/ SendFails(w, m)
  PROVE  IInv'
<1>1. TypeOK /\ \A v \in Workers : WorkerFine(v)
  BY DEF IInv
<1>2. mailed' \in {mailed, mailed \cup {m}}
  BY DEF SendEmail, SendFails
<1>3. Rewritten /\ Away /\ Drained /\ mailed \subseteq mailed'
  BY <1>1, <1>2, Untouched DEF SendEmail, SendFails, Away, Drained, TypeOK
<1>4. \E pc \in {"sent", "unsent"} :
        /\ WorkerMoves(w, [worker[w] EXCEPT !.pc = pc, !.cur = m])
        /\ pc = "sent" => m \in mailed'
  BY <1>1, WorkerFields DEF SendEmail, SendFails, WorkerMoves
<1>5. PICK pc \in {"sent", "unsent"} :
        /\ WorkerMoves(w, [worker[w] EXCEPT !.pc = pc, !.cur = m])
        /\ pc = "sent" => m \in mailed'
  BY <1>4
<1>6. [worker[w] EXCEPT !.pc = pc, !.cur = m] \in WorkerState
  BY <1>1, WorkerFields DEF WorkerState
<1>7. /\ [worker[w] EXCEPT !.pc = pc, !.cur = m].pc = pc
      /\ [worker[w] EXCEPT !.pc = pc, !.cur = m].cur = m
  BY <1>1, WorkerFields DEF WorkerState
<1>8. worker' \in [Workers -> WorkerState] /\ \A v \in Workers : WorkerFine(v)'
  BY <1>1, <1>3, <1>5, <1>6, <1>7, WorkerMoved
<1>9. /\ handler' = handler /\ reader' \in [Readers -> ReaderState]
      /\ delivered' \in [Messages -> 0 .. 2]
  BY <1>1 DEF SendEmail, SendFails, TypeOK
<1> QED
  BY <1>3, <1>8, <1>9, OutsideInvariant

\* The row is marked, or the update fails.
LEMMA MarkInvariant ==
  ASSUME IInv, NEW w \in Workers, MarkNotificationSent(w) \/ MarkNotificationFailed(w)
  PROVE  IInv'
<1>1. TypeOK /\ \A v \in Workers : WorkerFine(v)
  BY DEF IInv
<1>2. worker[w].cur \in Messages \cup {0}
  BY <1>1, WorkerFields
<1>3. Rewritten
  <2>1. CASE MarkNotificationSent(w)
    BY <1>1, <1>2, <2>1, UpdateRewrites DEF MarkNotificationSent, WorkerFine
  <2>2. CASE MarkNotificationFailed(w)
    BY <1>1, <1>2, <2>2, UpdateRewrites DEF MarkNotificationFailed
  <2> QED
    BY <2>1, <2>2
<1>4. Away /\ Drained /\ mailed \subseteq mailed'
  BY <1>1 DEF MarkNotificationSent, MarkNotificationFailed, Away, Drained, TypeOK
<1>5. worker' \in [Workers -> WorkerState] /\ \A v \in Workers : WorkerFine(v)'
  <2>1. CASE MarkNotificationSent(w)
    <3>1. WorkerMoves(w, [worker[w] EXCEPT !.pc = "marked"])
      BY <1>1, <2>1, WorkerFields DEF MarkNotificationSent, WorkerMoves
    <3>2. /\ [worker[w] EXCEPT !.pc = "marked"] \in WorkerState
          /\ [worker[w] EXCEPT !.pc = "marked"].cur = worker[w].cur
      BY <1>1, WorkerFields DEF WorkerState
    <3>3. worker[w].cur \in mailed'
      BY <1>1, <1>4, <2>1 DEF MarkNotificationSent, WorkerFine
    <3> QED
      BY <1>1, <1>4, <3>1, <3>2, <3>3, WorkerMoved
  <2>2. CASE MarkNotificationFailed(w)
    <3>1. WorkerMoves(w, Handled(w, worker[w].cur))
      BY <2>2 DEF MarkNotificationFailed, WorkerMoves
    <3> QED
      BY <1>1, <1>2, <1>4, <3>1, HandledType, WorkerMoved
  <2> QED
    BY <2>1, <2>2
<1>6. /\ handler' = handler /\ reader' \in [Readers -> ReaderState]
      /\ delivered' \in [Messages -> 0 .. 2]
  BY <1>1 DEF MarkNotificationSent, MarkNotificationFailed, TypeOK
<1> QED
  BY <1>3, <1>4, <1>5, <1>6, OutsideInvariant

\* A message is deleted only after its mail was sent.
LEMMA DeleteInvariant ==
  ASSUME IInv, NEW w \in Workers, Delete(w) \/ DeleteFails(w) \/ Restart(w)
  PROVE  IInv'
<1>1. TypeOK /\ \A v \in Workers : WorkerFine(v)
  BY DEF IInv
<1>2. worker[w].cur \in Messages \cup {0}
  BY <1>1, WorkerFields
<1>3. Rewritten /\ Away /\ mailed \subseteq mailed'
  BY <1>1, Untouched DEF Delete, DeleteFails, Restart, Away
<1>4. Drained
  <2>1. CASE Delete(w)
    <3>1. worker[w].cur \in mailed
      BY <1>1, <2>1 DEF Delete, WorkerFine
    <3> QED
      BY <1>1, <2>1, <3>1 DEF Delete, DeleteMessage, Drained, TypeOK
  <2>2. CASE DeleteFails(w) \/ Restart(w)
    BY <1>1, <2>2 DEF DeleteFails, Restart, Drained, TypeOK
  <2> QED
    BY <2>1, <2>2
<1>5. WorkerMoves(w, Handled(w, worker[w].cur)) \/ WorkerMoves(w, AtRest)
  BY DEF Delete, DeleteFails, Restart, WorkerMoves
<1>6. worker' \in [Workers -> WorkerState] /\ \A v \in Workers : WorkerFine(v)'
  BY <1>1, <1>2, <1>3, <1>5, HandledType, AtRestType, WorkerMoved
<1>7. /\ handler' = handler /\ reader' \in [Readers -> ReaderState]
      /\ delivered' \in [Messages -> 0 .. 2]
  BY <1>1 DEF Delete, DeleteFails, Restart, TypeOK
<1> QED
  BY <1>3, <1>4, <1>6, <1>7, OutsideInvariant

\* A worker's step keeps the invariant.
LEMMA WorkerInvariant ==
  ASSUME IInv, NEW w \in Workers, WorkerStep(w)
  PROVE  IInv'
BY ReceiveInvariant, MalformedInvariant, SendInvariant, MarkInvariant, DeleteInvariant
   DEF WorkerStep

----------------------------------------------------------------------------
(* Readers. *)

\* A reader changes its own state only.
LEMMA ReaderTypes ==
  ASSUME TypeOK, NEW v \in Readers, ReaderStep(v)
  PROVE  reader' \in [Readers -> ReaderState]
<1>1. /\ reader \in [Readers -> ReaderState] /\ reader[v] \in ReaderState
      /\ reader[v].seen \subseteq Ids /\ reader[v].offset \in Nat
      /\ reader[v].first \in 0 .. MaxEvents
  BY DEF TypeOK, ReaderState
<1>2. CASE ReadSummary(v)
  <2>1. Cardinality(Rows) \in 0 .. MaxEvents
    BY RowsBounded
  <2>2. [reader[v] EXCEPT !.pc = "summary", !.total = Cardinality(Rows)] \in ReaderState
    BY <1>1, <2>1 DEF ReaderState
  <2>3. reader' = [reader EXCEPT ![v] = [reader[v] EXCEPT !.pc = "summary", !.total = Cardinality(Rows)]]
    BY <1>1, <1>2 DEF ReadSummary
  <2> QED
    BY <1>1, <2>2, <2>3
<1>3. CASE ReadRecipientStats(v)
  <2> DEFINE count == [r \in Recipients |-> Cardinality(RowsOf(r))]
  <2>1. \A r \in Recipients : Cardinality(RowsOf(r)) \in 0 .. MaxEvents
    BY RowsBounded DEF RowsOf
  <2>2. count \in [Recipients -> 0 .. MaxEvents]
    BY <2>1
  <2>3. reader' = [reader EXCEPT ![v].pc = "detail", ![v].count = count]
    BY <1>3 DEF ReadRecipientStats
  <2> HIDE DEF count
  <2>4. [reader[v] EXCEPT !.pc = "detail", !.count = count] \in ReaderState
    BY <1>1, <2>2 DEF ReaderState
  <2>5. reader' = [reader EXCEPT ![v] = [reader[v] EXCEPT !.pc = "detail", !.count = count]]
    BY <1>1, <2>3
  <2> QED
    BY <1>1, <2>4, <2>5
<1>4. CASE ReadPage(v)
  <2> DEFINE first == IF reader[v].offset = 0 THEN Len(event) ELSE reader[v].first
             seen  == reader[v].seen \cup PageOfRows(reader[v].offset)
  <2>1. first \in 0 .. MaxEvents
    <3>1. {} \in SUBSET Rows
      OBVIOUS
    <3> QED
      BY <1>1, <3>1, RowsBounded
  <2>2. seen \subseteq Ids
    <3>1. PageOfRows(reader[v].offset) \in SUBSET Rows
      BY DEF PageOfRows
    <3> QED
      BY <1>1, <3>1, RowsBounded
  <2>3. reader' = [reader EXCEPT ![v].pc = "more", ![v].first = first, ![v].seen = seen]
    BY <1>1, <1>4 DEF ReadPage
  <2> HIDE DEF first, seen
  <2>4. [reader[v] EXCEPT !.pc = "more", !.first = first, !.seen = seen] \in ReaderState
    BY <1>1, <2>1, <2>2 DEF ReaderState
  <2>5. reader' = [reader EXCEPT ![v] = [reader[v] EXCEPT !.pc = "more", !.first = first, !.seen = seen]]
    BY <1>1, <2>3
  <2> QED
    BY <1>1, <2>4, <2>5
<1>5. CASE CountNotificationEvents(v)
  <2>1. reader[v].offset + PageSize \in Nat
    BY <1>1, MailAssumption
  <2>2. PICK pc \in {"page", "walked"} :
          reader' = [reader EXCEPT ![v].offset = reader[v].offset + PageSize, ![v].pc = pc]
    BY <1>1, <1>5 DEF CountNotificationEvents
  <2>3. [reader[v] EXCEPT !.offset = reader[v].offset + PageSize, !.pc = pc] \in ReaderState
    BY <1>1, <2>1 DEF ReaderState
  <2>4. reader' = [reader EXCEPT ![v] = [reader[v] EXCEPT !.offset = reader[v].offset + PageSize, !.pc = pc]]
    BY <1>1, <2>2
  <2> QED
    BY <1>1, <2>3, <2>4
<1>6. CASE GetDetail(v) \/ GetPage(v)
  <2>1. PICK pc \in {"owner", "list"} : reader' = [reader EXCEPT ![v].pc = pc]
    BY <1>6 DEF GetDetail, GetPage
  <2>2. [reader[v] EXCEPT !.pc = pc] \in ReaderState
    BY <1>1 DEF ReaderState
  <2>3. reader' = [reader EXCEPT ![v] = [reader[v] EXCEPT !.pc = pc]]
    BY <1>1, <2>1
  <2> QED
    BY <1>1, <2>2, <2>3
<1> QED
  BY <1>2, <1>3, <1>4, <1>5, <1>6 DEF ReaderStep

\* A reader's step keeps the invariant.
LEMMA ReaderInvariant ==
  ASSUME IInv, NEW v \in Readers, ReaderStep(v)
  PROVE  IInv'
<1>1. TypeOK /\ \A w \in Workers : WorkerFine(w)
  BY DEF IInv
<1>2. /\ event' = event /\ queue' = queue /\ mailed' = mailed /\ shipment' = shipment
      /\ token' = token /\ handler' = handler /\ worker' = worker /\ delivered' = delivered
  BY DEF ReaderStep, GetDetail, ReadSummary, ReadRecipientStats, GetPage, ReadPage,
         CountNotificationEvents
<1>3. Rewritten /\ Away /\ Drained
  BY <1>1, <1>2, Untouched DEF Away, Drained, TypeOK
<1>4. /\ worker' \in [Workers -> WorkerState] /\ delivered' \in [Messages -> 0 .. 2]
      /\ \A w \in Workers : WorkerFine(w)'
  BY <1>1, <1>2 DEF TypeOK, WorkerFine
<1>5. reader' \in [Readers -> ReaderState]
  BY <1>1, ReaderTypes
<1> QED
  BY <1>2, <1>3, <1>4, <1>5, OutsideInvariant

----------------------------------------------------------------------------
(* The invariant. *)

\* The invariant holds before anything was sent.
LEMMA InitInvariant ==
  ASSUME Init
  PROVE  IInv
<1>1. TypeOK
  <2>1. PICK r \in Recipients : handler = [h \in Handlers |-> Idle(r)]
    BY DEF Init
  <2>2. Idle(r) \in HandlerState
    BY MaxEventsType DEF Idle, HandlerState
  <2>3. Unread \in ReaderState
    BY MaxEventsType DEF Unread, ReaderState
  <2>4. event \in Seq(EventRow) /\ Len(event) <= MaxEvents
    BY MaxEventsType DEF Init
  <2>5. handler \in [Handlers -> HandlerState]
    BY <2>1, <2>2
  <2>6. worker \in [Workers -> WorkerState]
    BY AtRestType DEF Init
  <2>7. reader \in [Readers -> ReaderState]
    BY <2>3 DEF Init
  <2>8. /\ shipment \in {"uploading", "sent", "deleted", "purged"}
        /\ token \subseteq Handlers \X Recipients
        /\ queue \subseteq Messages /\ mailed \subseteq Messages
        /\ delivered \in [Messages -> 0 .. 2]
    BY DEF Init, Messages
  <2> QED
    BY <2>4, <2>5, <2>6, <2>7, <2>8 DEF TypeOK
<1>2. DOMAIN event = {}
  BY DEF Init
<1>3. \A h \in Handlers : HandlerFine(h)
  BY DEF Init, Idle, HandlerFine
<1>4. \A w \in Workers : WorkerFine(w)
  BY DEF Init, AtRest, WorkerFine
<1>5. InvitationsKept
  BY DEF Init, InvitationsKept
<1> QED
  BY <1>1, <1>2, <1>3, <1>4, <1>5 DEF IInv, OneEventEach

\* A step that changes nothing keeps it.
LEMMA StutterInvariant ==
  ASSUME IInv, UNCHANGED vars
  PROVE  IInv'
BY DEF IInv, vars, TypeOK, EventFine, HandlerFine, WorkerFine, OneEventEach, InvitationsKept, Exists,
       Rows

\* The invariant holds in every state of every behaviour.
THEOREM Invariance == Spec => []IInv
<1>1. Init => IInv
  BY InitInvariant
<1>2. IInv /\ [Next]_vars => IInv'
  BY HandlerInvariant, OwnerInvariant, WorkerInvariant, ReaderInvariant, StutterInvariant DEF Next
<1> QED
  BY <1>1, <1>2, PTL DEF Spec

\* Rows, messages and local states keep their types; there are never more rows than
\* handlers times recipients.
THEOREM TypeCorrect == Spec => []TypeOK
<1>1. IInv => TypeOK
  BY DEF IInv
<1> QED
  BY <1>1, Invariance, PTL

\* What the owner is told was sent was mailed.
THEOREM SentCorrect == Spec => []SentWasMailed
<1>1. IInv => SentWasMailed
  BY DEF IInv, EventFine, SentWasMailed
<1> QED
  BY <1>1, Invariance, PTL

\* A notification is lost only by a handler that fails.
THEOREM NothingIsLost == Spec => []NothingLost
<1>1. IInv => NothingLost
  BY DEF IInv, EventFine, InvitationsKept, NothingLost
<1> QED
  BY <1>1, Invariance, PTL

\* Every mail leaves with a token that is known.
THEOREM TokensKnown == Spec => []MailCarriesToken
<1>1. IInv => MailCarriesToken
  BY DEF IInv, EventFine, MailCarriesToken
<1> QED
  BY <1>1, Invariance, PTL

----------------------------------------------------------------------------
(* What is received once is marked once. *)

HoldersOf(m) == {w \in Workers : m \in worker[w].batch}

\* A worker works on what it holds.
CurFine(w) ==
  /\ worker[w].pc = "poll" => worker[w].batch = {}
  /\ worker[w].pc \in {"sent", "unsent", "marked"} => worker[w].cur \in worker[w].batch

\* Until a message is received nobody holds it and its row is not sent; until it is received
\* again it has one holder, which is through with the row once it has marked it as sent.
OnceFine(m) ==
  /\ delivered[m] = 0 => HoldersOf(m) = {} /\ (m \in DOMAIN event => ~event[m].sentAt)
  /\ delivered[m] = 1 =>
       /\ \A v, w \in HoldersOf(m) : v = w
       /\ m \in DOMAIN event =>
            /\ ~(event[m].status = "failed" /\ event[m].sentAt)
            /\ event[m].sentAt =>
                 \A w \in HoldersOf(m) : worker[w].pc = "marked" /\ worker[w].cur = m

OnceInv == (\A w \in Workers : CurFine(w)) /\ (\A m \in Messages : OnceFine(m))

\* What a step leaves of a message: no new holder, none that was through begins again, and a
\* row that is gone, unsent or as it was.
CalmOf(m) ==
  /\ delivered'[m] = delivered[m]
  /\ HoldersOf(m)' \subseteq HoldersOf(m)
  /\ \A w \in HoldersOf(m)' : worker[w].pc = "marked" /\ worker[w].cur = m =>
                              worker'[w].pc = "marked" /\ worker'[w].cur = m
  /\ m \in DOMAIN event' =>
       \/ ~event'[m].sentAt
       \/ /\ m \in DOMAIN event /\ event'[m].sentAt = event[m].sentAt
          /\ event'[m].status \in {event[m].status, "none"}

LEMMA CalmFine ==
  ASSUME NEW m \in Messages, OnceFine(m), CalmOf(m)
  PROVE  OnceFine(m)'
<1>1. CASE delivered[m] = 0
  BY <1>1 DEF OnceFine, CalmOf
<1>2. CASE delivered[m] = 1
  <2>1. \A v, w \in HoldersOf(m)' : v = w
    BY <1>2 DEF OnceFine, CalmOf
  <2>2. ASSUME m \in DOMAIN event', event'[m].sentAt
        PROVE  /\ event'[m].status # "failed"
               /\ \A w \in HoldersOf(m)' : worker'[w].pc = "marked" /\ worker'[w].cur = m
    <3>1. /\ m \in DOMAIN event /\ event'[m].sentAt = event[m].sentAt
          /\ event'[m].status \in {event[m].status, "none"}
      BY <2>2 DEF CalmOf
    <3>2. /\ event[m].status # "failed"
          /\ \A w \in HoldersOf(m) : worker[w].pc = "marked" /\ worker[w].cur = m
      BY <1>2, <2>2, <3>1 DEF OnceFine
    <3> QED
      BY <3>1, <3>2 DEF CalmOf
  <2>3. delivered'[m] = 1
    BY <1>2 DEF CalmOf
  <2> QED
    BY <2>1, <2>2, <2>3 DEF OnceFine
<1>3. CASE delivered[m] \notin {0, 1}
  BY <1>3 DEF OnceFine, CalmOf
<1> QED
  BY <1>1, <1>2, <1>3

\* Nobody but a worker receives or marks.
LEMMA RestingOnce ==
  ASSUME TypeOK, OnceInv, worker' = worker, delivered' = delivered,
         \A i \in DOMAIN event' :
           \/ ~event'[i].sentAt
           \/ /\ i \in DOMAIN event /\ event'[i].sentAt = event[i].sentAt
              /\ event'[i].status \in {event[i].status, "none"}
  PROVE  OnceInv'
<1>1. \A w \in Workers : CurFine(w)'
  BY DEF OnceInv, CurFine
<1>2. ASSUME NEW m \in Messages
      PROVE  OnceFine(m)'
  <2>1. CalmOf(m)
    BY DEF CalmOf, HoldersOf
  <2> QED
    BY <2>1, CalmFine DEF OnceInv
<1> QED
  BY <1>1, <1>2 DEF OnceInv

LEMMA SameRows ==
  ASSUME event' = event, NEW i \in DOMAIN event'
  PROVE  /\ i \in DOMAIN event /\ event'[i].sentAt = event[i].sentAt
         /\ event'[i].status \in {event[i].status, "none"}
OBVIOUS

LEMMA HandlerOnce ==
  ASSUME TypeOK, OnceInv, NEW h \in Handlers, HandlerStep(h)
  PROVE  OnceInv'
<1>1. worker' = worker /\ delivered' = delivered
  BY DEF HandlerStep, Finalize, ReadShipment, ResolveResendTargets, CreateAccessToken, InsertEvent,
         Enqueue, EnqueueUnanswered, GiveUp
<1>2. CASE event' = event
  BY <1>1, <1>2, RestingOnce, SameRows
<1>3. ASSUME NEW r \in Recipients, InsertEvent(h, r)
      PROVE  OnceInv'
  <2>1. CreateNotificationEvent(h, r)
    BY <1>3 DEF InsertEvent
  <2> DEFINE n == Len(event) + 1
  <2>5. /\ Len(event) \in Nat /\ DOMAIN event = 1 .. Len(event) /\ DOMAIN event' = 1 .. n
        /\ \A i \in DOMAIN event : event'[i] = event[i]
        /\ event'[n] = [by |-> h, rcpt |-> r, status |-> "queued",
                        sentAt |-> FALSE, failedAt |-> FALSE]
    BY <2>1, InsertedRow
  <2>2. /\ DOMAIN event' = DOMAIN event \cup {n}
        /\ \A i \in DOMAIN event : event'[i] = event[i]
        /\ ~event'[n].sentAt
    BY <2>5
  <2> HIDE DEF n
  <2>3. ASSUME NEW i \in DOMAIN event'
        PROVE  ~event'[i].sentAt \/ (i \in DOMAIN event /\ event'[i] = event[i])
    BY <2>2
  <2> QED
    BY <1>1, <2>3, RestingOnce
<1> QED
  BY <1>2, <1>3 DEF HandlerStep, Finalize, ReadShipment, ResolveResendTargets, CreateAccessToken,
                    Enqueue, EnqueueUnanswered, GiveUp

LEMMA OwnerOnce ==
  ASSUME TypeOK, OnceInv, DeleteShipment \/ Purge
  PROVE  OnceInv'
<1>1. worker' = worker /\ delivered' = delivered
  BY DEF DeleteShipment, Purge
<1>2. CASE DeleteShipment
  BY <1>1, <1>2, RestingOnce, SameRows DEF DeleteShipment
<1>3. CASE Purge
  <2>1. ASSUME NEW i \in DOMAIN event'
        PROVE  i \in DOMAIN event /\ event'[i].sentAt = event[i].sentAt /\ event'[i].status = "none"
    <3>1. i \in DOMAIN event /\ event'[i] = [event[i] EXCEPT !.status = "none"]
      BY <1>3 DEF Purge
    <3>2. event[i] \in EventRow
      BY <3>1, EventFields
    <3> QED
      BY <3>1, <3>2 DEF EventRow
  <2> QED
    BY <1>1, <2>1, RestingOnce
<1> QED
  BY <1>2, <1>3

LEMMA ReaderOnce ==
  ASSUME TypeOK, OnceInv, NEW v \in Readers, ReaderStep(v)
  PROVE  OnceInv'
<1>1. worker' = worker /\ delivered' = delivered /\ event' = event
  BY DEF ReaderStep, GetDetail, ReadSummary, ReadRecipientStats, GetPage, ReadPage,
         CountNotificationEvents
<1> QED
  BY <1>1, RestingOnce, SameRows

\* What an update does to the row of its message, and nothing to the others.
LEMMA UpdatedRows ==
  ASSUME TypeOK, NEW m \in Messages \cup {0}, NEW st \in {"sent", "failed"},
         UpdateNotificationEventStatus(m, st) \/ UNCHANGED event
  PROVE  /\ DOMAIN event' = DOMAIN event
         /\ \A i \in DOMAIN event : i # m => event'[i] = event[i]
         /\ m \in DOMAIN event =>
              \/ event'[m] = event[m]
              \/ /\ event'[m].status = st /\ (event'[m].sentAt <=> event[m].sentAt \/ st = "sent")
                 /\ event[m].status # "none"
<1>1. CASE event' = event
  BY <1>1
<1>2. CASE m \in DOMAIN event /\ event' = [event EXCEPT ![m] = Overwritten(event[m], st)]
  <2>1. event[m] \in EventRow
    BY <1>2 DEF TypeOK
  <2> DEFINE row == Overwritten(event[m], st)
  <2>2. \/ row = event[m]
        \/ /\ row.status = st /\ (row.sentAt <=> event[m].sentAt \/ st = "sent")
           /\ event[m].status # "none"
    BY <2>1 DEF Overwritten, EventRow
  <2> HIDE DEF row
  <2>3. /\ DOMAIN event' = DOMAIN event /\ event'[m] = row
        /\ \A i \in DOMAIN event : i # m => event'[i] = event[i]
    BY <1>2 DEF row
  <2> QED
    BY <2>2, <2>3
<1> QED
  BY <1>1, <1>2 DEF UpdateNotificationEventStatus

\* Worker w goes on to state s, without receiving anything.
LEMMA MovedOnce ==
  ASSUME TypeOK, OnceInv, NEW w \in Workers, NEW s \in WorkerState, WorkerMoves(w, s),
         delivered' = delivered, DOMAIN event' = DOMAIN event,
         s.pc = "poll" => s.batch = {},
         s.pc \in {"sent", "unsent", "marked"} => s.cur \in s.batch,
         s.batch \subseteq worker[w].batch,
         \A m \in s.batch : worker[w].pc = "marked" /\ worker[w].cur = m => s.pc = "marked" /\ s.cur = m,
         \A m \in Messages : OnceFine(m)' \/ (m \in DOMAIN event => event'[m] = event[m])
  PROVE  OnceInv'
<1>1. /\ worker'[w] = s /\ \A v \in Workers : v # w => worker'[v] = worker[v]
  BY WorkerFields DEF WorkerMoves
<1>2. \A v \in Workers : CurFine(v)'
  BY <1>1 DEF OnceInv, CurFine
<1>3. ASSUME NEW m \in Messages, m \in DOMAIN event => event'[m] = event[m]
      PROVE  OnceFine(m)'
  <2>1. HoldersOf(m)' \subseteq HoldersOf(m)
    BY <1>1 DEF HoldersOf
  <2>2. \A v \in HoldersOf(m)' : worker[v].pc = "marked" /\ worker[v].cur = m =>
                                 worker'[v].pc = "marked" /\ worker'[v].cur = m
    BY <1>1 DEF HoldersOf
  <2>3. m \in DOMAIN event' => m \in DOMAIN event /\ event'[m] = event[m]
    BY <1>3
  <2>4. CalmOf(m)
    BY <2>1, <2>2, <2>3 DEF CalmOf
  <2> QED
    BY <2>4, CalmFine DEF OnceInv
<1> QED
  BY <1>2, <1>3 DEF OnceInv

\* Worker w is through with its message: it goes on with the others, or to the queue.
LEMMA HandledBatch ==
  ASSUME TypeOK, NEW w \in Workers, NEW m \in Messages \cup {0}
  PROVE  /\ Handled(w, m) \in WorkerState
         /\ Handled(w, m).batch = worker[w].batch \ {m}
         /\ Handled(w, m).pc \in {"poll", "handle"}
         /\ m \in worker[w].batch /\ Handled(w, m).pc = "poll" => Handled(w, m).batch = {}
BY HandledType DEF Handled

\* A worker drops a message, sends its mail, or fails to.
LEMMA SendOnce ==
  ASSUME TypeOK, OnceInv, NEW w \in Workers, NEW m \in Messages,
         DropMalformed(w, m) \/ KeepMalformed(w, m) \/ SendEmail(w, m) \/ SendFails(w, m)
  PROVE  OnceInv'
<1>1. /\ worker[w].pc = "handle" /\ m \in worker[w].batch
      /\ delivered' = delivered /\ event' = event
  BY DEF DropMalformed, KeepMalformed, SendEmail, SendFails
<1>2. CASE WorkerMoves(w, Handled(w, m))
  <2>1. /\ Handled(w, m) \in WorkerState /\ Handled(w, m).batch \subseteq worker[w].batch
        /\ Handled(w, m).pc \in {"poll", "handle"}
        /\ Handled(w, m).pc = "poll" => Handled(w, m).batch = {}
    BY <1>1, HandledBatch
  <2> QED
    BY <1>1, <1>2, <2>1, MovedOnce
<1>3. ASSUME NEW pc \in {"sent", "unsent"}, WorkerMoves(w, [worker[w] EXCEPT !.pc = pc, !.cur = m])
      PROVE  OnceInv'
  <2> DEFINE s == [worker[w] EXCEPT !.pc = pc, !.cur = m]
  <2>1. s \in WorkerState /\ s.pc = pc /\ s.cur = m /\ s.batch = worker[w].batch
    BY WorkerFields DEF WorkerState
  <2>2. WorkerMoves(w, s)
    BY <1>3
  <2> HIDE DEF s
  <2> QED
    BY <1>1, <2>1, <2>2, MovedOnce
<1>4. \/ WorkerMoves(w, Handled(w, m))
      \/ \E pc \in {"sent", "unsent"} : WorkerMoves(w, [worker[w] EXCEPT !.pc = pc, !.cur = m])
  BY WorkerFields DEF DropMalformed, KeepMalformed, SendEmail, SendFails, WorkerMoves
<1> QED
  BY <1>2, <1>3, <1>4

\* The message a worker has at hand is one it holds, and has been received.
LEMMA AtHand ==
  ASSUME TypeOK, OnceInv, NEW w \in Workers, worker[w].pc \in {"sent", "unsent", "marked"}
  PROVE  /\ worker[w].cur \in Messages /\ w \in HoldersOf(worker[w].cur)
         /\ worker[w].cur \in worker[w].batch
         /\ delivered[worker[w].cur] \in {1, 2}
<1>1. worker[w].cur \in worker[w].batch /\ worker[w].batch \subseteq Messages
  BY WorkerFields DEF OnceInv, CurFine
<1>2. w \in HoldersOf(worker[w].cur) /\ worker[w].cur \in Messages
  BY <1>1 DEF HoldersOf
<1>3. delivered[worker[w].cur] # 0
  BY <1>2 DEF OnceInv, OnceFine
<1>4. delivered[worker[w].cur] \in 0 .. 2
  BY <1>2 DEF TypeOK
<1> QED
  BY <1>1, <1>2, <1>3, <1>4

\* A row that is marked as sent by the only holder of its message: the holder is through.
LEMMA MarkSentOnce ==
  ASSUME TypeOK, OnceInv, NEW w \in Workers, MarkNotificationSent(w)
  PROVE  OnceInv'
<1> DEFINE s == [worker[w] EXCEPT !.pc = "marked"]
<1>1. /\ worker[w].pc = "sent" /\ delivered' = delivered /\ worker' = [worker EXCEPT ![w].pc = "marked"]
      /\ UpdateNotificationEventStatus(worker[w].cur, "sent") \/ UNCHANGED event
  BY DEF MarkNotificationSent
<1>2. PICK c \in Messages : c = worker[w].cur
  BY <1>1, AtHand
<1>3. c \in worker[w].batch /\ w \in HoldersOf(c) /\ delivered[c] \in {1, 2}
  BY <1>1, <1>2, AtHand
<1>4. s \in WorkerState /\ s.pc = "marked" /\ s.cur = c /\ s.batch = worker[w].batch
  BY <1>2, WorkerFields DEF WorkerState
<1>5. WorkerMoves(w, s)
  BY <1>1, WorkerFields DEF WorkerMoves
<1> HIDE DEF s
<1>6. /\ worker'[w] = s /\ \A v \in Workers : v # w => worker'[v] = worker[v]
  BY <1>5, WorkerFields DEF WorkerMoves
<1>7. /\ DOMAIN event' = DOMAIN event
      /\ \A i \in DOMAIN event : i # c => event'[i] = event[i]
      /\ c \in DOMAIN event => event'[c] = event[c] \/ event'[c].status = "sent"
  <2>1. UpdateNotificationEventStatus(c, "sent") \/ UNCHANGED event
    BY <1>1, <1>2
  <2> QED
    BY <2>1, UpdatedRows
<1>8. OnceFine(c)'
  <2>1. CASE delivered[c] = 1
    <3>1. \A v \in HoldersOf(c)' : v = w
      BY <1>3, <1>4, <1>6, <2>1 DEF HoldersOf, OnceInv, OnceFine
    <3>2. c \in DOMAIN event' => event'[c].status # "failed" \/ ~event'[c].sentAt
      BY <1>7, <2>1 DEF OnceInv, OnceFine
    <3>3. \A v \in HoldersOf(c)' : worker'[v].pc = "marked" /\ worker'[v].cur = c
      BY <1>4, <1>6, <3>1
    <3>4. delivered'[c] = 1
      BY <1>1, <2>1
    <3> QED
      BY <3>1, <3>2, <3>3, <3>4 DEF OnceFine
  <2>2. CASE delivered[c] = 2
    BY <1>1, <2>2 DEF OnceFine
  <2> QED
    BY <1>3, <2>1, <2>2
<1>9. \A m \in Messages : OnceFine(m)' \/ (m \in DOMAIN event => event'[m] = event[m])
  BY <1>7, <1>8
<1> QED
  BY <1>1, <1>3, <1>4, <1>5, <1>7, <1>9, MovedOnce

\* A row that is marked as failed by the only holder of its message was not sent before.
LEMMA MarkFailedOnce ==
  ASSUME TypeOK, OnceInv, NEW w \in Workers, MarkNotificationFailed(w)
  PROVE  OnceInv'
<1> DEFINE s == Handled(w, worker[w].cur)
<1>1. /\ worker[w].pc = "unsent" /\ delivered' = delivered /\ WorkerMoves(w, s)
      /\ UpdateNotificationEventStatus(worker[w].cur, "failed") \/ UNCHANGED event
  BY DEF MarkNotificationFailed, WorkerMoves
<1>2. PICK c \in Messages : c = worker[w].cur
  BY <1>1, AtHand
<1>3. c \in worker[w].batch /\ w \in HoldersOf(c) /\ delivered[c] \in {1, 2}
  BY <1>1, <1>2, AtHand
<1>4. /\ s \in WorkerState /\ s.batch = worker[w].batch \ {c} /\ s.pc \in {"poll", "handle"}
      /\ s.pc = "poll" => s.batch = {}
  BY <1>2, <1>3, HandledBatch
<1> HIDE DEF s
<1>5. /\ worker'[w] = s /\ \A v \in Workers : v # w => worker'[v] = worker[v]
  BY <1>1, WorkerFields DEF WorkerMoves
<1>6. /\ DOMAIN event' = DOMAIN event
      /\ \A i \in DOMAIN event : i # c => event'[i] = event[i]
      /\ c \in DOMAIN event =>
           event'[c] = event[c] \/ (event'[c].sentAt <=> event[c].sentAt)
  <2>1. UpdateNotificationEventStatus(c, "failed") \/ UNCHANGED event
    BY <1>1, <1>2
  <2> QED
    BY <2>1, UpdatedRows
<1>7. OnceFine(c)'
  <2>1. CASE delivered[c] = 1
    <3>1. \A v \in HoldersOf(c) : v = w
      BY <1>3, <2>1 DEF OnceInv, OnceFine
    <3>2. HoldersOf(c)' = {}
      BY <1>4, <1>5, <3>1 DEF HoldersOf
    <3>3. c \in DOMAIN event => ~event[c].sentAt
      BY <1>1, <1>3, <2>1 DEF OnceInv, OnceFine
    <3>4. c \in DOMAIN event' => ~event'[c].sentAt
      BY <1>6, <3>3
    <3> QED
      BY <1>1, <2>1, <3>2, <3>4 DEF OnceFine
  <2>2. CASE delivered[c] = 2
    BY <1>1, <2>2 DEF OnceFine
  <2> QED
    BY <1>3, <2>1, <2>2
<1>8. \A m \in Messages : OnceFine(m)' \/ (m \in DOMAIN event => event'[m] = event[m])
  BY <1>6, <1>7
<1> QED
  BY <1>1, <1>4, <1>6, <1>8, MovedOnce
\* A message is deleted or not; its worker goes on, or starts again.
LEMMA DeleteOnce ==
  ASSUME TypeOK, OnceInv, NEW w \in Workers, Delete(w) \/ DeleteFails(w) \/ Restart(w)
  PROVE  OnceInv'
<1>1. delivered' = delivered /\ event' = event
  BY DEF Delete, DeleteFails, Restart
<1>2. CASE Delete(w) \/ DeleteFails(w)
  <2> DEFINE s == Handled(w, worker[w].cur)
  <2>1. worker[w].pc = "marked" /\ WorkerMoves(w, s)
    BY <1>2 DEF Delete, DeleteFails, WorkerMoves
  <2>2. worker[w].cur \in worker[w].batch /\ worker[w].cur \in Messages
    BY <2>1, AtHand
  <2>3. /\ s \in WorkerState /\ s.batch = worker[w].batch \ {worker[w].cur}
        /\ s.pc \in {"poll", "handle"}
        /\ s.pc = "poll" => s.batch = {}
    BY <2>2, HandledBatch
  <2> HIDE DEF s
  <2>4. s.batch \subseteq worker[w].batch /\ \A m \in s.batch : worker[w].cur # m
    BY <2>3
  <2> QED
    BY <1>1, <2>1, <2>3, <2>4, MovedOnce
<1>3. CASE Restart(w)
  <2>1. WorkerMoves(w, AtRest)
    BY <1>3 DEF Restart, WorkerMoves
  <2>2. AtRest \in WorkerState /\ AtRest.pc = "poll" /\ AtRest.batch = {}
    BY AtRestType DEF AtRest
  <2> QED
    BY <1>1, <2>1, <2>2, MovedOnce
<1> QED
  BY <1>2, <1>3

\* A worker that polls holds nothing: what it receives for the first time it holds alone.
LEMMA ReceiveOnce ==
  ASSUME TypeOK, OnceInv, NEW w \in Workers, NEW B \in SUBSET queue, Receive(w, B)
  PROVE  OnceInv'
<1> DEFINE s == [worker[w] EXCEPT !.pc = "handle", !.batch = B]
<1>1. /\ worker[w].pc = "poll" /\ worker' = [worker EXCEPT ![w].pc = "handle", ![w].batch = B]
      /\ event' = event
      /\ \A m \in Messages : delivered'[m] = IF m \in B /\ delivered[m] < 2 THEN delivered[m] + 1
                                             ELSE delivered[m]
  BY DEF Receive
<1>2. s.pc = "handle" /\ s.batch = B
  BY WorkerFields DEF WorkerState
<1>3. /\ worker'[w] = s /\ \A v \in Workers : v # w => worker'[v] = worker[v]
  BY <1>1, WorkerFields
<1> HIDE DEF s
<1>4. \A v \in Workers : CurFine(v)'
  BY <1>2, <1>3 DEF OnceInv, CurFine
<1>5. worker[w].batch = {}
  BY <1>1 DEF OnceInv, CurFine
<1>6. ASSUME NEW m \in Messages
      PROVE  OnceFine(m)'
  <2>1. OnceFine(m) /\ delivered[m] \in {0, 1, 2}
    BY DEF TypeOK, OnceInv
  <2>2. CASE m \notin B
    <3>1. HoldersOf(m)' = HoldersOf(m) /\ w \notin HoldersOf(m)
      BY <1>2, <1>3, <1>5, <2>2 DEF HoldersOf
    <3>2. \A v \in HoldersOf(m)' : worker'[v] = worker[v]
      BY <1>3, <3>1 DEF HoldersOf
    <3>3. delivered'[m] = delivered[m]
      BY <1>1, <2>2
    <3>4. CalmOf(m)
      BY <1>1, <3>1, <3>2, <3>3 DEF CalmOf
    <3> QED
      BY <2>1, <3>4, CalmFine
  <2>3. CASE m \in B /\ delivered[m] = 0
    <3>1. HoldersOf(m) = {} /\ (m \in DOMAIN event => ~event[m].sentAt)
      BY <2>1, <2>3 DEF OnceFine
    <3>2. \A v \in HoldersOf(m)' : v = w
      BY <1>3, <3>1 DEF HoldersOf
    <3>3. delivered'[m] = 1
      BY <1>1, <2>3
    <3>4. m \in DOMAIN event' => ~event'[m].sentAt
      BY <1>1, <3>1
    <3> QED
      BY <3>2, <3>3, <3>4 DEF OnceFine
  <2>4. CASE m \in B /\ delivered[m] \in {1, 2}
    <3>1. delivered'[m] = 2
      BY <1>1, <2>4
    <3> QED
      BY <3>1 DEF OnceFine
  <2> QED
    BY <2>1, <2>2, <2>3, <2>4
<1> QED
  BY <1>4, <1>6 DEF OnceInv

\* A worker's step.
LEMMA WorkerOnce ==
  ASSUME TypeOK, OnceInv, NEW w \in Workers, WorkerStep(w)
  PROVE  OnceInv'
<1>1. CASE \E B \in SUBSET queue : Receive(w, B)
  BY <1>1, ReceiveOnce
<1>2. CASE \E m \in Messages : DropMalformed(w, m) \/ KeepMalformed(w, m)
                               \/ SendEmail(w, m) \/ SendFails(w, m)
  BY <1>2, SendOnce
<1>3. CASE MarkNotificationSent(w) \/ MarkNotificationFailed(w)
  BY <1>3, MarkSentOnce, MarkFailedOnce
<1>4. CASE Delete(w) \/ DeleteFails(w) \/ Restart(w)
  BY <1>4, DeleteOnce
<1> QED
  BY <1>1, <1>2, <1>3, <1>4 DEF WorkerStep

\* Nothing was received yet.
LEMMA InitOnce ==
  ASSUME Init
  PROVE  OnceInv
<1>1. DOMAIN event = {} /\ \A w \in Workers : worker[w] = AtRest
  BY DEF Init
<1>2. \A m \in Messages : delivered[m] = 0
  BY DEF Init
<1>3. \A w \in Workers : CurFine(w)
  BY <1>1 DEF CurFine, AtRest
<1>4. \A m \in Messages : OnceFine(m)
  BY <1>1, <1>2 DEF OnceFine, HoldersOf, AtRest
<1> QED
  BY <1>3, <1>4 DEF OnceInv

\* A row says failed after it said sent only because its message was received twice.
THEOREM RedeliveryCorrect == Spec => []FailedAfterSentOnlyByRedelivery
<1>1. Init => OnceInv
  BY InitOnce
<1>2. TypeOK /\ OnceInv /\ [Next]_vars => OnceInv'
  <2> SUFFICES ASSUME TypeOK, OnceInv, [Next]_vars
               PROVE  OnceInv'
    OBVIOUS
  <2>1. CASE Next
    BY <2>1, HandlerOnce, OwnerOnce, WorkerOnce, ReaderOnce DEF Next
  <2>2. CASE UNCHANGED vars
    BY <2>2, RestingOnce, SameRows DEF vars
  <2> QED
    BY <2>1, <2>2
<1>3. TypeOK /\ OnceInv => FailedAfterSentOnlyByRedelivery
  <2> SUFFICES ASSUME TypeOK, OnceInv, NEW i \in DOMAIN event,
                      event[i].status = "failed", event[i].sentAt
               PROVE  delivered[i] = 2
    BY DEF FailedAfterSentOnlyByRedelivery
  <2>1. i \in Messages
    BY EventFields
  <2>2. delivered[i] \in {0, 1, 2} /\ OnceFine(i)
    BY <2>1 DEF TypeOK, OnceInv
  <2> QED
    BY <2>2 DEF OnceFine
<1> QED
  BY <1>1, <1>2, <1>3, TypeCorrect, PTL DEF Spec

----------------------------------------------------------------------------
(* What a walk through the pages has seen. *)

\* The rows are there as long as the shipment is.
RowsStay == \A i \in DOMAIN event : event[i].status # "none" <=> Exists

\* How many of the newest rows the pages shown so far reached, counted from the newest row
\* there is now: rows inserted since only add to them.
Passed(v) == IF reader[v].pc = "more" THEN reader[v].offset + PageSize ELSE reader[v].offset

\* Of the rows that were there at the first page those were seen that are now among as many
\* newest rows as were passed, and all of them once the total is reached.
WalkFine(v) ==
  /\ reader[v].pc = "idle" => reader[v].first = 0
  /\ reader[v].pc \in {"list", "page", "more", "walked"} => reader[v].first <= Len(event)
  /\ Exists /\ reader[v].pc \in {"list", "page", "more"} =>
       \A i \in 1 .. reader[v].first : Len(event) - i < Passed(v) => i \in reader[v].seen
  /\ Exists /\ reader[v].pc = "walked" => 1 .. reader[v].first \subseteq reader[v].seen

WInv == RowsStay /\ \A v \in Readers : WalkFine(v)

\* The numbers above i.
LEMMA NumbersAbove ==
  ASSUME NEW n \in Nat, NEW i \in 1 .. n
  PROVE  Cardinality({j \in 1 .. n : j > i}) = n - i
<1>1. {j \in 1 .. n : j > i} = (i + 1) .. n
  OBVIOUS
<1>2. Cardinality((i + 1) .. n) = n - i
  BY FS_Interval
<1> QED
  BY <1>1, <1>2

\* How many rows there are, and how many are newer than a row.
LEMMA NewerRows ==
  ASSUME TypeOK, RowsStay, Exists
  PROVE  /\ Rows = DOMAIN event /\ DOMAIN event = 1 .. Len(event) /\ Len(event) \in Nat
         /\ Cardinality(Rows) = Len(event)
         /\ \A i \in Rows : Cardinality({j \in Rows : j > i}) = Len(event) - i
<1>1. Len(event) \in Nat /\ DOMAIN event = 1 .. Len(event)
  BY DEF TypeOK
<1>2. Rows = DOMAIN event
  BY DEF Rows, RowsStay
<1>3. PICK n \in Nat : n = Len(event)
  BY <1>1
<1>4. Rows = 1 .. n
  BY <1>1, <1>2, <1>3
<1>5. Cardinality(Rows) = n
  BY <1>4, FirstNumbers
<1>6. \A i \in Rows : Cardinality({j \in Rows : j > i}) = n - i
  BY <1>4, NumbersAbove
<1> QED
  BY <1>1, <1>2, <1>3, <1>5, <1>6

\* The fields of a reader have their types.
LEMMA ReaderFields ==
  ASSUME TypeOK, NEW v \in Readers
  PROVE  /\ reader \in [Readers -> ReaderState] /\ reader[v] \in ReaderState
         /\ reader[v].first \in Nat /\ reader[v].total \in Nat /\ reader[v].offset \in Nat
         /\ reader[v].seen \subseteq Ids
         /\ reader[v].count \in [Recipients -> Nat]
         /\ PageSize \in Nat /\ PageSize > 0 /\ Len(event) \in Nat
BY MaxEventsType, MailAssumption DEF TypeOK, ReaderState

\* What readers notice of all the others.
RowsGrow ==
  /\ reader' = reader /\ RowsStay'
  /\ Exists' => Exists
  /\ Len(event') \in Nat /\ Len(event) <= Len(event')

\* Rows that are inserted or marked while nobody turns a page.
LEMMA WalkStays ==
  ASSUME TypeOK, WInv, RowsGrow
  PROVE  WInv'
<1> USE DEF RowsGrow
<1>1. ASSUME NEW v \in Readers
      PROVE  WalkFine(v)'
  <2>1. /\ reader[v].first \in Nat /\ reader[v].offset \in Nat
        /\ PageSize \in Nat /\ Len(event) \in Nat
    BY ReaderFields
  <2>2. WalkFine(v)
    BY DEF WInv
  <2>3. Passed(v)' = Passed(v) /\ Passed(v) \in Nat
    BY <2>1 DEF Passed
  <2>4. ASSUME NEW i \in 1 .. reader[v].first, Len(event') - i < Passed(v)
        PROVE  Len(event) - i < Passed(v)
    BY <2>1, <2>3, <2>4
  <2>5. reader[v].first <= Len(event) => reader[v].first <= Len(event')
    BY <2>1
  <2> QED
    BY <2>2, <2>3, <2>4, <2>5 DEF WalkFine
<1> QED
  BY <1>1 DEF WInv

\* Every other step lets the rows be, or there is no shipment any more.
LEMMA Outside ==
  ASSUME TypeOK, RowsStay, [(\E h \in Handlers : HandlerStep(h)) \/ DeleteShipment \/ Purge
                        \/ (\E w \in Workers : WorkerStep(w))]_vars
  PROVE  RowsGrow
<1>1. Len(event) \in Nat /\ DOMAIN event = 1 .. Len(event) 
  BY DEF TypeOK
<1>2. ASSUME event' = event, reader' = reader, Exists' <=> Exists
      PROVE  RowsGrow
  BY <1>1, <1>2 DEF RowsGrow, RowsStay
<1>3. ASSUME NEW h \in Handlers, HandlerStep(h)
      PROVE  RowsGrow
  <2>1. reader' = reader /\ (Exists' <=> Exists)
    BY <1>3 DEF HandlerStep, Finalize, ReadShipment, ResolveResendTargets, CreateAccessToken,
                InsertEvent, Enqueue, EnqueueUnanswered, GiveUp, Exists
  <2>2. CASE event' = event
    BY <1>2, <2>1, <2>2
  <2>3. ASSUME NEW r \in Recipients, InsertEvent(h, r)
        PROVE  RowsGrow
    <3>1. CreateNotificationEvent(h, r) /\ Exists /\ Exists'
      BY <2>3 DEF InsertEvent, Exists
    <3> DEFINE n == Len(event) + 1
    <3>2. /\ Len(event') = n /\ n \in Nat /\ Len(event) <= n /\ DOMAIN event' = 1 .. n
          /\ DOMAIN event = 1 .. Len(event)
          /\ \A i \in DOMAIN event : event'[i] = event[i]
          /\ event'[n] = [by |-> h, rcpt |-> r, status |-> "queued",
                          sentAt |-> FALSE, failedAt |-> FALSE]
      BY <3>1, InsertedRow
    <3>3. event'[n].status = "queued"
      BY <3>2
    <3>4. DOMAIN event' = DOMAIN event \cup {n}
      BY <1>1, <3>2
    <3> HIDE DEF n
    <3>5. RowsStay'
      BY <1>1, <3>1, <3>2, <3>3, <3>4 DEF RowsStay
    <3> QED
      BY <2>1, <3>2, <3>5 DEF RowsGrow
  <2> QED
    BY <1>3, <2>2, <2>3 DEF HandlerStep, Finalize, ReadShipment, ResolveResendTargets,
                            CreateAccessToken, Enqueue, EnqueueUnanswered, GiveUp
<1>4. CASE DeleteShipment
  BY <1>2, <1>4 DEF DeleteShipment, Exists
<1>5. CASE Purge
  <2>1. reader' = reader /\ ~Exists' /\ event' = [i \in 1 .. Len(event) |-> [event[i] EXCEPT !.status = "none"]]
    BY <1>1, <1>5 DEF Purge, Exists
  <2>2. Len(event') = Len(event)
    BY <1>1, <2>1
  <2>3. ASSUME NEW i \in 1 .. Len(event)
        PROVE  event'[i].status = "none"
    <3>1. event[i] \in EventRow /\ event'[i] = [event[i] EXCEPT !.status = "none"]
      BY <1>1, <2>1, EventFields
    <3> QED
      BY <3>1 DEF EventRow
  <2>4. RowsStay'
    BY <2>1, <2>3 DEF RowsStay
  <2> QED
    BY <1>1, <2>1, <2>2, <2>4 DEF RowsGrow
<1>6. ASSUME NEW w \in Workers, WorkerStep(w)
      PROVE  RowsGrow
  <2>1. reader' = reader /\ (Exists' <=> Exists)
    BY <1>6 DEF WorkerStep, Receive, DropMalformed, KeepMalformed, SendEmail, SendFails,
                MarkNotificationSent, MarkNotificationFailed, Delete, DeleteFails, Restart, Exists
  <2>2. CASE event' = event
    BY <1>2, <2>1, <2>2
  <2>3. ASSUME NEW m \in Messages \cup {0}, NEW st \in {"sent", "failed"},
               UpdateNotificationEventStatus(m, st) \/ UNCHANGED event
        PROVE  RowsGrow
    <3>1. /\ DOMAIN event' = DOMAIN event
          /\ \A i \in DOMAIN event :
               event'[i] = event[i] \/ (event'[i].status = st /\ event[i].status # "none")
      BY <2>3, UpdatedRows
    <3>2. event' = event \/ event' = [event EXCEPT ![m] = Overwritten(event[m], st)]
      BY <2>3 DEF UpdateNotificationEventStatus
    <3>3. Len(event') = Len(event)
      BY <1>1, <3>2 DEF TypeOK
    <3>4. RowsStay'
      BY <1>1, <2>1, <3>1 DEF RowsStay
    <3> QED
      BY <1>1, <2>1, <3>3, <3>4 DEF RowsGrow
  <2>4. worker[w].cur \in Messages \cup {0}
    BY WorkerFields
  <2>5. CASE MarkNotificationSent(w) \/ MarkNotificationFailed(w)
    BY <2>3, <2>4, <2>5 DEF MarkNotificationSent, MarkNotificationFailed
  <2> QED
    BY <1>6, <2>2, <2>5 DEF WorkerStep, Receive, DropMalformed, KeepMalformed, SendEmail, SendFails,
                            Delete, DeleteFails, Restart
<1>7. CASE UNCHANGED vars
  BY <1>2, <1>7 DEF vars, Exists
<1> QED
  BY <1>3, <1>4, <1>5, <1>6, <1>7

\* The other readers go on where they were.
LEMMA OthersWalk ==
  ASSUME TypeOK, WInv, NEW v \in Readers, NEW s \in ReaderState,
         reader' = [reader EXCEPT ![v] = s], event' = event, shipment' = shipment, WalkFine(v)'
  PROVE  WInv'
<1>1. \A u \in Readers : u # v => reader'[u] = reader[u]
  BY ReaderFields
<1>2. ASSUME NEW u \in Readers, u # v
      PROVE  WalkFine(u)'
  BY <1>1, <1>2 DEF WInv, WalkFine, Passed, Exists
<1>3. RowsStay'
  BY DEF WInv, RowsStay, Exists
<1> QED
  BY <1>2, <1>3 DEF WInv

\* A page holds the rows from its offset on.
LEMMA PageHolds ==
  ASSUME TypeOK, RowsStay, Exists, NEW offset \in Nat, NEW i \in DOMAIN event,
         offset <= Len(event) - i, Len(event) - i < offset + PageSize
  PROVE  i \in PageOfRows(offset)
<1>1. i \in Rows /\ Cardinality({j \in Rows : j > i}) = Len(event) - i
  BY NewerRows
<1> QED
  BY <1>1 DEF PageOfRows

\* The first statement of a request finds the shipment, and shows nothing yet.
LEMMA GetWalk ==
  ASSUME TypeOK, WInv, NEW v \in Readers, GetPage(v)
  PROVE  WInv'
<1> DEFINE s == [reader[v] EXCEPT !.pc = "list"]
<1>1. /\ reader \in [Readers -> ReaderState] /\ s \in ReaderState
      /\ s.pc = "list" /\ s.first = reader[v].first /\ s.seen = reader[v].seen
      /\ s.offset = reader[v].offset /\ Len(event) \in Nat
  BY ReaderFields DEF ReaderState
<1>2. /\ reader[v].pc \in {"idle", "page"} /\ event' = event /\ shipment' = shipment
      /\ reader' = [reader EXCEPT ![v] = s]
  BY <1>1 DEF GetPage
<1> HIDE DEF s
<1>3. reader'[v] = s /\ Passed(v)' = reader[v].offset
  BY <1>1, <1>2 DEF Passed
<1>4. WalkFine(v)
  BY DEF WInv
<1>5. WalkFine(v)'
  <2>1. CASE reader[v].pc = "idle"
    BY <1>1, <1>2, <1>3, <1>4, <2>1 DEF WalkFine
  <2>2. CASE reader[v].pc = "page"
    BY <1>1, <1>2, <1>3, <1>4, <2>2 DEF WalkFine, Passed, Exists
  <2> QED
    BY <1>2, <2>1, <2>2
<1> QED
  BY <1>1, <1>2, <1>5, OthersWalk

\* A reader turns a page, and adds what is on it to what it has seen.
LEMMA PageWalk ==
  ASSUME TypeOK, WInv, NEW v \in Readers, ReadPage(v)
  PROVE  WInv'
<1> DEFINE first == IF reader[v].offset = 0 THEN Len(event) ELSE reader[v].first
           seen  == reader[v].seen \cup PageOfRows(reader[v].offset)
           s     == [reader[v] EXCEPT !.pc = "more", !.first = first, !.seen = seen]
<1>1. /\ reader[v].first \in Nat /\ reader[v].offset \in Nat
      /\ PageSize \in Nat /\ Len(event) \in Nat /\ DOMAIN event = 1 .. Len(event)
      /\ reader \in [Readers -> ReaderState] /\ reader[v] \in ReaderState
  BY ReaderFields DEF TypeOK
<1>2. /\ reader[v].pc = "list" /\ event' = event /\ shipment' = shipment
      /\ reader' = [reader EXCEPT ![v].pc = "more", ![v].first = first, ![v].seen = seen]
  BY <1>1 DEF ReadPage
<1>3. RowsStay /\ WalkFine(v)
  BY DEF WInv
<1>4. first \in Nat /\ first <= Len(event)
  BY <1>1, <1>2, <1>3 DEF WalkFine
<1>5. ASSUME Exists, NEW i \in 1 .. first, Len(event) - i < reader[v].offset + PageSize
      PROVE  i \in seen
  <2>1. i \in DOMAIN event /\ i \in Nat /\ i <= Len(event)
    BY <1>1, <1>4
  <2>2. CASE reader[v].offset <= Len(event) - i
    BY <1>1, <1>3, <1>5, <2>1, <2>2, PageHolds
  <2>3. CASE Len(event) - i < reader[v].offset
    <3>1. reader[v].offset # 0
      BY <1>1, <2>1, <2>3
    <3>2. i \in 1 .. reader[v].first /\ Passed(v) = reader[v].offset
      BY <1>2, <3>1 DEF Passed
    <3> QED
      BY <1>2, <1>3, <1>5, <2>3, <3>2 DEF WalkFine
  <2> QED
    BY <1>1, <2>1, <2>2, <2>3
<1>6. reader' \in [Readers -> ReaderState]
  BY ReaderTypes DEF ReaderStep
<1>7. reader' = [reader EXCEPT ![v] = s]
  BY <1>1, <1>2
<1>8. /\ s.pc = "more" /\ s.first = first /\ s.seen = seen /\ s.offset = reader[v].offset
  BY <1>1 DEF ReaderState
<1> HIDE DEF first, seen, s
<1>9. reader'[v] = s /\ s \in ReaderState
  BY <1>1, <1>6, <1>7
<1>10. Passed(v)' = reader[v].offset + PageSize
  BY <1>8, <1>9 DEF Passed
<1>11. WalkFine(v)'
  BY <1>2, <1>4, <1>5, <1>8, <1>9, <1>10 DEF WalkFine, Exists
<1> QED
  BY <1>2, <1>7, <1>9, <1>11, OthersWalk

\* A reader goes on from the next offset, or has reached the total and with it every row.
LEMMA CountWalk ==
  ASSUME TypeOK, WInv, NEW v \in Readers, CountNotificationEvents(v)
  PROVE  WInv'
<1> DEFINE offset == reader[v].offset + PageSize
           pc     == IF offset < Cardinality(Rows) THEN "page" ELSE "walked"
           s      == [reader[v] EXCEPT !.offset = offset, !.pc = pc]
<1>1. /\ reader[v].first \in Nat /\ reader[v].offset \in Nat
      /\ PageSize \in Nat /\ Len(event) \in Nat
      /\ reader \in [Readers -> ReaderState] /\ reader[v] \in ReaderState
  BY ReaderFields
<1>2. /\ reader[v].pc = "more" /\ event' = event /\ shipment' = shipment
      /\ reader' = [reader EXCEPT ![v].offset = offset, ![v].pc = pc]
  BY <1>1 DEF CountNotificationEvents
<1>3. RowsStay /\ WalkFine(v)
  BY DEF WInv
<1>4. Exists => Cardinality(Rows) = Len(event)
  BY <1>3, NewerRows
<1>5. /\ reader[v].first <= Len(event) /\ Passed(v) = offset
      /\ Exists =>
           \A i \in 1 .. reader[v].first : Len(event) - i < offset => i \in reader[v].seen
  BY <1>2, <1>3 DEF WalkFine, Passed
<1>6. Exists /\ pc = "walked" => 1 .. reader[v].first \subseteq reader[v].seen
  <2> SUFFICES ASSUME Exists, pc = "walked", NEW i \in 1 .. reader[v].first
               PROVE  i \in reader[v].seen
    OBVIOUS
  <2>1. Len(event) <= offset
    BY <1>1, <1>4
  <2>2. Len(event) - i < offset
    BY <1>1, <2>1
  <2> QED
    BY <1>5, <2>2
<1>7. reader' \in [Readers -> ReaderState]
  BY ReaderTypes DEF ReaderStep
<1>8. reader' = [reader EXCEPT ![v] = s]
  BY <1>1, <1>2
<1>9. /\ s.pc = pc /\ s.first = reader[v].first /\ s.seen = reader[v].seen /\ s.offset = offset
      /\ pc \in {"page", "walked"}
  BY <1>1 DEF ReaderState
<1> HIDE DEF offset, pc, s
<1>10. reader'[v] = s /\ s \in ReaderState
  BY <1>1, <1>7, <1>8
<1>11. Passed(v)' = offset
  BY <1>9, <1>10 DEF Passed
<1>12. WalkFine(v)'
  BY <1>2, <1>5, <1>6, <1>9, <1>10, <1>11 DEF WalkFine, Exists
<1> QED
  BY <1>2, <1>8, <1>10, <1>12, OthersWalk

\* A reader that looks at the details turns no pages.
LEMMA DetailWalk ==
  ASSUME TypeOK, WInv, NEW v \in Readers, GetDetail(v) \/ ReadSummary(v) \/ ReadRecipientStats(v)
  PROVE  WInv'
<1>1. /\ reader \in [Readers -> ReaderState]
      /\ event' = event /\ shipment' = shipment
      /\ \A u \in Readers : u # v => reader'[u] = reader[u]
  BY ReaderFields DEF GetDetail, ReadSummary, ReadRecipientStats
<1>2. reader'[v].pc \in {"owner", "summary", "detail"}
  BY <1>1, ReaderFields DEF GetDetail, ReadSummary, ReadRecipientStats, ReaderState
<1>3. WalkFine(v)'
  BY <1>2 DEF WalkFine
<1>4. reader' \in [Readers -> ReaderState]
  BY ReaderTypes DEF ReaderStep
<1>5. reader' = [reader EXCEPT ![v] = reader'[v]]
  BY <1>1, <1>4
<1> QED
  BY <1>1, <1>3, <1>4, <1>5, OthersWalk

\* The invariant of the walks.
THEOREM WalkInvariance == Spec => []WInv
<1>1. Init => WInv
  BY DEF Init, WInv, RowsStay, WalkFine, Unread
<1>2. TypeOK /\ WInv /\ [Next]_vars => WInv'
  <2> SUFFICES ASSUME TypeOK, WInv, [Next]_vars
               PROVE  WInv'
    OBVIOUS
  <2>1. CASE \E v \in Readers : ReaderStep(v)
    BY <2>1, GetWalk, PageWalk, CountWalk, DetailWalk DEF ReaderStep
  <2>2. CASE [(\E h \in Handlers : HandlerStep(h)) \/ DeleteShipment \/ Purge
              \/ (\E w \in Workers : WorkerStep(w))]_vars
    BY <2>2, Outside, WalkStays DEF WInv
  <2> QED
    BY <2>1, <2>2 DEF Next
<1> QED
  BY <1>1, <1>2, TypeCorrect, PTL DEF Spec

\* Every row that was there at the first page was on one of the pages.
THEOREM WalksCorrect == Spec => []WalkMissesNothing
<1>1. WInv => WalkMissesNothing
  BY DEF WInv, WalkFine, WalkMissesNothing
<1> QED
  BY <1>1, WalkInvariance, PTL

----------------------------------------------------------------------------
(* What the detail adds up: the counts of the recipients are pairs of a    *)
(* recipient and a number, counted one by one, and the fold that adds the  *)
(* counts up yields how many pairs there are.                              *)

PairsOf(f, T) == UNION {{r} \X (1 .. f[r]) : r \in T}

LEMMA PairOf ==
  ASSUME NEW f, NEW T, NEW r, NEW k
  PROVE  <<r, k>> \in PairsOf(f, T) <=> r \in T /\ k \in 1 .. f[r]
BY DEF PairsOf

\* Among subsets of the recipients there is one that has no other of them in it.
LEMMA SmallestSubset ==
  ASSUME NEW C, C \subseteq SUBSET Recipients, C # {}
  PROVE  \E A \in C : \A B \in C : B \subseteq A => B = A
<1>1. IsWellFoundedOn(StrictSubsetOrdering(Recipients), SUBSET Recipients)
  BY FS_StrictSubsetOrderingWellFounded, FS_FiniteSubsetsOfFinite, MailAssumption
<1>2. PICK A \in C : \A B \in C : <<B, A>> \notin StrictSubsetOrdering(Recipients)
  BY <1>1, WFMin
<1>3. ASSUME NEW B \in C, B \subseteq A
      PROVE  B = A
  <2>1. <<B, A>> \in (SUBSET Recipients) \X (SUBSET Recipients)
    OBVIOUS
  <2>2. B # A => <<B, A>> \in StrictSubsetOrdering(Recipients)
    BY <1>3, <2>1 DEF StrictSubsetOrdering
  <2> QED
    BY <1>2, <2>2
<1> QED
  BY <1>3

\* The pairs of a recipient are as many as its count says.
LEMMA OnePairs ==
  ASSUME NEW f \in [Recipients -> Nat], NEW r \in Recipients
  PROVE  IsFiniteSet({r} \X (1 .. f[r])) /\ Cardinality({r} \X (1 .. f[r])) = f[r]
<1>1. PICK n \in Nat : n = f[r]
  OBVIOUS
<1>2. IsFiniteSet({r}) /\ Cardinality({r}) = 1
  BY FS_Singleton
<1>3. IsFiniteSet(1 .. n) /\ Cardinality(1 .. n) = n
  BY FirstNumbers
<1>4. /\ IsFiniteSet({r} \X (1 .. n))
      /\ Cardinality({r} \X (1 .. n)) = Cardinality({r}) * Cardinality(1 .. n)
  BY <1>2, <1>3, FS_Product
<1>5. 1 * n = n
  OBVIOUS
<1> QED
  BY <1>1, <1>2, <1>3, <1>4, <1>5

\* Finitely many recipients have finitely many pairs.
LEMMA PairsFinite ==
  ASSUME NEW f \in [Recipients -> Nat], NEW T \in SUBSET Recipients
  PROVE  IsFiniteSet(PairsOf(f, T)) /\ Cardinality(PairsOf(f, T)) \in Nat
<1> DEFINE parts == {{r} \X (1 .. f[r]) : r \in T}
           g == [r \in T |-> {r} \X (1 .. f[r])]
<1>1. IsFiniteSet(T)
  BY FS_Subset, MailAssumption
<1>2. g \in Surjection(T, parts)
  BY DEF Surjection
<1>3. IsFiniteSet(parts)
  BY <1>1, <1>2, FS_Surjection
<1>4. ASSUME NEW p \in parts
      PROVE  IsFiniteSet(p)
  BY OnePairs
<1>5. IsFiniteSet(UNION parts)
  BY <1>3, <1>4, FS_UNION
<1> QED
  BY <1>5, FS_CardinalityType DEF PairsOf

\* One recipient more adds its count.
LEMMA PairsGrow ==
  ASSUME NEW f \in [Recipients -> Nat], NEW T \in SUBSET Recipients, NEW r \in T
  PROVE  Cardinality(PairsOf(f, T)) = f[r] + Cardinality(PairsOf(f, T \ {r}))
<1> DEFINE own  == {r} \X (1 .. f[r])
           rest == PairsOf(f, T \ {r})
<1>1. f[r] \in Nat
  OBVIOUS
<1>2. IsFiniteSet(own) /\ Cardinality(own) = f[r]
  BY OnePairs
<1>3. IsFiniteSet(rest) /\ Cardinality(rest) \in Nat
  BY PairsFinite
<1>4. PairsOf(f, T) = rest \cup own /\ rest \cap own = {}
  BY DEF PairsOf
<1> HIDE DEF own, rest
<1>5. Cardinality(PairsOf(f, T)) = Cardinality(rest) + Cardinality(own) - Cardinality(rest \cap own)
  BY <1>2, <1>3, <1>4, FS_Union
<1>6. Cardinality(rest \cap own) = 0
  BY <1>4, FS_EmptySet
<1>7. Cardinality(PairsOf(f, T)) = f[r] + Cardinality(rest)
  BY <1>1, <1>2, <1>3, <1>5, <1>6
<1> QED
  BY <1>7 DEF rest

\* One step of the fold, and the fold.
SumStep(f, x, g) ==
  IF x = {} THEN 0
  ELSE LET r == CHOOSE y \in x : TRUE IN f[r] + g[x \ {r}]

SumFold(f) == CHOOSE g : g = [x \in SUBSET Recipients |-> SumStep(f, x, g)]

LEMMA DetailFold ==
  ASSUME NEW v
  PROVE  MapThenSumSet(LAMBDA r : reader[v].count[r], Recipients)
           = SumFold(reader[v].count)[Recipients]
BY DEF MapThenSumSet, MapThenFoldSet, SumFold, SumStep

\* The fold yields the number of pairs: take a smallest set for which it does not.
LEMMA PairsCounted ==
  ASSUME NEW f \in [Recipients -> Nat]
  PROVE  SumFold(f)[Recipients] = Cardinality(PairsOf(f, Recipients))
<1> DEFINE h == [x \in SUBSET Recipients |-> Cardinality(PairsOf(f, x))]
           g == CHOOSE k : k = [x \in SUBSET Recipients |-> SumStep(f, x, k)]
<1>1. ASSUME NEW x \in SUBSET Recipients
      PROVE  h[x] = SumStep(f, x, h)
  <2>1. CASE x = {}
    <3>1. PairsOf(f, {}) = {}
      BY DEF PairsOf
    <3> QED
      BY <2>1, <3>1, FS_EmptySet DEF SumStep
  <2>2. CASE x # {}
    <3> DEFINE r == CHOOSE y \in x : TRUE
    <3>1. r \in x /\ x \ {r} \in SUBSET Recipients
      BY <2>2
    <3>2. Cardinality(PairsOf(f, x)) = f[r] + Cardinality(PairsOf(f, x \ {r}))
      BY <3>1, PairsGrow
    <3>3. SumStep(f, x, h) = f[r] + h[x \ {r}]
      BY <2>2 DEF SumStep
    <3> HIDE DEF r
    <3> QED
      BY <3>1, <3>2, <3>3
  <2> QED
    BY <2>1, <2>2
<1>2. h = [x \in SUBSET Recipients |-> SumStep(f, x, h)]
  <2> DEFINE k == [x \in SUBSET Recipients |-> SumStep(f, x, h)]
  <2>1. DOMAIN h = DOMAIN k /\ \A x \in SUBSET Recipients : h[x] = k[x]
    BY <1>1
  <2> QED
    BY <2>1
<1>3. g = [x \in SUBSET Recipients |-> SumStep(f, x, g)]
  <2> HIDE DEF h
  <2> QED
    BY <1>2
<1>4. SumFold(f) = g
  BY DEF SumFold
<1> HIDE DEF g
<1>5. \A x \in SUBSET Recipients : g[x] = h[x]
  <2> DEFINE Wrong == {x \in SUBSET Recipients : g[x] # h[x]}
  <2>1. SUFFICES ASSUME Wrong # {} PROVE FALSE
    OBVIOUS
  <2>2. PICK x \in Wrong : \A y \in Wrong : y \subseteq x => y = x
    <3>1. Wrong \subseteq SUBSET Recipients
      OBVIOUS
    <3> HIDE DEF Wrong, h
    <3> QED
      BY <2>1, <3>1, SmallestSubset
  <2>3. x \in SUBSET Recipients /\ g[x] # h[x]
    OBVIOUS
  <2>4. g[x] = SumStep(f, x, g) /\ h[x] = SumStep(f, x, h)
    BY <1>1, <1>3, <2>3
  <2>5. CASE x = {}
    BY <2>3, <2>4, <2>5 DEF SumStep
  <2>6. CASE x # {}
    <3> DEFINE r == CHOOSE y \in x : TRUE
    <3>1. r \in x
      BY <2>6
    <3>2. x \ {r} \in SUBSET Recipients /\ x \ {r} \notin Wrong
      BY <2>2, <2>3, <3>1
    <3>3. g[x \ {r}] = h[x \ {r}]
      BY <3>2
    <3>4. SumStep(f, x, g) = f[r] + g[x \ {r}] /\ SumStep(f, x, h) = f[r] + h[x \ {r}]
      BY <2>6 DEF SumStep
    <3> QED
      BY <2>3, <2>4, <3>3, <3>4
  <2> QED
    BY <2>5, <2>6
<1>6. Recipients \in SUBSET Recipients /\ h[Recipients] = Cardinality(PairsOf(f, Recipients))
  OBVIOUS
<1> QED
  BY <1>4, <1>5, <1>6

\* Every row has a place among the rows of its recipient: there are no more rows than pairs.
LEMMA RowsPaired ==
  ASSUME TypeOK, NEW f \in [Recipients -> Nat],
         \A r \in Recipients : f[r] = Cardinality(RowsOf(r))
  PROVE  Cardinality(Rows) <= Cardinality(PairsOf(f, Recipients))
<1> DEFINE UpTo(i)  == {j \in RowsOf(event[i].rcpt) : j <= i}
           place == [i \in Rows |-> <<event[i].rcpt, Cardinality(UpTo(i))>>]
<1>1. \A i \in Rows : i \in Nat /\ event[i].rcpt \in Recipients /\ i \in RowsOf(event[i].rcpt)
  BY EventFields DEF Rows, RowsOf
<1>2. \A r \in Recipients : IsFiniteSet(RowsOf(r))
  <2>1. IsFiniteSet(1 .. Len(event)) /\ DOMAIN event = 1 .. Len(event)
    BY FirstNumbers DEF TypeOK
  <2>2. \A r \in Recipients : RowsOf(r) \subseteq 1 .. Len(event)
    BY <2>1 DEF Rows, RowsOf
  <2> QED
    BY <2>1, <2>2, FS_Subset
<1>3. ASSUME NEW i \in Rows
      PROVE  /\ IsFiniteSet(UpTo(i)) /\ i \in UpTo(i)
             /\ Cardinality(UpTo(i)) \in 1 .. f[event[i].rcpt]
  <2>1. event[i].rcpt \in Recipients /\ i \in UpTo(i) /\ UpTo(i) \subseteq RowsOf(event[i].rcpt)
    BY <1>1
  <2>2. /\ IsFiniteSet(UpTo(i)) /\ Cardinality(UpTo(i)) <= Cardinality(RowsOf(event[i].rcpt))
        /\ Cardinality(UpTo(i)) \in Nat
    BY <1>2, <2>1, FS_Subset, FS_CardinalityType
  <2>3. Cardinality(UpTo(i)) # 0
    BY <2>1, <2>2, FS_EmptySet
  <2> QED
    BY <2>1, <2>2, <2>3
<1>4. place \in [Rows -> PairsOf(f, Recipients)]
  <2>1. \A i \in Rows : <<event[i].rcpt, Cardinality(UpTo(i))>> \in PairsOf(f, Recipients)
    BY <1>1, <1>3, PairOf
  <2> HIDE DEF UpTo
  <2> QED
    BY <2>1
<1>5. ASSUME NEW i \in Rows, NEW k \in Rows, i < k, event[i].rcpt = event[k].rcpt
      PROVE  Cardinality(UpTo(i)) # Cardinality(UpTo(k))
  <2>1. UpTo(i) \subseteq UpTo(k)
    BY <1>1, <1>5 DEF RowsOf, Rows
  <2>2. k \in UpTo(k) /\ k \notin UpTo(i)
    BY <1>1, <1>3, <1>5
  <2>3. IsFiniteSet(UpTo(k))
    BY <1>3
  <2> HIDE DEF UpTo
  <2> QED
    BY <2>1, <2>2, <2>3, FS_Subset
<1>6. \A i, k \in Rows : place[i] = place[k] => i = k
  <2> SUFFICES ASSUME NEW i \in Rows, NEW k \in Rows, place[i] = place[k]
               PROVE  i = k
    OBVIOUS
  <2>1. event[i].rcpt = event[k].rcpt /\ Cardinality(UpTo(i)) = Cardinality(UpTo(k))
    OBVIOUS
  <2>2. ~(i < k) /\ ~(k < i)
    BY <1>5, <2>1
  <2>3. i \in Nat /\ k \in Nat
    BY <1>1
  <2> QED
    BY <2>2, <2>3
<1>7. place \in Injection(Rows, PairsOf(f, Recipients))
  BY <1>4, <1>6 DEF Injection, IsInjective
<1> HIDE DEF place
<1>8. IsFiniteSet(PairsOf(f, Recipients))
  BY PairsFinite
<1> QED
  BY <1>7, <1>8, FS_Injection

\* The total is never more than the rows there are, and once the recipients were counted
\* never more than their counts together, unless a purge left nothing to count.
DetailFine(v) ==
  /\ Exists /\ reader[v].pc = "summary" => reader[v].total <= Len(event)
  /\ reader[v].pc = "detail" =>
       \/ reader[v].total <= Cardinality(PairsOf(reader[v].count, Recipients))
       \/ ~Exists /\ \A r \in Recipients : reader[v].count[r] = 0

DInv == \A v \in Readers : DetailFine(v)

\* Rows only come on top of those that were counted.
LEMMA DetailStays ==
  ASSUME TypeOK, DInv, RowsGrow
  PROVE  DInv'
<1>1. ASSUME NEW v \in Readers
      PROVE  DetailFine(v)'
  <2>1. reader[v].total \in Nat /\ Len(event) \in Nat
    BY ReaderFields
  <2> QED
    BY <2>1 DEF DInv, DetailFine, RowsGrow
<1> QED
  BY <1>1 DEF DInv

\* The other readers have read what they have read.
LEMMA OthersDetail ==
  ASSUME DInv, NEW v \in Readers, \A u \in Readers : u # v => reader'[u] = reader[u],
         event' = event, shipment' = shipment, DetailFine(v)'
  PROVE  DInv'
<1>1. ASSUME NEW u \in Readers, u # v
      PROVE  DetailFine(u)'
  BY <1>1 DEF DInv, DetailFine, Exists
<1> QED
  BY <1>1 DEF DInv

\* The summary counts every row there is.
LEMMA SummaryDetail ==
  ASSUME TypeOK, RowsStay, DInv, NEW v \in Readers, ReadSummary(v)
  PROVE  DInv'
<1>1. /\ event' = event /\ shipment' = shipment /\ Len(event) \in Nat
      /\ Exists => Cardinality(Rows) = Len(event)
      /\ \A u \in Readers : u # v => reader'[u] = reader[u]
  BY ReaderFields, NewerRows DEF ReadSummary
<1>2. reader'[v].pc = "summary" /\ (Exists => reader'[v].total = Len(event))
  BY <1>1, ReaderFields DEF ReadSummary, ReaderState
<1>3. DetailFine(v)'
  BY <1>1, <1>2 DEF DetailFine, Exists
<1> QED
  BY <1>1, <1>3, OthersDetail

\* By the time the recipients are counted there are at least as many rows, or none.
LEMMA StatsDetail ==
  ASSUME TypeOK, RowsStay, DInv, NEW v \in Readers, ReadRecipientStats(v)
  PROVE  DInv'
<1>1. /\ reader[v].pc = "summary" /\ event' = event /\ shipment' = shipment
      /\ reader[v].total \in Nat /\ Len(event) \in Nat
      /\ Exists => Cardinality(Rows) = Len(event)
      /\ \A u \in Readers : u # v => reader'[u] = reader[u]
  BY ReaderFields, NewerRows DEF ReadRecipientStats
<1>2. PICK f : f = [r \in Recipients |-> Cardinality(RowsOf(r))]
  OBVIOUS
<1>3. f \in [Recipients -> Nat]
  <2>1. \A r \in Recipients : Cardinality(RowsOf(r)) \in Nat
    BY MaxEventsType, RowsBounded DEF RowsOf
  <2> QED
    BY <1>2, <2>1
<1>4. reader' = [reader EXCEPT ![v].pc = "detail", ![v].count = f]
  BY <1>2 DEF ReadRecipientStats
<1>5. /\ reader'[v].pc = "detail" /\ reader'[v].count = f /\ reader'[v].total = reader[v].total
  BY <1>4, ReaderFields DEF ReaderState
<1>6. Cardinality(Rows) <= Cardinality(PairsOf(f, Recipients))
  BY <1>2, <1>3, RowsPaired
<1>7. Exists => reader[v].total <= Len(event)
  BY <1>1 DEF DInv, DetailFine
<1>8. Cardinality(PairsOf(f, Recipients)) \in Nat
  BY <1>3, PairsFinite
<1>9. ~Exists => \A r \in Recipients : f[r] = 0
  <2>1. ~Exists => \A r \in Recipients : RowsOf(r) = {}
    BY DEF RowsStay, Rows, RowsOf
  <2> QED
    BY <1>2, <2>1, FS_EmptySet
<1>10. DetailFine(v)'
  <2>1. CASE Exists
    BY <1>1, <1>5, <1>6, <1>7, <1>8, <2>1 DEF DetailFine
  <2>2. CASE ~Exists
    BY <1>1, <1>5, <1>9, <2>2 DEF DetailFine, Exists
  <2> QED
    BY <2>1, <2>2
<1> QED
  BY <1>1, <1>10, OthersDetail

\* Whoever turns pages reads no detail, nor has who only asks for it.
LEMMA PagesDetail ==
  ASSUME TypeOK, DInv, NEW v \in Readers,
         GetDetail(v) \/ GetPage(v) \/ ReadPage(v) \/ CountNotificationEvents(v)
  PROVE  DInv'
<1>1. /\ event' = event /\ shipment' = shipment
      /\ \A u \in Readers : u # v => reader'[u] = reader[u]
  BY ReaderFields DEF GetDetail, GetPage, ReadPage, CountNotificationEvents
<1>2. reader'[v].pc \in {"owner", "list", "more", "page", "walked"}
  BY ReaderFields DEF GetDetail, GetPage, ReadPage, CountNotificationEvents, ReaderState
<1>3. DetailFine(v)'
  BY <1>2 DEF DetailFine
<1> QED
  BY <1>1, <1>3, OthersDetail

\* No recipient's count misses a row that the summary has, unless the rows were purged
\* between the two statements and every count is zero.
THEOREM DetailsCorrect == Spec => []DetailCoversSummary
<1>1. Init => DInv
  BY DEF Init, DInv, DetailFine, Unread
<1>2. TypeOK /\ WInv /\ DInv /\ [Next]_vars => DInv'
  <2> SUFFICES ASSUME TypeOK, WInv, DInv, [Next]_vars
               PROVE  DInv'
    OBVIOUS
  <2>1. RowsStay
    BY DEF WInv
  <2>2. CASE \E v \in Readers : ReaderStep(v)
    BY <2>1, <2>2, SummaryDetail, StatsDetail, PagesDetail DEF ReaderStep
  <2>3. CASE [(\E h \in Handlers : HandlerStep(h)) \/ DeleteShipment \/ Purge
              \/ (\E w \in Workers : WorkerStep(w))]_vars
    BY <2>1, <2>3, Outside, DetailStays
  <2> QED
    BY <2>2, <2>3 DEF Next
<1>3. TypeOK /\ DInv => DetailCoversSummary
  <2> SUFFICES ASSUME TypeOK, DInv, NEW v \in Readers, reader[v].pc = "detail"
               PROVE  \/ reader[v].total
                           <= MapThenSumSet(LAMBDA r : reader[v].count[r], Recipients)
                      \/ ~Exists /\ \A r \in Recipients : reader[v].count[r] = 0
    BY DEF DetailCoversSummary
  <2>1. PICK f \in [Recipients -> Nat] : f = reader[v].count
    BY ReaderFields
  <2>2. SumFold(f)[Recipients] = Cardinality(PairsOf(f, Recipients))
    BY PairsCounted
  <2>3. MapThenSumSet(LAMBDA r : reader[v].count[r], Recipients) = SumFold(f)[Recipients]
    BY <2>1, DetailFold
  <2>4. \/ reader[v].total <= Cardinality(PairsOf(f, Recipients))
        \/ ~Exists /\ \A r \in Recipients : reader[v].count[r] = 0
    BY <2>1 DEF DInv, DetailFine
  <2> QED
    BY <2>2, <2>3, <2>4
<1> QED
  BY <1>1, <1>2, <1>3, TypeCorrect, WalkInvariance, PTL DEF Spec
=============================================================================
