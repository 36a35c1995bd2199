---------------------------- MODULE MailDelivery ----------------------------
(***************************************************************************)
(* Notification mails of one shipment: the handlers that write a row of    *)
(* notification_events and enqueue a message for it, SQS, the mail         *)
(* workers, and the owner's views of the rows.                             *)
(*                                                                         *)
(* PostgreSQL, SQS and SES share no transaction.  A handler issues a token *)
(* (resend only: finalize has issued them), inserts the row as queued and  *)
(* enqueues, recipient by recipient; a worker sends, marks and deletes.    *)
(* Every call is a step, a process may stop after any of them, an answer   *)
(* of SQS or SES may be lost, and a message stays in SQS, to be received   *)
(* again by anyone at any time, until it is deleted.                       *)
(*                                                                         *)
(* Abstracted: subjects, bodies (neither template fails on strings),       *)
(* times but their presence, several shipments (no step meets two).        *)
(* Messages are named by the id of their event; the others of the queue    *)
(* are invitations, which have no event, and bodies that do not decode.    *)
(***************************************************************************)
EXTENDS Integers, Sequences, FiniteSetsExt

CONSTANTS
  Recipients,   \* recipients rows of the shipment
  Creator,      \* the POST /v1/shipments handler that finalizes it
  Resenders,    \* concurrent POST /v1/shipments/{id}/resend handlers
  Workers,      \* mail worker processes
  Readers,      \* owners looking at details and notification pages
  Invitations,  \* messages without a notification event
  Malformed,    \* messages that do not decode
  MaxMessages,  \* messages of one receive
  PageSize      \* limit of a notification page

ASSUME MailAssumption ==
  /\ Creator \notin Resenders
  /\ IsFiniteSet(Recipients) /\ IsFiniteSet(Resenders)
  /\ Invitations \cap Malformed = {} /\ \A m \in Invitations \cup Malformed : m \notin Nat
  /\ MaxMessages \in Nat \ {0} /\ PageSize \in Nat \ {0}

Handlers == {Creator} \cup Resenders

VARIABLES
  shipment,   \* status of the row; "purged" when it and its rows are gone
  token,      \* access tokens: handler that issued it and recipient
  event,      \* rows of notification_events, by id
  queue,      \* messages in SQS
  delivered,  \* history: how often a message was received, 2 for more
  mailed,     \* history: messages whose mail SES sent
  handler, worker, reader      \* local states

vars == <<shipment, token, event, queue, delivered, mailed, handler, worker, reader>>

----------------------------------------------------------------------------
MaxEvents == Cardinality(Handlers) * Cardinality(Recipients)
Ids       == 1 .. MaxEvents
Messages  == Ids \cup Invitations \cup Malformed

EventRow == [by : Handlers, rcpt : Recipients,
             status : {"queued", "sent", "failed", "none"},
             sentAt : BOOLEAN, failedAt : BOOLEAN]

HandlerState == [pc : {"idle", "read", "token", "event", "enqueue", "done", "failed"},
                 todo : SUBSET Recipients, rcpt : Recipients, id : 0 .. MaxEvents]
WorkerState  == [pc : {"poll", "handle", "sent", "unsent", "marked"},
                 batch : SUBSET Messages, cur : Messages \cup {0}]
ReaderState  == [pc : {"idle", "owner", "summary", "detail", "list", "more", "page", "walked"},
                 first : 0 .. MaxEvents, total : 0 .. MaxEvents,
                 count : [Recipients -> 0 .. MaxEvents],
                 offset : Nat, seen : SUBSET Ids]

Rows        == {i \in DOMAIN event : event[i].status # "none"}
SentRowsOf(r) == {i \in Rows : event[i].rcpt = r /\ event[i].status = "sent"}   \* counting sent ones only
RowsOf(r)   == {i \in Rows : event[i].rcpt = r}
Exists      == shipment # "purged"

Idle(r)     == [pc |-> "idle", todo |-> {}, rcpt |-> r, id |-> 0]
AtRest      == [pc |-> "poll", batch |-> {}, cur |-> 0]
Unread      == [pc |-> "idle", first |-> 0, total |-> 0,
                count |-> [r \in Recipients |-> 0], offset |-> 0, seen |-> {}]

Init ==
  /\ shipment = "uploading" /\ token = {} /\ event = <<>>
  /\ queue = Invitations \cup Malformed
  /\ delivered = [m \in Messages |-> 0] /\ mailed = {}
  /\ \E r \in Recipients : handler = [h \in Handlers |-> Idle(r)]
  /\ worker = [w \in Workers |-> AtRest]
  /\ reader = [v \in Readers |-> Unread]

----------------------------------------------------------------------------
(* Statements of the store and calls to SQS. *)

\* The insert needs the shipment and the recipient to exist.
CreateNotificationEvent(h, r) ==
  event' = Append(event, [by |-> h, rcpt |-> r, status |-> "queued",
                          sentAt |-> FALSE, failedAt |-> FALSE])

\* The row is overwritten whatever it says; only the times are kept.
Overwritten(row, s) ==
  IF row.status = "none" THEN row
  ELSE [row EXCEPT !.status = s, !.sentAt = @ \/ s = "sent",
                   !.failedAt = @ \/ s = "failed"]

UpdateNotificationEventStatus(m, s) ==
  event' = IF m \in DOMAIN event THEN [event EXCEPT ![m] = Overwritten(@, s)] ELSE event

EnqueueMail(m)   == queue' = queue \cup {m}
DeleteMessage(m) == queue' = queue \ {m}

----------------------------------------------------------------------------
(* POST /v1/shipments and POST /v1/shipments/{id}/resend. *)

\* Finalize commits the status and one token per recipient.
Finalize ==
  /\ shipment = "uploading" /\ handler[Creator].pc = "idle"
  /\ shipment' = "sent"
  /\ token' = token \cup {<<Creator, r>> : r \in Recipients}
  /\ handler' = [handler EXCEPT ![Creator].pc = "event", ![Creator].todo = Recipients]
  /\ UNCHANGED <<event, queue, delivered, mailed, worker, reader>>

\* Resend is refused in every other status.
ReadShipment(h) ==
  /\ h \in Resenders /\ handler[h].pc = "idle" /\ shipment = "sent"
  /\ handler' = [handler EXCEPT ![h].pc = "read"]
  /\ UNCHANGED <<shipment, token, event, queue, delivered, mailed, worker, reader>>

\* The old token is sent again.
ResendWithoutToken(h, T) ==
  /\ handler[h].pc = "read" /\ Exists /\ T # {}
  /\ handler' = [handler EXCEPT ![h].pc = "event", ![h].todo = T]
  /\ UNCHANGED <<shipment, token, event, queue, delivered, mailed, worker, reader>>

\* The recipients asked for, or all of them.
ResolveResendTargets(h, T) ==
  /\ handler[h].pc = "read" /\ Exists /\ T # {}
  /\ handler' = [handler EXCEPT ![h].pc = "token", ![h].todo = T]
  /\ UNCHANGED <<shipment, token, event, queue, delivered, mailed, worker, reader>>

CreateAccessToken(h, r) ==
  /\ handler[h].pc = "token" /\ r \in handler[h].todo /\ Exists
  /\ token' = token \cup {<<h, r>>}
  /\ handler' = [handler EXCEPT ![h].pc = "event", ![h].rcpt = r]
  /\ UNCHANGED <<shipment, event, queue, delivered, mailed, worker, reader>>

\* The creator takes its next recipient here, a resend has taken it with the token.
InsertEvent(h, r) ==
  /\ handler[h].pc = "event" /\ r \in handler[h].todo /\ Exists
  /\ h # Creator => r = handler[h].rcpt
  /\ CreateNotificationEvent(h, r)
  /\ handler' = [handler EXCEPT ![h].pc = "enqueue", ![h].rcpt = r, ![h].id = Len(event) + 1]
  /\ UNCHANGED <<shipment, token, queue, delivered, mailed, worker, reader>>

\* The loop goes on with the next recipient, or the handler answers.
NextRecipient(h) ==
  LET left == handler[h].todo \ {handler[h].rcpt} IN
  IF left = {} THEN "done" ELSE IF h = Creator THEN "event" ELSE "token"

Enqueue(h) ==
  /\ handler[h].pc = "enqueue"
  /\ EnqueueMail(handler[h].id)
  /\ handler' = [handler EXCEPT ![h].pc = NextRecipient(h),
                                ![h].todo = @ \ {handler[h].rcpt}]
  /\ UNCHANGED <<shipment, token, event, delivered, mailed, worker, reader>>

\* SQS took the message and the answer was lost: the handler gives up.
EnqueueUnanswered(h) ==
  /\ handler[h].pc = "enqueue"
  /\ EnqueueMail(handler[h].id)
  /\ handler' = [handler EXCEPT ![h].pc = "failed", ![h].todo = {}]
  /\ UNCHANGED <<shipment, token, event, delivered, mailed, worker, reader>>

\* An error of the database or of SQS, or a crash: what was done stays.
GiveUp(h) ==
  /\ handler[h].pc \notin {"idle", "done", "failed"}
  /\ handler' = [handler EXCEPT ![h].pc = "failed", ![h].todo = {}]
  /\ UNCHANGED <<shipment, token, event, queue, delivered, mailed, worker, reader>>

HandlerStep(h) ==
  \/ h = Creator /\ Finalize
  \/ ReadShipment(h)
  \/ \E T \in SUBSET Recipients : ResolveResendTargets(h, T)
  \/ \E r \in Recipients : CreateAccessToken(h, r) \/ InsertEvent(h, r)
  \/ Enqueue(h) \/ EnqueueUnanswered(h) \/ GiveUp(h)

\* The owner deletes; the purge of the cleanup worker takes the rows along.
DeleteShipment ==
  /\ shipment = "sent" /\ shipment' = "deleted"
  /\ UNCHANGED <<token, event, queue, delivered, mailed, handler, worker, reader>>

Purge ==
  /\ shipment = "deleted" /\ shipment' = "purged"
  /\ token' = {}
  /\ event' = [i \in DOMAIN event |-> [event[i] EXCEPT !.status = "none"]]
  /\ UNCHANGED <<queue, delivered, mailed, handler, worker, reader>>

----------------------------------------------------------------------------
(* The mail worker. *)

Receive(w, B) ==
  /\ worker[w].pc = "poll" /\ B # {} /\ Cardinality(B) <= MaxMessages
  /\ worker' = [worker EXCEPT ![w].pc = "handle", ![w].batch = B]
  /\ delivered' = [m \in Messages |-> IF m \in B /\ delivered[m] < 2
                                      THEN delivered[m] + 1 ELSE delivered[m]]
  /\ UNCHANGED <<shipment, token, event, queue, mailed, handler, reader>>

\* On to the next message of the batch, or back to polling.
Handled(w, m) ==
  [pc |-> IF worker[w].batch = {m} THEN "poll" ELSE "handle",
   batch |-> worker[w].batch \ {m}, cur |-> 0]

\* The error of the decoding is returned before the delete.
PoisonKept(w, m) ==
  /\ worker[w].pc = "handle" /\ m \in worker[w].batch \cap Malformed
  /\ worker' = [worker EXCEPT ![w] = Handled(w, m)]
  /\ UNCHANGED <<shipment, token, event, queue, delivered, mailed, handler, reader>>

\* A message that does not decode is deleted; the delete itself may fail.
DropMalformed(w, m) ==
  /\ worker[w].pc = "handle" /\ m \in worker[w].batch \cap Malformed
  /\ DeleteMessage(m)
  /\ worker' = [worker EXCEPT ![w] = Handled(w, m)]
  /\ UNCHANGED <<shipment, token, event, delivered, mailed, handler, reader>>

KeepMalformed(w, m) ==
  /\ worker[w].pc = "handle" /\ m \in worker[w].batch \cap Malformed
  /\ worker' = [worker EXCEPT ![w] = Handled(w, m)]
  /\ UNCHANGED <<shipment, token, event, queue, delivered, mailed, handler, reader>>

SendEmail(w, m) ==
  /\ worker[w].pc = "handle" /\ m \in worker[w].batch \ Malformed
  /\ mailed' = mailed \cup {m}
  /\ worker' = [worker EXCEPT ![w].pc = "sent", ![w].cur = m]
  /\ UNCHANGED <<shipment, token, event, queue, delivered, handler, reader>>

\* The error of the send is not looked at.
SendUnchecked(w, m) ==
  /\ worker[w].pc = "handle" /\ m \in worker[w].batch \ Malformed
  /\ worker' = [worker EXCEPT ![w].pc = "sent", ![w].cur = m]
  /\ UNCHANGED <<shipment, token, event, queue, delivered, mailed, handler, reader>>

\* SES refused the mail, or sent it and its answer was lost.
SendFails(w, m) ==
  /\ worker[w].pc = "handle" /\ m \in worker[w].batch \ Malformed
  /\ mailed' \in {mailed, mailed \cup {m}}
  /\ worker' = [worker EXCEPT ![w].pc = "unsent", ![w].cur = m]
  /\ UNCHANGED <<shipment, token, event, queue, delivered, handler, reader>>

\* An error of the update is logged only, here and below.
MarkNotificationSent(w) ==
  /\ worker[w].pc = "sent"
  /\ UpdateNotificationEventStatus(worker[w].cur, "sent") \/ UNCHANGED event
  /\ worker' = [worker EXCEPT ![w].pc = "marked"]
  /\ UNCHANGED <<shipment, token, queue, delivered, mailed, handler, reader>>

\* A failed mail is deleted like a sent one.
MarkFailedAndDelete(w) ==
  /\ worker[w].pc = "unsent"
  /\ UpdateNotificationEventStatus(worker[w].cur, "failed") \/ UNCHANGED event
  /\ DeleteMessage(worker[w].cur)
  /\ worker' = [worker EXCEPT ![w] = Handled(w, worker[w].cur)]
  /\ UNCHANGED <<shipment, token, delivered, mailed, handler, reader>>

\* The message stays in the queue.
MarkNotificationFailed(w) ==
  /\ worker[w].pc = "unsent"
  /\ UpdateNotificationEventStatus(worker[w].cur, "failed") \/ UNCHANGED event
  /\ worker' = [worker EXCEPT ![w] = Handled(w, worker[w].cur)]
  /\ UNCHANGED <<shipment, token, queue, delivered, mailed, handler, reader>>

Delete(w) ==
  /\ worker[w].pc = "marked"
  /\ DeleteMessage(worker[w].cur)
  /\ worker' = [worker EXCEPT ![w] = Handled(w, worker[w].cur)]
  /\ UNCHANGED <<shipment, token, event, delivered, mailed, handler, reader>>

\* A failed delete is marked as a failed notification.
DeleteFailureMarked(w) ==
  /\ worker[w].pc = "marked"
  /\ UpdateNotificationEventStatus(worker[w].cur, "failed")
  /\ worker' = [worker EXCEPT ![w] = Handled(w, worker[w].cur)]
  /\ UNCHANGED <<shipment, token, queue, delivered, mailed, handler, reader>>

DeleteFails(w) ==
  /\ worker[w].pc = "marked"
  /\ worker' = [worker EXCEPT ![w] = Handled(w, worker[w].cur)]
  /\ UNCHANGED <<shipment, token, event, queue, delivered, mailed, handler, reader>>

Restart(w) ==
  /\ worker[w].pc # "poll"
  /\ worker' = [worker EXCEPT ![w] = AtRest]
  /\ UNCHANGED <<shipment, token, event, queue, delivered, mailed, handler, reader>>

WorkerStep(w) ==
  \/ \E B \in SUBSET queue : Receive(w, B)
  \/ \E m \in Messages : DropMalformed(w, m) \/ KeepMalformed(w, m)
                         \/ SendEmail(w, m) \/ SendFails(w, m)
  \/ MarkNotificationSent(w) \/ MarkNotificationFailed(w)
  \/ Delete(w) \/ DeleteFails(w) \/ Restart(w)

----------------------------------------------------------------------------
(* GET /v1/shipments/{id} and /v1/shipments/{id}/notifications. *)

\* The shipment is looked up once, by the first statement of a request; a purge may come
\* before any of the others. First a request for the detail ...
GetDetail(v) ==
  /\ reader[v].pc = "idle" /\ Exists
  /\ reader' = [reader EXCEPT ![v].pc = "owner"]
  /\ UNCHANGED <<shipment, token, event, queue, delivered, mailed, handler, worker>>

\* ... whose summary counts the rows that one statement returns ...
ReadSummary(v) ==
  /\ reader[v].pc = "owner"
  /\ reader' = [reader EXCEPT ![v].pc = "summary", ![v].total = Cardinality(Rows)]
  /\ UNCHANGED <<shipment, token, event, queue, delivered, mailed, handler, worker>>

\* ... and the recipients are counted by a later one.
ReadRecipientStats(v) ==
  /\ reader[v].pc = "summary"
  /\ reader' = [reader EXCEPT ![v].pc = "detail",
                              ![v].count = [r \in Recipients |-> Cardinality(RowsOf(r))]]
  /\ UNCHANGED <<shipment, token, event, queue, delivered, mailed, handler, worker>>

\* The offset is taken for the last row shown.
PageShifted(offset) ==
  {i \in Rows : LET newer == Cardinality({j \in Rows : j > i})
                IN offset < newer /\ newer <= offset + PageSize}

\* ORDER BY created_at DESC, id DESC LIMIT .. OFFSET ..
PageOfRows(offset) ==
  {i \in Rows : LET newer == Cardinality({j \in Rows : j > i})
                IN offset <= newer /\ newer < offset + PageSize}

\* Then a request for a page, the first or the next.
GetPage(v) ==
  /\ reader[v].pc \in {"idle", "page"} /\ Exists
  /\ reader' = [reader EXCEPT ![v].pc = "list"]
  /\ UNCHANGED <<shipment, token, event, queue, delivered, mailed, handler, worker>>

ReadPage(v) ==
  /\ reader[v].pc = "list"
  /\ reader' = [reader EXCEPT ![v].pc = "more",
                              ![v].first = IF reader[v].offset = 0 THEN Len(event) ELSE @,
                              ![v].seen = @ \cup PageOfRows(reader[v].offset)]
  /\ UNCHANGED <<shipment, token, event, queue, delivered, mailed, handler, worker>>

\* The total is counted after the page; a client asks for pages until it is reached.
CountNotificationEvents(v) ==
  /\ reader[v].pc = "more"
  /\ reader' = [reader EXCEPT ![v].offset = @ + PageSize,
       ![v].pc = IF reader[v].offset + PageSize < Cardinality(Rows) THEN "page" ELSE "walked"]
  /\ UNCHANGED <<shipment, token, event, queue, delivered, mailed, handler, worker>>

ReaderStep(v) ==
  \/ GetDetail(v) \/ ReadSummary(v) \/ ReadRecipientStats(v)
  \/ GetPage(v) \/ ReadPage(v) \/ CountNotificationEvents(v)

----------------------------------------------------------------------------
Next ==
  \/ \E h \in Handlers : HandlerStep(h)
  \/ DeleteShipment \/ Purge
  \/ \E w \in Workers : WorkerStep(w)
  \/ \E v \in Readers : ReaderStep(v)

Spec == Init /\ [][Next]_vars

\* Workers go on with what they have received, poll for ever and restart; a call that
\* is repeated again and again is not refused for ever.
Fairness ==
  /\ \A w \in Workers : WF_vars(worker[w].pc # "poll" /\ WorkerStep(w))
  /\ \A m \in Messages :
       /\ SF_vars(\E w \in Workers : \E B \in SUBSET queue : m \in B /\ Receive(w, B))
       /\ SF_vars(\E w \in Workers : DropMalformed(w, m) \/ SendEmail(w, m))
       /\ SF_vars(\E w \in Workers : worker[w].cur = m /\ MarkNotificationSent(w))
       /\ SF_vars(\E w \in Workers : worker[w].cur = m /\ Delete(w))

FairSpec == Spec /\ Fairness

----------------------------------------------------------------------------
(* Properties *)

\* Rows, messages and local states keep their types.
TypeOK ==
  /\ shipment \in {"uploading", "sent", "deleted", "purged"}
  /\ token \subseteq Handlers \X Recipients
  /\ event \in Seq(EventRow) /\ Len(event) <= MaxEvents
  /\ queue \subseteq Messages /\ mailed \subseteq Messages
  /\ delivered \in [Messages -> 0 .. 2]
  /\ handler \in [Handlers -> HandlerState]
  /\ worker \in [Workers -> WorkerState]
  /\ reader \in [Readers -> ReaderState]

\* The owner's view never claims a mail that was not sent: sent, and the time of it, are
\* written after SES took the mail, whatever is received twice or marked in which order.
SentWasMailed ==
  \A i \in DOMAIN event : event[i].status = "sent" \/ event[i].sentAt => i \in mailed

\* A notification is lost only by a handler that fails, and then the answer says so: for
\* every other row the message stays in the queue until its mail was sent, whatever SES,
\* the marks and the deletes do and whoever restarts. Of the others only messages that do
\* not decode are dropped.
NothingLost ==
  /\ Invitations \subseteq queue \cup mailed
  /\ \A i \in DOMAIN event :
       \/ i \in queue \cup mailed
       \/ LET h == handler[event[i].by] IN h.id = i /\ h.pc \in {"enqueue", "failed"}

\* A mail leaves with a token the download handler knows: the token row is committed
\* before the message exists, and goes only with the shipment.
MailCarriesToken ==
  Exists => \A i \in DOMAIN event :
              i \in queue \cup mailed => <<event[i].by, event[i].rcpt>> \in token

\* A row says failed after it said sent only because its message was received twice: the
\* delete failed or was too late and the second mail was refused.
FailedAfterSentOnlyByRedelivery ==
  \A i \in DOMAIN event :
    event[i].status = "failed" /\ event[i].sentAt => delivered[i] = 2

\* The detail joins two reads: the recipients' counts miss a row that the summary has only
\* when a purge came between the two, and then they miss all of them.
DetailCoversSummary ==
  \A v \in Readers :
    reader[v].pc = "detail" =>
      \/ reader[v].total <= MapThenSumSet(LAMBDA r : reader[v].count[r], Recipients)
      \/ ~ Exists /\ \A r \in Recipients : reader[v].count[r] = 0

\* Rows inserted while somebody turns the pages only shift them: unless the shipment was
\* purged, every row that was there at the first page was on one of them.
WalkMissesNothing ==
  \A v \in Readers :
    reader[v].pc = "walked" /\ Exists => 1 .. reader[v].first \subseteq reader[v].seen

\* Every message is eventually out of the queue, the ones nobody can decode included.
QueueDrains == \A m \in Messages : m \in queue ~> m \notin queue
=============================================================================
