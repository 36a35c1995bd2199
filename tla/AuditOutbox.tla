----------------------------- MODULE AuditOutbox ----------------------------
(***************************************************************************)
(* The transactional outbox of the audit log: API requests that commit a   *)
(* business update together with an outbox row, the middleware that writes *)
(* the event of a request itself unless the outbox has it, and the audit   *)
(* workers that move rows to the append-only table security_audit_events.  *)
(*                                                                         *)
(* An operation is one business update that can commit once: the finalize  *)
(* of a shipment ("create"), its delete ("delete"), the completion of an   *)
(* upload session ("complete").  Its outbox row is named by it.  Several   *)
(* requests may ask for the same operation.  Each request is one handler   *)
(* run; a retry is another request.                                        *)
(*                                                                         *)
(* Abstracted: the content, keyed hashing and check constraints of a       *)
(* record, the order of rows within a batch, and the retention: a          *)
(* processed row may be deleted at any time later.                         *)
(***************************************************************************)
EXTENDS Integers, FiniteSets

CONSTANTS
  Ops,         \* business operations
  KindOf,      \* "create", "delete" or "complete"
  Requests,    \* HTTP requests
  Workers,     \* audit worker processes
  BatchSize    \* AUDIT_OUTBOX_BATCH_SIZE

ASSUME ConstantsAssumption ==
  /\ Ops # {}
  /\ IsFiniteSet(Requests)
  /\ KindOf \in [Ops -> {"create", "delete", "complete"}]
  /\ BatchSize \in Nat \ {0}

VARIABLES
  committed,   \* operations whose business update is in the database
  outbox,      \* rows of security_audit_outbox
  delivered,   \* rows of security_audit_events with the id of an outbox row
  direct,      \* the requests that wrote a row of their own, of outcome "success"
  failed,      \* the requests that wrote one of outcome "denied" or "failure"
  req,         \* local state of the requests
  worker       \* local state of the workers

vars == <<committed, outbox, delivered, direct, failed, req, worker>>

----------------------------------------------------------------------------
RequestState == [pc : {"new", "running", "committed", "answered", "done"},
                 op : Ops, ok : BOOLEAN, enqueued : BOOLEAN]
Batch        == {B \in SUBSET Ops : Cardinality(B) <= BatchSize}
WorkerState  == [pc : {"idle", "claimed", "delivered"}, batch : Batch]

NewRequest == [pc |-> "new", op |-> CHOOSE o \in Ops : TRUE, ok |-> FALSE, enqueued |-> FALSE]
IdleWorker == [pc |-> "idle", batch |-> {}]

Repeatable == {o \in Ops : KindOf[o] = "complete"}

Init ==
  /\ committed = {}
  /\ outbox = [o \in Ops |-> "none"]
  /\ delivered = {}
  /\ direct = {}
  /\ failed = {}
  /\ req = [r \in Requests |-> NewRequest]
  /\ worker = [w \in Workers |-> IdleWorker]

----------------------------------------------------------------------------
(* A request: business transaction, then the middleware. *)

Begin(r, o) ==
  /\ req[r].pc = "new"
  /\ req' = [req EXCEPT ![r].pc = "running", ![r].op = o]
  /\ UNCHANGED <<committed, outbox, delivered, direct, failed, worker>>

\* The insert of the outbox row outside the transaction, and lost.
UpdateWithoutRow(o) ==
  /\ o \notin committed
  /\ committed' = committed \cup {o}
  /\ UNCHANGED outbox

\* The row of the outbox is inserted by the transaction of the business update.
BusinessUpdate(o) ==
  /\ o \notin committed
  /\ committed' = committed \cup {o}
  /\ outbox' = [outbox EXCEPT ![o] = "pending"]

Commit(r) ==
  /\ req[r].pc = "running"
  /\ BusinessUpdate(req[r].op)
  /\ req' = [req EXCEPT ![r].pc = "committed", ![r].enqueued = TRUE]
  /\ UNCHANGED <<delivered, direct, failed, worker>>

\* The database committed and the client got an error: Enqueued is not set.
CommitWithError(r) ==
  /\ req[r].pc = "running"
  /\ BusinessUpdate(req[r].op)
  /\ req' = [req EXCEPT ![r].pc = "answered"]
  /\ UNCHANGED <<delivered, direct, failed, worker>>

\* Refused by a check, by the state of the database (the operation happened already),
\* or rolled back, an outbox insert that failed included.
Refuse(r) ==
  /\ req[r].pc = "running"
  /\ req' = [req EXCEPT ![r].pc = "answered"]
  /\ UNCHANGED <<committed, outbox, delivered, direct, failed, worker>>

\* A completed upload session answers again with success, without a transaction.
Repeat(r) ==
  /\ req[r].pc = "running"
  /\ req[r].op \in Repeatable \cap committed
  /\ req' = [req EXCEPT ![r].pc = "answered", ![r].ok = TRUE]
  /\ UNCHANGED <<committed, outbox, delivered, direct, failed, worker>>

Answer(r) ==
  /\ req[r].pc = "committed"
  /\ req' = [req EXCEPT ![r].pc = "answered", ![r].ok = TRUE]
  /\ UNCHANGED <<committed, outbox, delivered, direct, failed, worker>>

\* Work after the commit failed: enqueueing the mails of a shipment, or the second
\* revocation of the tokens of a deleted one.
FailAfterCommit(r) ==
  /\ req[r].pc = "committed"
  /\ KindOf[req[r].op] \in {"create", "delete"}
  /\ req' = [req EXCEPT ![r].pc = "answered"]
  /\ UNCHANGED <<committed, outbox, delivered, direct, failed, worker>>

NeverSuppressed(r) == FALSE      \* as before the outbox was introduced
Suppressed(r) == req[r].ok /\ req[r].enqueued

\* The middleware, after the handler: a row of its own unless the outbox has one.
Record(r) ==
  /\ req[r].pc = "answered"
  /\ direct' = IF req[r].ok /\ ~Suppressed(r) THEN direct \cup {r} ELSE direct
  /\ failed' = IF req[r].ok THEN failed ELSE failed \cup {r}
  /\ req' = [req EXCEPT ![r].pc = "done"]
  /\ UNCHANGED <<committed, outbox, delivered, worker>>

\* The insert failed or timed out, which is only logged, or the process died.
Stop(r) ==
  /\ req[r].pc \notin {"new", "done"}
  /\ req' = [req EXCEPT ![r].pc = "done"]
  /\ UNCHANGED <<committed, outbox, delivered, direct, failed, worker>>

----------------------------------------------------------------------------
(* The worker: deliver a batch, then delete old rows. *)

Pending == {o \in Ops : outbox[o] = "pending"}
NoLocks == {}      \* a plain SELECT
Locked  == UNION {worker[w].batch : w \in Workers}

NotLimited(S) == {S}      \* without LIMIT
Batches(S)    == {B \in SUBSET S : Cardinality(B) <= BatchSize /\ (B = S \/ Cardinality(B) = BatchSize)}

\* FOR UPDATE SKIP LOCKED LIMIT: as many unlocked rows as the batch takes.
Claim(w) ==
  /\ worker[w].pc = "idle"
  /\ \E B \in Batches(Pending \ Locked) :
       worker' = [worker EXCEPT ![w] = [pc |-> "claimed", batch |-> B]]
  /\ UNCHANGED <<committed, outbox, delivered, direct, failed, req>>

\* INSERT ... ON CONFLICT DO NOTHING, and processed_at of the claimed rows whose event
\* exists afterwards, commit together and release the locks.
DeliverUnmarked(w) ==      \* processed_at not set: the oldest row is delivered again and again
  /\ worker[w].pc = "claimed"
  /\ delivered' = delivered \cup worker[w].batch
  /\ worker' = [worker EXCEPT ![w] = [pc |-> "delivered", batch |-> {}]]
  /\ UNCHANGED <<committed, outbox, direct, failed, req>>

Deliver(w) ==
  /\ worker[w].pc = "claimed"
  /\ delivered' = delivered \cup worker[w].batch
  /\ outbox' = [o \in Ops |-> IF o \in worker[w].batch THEN "processed" ELSE outbox[o]]
  /\ worker' = [worker EXCEPT ![w] = [pc |-> "delivered", batch |-> {}]]
  /\ UNCHANGED <<committed, direct, failed, req>>

\* Rows that the retention allows to delete.
AnyRow    == {o \in Ops : outbox[o] # "none"}      \* pending ones too
Deletable == {o \in Ops : outbox[o] = "processed"}

DeleteProcessed(w) ==
  /\ worker[w].pc = "delivered"
  /\ \E D \in SUBSET Deletable :
       outbox' = [o \in Ops |-> IF o \in D THEN "deleted" ELSE outbox[o]]
  /\ worker' = [worker EXCEPT ![w] = IdleWorker]
  /\ UNCHANGED <<committed, delivered, direct, failed, req>>

\* A statement failed (delivery is rolled back) or the worker was restarted.
EndRun(w) ==
  /\ worker[w].pc # "idle"
  /\ worker' = [worker EXCEPT ![w] = IdleWorker]
  /\ UNCHANGED <<committed, outbox, delivered, direct, failed, req>>

----------------------------------------------------------------------------
RequestStep ==
  \E r \in Requests :
    \/ \E o \in Ops : Begin(r, o)
    \/ Commit(r) \/ CommitWithError(r) \/ Refuse(r) \/ Repeat(r)
    \/ Answer(r) \/ FailAfterCommit(r)
    \/ Record(r) \/ Stop(r)

WorkerStep ==
  \E w \in Workers : Claim(w) \/ Deliver(w) \/ DeleteProcessed(w) \/ EndRun(w)

Next == RequestStep \/ WorkerStep

Spec == Init /\ [][Next]_vars

\* A worker polls for ever, whatever a run did; the delivery of a row that is
\* tried again and again is not refused by the database for ever.
Fairness ==
  \A w \in Workers :
    /\ WF_vars(Claim(w))
    /\ \A o \in Ops : SF_vars(o \in worker[w].batch /\ Deliver(w))
    /\ WF_vars(EndRun(w))

FairSpec == Spec /\ Fairness

----------------------------------------------------------------------------
(* Properties. *)

\* Rows and local states are well formed.
TypeOK ==
  /\ committed \subseteq Ops
  /\ outbox \in [Ops -> {"none", "pending", "processed", "deleted"}]
  /\ delivered \subseteq Ops
  /\ direct \subseteq Requests
  /\ failed \subseteq Requests
  /\ req \in [Requests -> RequestState]
  /\ worker \in [Workers -> WorkerState]

\* A committed operation is never without its audit event: the event is in the final
\* table or its row waits in the outbox, whatever dies, fails or is deleted after the
\* retention, and no request was told success for an operation that did not commit.
NeverUnaudited ==
  /\ \A o \in committed : outbox[o] = "pending" \/ o \in delivered
  /\ \A r \in Requests : req[r].pc = "answered" /\ req[r].ok => req[r].op \in committed

\* Two workers never work on the same row, so that a slow delivery cannot be
\* overtaken by another one of the same event.
BatchesDisjoint ==
  \A v, w \in Workers : v # w => worker[v].batch \cap worker[w].batch = {}

\* Number of success events of an operation in the final table.
Successes(o) ==
  Cardinality({r \in direct : req[r].op = o}) + (IF o \in delivered THEN 1 ELSE 0)

Trail == INSTANCE AuditTrail WITH
  done <- committed,
  appended <- delivered,
  successes <- [o \in Ops |-> Successes(o)]

\* The outbox keeps the promise of AuditTrail: a success event only of a committed
\* operation, and exactly one for each, but for the requests that were answered again.
TrailKept == Trail!Spec

\* ... and every committed operation gets its event.
TrailComplete == Trail!AllAppended
=============================================================================
