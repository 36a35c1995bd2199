------------------------- MODULE AuditOutboxProofs -------------------------
(***************************************************************************)
(* Proofs about AuditOutbox, for any set of operations, requests and       *)
(* workers and any batch size: types, no committed operation without its   *)
(* event or its row, disjoint batches, and the step simulation that makes  *)
(* the outbox an implementation of AuditTrail.                             *)
(***************************************************************************)
EXTENDS AuditOutbox, FiniteSetTheorems, TLAPS

\* Row of the outbox, event and business update belong together.
RowInv ==
  \A o \in Ops :
    /\ o \in committed <=> outbox[o] # "none"
    /\ o \in delivered <=> outbox[o] \in {"processed", "deleted"}

\* Claimed rows are pending, and nobody else's.
LockInv ==
  /\ \A w \in Workers : worker[w].batch \subseteq Pending
  /\ \A v, w \in Workers : v # w => worker[v].batch \cap worker[w].batch = {}

\* What a request has reached says what is in the database; only a finished request
\* has written a row of its own.
RequestFine(r) ==
  /\ req[r].pc \in {"new", "running"} => ~req[r].enqueued /\ ~req[r].ok
  /\ req[r].pc = "committed" => req[r].enqueued /\ req[r].op \in committed
  /\ req[r].pc = "answered" /\ req[r].ok =>
       /\ req[r].op \in committed
       /\ req[r].enqueued \/ req[r].op \in Repeatable
  /\ r \in direct => req[r].pc = "done"

RequestInv == \A r \in Requests : RequestFine(r)

IInv == TypeOK /\ RowInv /\ LockInv /\ RequestInv

----------------------------------------------------------------------------
(* Types. *)

\* The initial local states have their types.
LEMMA InitialStates ==
  NewRequest \in RequestState /\ IdleWorker \in WorkerState
<1>1. (CHOOSE o \in Ops : TRUE) \in Ops
  BY ConstantsAssumption
<1>2. {} \in Batch
  BY FS_EmptySet, ConstantsAssumption DEF Batch
<1> QED
  BY <1>1, <1>2 DEF NewRequest, RequestState, IdleWorker, WorkerState

\* A step of a request keeps the types.
LEMMA RequestTypes ==
  ASSUME TypeOK, RequestStep
  PROVE  TypeOK'
<1>1. PICK r \in Requests :
        \/ \E o \in Ops : Begin(r, o)
        \/ Commit(r) \/ CommitWithError(r) \/ Refuse(r) \/ Repeat(r)
        \/ Answer(r) \/ FailAfterCommit(r) \/ Record(r) \/ Stop(r)
  BY DEF RequestStep
<1>2. req[r] \in RequestState /\ req[r].op \in Ops
  BY DEF TypeOK, RequestState
<1>3. req' \in [Requests -> RequestState]
  BY <1>1, <1>2 DEF TypeOK, RequestState, Begin, Commit, CommitWithError, Refuse, Repeat,
     Answer, FailAfterCommit, Record, Stop
<1>4. committed' \subseteq Ops /\ outbox' \in [Ops -> {"none", "pending", "processed", "deleted"}]
  BY <1>1, <1>2 DEF TypeOK, Begin, Commit, CommitWithError, BusinessUpdate, Refuse, Repeat,
     Answer, FailAfterCommit, Record, Stop
<1>5. direct' \subseteq Requests /\ failed' \subseteq Requests
  BY <1>1 DEF TypeOK, Begin, Commit, CommitWithError, Refuse, Repeat, Answer, FailAfterCommit,
     Record, Stop
<1>6. UNCHANGED <<delivered, worker>>
  BY <1>1 DEF Begin, Commit, CommitWithError, Refuse, Repeat, Answer, FailAfterCommit, Record, Stop
<1> QED
  BY <1>3, <1>4, <1>5, <1>6 DEF TypeOK

\* A step of a worker keeps the types.
LEMMA WorkerTypes ==
  ASSUME TypeOK, WorkerStep
  PROVE  TypeOK'
<1>1. PICK w \in Workers : Claim(w) \/ Deliver(w) \/ DeleteProcessed(w) \/ EndRun(w)
  BY DEF WorkerStep
<1>2. worker[w] \in WorkerState /\ worker[w].batch \in SUBSET Ops
  BY DEF TypeOK, WorkerState, Batch
<1>3. {} \in Batch
  BY InitialStates DEF IdleWorker, WorkerState
<1>4. CASE Claim(w)
  <2>1. PICK B \in Batches(Pending \ Locked) :
          worker' = [worker EXCEPT ![w] = [pc |-> "claimed", batch |-> B]]
    BY <1>4 DEF Claim
  <2>2. B \in Batch
    BY DEF Batches, Batch, Pending
  <2>3. [pc |-> "claimed", batch |-> B] \in WorkerState
    BY <2>2 DEF WorkerState
  <2> QED
    BY <1>4, <2>1, <2>3 DEF TypeOK, Claim
<1>5. CASE Deliver(w)
  <2>1. [pc |-> "delivered", batch |-> {}] \in WorkerState
    BY <1>3 DEF WorkerState
  <2> QED
    BY <1>2, <1>5, <2>1 DEF TypeOK, Deliver
<1>6. CASE DeleteProcessed(w)
  <2>1. outbox' \in [Ops -> {"none", "pending", "processed", "deleted"}]
    BY <1>6 DEF TypeOK, DeleteProcessed
  <2> QED
    BY <1>6, <2>1, InitialStates DEF TypeOK, DeleteProcessed
<1>7. CASE EndRun(w)
  BY <1>7, InitialStates DEF TypeOK, EndRun
<1> QED
  BY <1>1, <1>4, <1>5, <1>6, <1>7

----------------------------------------------------------------------------
(* The inductive invariant. *)

LEMMA InitInv == Init => IInv
<1> SUFFICES ASSUME Init PROVE IInv
  OBVIOUS
<1>1. TypeOK
  BY InitialStates DEF Init, TypeOK
<1>2. RowInv
  BY DEF Init, RowInv
<1>3. LockInv
  BY DEF Init, LockInv, IdleWorker
<1>4. RequestInv
  BY DEF Init, RequestInv, RequestFine, NewRequest
<1> QED
  BY <1>1, <1>2, <1>3, <1>4 DEF IInv

\* What the steps of a request leave alone: a request adds a pending row together with
\* its operation, and changes no other row, no event, no worker.
LEMMA RequestFrame ==
  ASSUME IInv, RequestStep
  PROVE  /\ UNCHANGED <<delivered, worker>>
         /\ \/ UNCHANGED <<committed, outbox>>
            \/ \E o \in Ops : BusinessUpdate(o)
<1>1. PICK r \in Requests :
        \/ \E o \in Ops : Begin(r, o)
        \/ Commit(r) \/ CommitWithError(r) \/ Refuse(r) \/ Repeat(r)
        \/ Answer(r) \/ FailAfterCommit(r) \/ Record(r) \/ Stop(r)
  BY DEF RequestStep
<1>2. req[r].op \in Ops
  BY DEF IInv, TypeOK, RequestState
<1> QED
  BY <1>1, <1>2 DEF Begin, Commit, CommitWithError, Refuse, Repeat, Answer, FailAfterCommit,
     Record, Stop

LEMMA RequestKeepsRows ==
  ASSUME IInv, RequestStep
  PROVE  RowInv' /\ LockInv'
<1>1. UNCHANGED <<delivered, worker>>
  BY RequestFrame
<1>2. CASE UNCHANGED <<committed, outbox>>
  BY <1>1, <1>2 DEF IInv, RowInv, LockInv, Pending
<1>3. ASSUME NEW o \in Ops, BusinessUpdate(o)
      PROVE  RowInv' /\ LockInv'
  <2>1. RowInv'
    BY <1>1, <1>3 DEF IInv, TypeOK, RowInv, BusinessUpdate
  <2>2. Pending \subseteq Pending'
    BY <1>3 DEF IInv, TypeOK, RowInv, BusinessUpdate, Pending
  <2> QED
    BY <1>1, <2>1, <2>2 DEF IInv, LockInv
<1> QED
  BY <1>2, <1>3, RequestFrame

LEMMA RequestKeepsRequests ==
  ASSUME IInv, RequestStep
  PROVE  RequestInv'
<1>1. PICK r \in Requests :
        \/ \E o \in Ops : Begin(r, o)
        \/ Commit(r) \/ CommitWithError(r) \/ Refuse(r) \/ Repeat(r)
        \/ Answer(r) \/ FailAfterCommit(r) \/ Record(r) \/ Stop(r)
  BY DEF RequestStep
<1>2. committed \subseteq committed'
  BY RequestFrame DEF BusinessUpdate
<1>3. \A x \in Requests \ {r} : req'[x] = req[x] /\ (x \in direct' <=> x \in direct)
  BY <1>1 DEF IInv, TypeOK, Begin, Commit, CommitWithError, Refuse, Repeat, Answer,
     FailAfterCommit, Record, Stop
<1>4. req[r] \in RequestState /\ req[r].op \in Ops
  BY DEF IInv, TypeOK, RequestState
<1>5. RequestFine(r)'
  <2>1. /\ req[r].pc \in {"new", "running"} => ~req[r].enqueued /\ ~req[r].ok
        /\ req[r].pc = "committed" => req[r].enqueued /\ req[r].op \in committed
        /\ r \in direct => req[r].pc = "done"
    BY DEF IInv, RequestInv, RequestFine
  <2>2. ASSUME NEW o \in Ops, Begin(r, o) PROVE RequestFine(r)'
    BY <1>4, <2>1, <2>2 DEF IInv, TypeOK, RequestState, RequestFine, Begin
  <2>3. CASE Commit(r)
    BY <1>4, <2>1, <2>3 DEF IInv, TypeOK, RequestState, RequestFine, Commit, BusinessUpdate
  <2>4. CASE CommitWithError(r)
    BY <1>4, <2>1, <2>4 DEF IInv, TypeOK, RequestState, RequestFine, CommitWithError
  <2>5. CASE Refuse(r)
    BY <1>4, <2>1, <2>5 DEF IInv, TypeOK, RequestState, RequestFine, Refuse
  <2>6. CASE Repeat(r)
    BY <1>4, <2>1, <2>6 DEF IInv, TypeOK, RequestState, RequestFine, Repeat
  <2>7. CASE Answer(r)
    BY <1>4, <2>1, <2>7 DEF IInv, TypeOK, RequestState, RequestFine, Answer
  <2>8. CASE FailAfterCommit(r)
    BY <1>4, <2>1, <2>8 DEF IInv, TypeOK, RequestState, RequestFine, FailAfterCommit
  <2>9. CASE Record(r)
    BY <1>4, <2>1, <2>9 DEF IInv, TypeOK, RequestState, RequestFine, Record
  <2>10. CASE Stop(r)
    BY <1>4, <2>1, <2>10 DEF IInv, TypeOK, RequestState, RequestFine, Stop
  <2> QED
    BY <1>1, <2>2, <2>3, <2>4, <2>5, <2>6, <2>7, <2>8, <2>9, <2>10
<1>6. Repeatable' = Repeatable
  BY DEF Repeatable
<1>7. ASSUME NEW x \in Requests \ {r} PROVE RequestFine(x)'
  BY <1>2, <1>3, <1>6, <1>7 DEF IInv, RequestInv, RequestFine
<1> QED
  BY <1>5, <1>7 DEF RequestInv

LEMMA WorkerKeepsRows ==
  ASSUME IInv, WorkerStep
  PROVE  RowInv' /\ LockInv'
<1>1. PICK w \in Workers : Claim(w) \/ Deliver(w) \/ DeleteProcessed(w) \/ EndRun(w)
  BY DEF WorkerStep
<1>2. worker[w].batch \subseteq Ops
  BY DEF IInv, TypeOK, WorkerState, Batch
<1>3. CASE Claim(w)
  <2>1. PICK B \in Batches(Pending \ Locked) :
          worker' = [worker EXCEPT ![w] = [pc |-> "claimed", batch |-> B]]
    BY <1>3 DEF Claim
  <2>2. B \subseteq Pending /\ \A v \in Workers : B \cap worker[v].batch = {}
    BY DEF Batches, Locked
  <2>3. worker'[w].batch = B /\ \A v \in Workers \ {w} : worker'[v] = worker[v]
    BY <2>1 DEF IInv, TypeOK
  <2>4. RowInv' /\ Pending' = Pending
    BY <1>3 DEF IInv, RowInv, Claim, Pending
  <2> QED
    BY <2>2, <2>3, <2>4 DEF IInv, LockInv
<1>4. CASE Deliver(w)
  <2>1. worker'[w].batch = {} /\ \A v \in Workers \ {w} : worker'[v] = worker[v]
    BY <1>4 DEF IInv, TypeOK, Deliver
  <2>2. \A o \in worker[w].batch : outbox[o] = "pending"
    BY DEF IInv, LockInv, Pending
  <2>3. RowInv'
    BY <1>2, <1>4, <2>2 DEF IInv, TypeOK, RowInv, Deliver
  <2>4. \A v \in Workers \ {w} : worker[v].batch \subseteq Pending'
    <3> SUFFICES ASSUME NEW v \in Workers \ {w}, NEW o \in worker[v].batch
                 PROVE  o \in Pending'
      OBVIOUS
    <3>1. o \in Ops /\ outbox[o] = "pending" /\ o \notin worker[w].batch
      BY DEF IInv, LockInv, Pending
    <3> QED
      BY <1>4, <3>1 DEF Deliver, Pending
  <2> QED
    BY <2>1, <2>3, <2>4 DEF IInv, LockInv
<1>5. CASE DeleteProcessed(w)
  <2>1. PICK D \in SUBSET Deletable :
          outbox' = [o \in Ops |-> IF o \in D THEN "deleted" ELSE outbox[o]]
    BY <1>5 DEF DeleteProcessed
  <2>2. RowInv'
    BY <1>5, <2>1 DEF IInv, TypeOK, RowInv, DeleteProcessed, Deletable
  <2>3. Pending \subseteq Pending'
    BY <2>1 DEF Pending, Deletable
  <2>4. worker'[w].batch = {} /\ \A v \in Workers \ {w} : worker'[v] = worker[v]
    BY <1>5 DEF IInv, TypeOK, DeleteProcessed, IdleWorker
  <2> QED
    BY <2>2, <2>3, <2>4 DEF IInv, LockInv
<1>6. CASE EndRun(w)
  <2>1. worker'[w].batch = {} /\ \A v \in Workers \ {w} : worker'[v] = worker[v]
    BY <1>6 DEF IInv, TypeOK, EndRun, IdleWorker
  <2>2. RowInv' /\ Pending' = Pending
    BY <1>6 DEF IInv, RowInv, EndRun, Pending
  <2> QED
    BY <2>1, <2>2 DEF IInv, LockInv
<1> QED
  BY <1>1, <1>3, <1>4, <1>5, <1>6

LEMMA WorkerKeepsRequests ==
  ASSUME IInv, WorkerStep
  PROVE  RequestInv'
<1>1. UNCHANGED <<committed, direct, req>>
  BY DEF WorkerStep, Claim, Deliver, DeleteProcessed, EndRun
<1> QED
  BY <1>1 DEF IInv, RequestInv, RequestFine, Repeatable

LEMMA NextInv == IInv /\ [Next]_vars => IInv'
<1> SUFFICES ASSUME IInv, [Next]_vars PROVE IInv'
  OBVIOUS
<1>1. CASE RequestStep
  <2>1. TypeOK'
    BY <1>1, RequestTypes DEF IInv
  <2> QED
    BY <1>1, <2>1, RequestKeepsRows, RequestKeepsRequests DEF IInv
<1>2. CASE WorkerStep
  <2>1. TypeOK'
    BY <1>2, WorkerTypes DEF IInv
  <2> QED
    BY <1>2, <2>1, WorkerKeepsRows, WorkerKeepsRequests DEF IInv
<1>3. CASE UNCHANGED vars
  BY <1>3 DEF vars, IInv, TypeOK, RowInv, LockInv, RequestInv, RequestFine, Pending, Repeatable
<1> QED
  BY <1>1, <1>2, <1>3 DEF Next

LEMMA Invariance == Spec => []IInv
  BY InitInv, NextInv, PTL DEF Spec

----------------------------------------------------------------------------
(* Theorems. *)

\* Every row of the outbox and every local state keeps its type, batches their size.
THEOREM TypeCorrect == Spec => []TypeOK
<1>1. IInv => TypeOK
  BY DEF IInv
<1> QED
  BY <1>1, Invariance, PTL

\* A committed operation has its event in the final table or a row that waits for
\* delivery, in every state, for any number of requests and workers.
THEOREM NoOperationUnaudited == Spec => []NeverUnaudited
<1>1. IInv => NeverUnaudited
  BY DEF IInv, TypeOK, RowInv, RequestInv, RequestFine, NeverUnaudited
<1> QED
  BY <1>1, Invariance, PTL

\* No row is claimed by two workers.
THEOREM RowsClaimedOnce == Spec => []BatchesDisjoint
<1>1. IInv => BatchesDisjoint
  BY DEF IInv, LockInv, BatchesDisjoint
<1> QED
  BY <1>1, Invariance, PTL

----------------------------------------------------------------------------
(* The refinement. *)

DirectOf(o) == {r \in direct : req[r].op = o}

\* A repeated answer that the middleware records itself.
RecordsRepeat(r) ==
  /\ req[r].op \in Repeatable \cap committed
  /\ r \notin direct
  /\ \A o \in Ops :
       DirectOf(o)' = IF o = req[r].op THEN DirectOf(o) \cup {r} ELSE DirectOf(o)
  /\ UNCHANGED <<committed, delivered>>

\* A request changes the rows written directly only when it records a repeated answer.
LEMMA DirectRows ==
  ASSUME IInv, RequestStep
  PROVE  \/ \A o \in Ops : DirectOf(o)' = DirectOf(o)
         \/ \E r \in Requests : RecordsRepeat(r)
<1>1. PICK r \in Requests :
        \/ \E o \in Ops : Begin(r, o)
        \/ Commit(r) \/ CommitWithError(r) \/ Refuse(r) \/ Repeat(r)
        \/ Answer(r) \/ FailAfterCommit(r) \/ Record(r) \/ Stop(r)
  BY DEF RequestStep
<1>2. direct \subseteq Requests /\ r \notin direct
  <2>1. r \in direct => req[r].pc = "done"
    BY DEF IInv, RequestInv, RequestFine
  <2> QED
    BY <1>1, <2>1 DEF IInv, TypeOK, Begin, Commit, CommitWithError, Refuse, Repeat, Answer,
       FailAfterCommit, Record, Stop
<1>3. \A x \in Requests \ {r} : req'[x] = req[x]
  BY <1>1 DEF IInv, TypeOK, Begin, Commit, CommitWithError, Refuse, Repeat, Answer,
     FailAfterCommit, Record, Stop
<1>4. CASE direct' = direct
  BY <1>2, <1>3, <1>4 DEF DirectOf
<1>5. CASE direct' # direct
  <2>1. Record(r)
    BY <1>1, <1>5 DEF Begin, Commit, CommitWithError, Refuse, Repeat, Answer, FailAfterCommit, Stop
  <2>2. req[r].ok /\ ~req[r].enqueued /\ direct' = direct \cup {r}
    BY <1>5, <2>1 DEF Record, Suppressed
  <2>3. req[r].op \in Repeatable \cap committed
    BY <2>1, <2>2 DEF Record, IInv, RequestInv, RequestFine
  <2>4. req'[r].op = req[r].op
    BY <2>1 DEF Record, IInv, TypeOK, RequestState
  <2>5. \A o \in Ops :
          DirectOf(o)' = IF o = req[r].op THEN DirectOf(o) \cup {r} ELSE DirectOf(o)
    BY <1>2, <1>3, <2>2, <2>4 DEF DirectOf
  <2> QED
    BY <1>2, <2>1, <2>3, <2>5 DEF RecordsRepeat, Record
<1> QED
  BY <1>4, <1>5

\* The count of an operation's success events is a number, and finite sets grow by one.
LEMMA DirectFinite ==
  ASSUME IInv, NEW o \in Ops
  PROVE  IsFiniteSet(DirectOf(o)) /\ Cardinality(DirectOf(o)) \in Nat
<1>1. DirectOf(o) \subseteq Requests
  BY DEF IInv, TypeOK, DirectOf
<1> QED
  BY <1>1, ConstantsAssumption, FS_Subset, FS_CardinalityType

LEMMA RefineInit == Init => Trail!Init
<1> SUFFICES ASSUME Init PROVE Trail!Init
  OBVIOUS
<1>1. ASSUME NEW o \in Ops PROVE Successes(o) = 0
  <2>1. {r \in direct : req[r].op = o} = {} /\ o \notin delivered
    BY DEF Init
  <2> QED
    BY <2>1, FS_EmptySet DEF Successes
<1> QED
  BY <1>1 DEF Init, Trail!Init

\* Every step of the outbox is a step of the trail or changes nothing of it.
LEMMA RefineNext == IInv /\ [Next]_vars => [Trail!Next]_(Trail!vars)
<1> SUFFICES ASSUME IInv, [Next]_vars PROVE [Trail!Next]_(Trail!vars)
  OBVIOUS
<1>1. \A o \in Ops : /\ Successes(o) = Cardinality(DirectOf(o)) + (IF o \in delivered THEN 1 ELSE 0)
                      /\ Successes(o)' = Cardinality(DirectOf(o)') + (IF o \in delivered' THEN 1 ELSE 0)
  BY DEF Successes, DirectOf
<1>2. CASE RequestStep
  <2>1. UNCHANGED delivered
    BY <1>2, RequestFrame
  <2>2. CASE \A o \in Ops : DirectOf(o)' = DirectOf(o)
    <3>1. [o \in Ops |-> Successes(o)]' = [o \in Ops |-> Successes(o)]
      BY <1>1, <2>1, <2>2
    <3>2. CASE UNCHANGED <<committed, outbox>>
      BY <2>1, <3>1, <3>2 DEF Trail!vars
    <3>3. ASSUME NEW o \in Ops, BusinessUpdate(o) PROVE Trail!Next
      BY <2>1, <3>1, <3>3 DEF BusinessUpdate, Trail!Next, Trail!Perform
    <3> QED
      BY <1>2, <3>2, <3>3, RequestFrame
  <2>3. ASSUME NEW r \in Requests, RecordsRepeat(r) PROVE Trail!Next
    <3> DEFINE p == req[r].op
    <3>1. p \in Repeatable /\ p \in committed /\ p \in Ops
      BY <2>3 DEF RecordsRepeat, Repeatable
    <3>2. Cardinality(DirectOf(p) \cup {r}) = Cardinality(DirectOf(p)) + 1
      <4>1. r \notin DirectOf(p)
        BY <2>3 DEF RecordsRepeat, DirectOf
      <4> QED
        BY <3>1, <4>1, DirectFinite, FS_AddElement
    <3>3. \A o \in Ops : Successes(o)' = IF o = p THEN Successes(o) + 1 ELSE Successes(o)
      <4> SUFFICES ASSUME NEW o \in Ops
                   PROVE  Successes(o)' = IF o = p THEN Successes(o) + 1 ELSE Successes(o)
        OBVIOUS
      <4>1. Cardinality(DirectOf(o)) \in Nat
        BY DirectFinite
      <4>2. DirectOf(o)' = IF o = p THEN DirectOf(o) \cup {r} ELSE DirectOf(o)
        BY <2>3 DEF RecordsRepeat
      <4>3. CASE o = p
        <5>1. Cardinality(DirectOf(o)') = Cardinality(DirectOf(o)) + 1
          BY <3>2, <4>2, <4>3
        <5> QED
          BY <1>1, <2>1, <4>1, <4>3, <5>1
      <4>4. CASE o # p
        BY <1>1, <2>1, <4>1, <4>2, <4>4
      <4> QED
        BY <4>3, <4>4
    <3>4. [o \in Ops |-> Successes(o)]' = [[o \in Ops |-> Successes(o)] EXCEPT ![p] = @ + 1]
      BY <3>1, <3>3
    <3>5. UNCHANGED <<committed, delivered>>
      BY <2>3 DEF RecordsRepeat
    <3> QED
      BY <3>1, <3>4, <3>5 DEF Trail!Next, Trail!Repeat
  <2> QED
    BY <1>2, <2>2, <2>3, DirectRows
<1>3. ASSUME UNCHANGED <<committed, delivered, direct, req>> PROVE UNCHANGED Trail!vars
  <2>1. [o \in Ops |-> Successes(o)]' = [o \in Ops |-> Successes(o)]
    BY <1>3 DEF Successes
  <2> QED
    BY <1>3, <2>1 DEF Trail!vars
<1>4. CASE WorkerStep
  <2>1. PICK w \in Workers : Claim(w) \/ Deliver(w) \/ DeleteProcessed(w) \/ EndRun(w)
    BY <1>4 DEF WorkerStep
  <2>2. CASE Deliver(w)
    <3> DEFINE B == worker[w].batch
    <3>1. B \subseteq Ops /\ B \subseteq committed \ delivered
      BY DEF IInv, TypeOK, RowInv, LockInv, Pending
    <3>2. delivered' = delivered \cup B /\ UNCHANGED <<committed, direct, req>>
      BY <2>2 DEF Deliver
    <3>3. \A o \in Ops : Successes(o)' = IF o \in B THEN Successes(o) + 1 ELSE Successes(o)
      <4> SUFFICES ASSUME NEW o \in Ops
                   PROVE  Successes(o)' = IF o \in B THEN Successes(o) + 1 ELSE Successes(o)
        OBVIOUS
      <4>1. Cardinality(DirectOf(o)) \in Nat /\ DirectOf(o)' = DirectOf(o)
        BY <3>2, DirectFinite DEF DirectOf
      <4> QED
        BY <1>1, <3>1, <3>2, <4>1
    <3>4. Trail!Append(B)
      BY <3>1, <3>2, <3>3 DEF Trail!Append
    <3> QED
      BY <3>1, <3>4 DEF Trail!Next
  <2>3. CASE Claim(w) \/ DeleteProcessed(w) \/ EndRun(w)
    BY <1>3, <2>3 DEF Claim, DeleteProcessed, EndRun
  <2> QED
    BY <2>1, <2>2, <2>3
<1>5. CASE UNCHANGED vars
  BY <1>3, <1>5 DEF vars
<1> QED
  BY <1>2, <1>4, <1>5 DEF Next

\* The outbox keeps the promise of AuditTrail: the final table gets one success event
\* of each committed operation and of nothing else, but for the requests that a
\* completed upload answers again.
THEOREM OutboxKeepsTrail == Spec => TrailKept
  BY RefineInit, RefineNext, Invariance, PTL DEF Spec, TrailKept, Trail!Spec
=============================================================================
