----------------------------- MODULE AuditTrail -----------------------------
(***************************************************************************)
(* What the audit outbox promises: the final table gets a success event    *)
(* of a business operation only once the operation is committed, one for   *)
(* each operation, sooner or later, plus one for every request that an     *)
(* idempotent operation answers again.                                     *)
(***************************************************************************)
EXTENDS Naturals

CONSTANTS
  Ops,          \* business operations, each can happen once
  Repeatable    \* those of them that answer a repeated request with success

VARIABLES
  done,         \* operations that have happened
  appended,     \* those whose own event is in the table
  successes     \* number of success events in the table, per operation

vars == <<done, appended, successes>>

Init ==
  /\ done = {}
  /\ appended = {}
  /\ successes = [o \in Ops |-> 0]

Perform(o) ==
  /\ o \notin done
  /\ done' = done \cup {o}
  /\ UNCHANGED <<appended, successes>>

\* A batch of events is appended at once.
Append(B) ==
  /\ B \subseteq done \ appended
  /\ appended' = appended \cup B
  /\ successes' = [o \in Ops |-> IF o \in B THEN successes[o] + 1 ELSE successes[o]]
  /\ UNCHANGED done

Repeat(o) ==
  /\ o \in Repeatable \cap done
  /\ successes' = [successes EXCEPT ![o] = @ + 1]
  /\ UNCHANGED <<done, appended>>

Next ==
  \/ \E o \in Ops : Perform(o) \/ Repeat(o)
  \/ \E B \in SUBSET Ops : Append(B)

Spec == Init /\ [][Next]_vars

\* Every operation that happened gets its event.
AllAppended == \A o \in Ops : o \in done ~> o \in appended
=============================================================================
