--------------------------- MODULE MCAuditOutbox ---------------------------
(* Instances of AuditOutbox for TLC. *)
EXTENDS AuditOutbox, TLC

CONSTANTS o1, o2

\* An operation that answers again and one that does work after its commit.
Kinds == (o1 :> "complete") @@ (o2 :> "create")
=============================================================================
