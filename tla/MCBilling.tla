------------------------------ MODULE MCBilling ------------------------------
(* Instances of ShipmentQuota, and of Billing in it, for TLC. *)
EXTENDS ShipmentQuota, TLC

CONSTANT MaxTogether   \* bound: events, handlers and drafts in one behaviour

Symmetry == Permutations(Shipments) \cup Permutations(Subs)

\* The first draft weighs two.
Together ==
  Len(events) + Cardinality({p \in Handlers : sync[p].pc # "start"})
    + (IF Rows = {} THEN 0 ELSE Cardinality(Rows) + 1) <= MaxTogether

BoundedSpec == Init /\ [][Next /\ Together']_vars
=============================================================================
