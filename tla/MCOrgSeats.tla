----------------------------- MODULE MCOrgSeats -----------------------------
(* Instances of OrgSeats for TLC. *)
EXTENDS OrgSeats, TLC

CONSTANT MaxTogether   \* bound: handlers, changes of the subscription and invitations of the start

Symmetry == Permutations(Acceptors) \cup Permutations(Inviters) \cup Permutations(Invited)

\* A handler that gives up has committed, queued or locked something: one that has not is
\* one that never goes on.
EarlyFailure ==
  \E p \in Requests : req[p].pc \in {"limit", "usage", "insert", "begin", "row", "refresh"}
                      /\ req[p].stale = {} /\ orgLock # p /\ req'[p].pc = "failed"

AtStart  == {i \in DOMAIN invitation : <<i, None>> \in mailed}
Together == Cardinality({p \in Requests : req[p].pc # "start"}) + changes + Cardinality(AtStart)
              <= MaxTogether

\* Every seat is sold, and somebody invited, at the start.
LateSpec == Init /\ limit = MaxSeats /\ AtStart # {} /\ [][Next /\ Together' /\ ~ EarlyFailure]_vars
=============================================================================
