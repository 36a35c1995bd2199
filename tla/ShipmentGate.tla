---------------------------- MODULE ShipmentGate ----------------------------
(***************************************************************************)
(* What sharing promises to the owner of a shipment, without tokens,       *)
(* clocks, deletions and cleanup runs: a gate that opens once and closes   *)
(* for good.  Who asks while it is open comes in and looks how often the   *)
(* shipment was downloaded; who then saw less than the limit may take it   *)
(* once, also after the gate has closed, until everything is forgotten.    *)
(***************************************************************************)
EXTENDS Naturals

CONSTANTS Shipments, Visitors

VARIABLES
  life,        \* stage of a shipment: "none", "draft", "open", "closed", "gone"
  limit,       \* downloads allowed
  downloads,   \* downloads so far
  visit        \* where a visitor is and what it has seen

vars == <<life, limit, downloads, visit>>

Outside       == [stage |-> "out"]
Inside(s)     == [stage |-> "in", of |-> s]
Informed(s, n) == [stage |-> "informed", of |-> s, seen |-> n]

Init ==
  /\ life = [s \in Shipments |-> "none"]
  /\ limit \in [Shipments -> Nat]
  /\ downloads = [s \in Shipments |-> 0]
  /\ visit = [v \in Visitors |-> Outside]

Prepare(s) ==
  /\ life[s] = "none"
  /\ life' = [life EXCEPT ![s] = "draft"]
  /\ limit' = [limit EXCEPT ![s] = limit'[s]]
  /\ UNCHANGED <<downloads, visit>>

\* From here on the limit is what it is.
Open(s) ==
  /\ life[s] = "draft"
  /\ life' = [life EXCEPT ![s] = "open"]
  /\ limit' = [limit EXCEPT ![s] = limit'[s]]
  /\ UNCHANGED <<downloads, visit>>

\* The owner or time closes shipments, shared or not.
Close(S) ==
  /\ S # {} /\ \A s \in S : life[s] \in {"draft", "open"}
  /\ life' = [s \in Shipments |-> IF s \in S THEN "closed" ELSE life[s]]
  /\ UNCHANGED <<limit, downloads, visit>>

Forget(s) ==
  /\ life[s] = "closed"
  /\ life' = [life EXCEPT ![s] = "gone"]
  /\ limit' = [limit EXCEPT ![s] = 0]
  /\ downloads' = [downloads EXCEPT ![s] = 0]
  /\ UNCHANGED visit

Enter(v, s) ==
  /\ visit[v] = Outside /\ life[s] = "open"
  /\ visit' = [visit EXCEPT ![v] = Inside(s)]
  /\ UNCHANGED <<life, limit, downloads>>

Look(v, s) ==
  /\ visit[v] = Inside(s)
  /\ visit' = [visit EXCEPT ![v] = Informed(s, downloads[s])]
  /\ UNCHANGED <<life, limit, downloads>>

Take(v, s) ==
  /\ visit[v].stage = "informed" /\ visit[v].of = s /\ visit[v].seen < limit[s]
  /\ life[s] \in {"open", "closed"}
  /\ downloads' = [downloads EXCEPT ![s] = @ + 1]
  /\ visit' = [visit EXCEPT ![v] = Outside]
  /\ UNCHANGED <<life, limit>>

Leave(v) ==
  /\ visit[v] # Outside
  /\ visit' = [visit EXCEPT ![v] = Outside]
  /\ UNCHANGED <<life, limit, downloads>>

Next ==
  \/ \E s \in Shipments : Prepare(s) \/ Open(s) \/ Forget(s)
  \/ \E S \in SUBSET Shipments : Close(S)
  \/ \E v \in Visitors : Leave(v) \/ \E s \in Shipments : Enter(v, s) \/ Look(v, s) \/ Take(v, s)

Spec == Init /\ [][Next]_vars
=============================================================================
