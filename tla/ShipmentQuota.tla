---------------------------- MODULE ShipmentQuota ----------------------------
(***************************************************************************)
(* The monthly number of shipments of the free plan, with the subscription *)
(* of module Billing.                                                      *)
(*                                                                         *)
(* A draft is a row from its first upload on.  To finalize it, the plan is *)
(* read, the rows of the last thirty days are counted and, in a later      *)
(* transaction, the row becomes a sent shipment; with the request for an   *)
(* organization, the draft becomes the organization's.                     *)
(*                                                                         *)
(* Abstracted: one account sends all of them, for itself, on the free      *)
(* plan, or for one organization; the thirty days do not pass; sizes,      *)
(* retention and everything else that a finalize checks and writes (module *)
(* ShipmentAccess).                                                        *)
(***************************************************************************)
EXTENDS Billing

CONSTANTS
  Shipments,              \* rows that are ever created
  MonthlyShipmentLimit    \* shipments of the free plan

ASSUME QuotaAssumption == IsFiniteSet(Shipments) /\ MonthlyShipmentLimit \in Nat

VARIABLES
  shipment,    \* rows of shipments and, for a draft, where its finalize is
  free,        \* history: sent for the organization after a check of the free plan
  overlapped   \* history: personal drafts that another check for the organization did not count

quota == <<shipment, free, overlapped>>
vars  == <<stripe, events, row, latest, member, sync, shipment, free, overlapped>>

Scopes      == {"user", "org"}
ShipmentRow == [status : {"none", "uploading", "sent"}, of : Scopes,
                pc : {"idle", "count", "commit"}, scope : Scopes]
NoShipment  == [status |-> "none", of |-> "user", pc |-> "idle", scope |-> "user"]

Init ==
  /\ BillingInit
  /\ shipment = [x \in Shipments |-> NoShipment] /\ free = {} /\ overlapped = {}

Rows == {x \in Shipments : shipment[x].status # "none"}

\* Drafts do not count.
GetUsageSent(scope) ==
  {x \in Rows : shipment[x].status = "sent" /\ (scope = "org" => shipment[x].of = "org")}

\* Of the organization, or of the account whoever it sends for: drafts count like the rest.
GetUsage(scope) ==
  IF scope = "org" THEN {x \in Rows : shipment[x].of = "org"} ELSE Rows

\* The first upload creates the row; nothing is counted.
CreateDraft(x, scope) ==
  /\ shipment[x].status = "none"
  /\ shipment' = [shipment EXCEPT ![x].status = "uploading", ![x].of = scope]
  /\ UNCHANGED <<billing, free, overlapped>>

\* The plan is read first; the paid plan has no limit.
GetPlan(x, scope) ==
  /\ shipment[x].status = "uploading" /\ shipment[x].pc = "idle"
  /\ shipment' = [shipment EXCEPT ![x].scope = scope,
                    ![x].pc = IF scope = "org" /\ PaidPlan THEN "commit" ELSE "count"]
  /\ free' = IF scope = "org" /\ ~ PaidPlan THEN free \cup {x} ELSE free \ {x}
  /\ UNCHANGED <<billing, overlapped>>

UsageBelowLimit(x) ==
  Cardinality(GetUsage(shipment[x].scope)) < MonthlyShipmentLimit

EnforceShipmentLimit(x) ==
  /\ shipment[x].pc = "count" /\ UsageBelowLimit(x)
  /\ shipment' = [shipment EXCEPT ![x].pc = "commit"]
  /\ overlapped' = IF shipment[x].scope = "user" THEN overlapped ELSE overlapped \cup
       {y \in free : shipment[y].pc = "commit" /\ shipment[y].of = "user"}
  /\ UNCHANGED <<billing, free>>

RefuseShipment(x) ==
  /\ shipment[x].pc = "count" /\ ~ UsageBelowLimit(x)
  /\ shipment' = [shipment EXCEPT ![x].pc = "idle", ![x].scope = "user"]
  /\ free' = free \ {x}
  /\ UNCHANGED <<billing, overlapped>>

\* A draft stays the organization's.
FinalizeShipment(x) ==
  /\ shipment[x].pc = "commit"
  /\ shipment' = [shipment EXCEPT ![x] =
       [NoShipment EXCEPT !.status = "sent",
                          !.of = IF shipment[x].scope = "org" THEN "org" ELSE @]]
  /\ UNCHANGED <<billing, free, overlapped>>

\* Any later check or an error.
FinalizeFails(x) ==
  /\ shipment[x].pc # "idle"
  /\ shipment' = [shipment EXCEPT ![x].pc = "idle", ![x].scope = "user"]
  /\ free' = free \ {x}
  /\ UNCHANGED <<billing, overlapped>>

\* A deleted shipment loses its row, and its place in the count.
DeletePurgedShipment(x) ==
  /\ shipment[x].status = "sent"
  /\ shipment' = [shipment EXCEPT ![x] = NoShipment]
  /\ free' = free \ {x}
  /\ UNCHANGED <<billing, overlapped>>

QuotaStep(x) ==
  \/ \E scope \in Scopes : CreateDraft(x, scope) \/ GetPlan(x, scope)
  \/ EnforceShipmentLimit(x) \/ RefuseShipment(x) \/ FinalizeShipment(x) \/ FinalizeFails(x)
  \/ DeletePurgedShipment(x)

Next == (BillingNext /\ UNCHANGED quota) \/ \E x \in Shipments : QuotaStep(x)

Spec == Init /\ [][Next]_vars

----------------------------------------------------------------------------
(* Properties *)

\* Rows, events and local states keep their types.
TypeOK ==
  /\ stripe \in [Subs -> State] /\ row \in [Subs -> State] /\ latest \in Subs \cup {None}
  /\ events \in Seq(Event)
  /\ member \subseteq Users
  /\ sync \in [Handlers -> SyncState]
  /\ \A p \in Handlers :
       /\ sync[p].pc \in {"count", "update", "upsert"} => sync[p].sub \in Subs
       /\ sync[p].pc \in {"update", "upsert"} => sync[p].seats >= 1
  /\ shipment \in [Shipments -> ShipmentRow]
  /\ \A x \in Shipments : shipment[x].pc # "idle" => shipment[x].status = "uploading"
  /\ free \subseteq Shipments /\ overlapped \subseteq Shipments

\* Count and insert are apart and nothing locks, and still concurrent requests do not send
\* more for an organization on the free plan than the limit: the row that is to be sent is
\* there, and counted by the others, before its own check. Only drafts that become the
\* organization's with the finalize can pass together.
QuotaHolds ==
  Cardinality({x \in free : shipment[x].status = "sent"})
    <= MonthlyShipmentLimit + Cardinality(overlapped)

\* README.md: the free plan has fifty shipments a month: one is refused when there are that
\* many others.
RefusedOnlyAtLimit ==
  [][\A x \in Shipments : RefuseShipment(x) =>
       Cardinality(GetUsage(shipment[x].scope) \ {x}) >= MonthlyShipmentLimit]_vars
=============================================================================
