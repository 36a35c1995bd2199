-------------------------- MODULE MCShipmentAccess --------------------------
(* Instances of ShipmentAccess for TLC. *)
EXTENDS ShipmentAccess, TLC

CONSTANTS s1, s2, t1, t2

\* Two tokens of one shipment, or one for each of two.
OneShipment   == (t1 :> s1) @@ (t2 :> s1)
EachShipment  == (t1 :> s1) @@ (t2 :> s2)

Symmetry == Permutations(Requests)

\* All requests at once against the owner, before the clock moves and while neither a
\* resend nor a cleanup run is under way ...
Crowd == /\ now = 0
         /\ \A x \in Resenders : resend[x].pc = "idle"
         /\ \A w \in Workers : worker[w].pc = "idle"

\* ... or at most one request, on a shipment downloaded once at most, against all others.
Alone == /\ Cardinality({r \in Requests : req[r].pc # "idle"}) <= 1
         /\ \A s \in Shipments : shipment[s].max = 1 /\ events[s] <= 1

ApartSpec == Init /\ [][Next /\ (Crowd \/ Alone)']_vars
=============================================================================
