SPECIFICATION ApartSpec
CONSTANTS
  s1 = s1
  s2 = s2
  t1 = t1
  t2 = t2
  Shipments = {s1}
  Tokens = {t1, t2}
  Requests = {r1, r2, r3}
  Resenders = {x1}
  Workers = {w1}
  ShipmentOf <- OneShipment
  DraftTTL = 1
  MinTTL = 1
  MaxTTL = 1
  DefaultMax = 1
  MaxLimit = 2
  Grace = 1
  BatchSize = 1
  MaxClock = 4
SYMMETRY Symmetry
INVARIANTS TypeOK OvershootBounded TalliesOrdered NoAccessAfterEnd
PROPERTIES GateKept PurgedOnlyAfterGrace
CHECK_DEADLOCK FALSE
