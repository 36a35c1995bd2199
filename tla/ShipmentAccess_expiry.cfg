SPECIFICATION Spec
CONSTANTS
  s1 = s1
  s2 = s2
  t1 = t1
  t2 = t2
  Shipments = {s1}
  Tokens = {t1, t2}
  Requests = {}
  Resenders = {}
  Workers = {w1}
  ShipmentOf <- OneShipment
  DraftTTL = 1
  MinTTL = 1
  MaxTTL = 1
  DefaultMax = 1
  MaxLimit = 1
  Grace = 1
  BatchSize = 1
  MaxClock = 2
INVARIANT ExpiredOnlyPastExpiry
CHECK_DEADLOCK FALSE
