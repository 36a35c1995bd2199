SPECIFICATION BoundedSpec
CONSTANTS
  Subs = {b1, b2}
  Users = {o, u1}
  Owner = o
  Adders = {a1}
  Removers = {r1}
  None = None
  MaxSeats = 3
  MaxEvents = 3
  Shipments = {x1, x2, x3}
  MonthlyShipmentLimit = 2
  MaxTogether = 5
SYMMETRY Symmetry
INVARIANTS RowWasTold QuotaHolds
CHECK_DEADLOCK FALSE
