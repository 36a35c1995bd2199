SPECIFICATION BoundedSpec
CONSTANTS
  Subs = {b1, b2}
  Users = {o, u1}
  Owner = o
  Adders = {a1}
  Removers = {r1}
  None = None
  MaxSeats = 2
  MaxEvents = 2
  Shipments = {x1, x2, x3}
  MonthlyShipmentLimit = 2
  MaxTogether = 5
PROPERTY RefusedOnlyAtLimit
CHECK_DEADLOCK FALSE
