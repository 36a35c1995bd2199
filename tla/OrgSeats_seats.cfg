SPECIFICATION LateSpec
CONSTANTS
  Users = {o, u1, u2}
  Owner = o
  Invited = {u1, u2}
  Grants = {"member"}
  Adders = {a1}
  Removers = {r1}
  Inviters = {i1, i2}
  Acceptors = {c1, c2}
  None = None
  MaxSeats = 2
  MaxChanges = 1
  MaxTogether = 5
SYMMETRY Symmetry
INVARIANTS TypeOK SeatsHold ReservedSeatsHold AcceptedOnceByLatestToken PendingHasMail
PROPERTY StatusIsFinal
CHECK_DEADLOCK FALSE
