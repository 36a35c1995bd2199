SPECIFICATION FairSpec
CONSTANTS
  Recipients = {r1}
  Creator = c
  Resenders = {}
  Workers = {w1, w2}
  Readers = {}
  Invitations = {}
  Malformed = {b1}
  MaxMessages = 2
  PageSize = 1
CHECK_DEADLOCK FALSE
PROPERTIES
  QueueDrains
