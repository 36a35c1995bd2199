SPECIFICATION FairSpec
CONSTANTS
  o1 = o1
  o2 = o2
  Ops = {o1, o2}
  KindOf <- Kinds
  Requests = {r1, r2}
  Workers = {w1, w2}
  BatchSize = 1
CHECK_DEADLOCK FALSE
INVARIANTS
  TypeOK
  NeverUnaudited
  BatchesDisjoint
PROPERTIES
  TrailKept
  TrailComplete
