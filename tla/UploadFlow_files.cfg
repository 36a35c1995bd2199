SPECIFICATION Spec
CONSTANTS
  Shipments = {s1}
  Sessions = {u1, u2}
  Files = {f1, f2}
  Creators = {c1}
  Completers = {h1, h2}
  Finalizers = {z1, z2}
  Workers = {w1, w2}
  None = None
CHECK_DEADLOCK FALSE
SYMMETRY Symmetry
INVARIANTS
  TypeOK
  FileHasObject
  AnswersAgree
  CompletedNamesFile
