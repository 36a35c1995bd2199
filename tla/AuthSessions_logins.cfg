SPECIFICATION Spec
CONSTANTS
  Emails = {e1, e2}
  Passwords = {p1, p2}
  Browsers = {b1}
  Requests = {h1, h2}
  Tokens = {k1, k2}
  Uploads = {u1}
  None = None
  SessionTTL = 0
  MaxClock = 1
SYMMETRY Symmetry
INVARIANTS
  SessionsNeedPassword
  LateActsForNobody
  CompletedByItsOwner
