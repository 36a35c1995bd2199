SPECIFICATION ApartSpec
CONSTANTS
  Clients = {c1, c2, c3}
  Proxy = p
  MaxEntries = 2
  Limit = 2
  Window = 2
  MaxClock = 5
  Verifiers = {v1, v2}
  Downloaders = {d1, d2}
  VerifyMaxAttempts = 2
  VerifyLockout = 2
  DownloadLimit = 2
  DownloadWindow = 2
  GrantTTL = 2
  Expires = 4
SYMMETRY Symmetry
INVARIANTS TypeOK RequestsBounded GuessesBounded DownloadsBounded
PROPERTY GrantWithinAccess
