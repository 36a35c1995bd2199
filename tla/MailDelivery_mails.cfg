SPECIFICATION Spec
CONSTRAINT ReadersApart
CONSTANTS
  Recipients = {r1}
  Creator = c
  Resenders = {x1}
  Workers = {w1, w2}
  Readers = {v1}
  Invitations = {}
  Malformed = {}
  MaxMessages = 1
  PageSize = 1
CHECK_DEADLOCK FALSE
SYMMETRY Symmetry
INVARIANTS
  SentWasMailed
  NothingLost
  MailCarriesToken
  FailedAfterSentOnlyByRedelivery
  
  WalkMissesNothing
