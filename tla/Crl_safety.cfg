SPECIFICATION Spec
CONSTANTS
  Certs = {c1, c2}
  RootIds = {1, 2}
  Requests = {q1, q2}
  MaxEdits = 5
  MaxFaults = 1
  Null = Null
CHECK_DEADLOCK FALSE
INVARIANTS RevokedIsListed ListedIsRevoked StrayOnlyInFlight RemoteLacksOnly
PROPERTY RevocationIsFinal
