SPECIFICATION Spec
CONSTANTS
  Ids = {u1, u2}
  Roles = {"tls_admin", "auditor"}
  Scopes = {"tls:issue"}
  Requests = {r1, r2, r3}
  Challenges = {h1}
  First = First
  MaxFailures = 1
  MaxEdits = 1
  Null = Null
INVARIANTS
  OneOpenLink
  NothingLeft
  ChallengeOnce
  ScopesWithinRoles
  FailuresBounded
PROPERTIES
  LinksAreOneTime
SYMMETRY Symmetry
CHECK_DEADLOCK FALSE
