SPECIFICATION Spec
CONSTANTS
  Secrets = {s1, s2}
  Codes = {k1, k2, k3, k4}
  CodeCount = 2
  RequireMfa = TRUE
  Requests = {q1, q2}
  MaxEdits = 5
  MaxFaults = 1
  Null = Null
CHECK_DEADLOCK FALSE
INVARIANTS ProvenUnlessContested ShownSetInForce
PROPERTIES RecoveryCodesAreOneTime OnlyTurnedOff
