SPECIFICATION Spec
CONSTANTS
  Secrets = {s1, s2}
  Codes = {k1, k2}
  CodeCount = 1
  RequireMfa = TRUE
  Requests = {q1, q2}
  MaxEdits = 4
  MaxFaults = 0
  Null = Null
CHECK_DEADLOCK FALSE
INVARIANT EnabledIsProven
