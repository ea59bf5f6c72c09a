SPECIFICATION FairSpec
CONSTANTS
  Rotations = {r1, r2}
  Issues = {i1}
  Keys = {k1}
  MaxFaults = 2
  Null = Null
INVARIANTS
  OneActive
  SomeActive
  IssuedFromLive
PROPERTIES
  Replaced
CHECK_DEADLOCK FALSE
