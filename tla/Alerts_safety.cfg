SPECIFICATION FairSpec
CONSTANTS
  Certs = {c1, c2}
  Sources = {a1, a2}
  Ports = {p1, p2}
  Scans = {w1}
  Mailed = {p1}
  Cooldown = 1
  Frequency = 1
  BatchLimit = 1
  MaxFaults = 1
  Null = Null
INVARIANTS TypeOK
PROPERTIES NoRepeat KeepsTelling
CHECK_DEADLOCK FALSE
