SPECIFICATION FairSpec
CONSTANTS
  K = K
  C = C
  H = H
  Files = {K, C, H}
  Layouts <- BuiltinApps
  Targets = {t1}
  Certs = {c1, c2}
  Jobs = {j1, j2}
  MaxEdits = 1
  MaxFaults = 1
  Torn = Torn
  Null = Null
INVARIANTS
  SuccessIsInstalled
  StatusIsTrue
  JobNamesCertificate
PROPERTIES
  JobEnds
  RecordsAreLedger
CHECK_DEADLOCK FALSE
