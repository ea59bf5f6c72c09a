SPECIFICATION FairSpec
CONSTANTS
  Certs = {c1, c2, c3, c4, c5, c6, c7}
  Seeds = {c1, c2, c3}
  Targets = {t1, t2}
  Machines = {m1, m2}
  Gone = {m2}
  HostLists = {{m1}, {m1, m2}}
  Requests = {}
  ValidDays = {2}
  RenewDays = {1}
  DefaultDays = 1
  Reissuable = {TRUE}
  ImportFrom = {}
  ImportTo = {}
  MaxValid = 2
  BatchLimit = 2
  MaxDay = 1
  MaxFaults = 1
  MaxEdits = 0
  Null = Null
CHECK_DEADLOCK FALSE
PROPERTIES DueIsRenewed RedeployedUnlessFault
