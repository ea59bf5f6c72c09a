SPECIFICATION Spec
CONSTANTS
  Certs = {c1, c2}
  Seeds = {c1}
  Targets = {t1}
  Machines = {}
  Gone = {}
  HostLists = {{}}
  Requests = {r1}
  ValidDays = {1}
  RenewDays = {1}
  DefaultDays = 1
  Reissuable = {TRUE}
  ImportFrom = {}
  ImportTo = {}
  MaxValid = 1
  BatchLimit = 1
  MaxDay = 1
  MaxFaults = 0
  MaxEdits = 1
  Null = Null
CHECK_DEADLOCK FALSE
PROPERTY UnsentFieldLeftAlone
