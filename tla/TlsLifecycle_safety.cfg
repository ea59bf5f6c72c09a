SPECIFICATION Spec
CONSTANTS
  Certs = {c1, c2, c3}
  Seeds = {c1}
  Targets = {t1}
  Machines = {m1, m2}
  Gone = {}
  HostLists = {{m1, m2}}
  Requests = {r1}
  ValidDays = {3}
  RenewDays = {1, 2}
  DefaultDays = 1
  Reissuable = {FALSE, TRUE}
  ImportFrom = {1}
  ImportTo = {2}
  MaxValid = 2
  BatchLimit = 1
  MaxDay = 1
  MaxFaults = 1
  MaxEdits = 2
  Null = Null
CHECK_DEADLOCK FALSE
INVARIANTS NoStrandedTarget HeirCarriesOn ForkOnlyWhenInterrupted HeirOutlives HeirKeepsHosts
PROPERTY RenewalIsSuccession
