SPECIFICATION FairSpec
CONSTANTS
  Task = Task
  Requests = {q1}
  Recipients = {a1}
  Modes = {"passphrase", "envelope"}
  Switches = {TRUE}
  Retentions = {1}
  RemoteRetention = 1
  MaxNames = 2
  MaxEdits = 1
  MaxFaults = 1
  Torn = Torn
  Null = Null
INVARIANTS TypeOK NewestKept EncryptedAsSet
PROPERTIES SkipCovered CaughtUp
CHECK_DEADLOCK FALSE
