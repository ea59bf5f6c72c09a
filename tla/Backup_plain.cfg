SPECIFICATION Spec
CONSTANTS
  Task = Task
  Requests = {q1}
  Recipients = {a1}
  Modes = {"passphrase", "envelope"}
  Switches = {TRUE}
  Retentions = {1}
  RemoteRetention = 1
  MaxNames = 1
  MaxEdits = 0
  MaxFaults = 0
  Torn = Torn
  Null = Null
INVARIANT PlainOnlyIfUnset
CHECK_DEADLOCK FALSE
