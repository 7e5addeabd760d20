SPECIFICATION GateSpec
CONSTANTS
  Clients = {a, b}
  Budget = 1
  BackoffMin = 1
  BackoffMax = 2
  FailsPerHour = 2
  PlugsPerHour = 3
  Window = 3
  EventsMax = 12
  ModeTimeout = 1
  AddTime = 0
  MaxTime = 7
  MaxEvents = 6
  MaxShells = 0
INVARIANTS
  FailsCapped
CHECK_DEADLOCK FALSE
