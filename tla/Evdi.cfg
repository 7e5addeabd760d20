SPECIFICATION Spec
CONSTANTS
  Clients = {a, b}
  Budget = 1
  BackoffMin = 1
  BackoffMax = 2
  FailsPerHour = 2
  PlugsPerHour = 3
  Window = 3
  EventsMax = 12
  ModeTimeout = 1
  AddTime = 1
  MaxTime = 7
  MaxEvents = 5
  MaxShells = 1
  Nums <- FirstNums
  Count = 2
  Attempts = 3
  IgnoreMax = 2
  Watchable = TRUE
  MaxSessions = 2
  MaxRemovals = 1
  MaxCrashes = 1
SYMMETRY Symmetry
INVARIANTS
  PruneInvisible
  CapsKept
  UntilHonest
  UsableLights
PROPERTIES
  BackoffKept
  RestartSafe
CHECK_DEADLOCK FALSE
