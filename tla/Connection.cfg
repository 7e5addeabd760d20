SPECIFICATION ConnectionSpec
CONSTANTS
  Conns = {a, b, c}
  Peers <- OneWithUsb
  ZeroMac = "zero"
  MaxClients = 2
  Budget = 1
  BootCards = {1}
  Busy = {}
  MaxCards = 2
  Powers = {"on", "save", "unknown"}
  Graceful = 1
  GraceUnknown = 2
  MaxCrashes = 1
  Devices = {d1, d2}
  Excluded = {}
  NoDevice = none
  MaxBound = 1
  MaxPlugs = 2
  MaxMounts = 1
  MaxFaults = 3
INVARIANTS
  NothingDangles
  UsbFileBacked
  UsbAnnounced
  CleanShutdown
PROPERTIES
  Answered
  Teleported
  Detached
CHECK_DEADLOCK FALSE
