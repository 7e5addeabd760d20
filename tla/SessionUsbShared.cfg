SPECIFICATION Spec
CONSTANTS
  Conns = {a, b, c}
  Peers <- NoMac
  ZeroMac = "zero"
  MaxClients = 2
  Budget = 1
  BootCards = {1}
  Busy = {}
  MaxCards = 3
  Powers = {"on", "save", "unknown"}
  Graceful = 1
  GraceUnknown = 2
  MaxCrashes = 1
SYMMETRY Symmetry
INVARIANTS
  UsbAnnounced
