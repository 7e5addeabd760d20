SPECIFICATION Spec
CONSTANTS
  W = 1
  H = 1
  Pix = {k, w}
  Black = k
  DamageRects <- Whole
  DirtyMax = 1
  PingsMax = 1
  MaxQueue = 2
  MaxRemodes = 1
  Env = {}
  Feedback = FALSE
  H264Cap = TRUE
  EncResults = {"AU"}
  BlankClears = FALSE
INVARIANTS
  FramingIntact
CHECK_DEADLOCK FALSE
