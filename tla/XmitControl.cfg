SPECIFICATION Spec
CONSTANTS
  W = 1
  H = 1
  Pix = {k, w}
  Black = k
  DamageRects <- Whole
  DirtyMax = 1
  PingsMax = 1
  MaxQueue = 2
  MaxRemodes = 1
  Env = {"dpms", "reconnect"}
  Feedback = TRUE
  H264Cap = TRUE
  EncResults = {"AU", "error"}
  BlankClears = FALSE
ACTION_CONSTRAINT ControlOnly
INVARIANTS
  ArmedUntilFailure
  GreetedInOrder
  PingsAnswerable
  PanelRight
CHECK_DEADLOCK FALSE
