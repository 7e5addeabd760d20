SPECIFICATION Spec
CONSTANTS
  W = 1
  H = 3
  Pix = {k, w}
  Black = k
  DamageRects <- Bands
  DirtyMax = 1
  PingsMax = 1
  MaxQueue = 2
  MaxRemodes = 0
  Env = {"reconnect"}
  Feedback = FALSE
  H264Cap = TRUE
  EncResults = {"AU"}
  BlankClears = TRUE
INVARIANTS
  TypeOK
  DamageCovered
  PixelExact
  ShadowIsScreen
