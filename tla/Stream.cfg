SPECIFICATION StreamSpec
CONSTANTS
  W = 1
  H = 1
  Pix = {k, w}
  Black = k
  DamageRects <- Whole
  DirtyMax = 1
  PingsMax = 1
  MaxQueue = 2
  MaxRemodes = 0
  Env = {}
  Feedback = TRUE
  H264Cap = TRUE
  EncResults = {"AU", "error"}
  BlankClears = FALSE
  Rows = 3
  Colours = {k, w}
  Clear = k
  DamageMax = 1
  SilentMax = 2
  Budgets <- StreamOrUser
INVARIANTS
  TextureTrue
  Applied
  FocusReleases
PROPERTIES
  Converges
  LatestShown
CHECK_DEADLOCK FALSE
