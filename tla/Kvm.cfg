SPECIFICATION Spec
CONSTANTS
  Clients = {c1}
  Modes = {m1, m2}
  NoMode = off
  Bufs = {b1, b2}
  NoBuf = nobuf
  Tiles = {t1, t2}
  Bar = bar
  Black = black
  MaxChanges = 3
  MaxDraws = 1
  MaxFails = 1
  CapBufs = {e1, e2}
  NoCap = nocap
  OutBufs = {o1, o2}
  MaxFrames = 3
  MaxRefuse = 2
INVARIANTS
  PictureKept
  UnitLent
PROPERTIES
  EncoderImplements
  TargetShown
CHECK_DEADLOCK FALSE
