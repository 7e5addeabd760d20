SPECIFICATION KvmSpec
CONSTANTS
  Clients = {c1}
  Modes = {m1, m2}
  NoMode = off
  Bufs = {b1, b2}
  NoBuf = nobuf
  Tiles = {t1, t2}
  Bar = bar
  Black = black
  MaxChanges = 3
  MaxDraws = 1
  MaxFails = 1
INVARIANT DarkWithoutSignal
CHECK_DEADLOCK FALSE
