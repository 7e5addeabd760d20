SPECIFICATION Spec
CONSTANTS
  Nodes = {n1, n2}
  Outputs = {o1, o2}
  Unset = unset
  NoFile = nofile
  MaxFlight = 2
  MaxPicks = 2
  MaxFaults = 1
  Screens = {s1, s2}
  Connectors = {k1, k2, k3}
  NoConnector = none
  MaxChanges = 4
  MaxTimeouts = 1
  DevSets <- MCDevSets
  PointerMax = 31
  Width = 3
  Layouts <- MCLayouts
  NoLayout = nolayout
  MaxMoves = 2
  MaxLosses = 1
  Holders = {p1}
  NoHolder = nobody
  Keys = {key1, key2}
  Mods = {shift}
  Buttons = {left}
  Slots = 1
SYMMETRY KeySymmetry
INVARIANTS
  NotOrphaned
  ChoiceComesBack
  LayoutMeant
  RefreshArmed
  DeskFollows
  PointerHits
  TargetFollows
  TapShown
CHECK_DEADLOCK FALSE
