SPECIFICATION AudioSpec
CONSTANTS
  Nodes = {n1, n2}
  Outputs = {o1, o2}
  Unset = unset
  NoFile = nofile
  MaxFlight = 2
  MaxPicks = 0
  MaxFaults = 0
INVARIANT PreviousComesBack
CHECK_DEADLOCK FALSE
