CONSTANTS
  ExtMax = 4
  Devices <- MCDevices
  CmdLines <- MCTyped
  Beyond = {0}
SPECIFICATION Spec
INVARIANTS
  CmdlineArrives
CHECK_DEADLOCK FALSE
