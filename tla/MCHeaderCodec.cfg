CONSTANTS
  ExtMax = 4
  Devices <- MCDevices
  CmdLines <- MCCmdLines
  Beyond <- MCBeyond
SPECIFICATION Spec
INVARIANTS
  LengthsAgree
  DeviceArrives
  TmpNameFits
  PlainCmdlineArrives
\* A header is packed, taken apart, and done with.
CHECK_DEADLOCK FALSE
