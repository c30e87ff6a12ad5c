SPECIFICATION MCSpec
CONSTANTS
  BufferSize = 96
  ShortCounts = {0}
  LoresWidth = 32
  HiresWidth = 64
  MaxBplaneWidth = 64
  Heights = {8, 9}
  DefaultHeight = 8
  black = black
  tint = tint
  junk = junk
  Black = black
  Tint = tint
  Junk = junk
  ChipUnit = 2
  DefaultPtr = 0
  LastPlane = 1
  NumColours = 3
  MaxModulo = 5
  BigStep = 4
  LongStep = 3
  MinLists = {2, 3}
  Chips <- MCChips
INVARIANTS
  ScreenTypeOK
  MovesUndone
  ScreenCurrent
  FoundIsList
  NoneMissed
