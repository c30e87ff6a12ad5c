SPECIFICATION Spec
CONSTANTS
  BufferSize = 96
  ShortCounts = {0, 5}
  LoresWidth = 32
  HiresWidth = 64
  MaxBplaneWidth = 64
  Heights = {2, 3}
  DefaultHeight = 3
INVARIANTS
  NothingLost
  BufferFits
  ModesAgree
  SavedWhole
  FailuresShown
  HandleReturned
  FormSizeBut
  IInv
