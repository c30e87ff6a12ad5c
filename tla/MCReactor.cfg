SPECIFICATION FairSpec
CONSTANTS
  p1 = p1  p2 = p2  p3 = p3
  Peers <- MCPeers
  FD_SETSIZE = 3
  TableSize = 4
  MaxData = 1
  Backlog = 2
INVARIANTS
  TypeOK
  TableMatches
  NeverBlocks
  OnlyBreakEnds
PROPERTIES
  EveryoneServed
