CONSTANTS
  LSG0 = LSG0  ADR0 = ADR0  ADF0 = ADF0  PEEK = PEEK
  MaxSize = 2
  c1 = c1  c2 = c2
  NoConn = NoConn
  NoHdr = NoHdr
  Conns <- MCConns
  Requests <- MCRequests
  Loaded <- MCLoaded
  Backlog = 1
  Window = 2
  BlockMax = 1
  TrackLen = 2
  NumTracks = 1
  Drift = {0}
  MayFail <- FirstOnly
  MayCrash <- FirstOnly
SPECIFICATION SysFairSpec
PROPERTIES
  
  SessionEndsBut
