CONSTANTS
  Levels = 3
  Sub <- TwoOfEach
  Num <- DualTorNum
  Grp <- FatTreeGrp
  Node <- ClosNode
  Neighbour <- ClosNeighbour
  Level <- ClosLevel
  AddrSize = 3
  Address <- ClosAddress
  LevelAddrBit <- ClosLevelAddrBit
  HostAddress <- ClosHostAddress
  Buckets <- ClosBuckets
  Links <- DualHostLinks
  MaxLinkEvents = 3

SPECIFICATION FailureSpec

INVARIANT NoFailedNextHop

\* The simulation ends after its last link event.
CHECK_DEADLOCK FALSE
