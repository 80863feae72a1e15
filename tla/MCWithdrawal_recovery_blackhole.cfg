CONSTANTS
  Levels = 3
  Sub <- TwoOfEach
  Num <- FatTreeNum
  Grp <- FatTreeGrp
  Node <- ClosNode
  Neighbour <- ClosNeighbour
  Level <- ClosLevel
  AddrSize = 3
  Address <- ClosAddress
  LevelAddrBit <- ClosLevelAddrBit
  HostAddress <- ClosHostAddress
  Buckets <- ClosBuckets
  Links <- RackLinks
  MaxLinkEvents = 3

SPECIFICATION Spec

INVARIANT NoBlackHole

\* The simulation ends after its last link event.
CHECK_DEADLOCK FALSE
