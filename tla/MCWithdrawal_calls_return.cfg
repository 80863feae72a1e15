CONSTANTS
  Levels = 3
  Sub <- TwoOfEach
  Num <- FatTreeNum
  Grp <- FullMeshGrp
  Node <- ClosNode
  Neighbour <- ClosNeighbour
  Level <- ClosLevel
  AddrSize = 3
  Address <- ClosAddress
  LevelAddrBit <- ClosLevelAddrBit
  HostAddress <- ClosHostAddress
  Buckets <- ClosBuckets
  Links <- RackLinks
  MaxLinkEvents = 2

SPECIFICATION Spec

PROPERTY Returns

\* The simulation ends after its last link event.
CHECK_DEADLOCK FALSE
