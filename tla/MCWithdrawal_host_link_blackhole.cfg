CONSTANTS
  Levels = 2
  Sub <- LeafSpineSub
  Num <- LeafSpineNum
  Grp <- LeafSpineGrp
  Node <- ClosNode
  Neighbour <- ClosNeighbour
  Level <- ClosLevel
  AddrSize = 2
  Address <- ClosAddress
  LevelAddrBit <- ClosLevelAddrBit
  HostAddress <- ClosHostAddress
  Buckets <- ClosBuckets
  Links <- HostLinks
  MaxLinkEvents = 1

SPECIFICATION FailureSpec

INVARIANT NoHostBlackHole

\* The simulation ends after its last link event.
CHECK_DEADLOCK FALSE
