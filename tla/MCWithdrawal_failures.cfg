CONSTANTS
  Levels = 3
  Sub <- TwoOfEach
  Num <- DualTorNum
  Grp <- FullMeshGrp
  Node <- ClosNode
  Neighbour <- ClosNeighbour
  Level <- ClosLevel
  AddrSize = 3
  Address <- ClosAddress
  LevelAddrBit <- ClosLevelAddrBit
  HostAddress <- ClosHostAddress
  Buckets <- ClosBuckets
  Links <- PodLinks
  MaxLinkEvents = 3

SPECIFICATION FailureSpec

INVARIANT RoutesExact
INVARIANT Nested
INVARIANT FirstHandAccepted
PROPERTY OnlyShrink

\* The simulation ends after its last link event.
CHECK_DEADLOCK FALSE
