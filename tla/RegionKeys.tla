------------------------------- MODULE RegionKeys -------------------------------
(***************************************************************************)
(* The structured fabric a RuleBasedRouting instance sees, and the regions *)
(* it derives from its port buckets.                                       *)
(*                                                                         *)
(* Addresses are written most significant field first, so that a region    *)
(* is a prefix of an address; the code stores them the other way round.    *)
(* Two nodes share at most one point-to-point link, so an interface is     *)
(* named by the neighbour it leads to.                                     *)
(***************************************************************************)
EXTENDS Integers, Sequences, FiniteSets

CONSTANTS
  Node,          \* all nodes of the topology
  Neighbour,     \* Neighbour[n]: the peers of n's point-to-point links
  Level,         \* Level[n]: m_levelId of n's router
  AddrSize,      \* m_src.Size(), the same for every node
  Address,       \* Address[n]: m_src
  LevelAddrBit,  \* LevelAddrBit[lv]: StructuredTopology::GetLevelAddrBit(lv)
  HostAddress,   \* the level-0 row of StructuredTopology::GetStructuredAddrs()
  Buckets        \* Buckets[n]: n's PortSet buckets [dir, key, ports]

ASSUME FabricAssumption ==
  /\ AddrSize \in Nat
  /\ Neighbour \in [Node -> SUBSET Node]
  /\ Level \in [Node -> 0..AddrSize]
  /\ LevelAddrBit \in [0..AddrSize -> Int]
  /\ Address \in [Node -> Seq(Nat)]
  /\ HostAddress \subseteq Seq(Nat) /\ IsFiniteSet(HostAddress)
  /\ \A n \in Node : /\ Len(Address[n]) = AddrSize
                     /\ \A m \in Neighbour[n] : n \in Neighbour[m] /\ m # n
                     /\ IsFiniteSet(Buckets[n])
                     /\ \A b \in Buckets[n] : /\ b.dir \in {"down", "up", "same"}
                                              /\ b.key \in Seq(Nat)
                                              /\ b.ports \subseteq Neighbour[n]
                     \* an interface is put in one bucket
                     /\ \A b, c \in Buckets[n] : b.ports \cap c.ports # {} => b = c
  /\ \A a \in HostAddress : Len(a) = AddrSize

Region == Seq(Nat)

\* The first k fields of an address.
Leading(addr, k) == SubSeq(addr, 1, k)

\* currentPrefixLen: the fields above the router's own level.
CurrentPrefixLen(n) == AddrSize - Level[n]

\* Fields of a destination that the downward buckets of n tell apart.
SegmentLen(n) == LevelAddrBit[Level[n]] - LevelAddrBit[Level[n] - 1]

\* buildDownwardRegionForBucketKey: none below level 2, where the child level
\* starts at address bit -1, nor for a key of the wrong length.
DownwardRegions(n, key) ==
  IF /\ Level[n] > 0
     /\ LevelAddrBit[Level[n] - 1] >= 0
     /\ SegmentLen(n) > 0
     /\ Len(key) = SegmentLen(n)
  THEN {Leading(Address[n], CurrentPrefixLen(n)) \o key}
  ELSE {}

\* Wrong: the local region is not left out.
UpwardRegionsWithLocal(n) ==
  LET len == AddrSize - (LevelAddrBit[Level[n]] + 1)
  IN IF LevelAddrBit[Level[n]] < 0 \/ len <= 0 THEN {}
     ELSE {Leading(a, len) : a \in HostAddress}

\* buildUpwardRegionsForEmptyKey: the prefix of every host address at the
\* length where the parent level starts, other than the local one.
UpwardRegions(n) ==
  LET len == AddrSize - (LevelAddrBit[Level[n]] + 1)
  IN IF LevelAddrBit[Level[n]] < 0 \/ len <= 0 THEN {}
     ELSE {Leading(a, len) : a \in HostAddress} \ {Leading(Address[n], len)}

\* The regions whose routes use bucket b of router n.
BucketRegions(n, b) ==
  CASE b.dir = "down"                   -> DownwardRegions(n, b.key)
    [] b.dir = "up" /\ b.key = <<>>     -> UpwardRegions(n)
    [] b.dir # "down" /\ b.key # <<>>   -> {b.key}
    [] OTHER                            -> {}

\* ExtractDownwardBucketKeyFromRegion: the key is read at its place in rk
\* whatever the fields before it are; FALSE when rk is too short.
HasDownwardKey(n, rk) ==
  /\ Level[n] > 0
  /\ LevelAddrBit[Level[n]] >= 0
  /\ SegmentLen(n) > 0
  /\ Len(rk) >= CurrentPrefixLen(n) + SegmentLen(n)

DownwardKey(n, rk) ==
  SubSeq(rk, CurrentPrefixLen(n) + 1, CurrentPrefixLen(n) + SegmentLen(n))

\* The ports of the bucket of n with this direction and key, none if there is
\* no such bucket (PortSet::GetDownward and its siblings).
BucketPorts(n, dir, key) ==
  UNION {b.ports : b \in {c \in Buckets[n] : c.dir = dir /\ c.key = key}}
===============================================================================
