----------------------------- MODULE ConstructionProofs -----------------------------
(***************************************************************************)
(* What holds of every fabric: its links are between existing nodes, and   *)
(* structured addresses name its hosts.  Whatever templates a fabric is    *)
(* built from, and in which order, no two hosts have the same address,     *)
(* copies are wired as their originals, and every link is in one bucket.   *)
(***************************************************************************)
EXTENDS Construction, ReplicationProofs

\* The addresses A of the nodes of level 0, of which there are s, have one length, and the
\* node can be told from the address.
Naming(A, s) ==
  /\ \A k \in 0..(s - 1) : <<0, k>> \in DOMAIN A
  /\ \A k \in 0..(s - 1) : A[<<0, k>>] \in Seq(Nat) /\ Len(A[<<0, k>>]) = Len(A[<<0, 0>>])
  /\ \A k, m \in 0..(s - 1) : A[<<0, k>>] = A[<<0, m>>] => k = m

\* The inductive invariant: the topology is sound, and the addresses name the present hosts.
HostInv == TopologyInv /\ Naming(addr, size[0])

LEMMA HostSizes ==
  ASSUME HostInv
  PROVE  /\ Top \in Nat /\ 0 \in DOMAIN size /\ size[0] \in Nat \ {0}
         /\ originalSize[0] \in Nat \ {0}
         /\ stage = "replicate" /\ level = 0 => originalSize[0] = size[0]
         /\ Naming(addr, size[0])
<1>1. Top \in Nat /\ 0 \in 0..Top /\ DOMAIN size = 0..Top /\ originalSize[0] \in Nat \ {0}
      /\ size[0] = IF Replicating /\ Copied(0) THEN Template.copies * originalSize[0]
                   ELSE originalSize[0]
  BY DEF HostInv, TopologyInv, SizeInv
<1>2. size[0] \in Nat \ {0}
  <2>1. CASE Replicating /\ Copied(0)
    <3> DEFINE C == Template.copies
               o == originalSize[0]
    <3>1. built < Len(recipe) /\ recipe \in Recipes /\ built \in 0..Len(recipe)
      <4>1. stage = "wire" \/ level > 0
        BY <2>1 DEF Copied
      <4> QED  BY <4>1 DEF HostInv, TopologyInv, SizeInv
    <3>2. C \in Nat \ {0}
      BY <3>1, TemplateRead
    <3>3. C \in Nat /\ 1 <= C /\ o \in Nat \ {0} /\ size[0] = C * o
      BY <1>1, <2>1, <3>2
    <3> HIDE DEF C, o
    <3>4. 1 * o <= C * o /\ C * o \in Nat
      BY <3>3, TimesMonotone
    <3> QED  BY <3>3, <3>4
  <2>2. CASE ~(Replicating /\ Copied(0))
    BY <1>1, <2>2
  <2> QED  BY <2>1, <2>2
<1>3. stage = "replicate" /\ level = 0 => ~Copied(0)
  BY DEF Copied
<1> QED  BY <1>1, <1>2, <1>3 DEF HostInv

-----------------------------------------------------------------------------
(* The three ways in which hosts get their addresses. *)

\* A replication appends the number of the copy (ReplicateTopologyInPlace).
LEMMA CopiesNamed ==
  ASSUME NEW A, NEW B, NEW s \in Nat \ {0}, NEW c \in Nat \ {0}, Naming(A, s),
         \A k \in 0..(c * s - 1) : /\ <<0, k>> \in DOMAIN B
                                   /\ B[<<0, k>>] = Append(A[<<0, k % s>>], (k \div s) + 1)
  PROVE  Naming(B, c * s)
<1> DEFINE N == c * s
<1> DEFINE len == Len(A[<<0, 0>>])
<1>1. /\ len \in Nat
      /\ \A k \in 0..(s - 1) : A[<<0, k>>] \in Seq(Nat) /\ Len(A[<<0, k>>]) = len
  BY DEF Naming
<1>2. \A k \in 0..(N - 1) : <<0, k>> \in DOMAIN B
  OBVIOUS
<1>3. ASSUME NEW k \in 0..(N - 1)
      PROVE  /\ k \in Nat /\ k % s \in 0..(s - 1)
             /\ k \div s \in Nat /\ (k \div s) + 1 \in Nat
             /\ A[<<0, k % s>>] \in Seq(Nat) /\ Len(A[<<0, k % s>>]) = len
             /\ B[<<0, k>>] = Append(A[<<0, k % s>>], (k \div s) + 1)
  <2>1. B[<<0, k>>] = Append(A[<<0, k % s>>], (k \div s) + 1)
    OBVIOUS
  <2> HIDE DEF N
  <2>2. k \in Nat
    OBVIOUS
  <2>3. k % s \in 0..(s - 1) /\ k \div s \in Nat /\ (k \div s) + 1 \in Nat
    BY <2>2, DivMod
  <2> QED  BY <1>1, <2>1, <2>2, <2>3
<1>7. N > 0 /\ 0 \in 0..(N - 1)
  <2>1. c >= 1 /\ s >= 1 => c * s >= 1
    OBVIOUS
  <2> QED  BY <2>1
<1> HIDE DEF N, len
<1>4. ASSUME NEW k \in 0..(N - 1)
      PROVE  B[<<0, k>>] \in Seq(Nat) /\ Len(B[<<0, k>>]) = len + 1
  <2> DEFINE a == A[<<0, k % s>>]
             x == (k \div s) + 1
  <2>1. a \in Seq(Nat) /\ Len(a) = len /\ x \in Nat /\ B[<<0, k>>] = Append(a, x)
    BY <1>3
  <2> HIDE DEF a, x
  <2> QED  BY <2>1, AppendProperties
<1>5. ASSUME NEW k \in 0..(N - 1), NEW m \in 0..(N - 1), B[<<0, k>>] = B[<<0, m>>]
      PROVE  k = m
  <2> DEFINE a == A[<<0, k % s>>]
             b == A[<<0, m % s>>]
             x == (k \div s) + 1
             y == (m \div s) + 1
  <2>1. /\ a \in Seq(Nat) /\ b \in Seq(Nat)
        /\ x \in Nat /\ y \in Nat /\ Append(a, x) = Append(b, y)
    BY <1>3, <1>5
  <2>2. a = b /\ x = y
    <3> HIDE DEF a, b, x, y
    <3> QED  BY <2>1, AppendInjective
  <2>3. k \in Nat /\ m \in Nat /\ k % s = m % s
    BY <1>3, <2>2 DEF Naming
  <2>4. k \div s = m \div s
    BY <1>3, <2>2
  <2>5. k = (s * (k \div s)) + (k % s) /\ m = (s * (m \div s)) + (m % s)
    BY <2>3, DivMod
  <2> QED  BY <2>3, <2>4, <2>5
<1>6. len + 1 \in Nat
  BY <1>1
<1>8. Naming(B, N)
  BY <1>2, <1>4, <1>5, <1>6, <1>7 DEF Naming
<1> QED  BY <1>8 DEF N

\* A server template numbers the endpoints of each server, and the servers; a rail template
\* adds the number of the switch.
LEMMA ServersNamed ==
  ASSUME NEW B, NEW s \in Nat \ {0}, NEW E \in Nat \ {0}, NEW len \in Nat,
         \A k \in 0..(s - 1) :
           /\ <<0, k>> \in DOMAIN B /\ B[<<0, k>>] \in Seq(Nat)
           /\ Len(B[<<0, k>>]) = len /\ len >= 2
           /\ B[<<0, k>>][1] = (k % E) + 1 /\ B[<<0, k>>][2] = (k \div E) + 1
  PROVE  Naming(B, s)
<1>1. \A k \in 0..(s - 1) : k \in Nat
  OBVIOUS
<1>2. ASSUME NEW k \in 0..(s - 1), NEW m \in 0..(s - 1), B[<<0, k>>] = B[<<0, m>>]
      PROVE  k = m
  <2>1. k % E \in Nat /\ m % E \in Nat /\ k \div E \in Nat /\ m \div E \in Nat
    BY <1>1, DivMod
  <2>2. k \in Nat /\ m \in Nat /\ k % E = m % E /\ k \div E = m \div E
    <3>1. /\ B[<<0, k>>][1] = (k % E) + 1 /\ B[<<0, k>>][2] = (k \div E) + 1
          /\ B[<<0, m>>][1] = (m % E) + 1 /\ B[<<0, m>>][2] = (m \div E) + 1
      OBVIOUS
    <3>2. (k % E) + 1 = (m % E) + 1 /\ (k \div E) + 1 = (m \div E) + 1
      BY <1>2, <3>1
    <3> QED  BY <1>1, <2>1, <3>2
  <2>3. k = (E * (k \div E)) + (k % E) /\ m = (E * (m \div E)) + (m % E)
    BY <2>2, DivMod
  <2> QED  BY <2>2, <2>3
<1>3. 0 \in 0..(s - 1)
  OBVIOUS
<1>4. \A k \in 0..(s - 1) : B[<<0, k>>] \in Seq(Nat) /\ Len(B[<<0, k>>]) = Len(B[<<0, 0>>])
  BY <1>3
<1>5. \A k \in 0..(s - 1) : <<0, k>> \in DOMAIN B
  OBVIOUS
<1> QED  BY <1>2, <1>4, <1>5 DEF Naming

\* Where the addresses of level 0 are left alone, they go on naming it.
LEMMA NamesKept ==
  ASSUME NEW A, NEW B, NEW s \in Nat \ {0}, Naming(A, s), DOMAIN A \subseteq DOMAIN B,
         \A k \in 0..(s - 1) : B[<<0, k>>] = A[<<0, k>>]
  PROVE  Naming(B, s)
BY DEF Naming

-----------------------------------------------------------------------------
(* One lemma per step of the builder. *)

\* Nothing is copied yet, and the only host has the empty address.
LEMMA StartNamed ==
  ASSUME InitTopology
  PROVE  HostInv
<1>1. size = [l \in {0} |-> 1] /\ addr = [n \in {<<0, 0>>} |-> <<>>]
  BY DEF InitTopology
<1>2. size[0] = 1
  BY <1>1
<1>3. \A k \in 0..(1 - 1) : k = 0
  OBVIOUS
<1>4. <<0, 0>> \in DOMAIN addr /\ addr[<<0, 0>>] = <<>> /\ <<>> \in Seq(Nat)
  BY <1>1
<1>5. Naming(addr, 1)
  BY <1>3, <1>4 DEF Naming
<1> QED  BY <1>2, <1>5, TopologyStart DEF HostInv

\* Replicating level 0 numbers the copies; another level leaves the hosts alone.
LEMMA ReplicateNames ==
  ASSUME HostInv, ReplicateLevel
  PROVE  Naming(addr, size[0])'
<1> DEFINE c == Template.copies
           new == {<<level, k>> : k \in 0..(c * originalSize[level] - 1)}
<1>1. /\ recipe' = recipe /\ built' = built /\ level' = level /\ originalSize' = originalSize
      /\ built < Len(recipe) /\ stage = "replicate" /\ stage' = "wire"
      /\ size' = [size EXCEPT ![level] = c * originalSize[level]]
      /\ addr' = [n \in TopoNode \cup new |->
                    IF n \in new THEN Append(addr[Original(n)], CopyNumber(n)) ELSE addr[n]]
  BY DEF ReplicateLevel
<1>2. c \in Nat \ {0}
  BY <1>1, TemplateRead DEF HostInv, TopologyInv, SizeInv
<1>4. CASE level = 0
  <2>1. originalSize[0] = size[0] /\ size[0] \in Nat \ {0} /\ Naming(addr, size[0])
    BY <1>1, <1>4, HostSizes
  <2>2. size'[0] = c * size[0] /\ 0 \in DOMAIN size
    BY <1>1, <1>4, <2>1, HostSizes
  <2>3. ASSUME NEW k \in 0..(c * size[0] - 1)
        PROVE  /\ <<0, k>> \in DOMAIN addr'
               /\ addr'[<<0, k>>] = Append(addr[<<0, k % size[0]>>], (k \div size[0]) + 1)
    <3>1. <<0, k>> \in new
      BY <1>4, <2>1
    <3>2. Original(<<0, k>>) = <<0, k % size[0]>> /\ CopyNumber(<<0, k>>) = (k \div size[0]) + 1
      BY <2>1 DEF Original, CopyNumber
    <3> HIDE DEF new
    <3> QED  BY <1>1, <3>1, <3>2
  <2>4. Naming(addr', c * size[0])
    <3> HIDE DEF c
    <3> QED  BY <1>2, <2>1, <2>3, CopiesNamed
  <2> HIDE DEF c, new
  <2> QED  BY <2>2, <2>4
<1>5. CASE level # 0
  <2>1. \A k : <<0, k>> \notin new
    BY <1>5
  <2> HIDE DEF c, new
  <2>2. size'[0] = size[0] /\ Naming(addr, size[0]) /\ size[0] \in Nat \ {0}
    BY <1>1, <1>5, HostSizes
  <2>3. DOMAIN addr \subseteq DOMAIN addr'
    BY <1>1 DEF TopoNode
  <2>4. \A k \in 0..(size[0] - 1) : addr'[<<0, k>>] = addr[<<0, k>>]
    BY <1>1, <2>1, <2>2 DEF Naming, TopoNode
  <2>5. Naming(addr', size[0])
    BY <2>2, <2>3, <2>4, NamesKept
  <2> QED  BY <2>2, <2>5
<1> QED  BY <1>4, <1>5

\* A new level stands above the hosts.
LEMMA CreateLevelNames ==
  ASSUME HostInv, CreateLevel
  PROVE  Naming(addr, size[0])'
<1> DEFINE l == Top + 1
           new == {<<l, k>> : k \in 0..(Template.nodes - 1)}
<1>1. /\ size' = [x \in DOMAIN size \cup {l} |-> IF x = l THEN Template.nodes ELSE size[x]]
      /\ addr' = [n \in TopoNode \cup new |-> IF n \in new THEN <<>> ELSE addr[n]]
  BY DEF CreateLevel
<1>2. Top \in Nat
  BY HostSizes
<1>3. (\A k : <<0, k>> \notin new) /\ l # 0
  BY <1>2
<1> HIDE DEF l, new
<1>4. size'[0] = size[0] /\ size[0] \in Nat \ {0} /\ Naming(addr, size[0])
  BY <1>1, <1>3, HostSizes
<1>5. DOMAIN addr \subseteq DOMAIN addr'
  BY <1>1 DEF TopoNode
<1>6. \A k \in 0..(size[0] - 1) : addr'[<<0, k>>] = addr[<<0, k>>]
  BY <1>1, <1>3, <1>4 DEF Naming, TopoNode
<1> QED  BY <1>4, <1>5, <1>6, NamesKept

\* Servers and rails number their endpoints anew; the others write no address of a host.
LEMMA ConnectNames ==
  ASSUME HostInv, Connect
  PROVE  Naming(addr, size[0])'
<1> DEFINE s == size[0]
<1>1. /\ size' = size /\ stage = "create"
      /\ addr' = CASE Template.kind = "Clos" -> ClosAddresses(Template, Top)
                   [] Template.kind = "Rail" -> RailAddresses(Template)
                   [] Template.kind = "Server" -> ServerAddresses(Template)
                   [] OTHER -> addr
  BY DEF Connect
<1>2. Naming(addr, s) /\ s \in Nat \ {0}
  BY HostSizes
<1>3. /\ Template.kind = "Clos" => Top > 0
      /\ Template.kind = "Rail" =>
           Template.perServer \in Nat \ {0} /\ Template.perSwitch \in Nat \ {0}
      /\ Template.kind = "Server" => Template.perServer \in Nat \ {0}
  BY <1>1, ConnectReads DEF HostInv, TopologyInv
<1>4. Naming(addr', s)
  <2>1. CASE Template.kind = "Clos"
    <3>1. Top \in Nat /\ Top > 0
      BY <1>3, <2>1, HostSizes
    <3>2. addr' = ClosAddresses(Template, Top)
      BY <1>1, <2>1
    <3>3. DOMAIN addr' = DOMAIN addr
      BY <3>2 DEF ClosAddresses, TopoNode
    <3>4. \A k \in 0..(s - 1) : addr'[<<0, k>>] = addr[<<0, k>>]
      <4>1. SUFFICES ASSUME NEW k \in 0..(s - 1)
                     PROVE  addr'[<<0, k>>] = addr[<<0, k>>]
        OBVIOUS
      <4>2. <<0, k>> \in TopoNode
        BY <1>2 DEF Naming, TopoNode
      <4>3. <<0, k>>[1] # Top
        BY <3>1
      <4> QED  BY <3>2, <4>2, <4>3 DEF ClosAddresses
    <3> HIDE DEF s
    <3> QED  BY <1>2, <3>3, <3>4, NamesKept
  <2>2. CASE Template.kind = "Rail"
    <3> DEFINE E == Template.perServer
    <3>1. E \in Nat \ {0}
      BY <1>3, <2>2
    <3>2. addr' = RailAddresses(Template)
      BY <1>1, <2>2
    <3>3. ASSUME NEW k \in 0..(s - 1)
          PROVE  /\ <<0, k>> \in DOMAIN addr'
                 /\ addr'[<<0, k>>] = <<(k % E) + 1, (k \div E) + 1, RailSwitch(Template, k) + 1>>
      <4>1. <<0, k>> \in TopoNode
        BY <1>2 DEF Naming, TopoNode
      <4> QED  BY <3>2, <4>1 DEF RailAddresses
    <3>4. ASSUME NEW k \in 0..(s - 1)
          PROVE  k % E \in Nat /\ (k \div E) + 1 \in Nat /\ RailSwitch(Template, k) + 1 \in Nat
      <4>1. k \in Nat /\ Template.perSwitch \in Nat \ {0}
        BY <1>3, <2>2
      <4>2. k % E \in Nat /\ k \div E \in Nat
        BY <3>1, <4>1, DivMod
      <4> HIDE DEF E
      <4>3. (k \div E) \div Template.perSwitch \in Nat
        BY <4>1, <4>2, DivMod
      <4>4. ((k \div E) \div Template.perSwitch) * E \in Nat
        BY <3>1, <4>3
      <4>5. RailSwitch(Template, k) = (((k \div E) \div Template.perSwitch) * E) + (k % E)
        BY DEF RailSwitch, E
      <4> QED  BY <4>2, <4>4, <4>5
    <3>5. ASSUME NEW k \in 0..(s - 1)
          PROVE  /\ <<0, k>> \in DOMAIN addr' /\ addr'[<<0, k>>] \in Seq(Nat)
                 /\ Len(addr'[<<0, k>>]) = 3
                 /\ addr'[<<0, k>>][1] = (k % E) + 1 /\ addr'[<<0, k>>][2] = (k \div E) + 1
      <4> DEFINE x == (k % E) + 1
                 y == (k \div E) + 1
                 z == RailSwitch(Template, k) + 1
      <4>1. x \in Nat /\ y \in Nat /\ z \in Nat
        BY <3>4
      <4>2. <<0, k>> \in DOMAIN addr' /\ addr'[<<0, k>>] = <<x, y, z>>
        BY <3>3
      <4> HIDE DEF x, y, z
      <4> SUFFICES /\ addr'[<<0, k>>] \in Seq(Nat) /\ Len(addr'[<<0, k>>]) = 3
                   /\ addr'[<<0, k>>][1] = x /\ addr'[<<0, k>>][2] = y
        BY <4>2 DEF x, y
      <4> QED  BY <4>1, <4>2
    <3>6. 3 \in Nat /\ 3 >= 2
      OBVIOUS
    <3> HIDE DEF s, E
    <3> QED  BY <1>2, <3>1, <3>5, <3>6, ServersNamed
  <2>3. CASE Template.kind = "Server"
    <3> DEFINE E == Template.perServer
    <3>1. E \in Nat \ {0}
      BY <1>3, <2>3
    <3>2. addr' = ServerAddresses(Template)
      BY <1>1, <2>3
    <3>3. ASSUME NEW k \in 0..(s - 1)
          PROVE  /\ <<0, k>> \in DOMAIN addr' /\ addr'[<<0, k>>] \in Seq(Nat)
                 /\ Len(addr'[<<0, k>>]) = 2
                 /\ addr'[<<0, k>>][1] = (k % E) + 1 /\ addr'[<<0, k>>][2] = (k \div E) + 1
      <4> DEFINE x == (k % E) + 1
                 y == (k \div E) + 1
      <4>1. <<0, k>> \in TopoNode
        BY <1>2 DEF Naming, TopoNode
      <4>2. <<0, k>> \in DOMAIN addr' /\ addr'[<<0, k>>] = <<x, y>>
        BY <3>2, <4>1 DEF ServerAddresses
      <4>3. k \in Nat
        OBVIOUS
      <4>4. x \in Nat /\ y \in Nat
        BY <3>1, <4>3, DivMod
      <4> HIDE DEF x, y
      <4> SUFFICES /\ addr'[<<0, k>>] \in Seq(Nat) /\ Len(addr'[<<0, k>>]) = 2
                   /\ addr'[<<0, k>>][1] = x /\ addr'[<<0, k>>][2] = y
        BY <4>2 DEF x, y
      <4> QED  BY <4>2, <4>4
    <3>4. 2 \in Nat /\ 2 >= 2
      OBVIOUS
    <3> HIDE DEF s, E
    <3> QED  BY <1>2, <3>1, <3>3, <3>4, ServersNamed
  <2>4. CASE Template.kind \notin {"Clos", "Rail", "Server"}
    <3>1. addr' = addr
      BY <1>1, <2>4
    <3> QED  BY <1>2, <3>1
  <2> QED  BY <2>1, <2>2, <2>3, <2>4
<1> QED  BY <1>1, <1>4

-----------------------------------------------------------------------------
\* For every list of templates, and at every step of the builder: nodes have addresses and
\* buckets of interface numbers, and links, those made and those still to be made, are between
\* existing nodes.  A replication copies a link only if its far end is copied with it.
THEOREM TypeCorrect == Spec => []TypeOK
<1>1. Init => TopologyInv
  BY TopologyStart DEF Init
<1>2. TopologyInv /\ [Next]_topoVars => TopologyInv'
  BY TopologyStep DEF Next
<1>3. TopologyInv => TypeOK
  <2> SUFFICES ASSUME TopologyInv  PROVE TypeOK
    OBVIOUS
  <2>1. /\ built \in 0..Len(recipe) /\ level \in 0..(Top + 1)
        /\ stage \in {"replicate", "wire", "create", "connect"}
    BY DEF TopologyInv, SizeInv
  <2>2. /\ TopoNode = UNION {LevelNodes(l) : l \in DOMAIN size}
        /\ DOMAIN devices = TopoNode /\ DOMAIN ports = TopoNode
        /\ \A n \in TopoNode : \A b \in DOMAIN ports[n] : ports[n][b] \in Seq(Nat)
        /\ \A n \in TopoNode : addr[n] \in Seq(Nat) /\ DevicesOK(n)
    BY DEF TopologyInv, LinkInv
  <2>3. \A n \in TopoNode : \A p \in DOMAIN devices[n] : devices[n][p].peer \in TopoNode
    BY <2>2 DEF DevicesOK, DeviceOK
  <2>4. \A k \in DOMAIN calls : {calls[k].a, calls[k].b} \subseteq TopoNode
    BY DEF TopologyInv, LinkInv, CallOK
  <2> QED  BY <2>1, <2>2, <2>3, <2>4 DEF TypeOK
<1> QED  BY <1>1, <1>2, <1>3, PTL DEF Spec

\* For every list of templates: in the finished fabric no two hosts have the same address and
\* all have equally many fields, although servers and rails overwrite what the replications
\* appended, and each replication multiplies what the earlier ones wrote.
THEOREM HostsNamedApart == Spec => []HostAddressesDiffer
<1>1. Init => HostInv
  BY StartNamed DEF Init
<1>2. HostInv /\ [Next]_topoVars => HostInv'
  <2> SUFFICES ASSUME HostInv, [Next]_topoVars  PROVE HostInv'
    OBVIOUS
  <2>1. TopologyInv'
    BY TopologyStep DEF HostInv, Next
  <2>2. ASSUME addr' = addr, size' = size  PROVE Naming(addr, size[0])'
    BY <2>2 DEF HostInv
  <2>3. CASE CopyPortSets \/ CreateDimension \/ ConnectNodes \/ GenerateRoutingRules
               \/ UNCHANGED topoVars
    <3>1. addr' = addr /\ size' = size
      BY <2>3 DEF CopyPortSets, CreateDimension, ConnectNodes, GenerateRoutingRules, topoVars,
                  topology
    <3> QED  BY <2>1, <2>2, <3>1 DEF HostInv
  <2>4. CASE ReplicateLevel \/ CreateLevel \/ Connect
    BY <2>1, <2>4, ReplicateNames, CreateLevelNames, ConnectNames DEF HostInv
  <2> QED  BY <2>3, <2>4 DEF Next, BuildStep
<1>3. HostInv => HostAddressesDiffer
  BY DEF HostInv, HostAddressesDiffer, Naming, LevelNodes
<1> QED  BY <1>1, <1>2, <1>3, PTL DEF Spec
-----------------------------------------------------------------------------
LEMMA WiringKept ==
  /\ Init => WiringInv
  /\ WiringInv /\ [Next]_topoVars => WiringInv'
BY WiringStart, WiringStep DEF Init, Next

\* What a copy has in common with its original.
Alike(n, o, c) ==
  /\ ports[n] = ports[o] /\ DOMAIN devices[n] = DOMAIN devices[o]
  /\ \A p \in DOMAIN devices[n] :
       /\ devices[n][p].peer = Copy(devices[o][p].peer, c)
       /\ devices[n][p].dim = devices[o][p].dim

\* For every list of templates: when all levels are replicated every copy of a node has the
\* interfaces of the original, with the same numbers and to the copies of the same peers, and so
\* the buckets that were copied before the links of the levels above were made are right.
THEOREM CopiesWired == Spec => []CopiesAlike
<1>1. WiringInv => CopiesAlike
  <2> SUFFICES ASSUME WiringInv, Replicated, NEW n \in TopoNode
               PROVE  Alike(n, Original(n), n[2] \div originalSize[n[1]])
    BY DEF CopiesAlike, Alike
  <2> DEFINE o == Original(n)
             c == n[2] \div originalSize[n[1]]
  <2>1. ports[n] = ports[o]
    BY AllFilled DEF WiringInv
  <2>2. PICK M : Ordered(M)
    BY DEF WiringInv, OrderInv
  <2>3. PICK g : Replicas(M, g)
    BY <2>2 DEF Ordered, Replicated, Replicating
  <2>4. /\ n = Copy(o, c) /\ DOMAIN devices[n] = DOMAIN devices[o]
        /\ \A p \in DOMAIN devices[o] : AsOriginal(o, c, p)
    BY <2>2, <2>3, CopiesWhole DEF Ordered, WiringInv
  <2> HIDE DEF o, c
  <2>5. Alike(n, o, c)
    BY <2>1, <2>4 DEF AsOriginal, Alike
  <2> QED  BY <2>5 DEF o, c
<1> QED  BY <1>1, WiringKept, PTL DEF Spec

\* For every list of templates: once a template is built every interface is in exactly one bucket
\* of its node, once, whether its link was made by a template or by a replication.
THEOREM LinksBucketed == Spec => []EachLinkInOneBucket
<1>1. WiringInv => EachLinkInOneBucket
  <2> SUFFICES ASSUME WiringInv, stage = "replicate", level = 0, NEW n \in TopoNode,
                      NEW p \in DOMAIN devices[n], NEW P, P = ports[n]
               PROVE  Cardinality({at \in UNION {{b} \X DOMAIN P[b] : b \in DOMAIN P} :
                                     P[at[1]][at[2]] = p}) = 1
    BY Zenon DEF EachLinkInOneBucket
  <2>1. FilledOnce(P, DOMAIN devices[n])
    BY WholeBlock DEF WiringInv, BucketInv
  <2>2. PICK b \in DOMAIN P : \E i \in DOMAIN P[b] : P[b][i] = p
    BY <2>1 DEF FilledOnce
  <2>3. PICK i \in DOMAIN P[b] : P[b][i] = p
    BY <2>2
  <2> DEFINE places == {at \in UNION {{r} \X DOMAIN P[r] : r \in DOMAIN P} : P[at[1]][at[2]] = p}
  <2>4. <<b, i>> \in places
    BY <2>2, <2>3
  <2>5. ASSUME NEW at \in places  PROVE at = <<b, i>>
    <3>1. PICK r \in DOMAIN P : at \in {r} \X DOMAIN P[r]
      OBVIOUS
    <3>2. at = <<r, at[2]>> /\ at[1] = r /\ at[2] \in DOMAIN P[r]
      BY <3>1
    <3>3. P[r][at[2]] = P[b][i]
      BY <2>3, <3>2
    <3>4. r = b /\ at[2] = i
      BY <2>1, <2>2, <2>3, <3>2, <3>3 DEF FilledOnce
    <3> QED  BY <3>2, <3>4
  <2>6. places = {<<b, i>>}
    BY <2>4, <2>5
  <2> HIDE DEF places
  <2>7. Cardinality(places) = 1
    BY <2>6, FS_Singleton
  <2> QED  BY <2>7 DEF places
<1> QED  BY <1>1, WiringKept, PTL DEF Spec
=====================================================================================
