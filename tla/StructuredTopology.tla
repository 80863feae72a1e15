---------------------------- MODULE StructuredTopology ----------------------------
(***************************************************************************)
(* TopologyBuilder::Build: a list of templates turns a topology of one     *)
(* endpoint into a fabric.  Each template replicates what there is, level  *)
(* by level, adds a level of switches or a dimension, connects it and      *)
(* generates the rules of its levels.  One step creates one link.          *)
(*                                                                         *)
(* A node is <<level, local index>>.  An address is the sequence of its    *)
(* fields, lowest first: field f of the code is element f + 1 here.        *)
(***************************************************************************)
EXTENDS Integers, Sequences, FiniteSets, SequencesExt

CONSTANT
  Recipes    \* the lists of templates tried.  A template is a record with
             \*   kind    "Clos", "Rail", "Server", "Full" or "Torus"
             \*   nodes   nodeNum, 0 for a further dimension of the top level
             \*   copies  subBlockNum
             \*   groups (Clos), perServer (Rail, Server), perSwitch (Rail),
             \*   outLinks, arrangement (Full)

ASSUME RecipesAssumption ==
  \A r \in Recipes : DOMAIN r = 1..Len(r) /\ Len(r) \in Nat /\ \A k \in DOMAIN r :
    /\ r[k].kind \in {"Clos", "Rail", "Server", "Full", "Torus"}
    /\ r[k].nodes \in Nat /\ r[k].copies \in Nat \ {0}
    \* each of these templates aborts without a level below it, or without endpoints
    /\ r[k].kind \in {"Clos", "Rail"} <=> r[k].nodes > 0
    /\ r[k].kind \in {"Server", "Rail"} => r[k].perServer \in Nat \ {0}
    /\ r[k].kind = "Rail" => r[k].perSwitch \in Nat \ {0}
    \* without copies the later fields of the addresses would be missing
    /\ r[k].kind \in {"Full", "Torus"} => r[k].copies > 1
    /\ r[k].kind = "Full" => r[k].arrangement \in {"Absolute", "SameRank"}
    /\ r[k].kind = "Full" /\ r[k].arrangement = "Absolute" => k > 1

\* The number of nodes of the top level after 0, 1, ... templates of r.
TopSizes(r) ==
  LET nodes[k \in 0..Len(r)] ==
        IF k = 0 THEN 1 ELSE IF r[k].nodes > 0 THEN r[k].nodes ELSE r[k].copies * nodes[k - 1]
  IN nodes

\* What Connect asserts of the topology it is called on.
ASSUME ConnectAssumption ==
  \A r \in Recipes : \A k \in DOMAIN r :
    LET below == TopSizes(r)[k - 1]
    IN /\ r[k].kind = "Clos" =>
            /\ r[k].groups \in Nat \ {0}
            /\ r[k].nodes % r[k].groups = 0 /\ below % r[k].groups = 0
       /\ r[k].kind = "Full" /\ r[k].arrangement = "Absolute" =>
            /\ r[k].outLinks \in Nat \ {0} /\ r[k].outLinks * below = r[k].copies - 1
       /\ r[k].kind \in {"Server", "Rail"} => \A i \in 1..(k - 1) : r[i].nodes = 0

VARIABLES
  recipe,
  built,          \* number of templates that are built
  stage,          \* what Build of the next one does: "replicate", "wire" or "connect"
  level,          \* the level that is replicated
  calls,          \* the calls of ConnectNodes that are to come
  size,           \* number of nodes of each level, m_levels
  originalSize,   \* m_originalSizes: the same before the replication that runs
  startBit,       \* m_levelStartAddrBit
  totalAddrBits,  \* m_totalAddrBits
  dims,           \* m_dimCounts: number of the last dimension of each level
  addr,           \* m_structuredAddrs, by node
  devices,        \* the point-to-point devices of each node in order of interface:
                  \* peer, dimension of the link, and whether the link was made
                  \* from here (then m_adj of this node has it)
  ports,          \* the PortSet of each node: bucket -> interfaces
  rules           \* RoutingRuleManager: all rules

topology == <<size, originalSize, startBit, totalAddrBits, dims, addr, devices, ports, rules>>
topoVars == <<recipe, built, stage, level, calls, topology>>

Top == Cardinality(DOMAIN size) - 1      \* the highest level
LevelNodes(l) == {<<l, k>> : k \in 0..(size[l] - 1)}
TopoNode == DOMAIN addr
Template == recipe[built + 1]

NoPorts == <<>>      \* a PortSet without buckets

\* Buckets of a PortSet.
Up == <<"up", 0, <<>>>>
Down(key) == <<"down", 0, key>>
Same(dim, key) == <<"same", dim, <<key>>>>
NoBucket == <<"none", 0, <<>>>>

\* The constructor: CreateLevel(1).
InitTopology ==
  /\ recipe \in Recipes
  /\ built = 0 /\ stage = "replicate" /\ level = 0 /\ calls = <<>>
  /\ size = [l \in {0} |-> 1] /\ originalSize = size
  /\ startBit = [l \in {0} |-> -1] /\ totalAddrBits = 1
  /\ dims = [l \in {0} |-> 0]
  /\ addr = [n \in {<<0, 0>>} |-> <<>>]
  /\ devices = [n \in {<<0, 0>>} |-> <<>>]
  /\ ports = [n \in {<<0, 0>>} |-> NoPorts]
  /\ rules = {}

\* StructuredAddress::ToStringRange: the fields f to g, none if there is no field g.
Fields(a, f, g) == IF g < Len(a) THEN SubSeq(a, f + 1, g + 1) ELSE <<>>

\* <<0, 0, 0>> .. <<X - 1, Y - 1, Z - 1>>, in the order of three nested loops.
Loops(X, Y, Z) ==
  [k \in 1..(X * Y * Z) |-> <<(k - 1) \div (Y * Z), ((k - 1) \div Z) % Y, (k - 1) % Z>>]

Link(a, b, dim, bucketA, bucketB) ==
  [a |-> a, b |-> b, dim |-> dim, bucketA |-> bucketA, bucketB |-> bucketB]

\* The link, if it is made at all.
OnlyIf(made, link) == IF made THEN <<link>> ELSE <<>>

-----------------------------------------------------------------------------
(* ReplicateTopologyInPlace. *)

\* Wrong: the sizes are those after the replication.
CopyOfEnlarged(n, c) == <<n[1], c * size[n[1]] + n[2]>>

\* The node of copy c (from 0) that n of the original block turns into.
Copy(n, c) == <<n[1], c * originalSize[n[1]] + n[2]>>
Original(n) == <<n[1], n[2] % originalSize[n[1]]>>

\* The links of dimension d that were made from node n, made anew in copy c.
CopiedLinks(n, d, c) ==
  FlattenSeq([m \in DOMAIN devices[n] |->
    LET dev == devices[n][m]
    IN OnlyIf(dev.first /\ dev.dim = d, Link(Copy(n, c), Copy(dev.peer, c), d, NoBucket, NoBucket))])

\* Wrong: the highest dimension first.
ReplicatedLinksFromTop(l) ==
  LET T == Loops(dims[l] + 1, Template.copies - 1, originalSize[l])
  IN FlattenSeq([k \in DOMAIN T |-> CopiedLinks(<<l, T[k][3]>>, dims[l] - T[k][1], T[k][2] + 1)])

\* The links of level l made anew in every copy: by dimension, copy, node and
\* place in the adjacency of the node.
ReplicatedLinks(l) ==
  LET T == Loops(dims[l] + 1, Template.copies - 1, originalSize[l])
  IN FlattenSeq([k \in DOMAIN T |-> CopiedLinks(<<l, T[k][3]>>, T[k][1], T[k][2] + 1)])

\* Wrong: the original and its first copy get the same number.
CopyNumberFromZero(n) == IF n[2] < originalSize[n[1]] THEN 1 ELSE n[2] \div originalSize[n[1]]

\* The field the replication appends to the address of n.
CopyNumber(n) == (n[2] \div originalSize[n[1]]) + 1

\* The nodes and addresses of one level are replicated, then its links.
ReplicateLevel ==
  /\ built < Len(recipe) /\ stage = "replicate" /\ Template.copies > 1 /\ level <= Top
  /\ size' = [size EXCEPT ![level] = Template.copies * originalSize[level]]
  /\ LET new == {<<level, k>> : k \in 0..(Template.copies * originalSize[level] - 1)}
     IN /\ addr' = [n \in TopoNode \cup new |->
                      IF n \in new THEN Append(addr[Original(n)], CopyNumber(n)) ELSE addr[n]]
        /\ devices' = [n \in TopoNode \cup new |-> IF n \in TopoNode THEN devices[n] ELSE <<>>]
        /\ ports' = [n \in TopoNode \cup new |-> IF n \in TopoNode THEN ports[n] ELSE NoPorts]
  /\ calls' = ReplicatedLinks(level)
  /\ stage' = "wire"
  /\ UNCHANGED <<recipe, built, level, originalSize, startBit, totalAddrBits, dims, rules>>

\* The buckets are copied with the interface numbers of the original.
CopyPortSets ==
  /\ stage = "wire" /\ calls = <<>>
  /\ ports' = [n \in TopoNode |-> IF n[1] = level THEN ports[Original(n)] ELSE ports[n]]
  /\ level' = level + 1
  /\ stage' = "replicate"
  /\ UNCHANGED <<recipe, built, calls, size, originalSize, startBit, totalAddrBits, dims, addr,
                 devices, rules>>

-----------------------------------------------------------------------------
(* The links of each template, for nodes that are replicated already, in the *)
(* order in which Connect makes them; l is the top level, d its dimension.   *)

\* Wrong: the parents are dealt to the groups in turn.
ParentGroupInterleaved(t, p) == p % t.groups

ParentsGroup(t, p) == p \div (t.nodes \div t.groups)

ClosLinks(t, l) ==
  LET block == size[l - 1] \div t.copies
      perGroup == block \div t.groups
      T == Loops(t.nodes, t.copies, perGroup)
      child(x) == <<l - 1, x[2] * block + ParentsGroup(t, x[1]) * perGroup + x[3]>>
      key(n) == Fields(addr[n], startBit[l - 1] + 1, startBit[l])
  IN [k \in DOMAIN T |-> Link(<<l, T[k][1]>>, child(T[k]), 0, Down(key(child(T[k]))), Up)]

\* The addresses Connect gives to the parents.
ClosAddresses(t, l) ==
  LET perGroup == t.nodes \div t.groups
      below(p) == addr[<<l - 1, ParentsGroup(t, p)>>]
  IN [n \in TopoNode |->
        IF n[1] = l
        THEN <<n[2] % perGroup>> \o SubSeq(below(n[2]), 1,
               IF startBit[l] < Len(below(n[2])) THEN startBit[l] ELSE Len(below(n[2])))
        ELSE addr[n]]

\* Rails: endpoint e of each server is linked to switch e of the server's segment.
RailSwitch(t, host) ==
  (((host \div t.perServer) \div t.perSwitch) * t.perServer) + (host % t.perServer)

RailAddresses(t) ==
  [n \in TopoNode |->
     CASE n[1] = 1 -> <<(n[2] % t.perServer) + 1, (n[2] \div t.perServer) + 1, n[2] + 1>>
       [] n[1] = 0 -> <<(n[2] % t.perServer) + 1, (n[2] \div t.perServer) + 1, RailSwitch(t, n[2]) + 1>>]

RailLinks(t) ==
  LET a == RailAddresses(t)
      T == Loops(size[1], size[0], 1)
      key(host) == Fields(a[<<0, host>>], startBit[0] + 1, startBit[1])
      link(x) == Link(<<1, x[1]>>, <<0, x[2]>>, 0, Down(key(x[2])), Up)
  IN FlattenSeq([k \in DOMAIN T |-> OnlyIf(RailSwitch(t, T[k][2]) = T[k][1], link(T[k]))])

ServerAddresses(t) ==
  [n \in TopoNode |-> <<(n[2] % t.perServer) + 1, (n[2] \div t.perServer) + 1>>]

ServerLinks(t, d) ==
  LET E == t.perServer
      T == Loops(size[0] \div E, E, E)
      link(x) == Link(<<0, x[1] * E + x[2]>>, <<0, x[1] * E + x[3]>>, d,
                      Same(d, x[3] + 1), Same(d, x[2] + 1))
  IN FlattenSeq([k \in DOMAIN T |-> OnlyIf(T[k][2] < T[k][3], link(T[k]))])

\* Absolute: router i of group c has the links h*i .. h*i + h-1 of the group to all others.
AbsoluteLinks(t, l, d) ==
  LET perGroup == size[l] \div t.copies
      T == Loops(t.copies, perGroup, t.outLinks)
      other(x) == t.outLinks * x[2] + x[3] + 1     \* the group of port h*i + k, if above x[1]
      link(x) == Link(<<l, x[1] * perGroup + x[2]>>,
                      <<l, other(x) * perGroup + (x[1] \div t.outLinks)>>, d,
                      Same(d, other(x) + 1), Same(d, x[1] + 1))
  IN FlattenSeq([k \in DOMAIN T |-> OnlyIf(T[k][1] < other(T[k]), link(T[k]))])

\* SameRank: the nodes of the same number in all groups are fully meshed.
SameRankLinks(t, l, d) ==
  LET perGroup == size[l] \div t.copies
      T == Loops(t.copies, perGroup, t.copies)
      link(x) == Link(<<l, x[1] * perGroup + x[2]>>, <<l, x[3] * perGroup + x[2]>>, d,
                      Same(d, x[3] + 1), Same(d, x[1] + 1))
  IN FlattenSeq([k \in DOMAIN T |-> OnlyIf(T[k][1] < T[k][3], link(T[k]))])

\* The nodes of the same number form a ring; 1 and -1 are the directions.
TorusLinks(t, l, d) ==
  LET perGroup == size[l] \div t.copies
      T == Loops(t.copies, perGroup, 1)
  IN [k \in DOMAIN T |->
        Link(<<l, T[k][1] * perGroup + T[k][2]>>,
             <<l, ((T[k][1] + 1) % t.copies) * perGroup + T[k][2]>>, d, Same(d, 1), Same(d, -1))]

TemplateLinks(t, l, d) ==
  CASE t.kind = "Clos" -> ClosLinks(t, l)
    [] t.kind = "Rail" -> RailLinks(t)
    [] t.kind = "Server" -> ServerLinks(t, d)
    [] t.kind = "Full" /\ t.arrangement = "Absolute" -> AbsoluteLinks(t, l, d)
    [] t.kind = "Full" /\ t.arrangement = "SameRank" -> SameRankLinks(t, l, d)
    [] t.kind = "Torus" -> TorusLinks(t, l, d)

-----------------------------------------------------------------------------
\* All levels are replicated.
Replicated ==
  /\ built < Len(recipe) /\ stage = "replicate"
  /\ Template.copies = 1 \/ level > Top

\* CreateLevel with nodes: a level above all others, its addresses still empty.
CreateLevel ==
  /\ Replicated /\ Template.nodes > 0
  /\ LET l == Top + 1
         new == {<<l, k>> : k \in 0..(Template.nodes - 1)}
         extended(f, v) == [x \in DOMAIN f \cup {l} |-> IF x = l THEN v ELSE f[x]]
     IN /\ size' = extended(size, Template.nodes)
        /\ originalSize' = extended(size, Template.nodes)
        /\ startBit' = extended(startBit, totalAddrBits - 1)
        /\ dims' = extended(dims, 0)
        /\ addr' = [n \in TopoNode \cup new |-> IF n \in new THEN <<>> ELSE addr[n]]
        /\ devices' = [n \in TopoNode \cup new |-> IF n \in new THEN <<>> ELSE devices[n]]
        /\ ports' = [n \in TopoNode \cup new |-> IF n \in new THEN NoPorts ELSE ports[n]]
  /\ totalAddrBits' = totalAddrBits + 1
  /\ stage' = "create"
  /\ UNCHANGED <<recipe, built, level, calls, rules>>

\* CreateLevel without nodes: the top level gets a dimension.
CreateDimension ==
  /\ Replicated /\ Template.nodes = 0
  /\ originalSize' = size
  /\ totalAddrBits' = totalAddrBits + 1
  /\ dims' = [dims EXCEPT ![Top] = @ + 1]
  /\ stage' = "create"
  /\ UNCHANGED <<recipe, built, level, calls, size, startBit, addr, devices, ports, rules>>

\* Connect, its loops: addresses are written, and the links are to be made.
Connect ==
  /\ stage = "create"
  /\ calls' = TemplateLinks(Template, Top, dims[Top])
  /\ addr' = CASE Template.kind = "Clos" -> ClosAddresses(Template, Top)
               [] Template.kind = "Rail" -> RailAddresses(Template)
               [] Template.kind = "Server" -> ServerAddresses(Template)
               [] OTHER -> addr
  /\ stage' = "connect"
  /\ UNCHANGED <<recipe, built, level, size, originalSize, startBit, totalAddrBits, dims, devices,
                 ports, rules>>

\* PortSet::Add...: the interface is the last of its bucket.
AddPort(p, bucket, port) ==
  IF bucket = NoBucket THEN p
  ELSE [k \in DOMAIN p \cup {bucket} |->
          IF k # bucket THEN p[k] ELSE IF k \in DOMAIN p THEN Append(p[k], port) ELSE <<port>>]

\* Wrong: the interface of the first node is added at both.
PortsAfterFirst(c) ==
  [ports EXCEPT ![c.a] = AddPort(@, c.bucketA, Len(devices[c.a]) + 1),
                ![c.b] = AddPort(@, c.bucketB, Len(devices[c.a]) + 1)]

PortsAfter(c) ==
  [ports EXCEPT ![c.a] = AddPort(@, c.bucketA, Len(devices[c.a]) + 1),
                ![c.b] = AddPort(@, c.bucketB, Len(devices[c.b]) + 1)]

\* One call of ConnectNodes: a new interface at both nodes.
ConnectNodes ==
  /\ stage \in {"wire", "connect"} /\ calls # <<>>
  /\ LET c == Head(calls)
     IN /\ devices' = [devices EXCEPT
                         ![c.a] = Append(@, [peer |-> c.b, dim |-> c.dim, first |-> TRUE]),
                         ![c.b] = Append(@, [peer |-> c.a, dim |-> c.dim, first |-> FALSE])]
        /\ ports' = PortsAfter(c)
  /\ calls' = Tail(calls)
  /\ UNCHANGED <<recipe, built, stage, level, size, originalSize, startBit, totalAddrBits, dims,
                 addr, rules>>

\* The rules a template adds for the top level l and the one below it.
TemplateRules(t, l, d) ==
  LET rule(lv, kind, priority) ==
        [level |-> lv, kind |-> kind, priority |-> priority, dim |-> d, template |-> t]
  IN CASE t.kind \in {"Clos", "Rail"} -> {rule(l, "down", 0), rule(l - 1, "up", 1000)}
       [] t.kind = "Server" -> {rule(0, "server", 5000)}
       [] t.kind = "Full" -> {rule(l, "full", 100 * d)}
       [] t.kind = "Torus" -> {rule(l, "torus", 100 * d)}

\* GenerateRoutingRules, and Build returns.
GenerateRoutingRules ==
  /\ stage = "connect" /\ calls = <<>>
  /\ rules' = rules \cup TemplateRules(Template, Top, dims[Top])
  /\ built' = built + 1 /\ stage' = "replicate" /\ level' = 0
  /\ UNCHANGED <<recipe, calls, size, originalSize, startBit, totalAddrBits, dims, addr, devices,
                 ports>>

BuildStep ==
  ReplicateLevel \/ CopyPortSets \/ CreateLevel \/ CreateDimension \/ Connect \/ ConnectNodes
    \/ GenerateRoutingRules
===============================================================================
