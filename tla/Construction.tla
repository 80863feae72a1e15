------------------------------- MODULE Construction -------------------------------
(***************************************************************************)
(* What a fabric built from templates, with its addresses, PortSets and    *)
(* rules, has to satisfy for RuleBasedRouting to work.                     *)
(***************************************************************************)
EXTENDS TemplateRouting

Fabric(Levels, Sub, Num, Grp) == INSTANCE ClosFabric
Paths(Vertex) == INSTANCE ShortestPaths

Built == built = Len(recipe) /\ stage = "replicate"
Init == InitTopology
Next == BuildStep
Spec == Init /\ [][Next]_topoVars /\ WF_topoVars(Next)

Kinds == {recipe[k].kind : k \in DOMAIN recipe}

\* Every node has an address, devices and buckets of interface numbers, and the links that are
\* still to be made are between existing nodes.
TypeOK ==
  /\ built \in 0..Len(recipe) /\ level \in 0..(Top + 1) /\ stage \in {"replicate", "wire", "create", "connect"}
  /\ TopoNode = UNION {LevelNodes(l) : l \in DOMAIN size}
  /\ DOMAIN devices = TopoNode /\ DOMAIN ports = TopoNode
  /\ \A n \in TopoNode :
       /\ addr[n] \in Seq(Nat)
       /\ \A p \in DOMAIN devices[n] : devices[n][p].peer \in TopoNode
       /\ \A b \in DOMAIN ports[n] : ports[n][b] \in Seq(Nat)
  /\ \A k \in DOMAIN calls : {calls[k].a, calls[k].b} \subseteq TopoNode

-----------------------------------------------------------------------------
\* The interfaces in the buckets of a dimension lead to a node that differs in that field
\* only and has the value the bucket is named after, or the next value on a ring.  Between
\* groups of a dragonfly also the router in the group differs.
SameLevelLeads(n, b, p) ==
  LET peer == devices[n][p].peer
      r == CHOOSE r \in rules : r.level = n[1] /\ r.kind \in {"full", "torus", "server"} /\ r.dim = b[2]
      at == IF r.kind = "server" THEN 1 ELSE startBit[n[1]] + r.dim + 1
      mine == addr[n][at]
      C == r.template.copies
      absolute == r.kind = "full" /\ r.template.arrangement = "Absolute"
  IN /\ peer[1] = n[1]
     /\ addr[peer][at] = IF r.kind # "torus" THEN b[3][1] ELSE ((mine - 1 + b[3][1] + C) % C) + 1
     /\ \A i \in DOMAIN addr[n] \ {at} :
          addr[peer][i] = addr[n][i] \/ (absolute /\ i = at - 1)
            \/ (r.kind = "server" /\ i > 2)

\* Once a template is built every interface in a bucket leads to a node that the bucket's key
\* names.  Replication copies the interface numbers of the buckets before it is known that
\* the links of the copies get the same numbers; the comment that they are updated later
\* (structured-topology.cc:365) has no code behind it.
PortsLead ==
  stage = "replicate" /\ level = 0 =>
    \A n \in TopoNode : \A b \in DOMAIN ports[n] : \A p \in ToSet(ports[n][b]) :
      /\ p \in DOMAIN devices[n]
      /\ LET peer == devices[n][p].peer
         IN CASE b[1] = "up" -> peer[1] = n[1] + 1
              [] b[1] = "down" ->
                   /\ peer[1] = n[1] - 1
                   /\ Fields(addr[peer], startBit[n[1] - 1] + 1, startBit[n[1]]) = b[3]
              [] b[1] = "same" -> SameLevelLeads(n, b, p)

\* When all levels are replicated every copy of a node is wired as the original is, interface
\* by interface, with the copies of its peers, so that the interface numbers in the buckets
\* copied from it are right.  The links of a level are made when the levels above it
\* are still missing (structured-topology.cc:336).
CopiesAlike ==
  Replicated /\ Template.copies > 1 =>
    \A n \in TopoNode :
      LET o == Original(n)
          c == n[2] \div originalSize[n[1]]
      IN /\ ports[n] = ports[o] /\ DOMAIN devices[n] = DOMAIN devices[o]
         /\ \A p \in DOMAIN devices[n] :
              /\ devices[n][p].peer = Copy(devices[o][p].peer, c)
              /\ devices[n][p].dim = devices[o][p].dim

\* Once a template is built every interface is in exactly one bucket, once: no link is lost
\* to routing, and no bucket counts one twice.
EachLinkInOneBucket ==
  stage = "replicate" /\ level = 0 =>
    \A n \in TopoNode : \A p \in DOMAIN devices[n] :
      Cardinality({at \in UNION {{b} \X DOMAIN ports[n][b] : b \in DOMAIN ports[n]} :
                     ports[n][at[1]][at[2]] = p}) = 1

\* In the finished fabric no two hosts have the same address, and all hosts have the same
\* number of fields: the directory finds one node for it, and no rule reads a missing field.
HostAddressesDiffer ==
  Built => \A n, m \in LevelNodes(0) :
             Len(addr[n]) = Len(addr[m]) /\ (addr[n] = addr[m] => n = m)

-----------------------------------------------------------------------------
\* The longest route a template adds: up and down, within a server, to the border router and
\* over its link, half round a ring.
HopsOf(t) ==
  CASE t.kind \in {"Clos", "Rail"} -> 2
    [] t.kind = "Server" -> 1
    [] t.kind = "Full" -> IF t.arrangement = "Absolute" THEN 2 ELSE 1
    [] t.kind = "Torus" -> t.copies \div 2

HopBound == FoldSeq(LAMBDA t, s : s + HopsOf(t), 0, recipe)

\* The nodes whose every route reaches h within 0, 1, ... hops.
DeliverWithin(h) ==
  FoldLeft(LAMBDA w, k : w \cup {n \in TopoNode \ w : /\ NextHops(n, addr[h]) # {}
                                                      /\ NextHops(n, addr[h]) \subseteq w},
           {h}, [k \in 1..HopBound |-> k])

\* In the finished fabric a packet between any two hosts arrives within HopBound hops
\* whatever candidates PortSelector picks: no dead end and no loop, although the rules of the
\* levels and dimensions are generated one template at a time, and an action without ports
\* silently hands over to a rule of lower priority (rule-based-routing.cc:1728).
RulesDeliver == Built => \A h \in LevelNodes(0) : LevelNodes(0) \subseteq DeliverWithin(h)

\* In a fabric of Clos templates the candidates of every node that a packet to h can visit
\* are all next hops on shortest paths, which is what the BFS baseline computes
\* (experiments/README.md section 1.2 compares the two).
RulesShortest ==
  Built /\ Kinds = {"Clos"} =>
    \A h \in LevelNodes(0) :
      LET live == [n \in TopoNode |-> {d.peer : d \in ToSet(devices[n])}]
          next == [n \in TopoNode |-> NextHops(n, addr[h])]
          shortest == Paths(TopoNode)!ShortestNextHops(h, TopoNode, live)
          visited == FoldLeft(LAMBDA w, k : w \cup UNION {next[n] : n \in w \ {h}},
                              LevelNodes(0), [k \in 1..HopBound |-> k])
      IN \A n \in visited \ {h} : next[n] = shortest[n]

-----------------------------------------------------------------------------
\* The node of ClosFabric that n is: the numbers of the copies it is in, outermost first,
\* and its index in the innermost one.
FabricNode(n) ==
  LET l == n[1]
      width == IF l = 0 THEN 1 ELSE recipe[l].nodes
      below(k) == FoldSeq(LAMBDA t, q : q * t.copies, width, SubSeq(recipe, l + 1, k - 1))
      copy(k) == ((n[2] \div below(k)) % recipe[k].copies) + 1
  IN <<l, [i \in 1..(Len(recipe) - l) |-> copy(Len(recipe) + 1 - i)], n[2] % width>>

\* What the steps of the builder make of Clos templates is the fabric that ClosFabric states
\* in closed form, on which the failure control plane is checked: the same nodes, addresses,
\* links and buckets.
BuiltAsFabric ==
  Built /\ Kinds = {"Clos"} /\ (\A k \in DOMAIN recipe : recipe[k].copies > 1) =>
    LET sub == [k \in DOMAIN recipe |-> recipe[k].copies]
        num == [k \in DOMAIN recipe |-> recipe[k].nodes]
        grp == [k \in DOMAIN recipe |-> recipe[k].groups]
        L == Len(recipe)
        neighbour == Fabric(L, sub, num, grp)!ClosNeighbour
        address == Fabric(L, sub, num, grp)!ClosAddress
        buckets == Fabric(L, sub, num, grp)!ClosBuckets
        bucket(n, b) ==
          [dir |-> b[1], key |-> b[3],
           ports |-> {FabricNode(devices[n][p].peer) : p \in ToSet(ports[n][b])}]
    IN /\ {FabricNode(n) : n \in TopoNode} = DOMAIN neighbour
       /\ \A n \in TopoNode :
            LET f == FabricNode(n)
            IN /\ addr[n] = Reverse(address[f])
               /\ {FabricNode(d.peer) : d \in ToSet(devices[n])} = neighbour[f]
               /\ {bucket(n, b) : b \in DOMAIN ports[n]} = buckets[f]
===============================================================================
