-------------------------------- MODULE Baselines --------------------------------
(***************************************************************************)
(* The protocols that RuleBasedRouting with a non-minimal policy is        *)
(* compared with: DragonflyValiantRouting, DragonflyUgalRouting and        *)
(* TorusDetourRouting.  They read the same topology, but find their way by *)
(* neighbour tables of their own.                                          *)
(***************************************************************************)
EXTENDS NonMinimalRouting

Router == LevelNodes(1)      \* m_routerLevel of a dragonfly
GroupDimId == 2

\* GetGroupFromAddr: the field of the groups, the last one of shorter addresses.
GroupField(a) == IF startBit[1] + GroupDimId < Len(a) THEN startBit[1] + GroupDimId ELSE Len(a) - 1
GroupOf(a) == a[GroupField(a) + 1]
GroupList == {GroupOf(addr[r]) : r \in Router}

\* The first interface of n to a peer in P, 0 if there is none.
InterfaceTo(n, P) ==
  LET to == {p \in DOMAIN devices[n] : devices[n][p].peer \in P}
  IN IF to = {} THEN 0 ELSE CHOOSE p \in to : \A q \in to : p <= q

HostRouter(h) == devices[h][InterfaceTo(h, Router)].peer

GlobalNeighbours(r, group) ==
  {m \in Router : GroupOf(addr[m]) = group /\ GroupOf(addr[r]) # group
                    /\ InterfaceTo(r, {m}) # 0}

\* FindNextHopToGroup: the router of r's group that has the link to the other group.
BorderRouter(r, group) ==
  LET R == Cardinality(Router) \div Cardinality(GroupList)
      h == (Cardinality(GroupList) - 1) \div R
      here == GroupOf(addr[r]) - 1
      there == group - 1
  IN <<1, here * R + (IF here < there THEN (there - 1) \div h ELSE there \div h)>>

\* computeNextHop of a router, as an interface, 0 for none.  The routers of a group are fully
\* meshed, so that its BFS over local neighbours takes the direct link.
RouterNextHop(r, dst, group) ==
  IF GroupOf(addr[r]) = group
  THEN InterfaceTo(r, {IF HostRouter(dst) = r THEN dst ELSE HostRouter(dst)})
  ELSE IF GlobalNeighbours(r, group) # {} THEN InterfaceTo(r, GlobalNeighbours(r, group))
       ELSE InterfaceTo(r, {BorderRouter(r, group)})

DragonflyNextHop(n, dst, group) ==
  IF n \in Router THEN RouterNextHop(n, dst, group) ELSE InterfaceTo(n, Router)

\* PickValiantGroup: the groups of both ends are avoided, in cyclic order from start on.
PickValiantGroup(srcGroup, dstGroup, start) ==
  LET allowed == GroupList \ {srcGroup, dstGroup}
      after == {g \in allowed : g >= start}
      from == IF after # {} THEN after ELSE allowed
  IN CHOOSE g \in from : \A k \in from : g <= k

\* A lookup gives [tag, out], out = 0 for no route.
Lookup(tag, out) == [tag |-> tag, out |-> out]

\* The group a packet with this tag is on its way to.
TargetGroup(dst, tag) ==
  IF tag.phase = "toTransit" THEN GroupOf(ApplyRewrites(addr[dst], tag.rewrites))
  ELSE GroupOf(addr[dst])

\* The tag at n: the transit ends where the rewrites match.
TagAt(n, tag) ==
  IF tag.phase = "toTransit" /\ MatchesRewrites(addr[n], tag.rewrites)
  THEN Tag("toFinal", 0, <<>>) ELSE tag

ToGroup(dst, g) == <<[field |-> GroupField(addr[dst]), value |-> g]>>

DragonflyValiant(n, src, dst, inject, tag, draw) ==
  LET mid == PickValiantGroup(GroupOf(addr[src]), GroupOf(addr[dst]), draw[GroupField(addr[dst])])
      t == IF inject THEN Tag("toTransit", 0, ToGroup(dst, mid)) ELSE TagAt(n, tag)
  IN Lookup(t, DragonflyNextHop(n, dst, TargetGroup(dst, t)))

DragonflyUgal(n, src, dst, inject, tag, draw, load) ==
  LET mid == PickValiantGroup(GroupOf(addr[src]), GroupOf(addr[dst]), draw[GroupField(addr[dst])])
      metric(group) == load[DragonflyNextHop(n, dst, group)]
      pending == tag.phase = "min" /\ tag.flags = UgalPending /\ tag.rewrites # <<>>
      detour == pending /\ HostRouter(src) = n
                  /\ metric(tag.rewrites[1].value) + DetourCost < metric(GroupOf(addr[dst]))
      t == CASE inject -> Tag("min", UgalPending, ToGroup(dst, mid))
             [] ~inject /\ detour -> Tag("toTransit", 0, tag.rewrites)
             [] ~inject /\ ~detour /\ pending /\ HostRouter(src) = n -> Tag("min", 0, <<>>)
             [] OTHER -> TagAt(n, tag)
  IN Lookup(t, DragonflyNextHop(n, dst, TargetGroup(dst, t)))

-----------------------------------------------------------------------------
\* m_dirNeighbors: the interfaces to the node that differs in field f only; the end that made
\* the link has the lower IP address and takes it for the positive one.
TorusInterfaces(n, f, positive) ==
  {p \in DOMAIN devices[n] :
     /\ devices[n][p].first = positive
     /\ \A i \in DOMAIN addr[n] : addr[devices[n][p].peer][i] = addr[n][i] <=> i # f + 1}

TorusNextHop(n, effective) ==
  LET differ == {f \in 0..(Len(addr[n]) - 1) : addr[n][f + 1] # effective[f + 1]}
      f == CHOOSE g \in differ : \A k \in differ : k <= g
      values == FieldValues(f)
      pos(v) == Cardinality({w \in values : w < v})
      ahead == (pos(effective[f + 1]) - pos(addr[n][f + 1]) + Cardinality(values))
                 % Cardinality(values)
      to == TorusInterfaces(n, f, ahead <= Cardinality(values) - ahead)
  IN IF differ = {} \/ to = {} THEN 0 ELSE CHOOSE p \in to : \A q \in to : p <= q

\* TorusDetourRouting asks the DetourPolicy, and follows the highest dimension that differs.
TorusDetour(n, dst, inject, tag, draw) ==
  LET d == DecideDetour(addr[n], addr[dst], inject, tag, draw)
  IN Lookup(d.tag, TorusNextHop(n, d.effective))
===============================================================================
