------------------------------ MODULE NodeBfsRouting ------------------------------
(***************************************************************************)
(* The baseline protocol NodeBfsRouting: after every change of an          *)
(* interface its helper visits the whole fabric breadth first from each    *)
(* host and fills the routing tables of all nodes anew.  The loop over     *)
(* queue and devices is kept: one step scans one device.                   *)
(*                                                                         *)
(* Two nodes share at most one link, so a device is named by its peer.     *)
(***************************************************************************)
EXTENDS Integers, Sequences, FiniteSets

CONSTANTS
  Hosts,     \* topo->GetLevel(0), in order
  Devices    \* Devices[n]: the peers of n's point-to-point devices, in order

Node == DOMAIN Devices
Host == {Hosts[k] : k \in DOMAIN Hosts}

ASSUME BfsAssumption ==
  /\ IsFiniteSet(Node)
  /\ Hosts \in Seq(Node) /\ Len(Hosts) > 0
  /\ \A k, l \in DOMAIN Hosts : Hosts[k] = Hosts[l] => k = l
  /\ \A n \in Node : Devices[n] \in Seq(Node)
  \* a channel has a device at both ends
  /\ \A n \in Node : \A k \in DOMAIN Devices[n] :
       \E l \in DOMAIN Devices[Devices[n][k]] : Devices[Devices[n][k]][l] = n

Unreached == -1    \* a node dis has no entry for
NoEntries == [n \in Node |-> [h \in Host |-> {}]]

VARIABLES
  interfaceDown,   \* interfaceDown[n]: interfaces of n for which Ipv4::IsUp is false
  rtTable,         \* m_rtTable of each node: destination host -> next hops
  topoKnown,       \* m_topo of the protocols is set
  nextHop,         \* m_nextHop
  strictBaseline, withHost,   \* m_strictBaseline, m_withHost
  baseDist,        \* m_baseDist; an absent host maps to NoDistances
  task,            \* the calculation that runs: "none", "baseline" or "routes"
  source,          \* number of the host it visits the fabric from
  q, dis,          \* the queue and the distances of that visit
  i, j             \* loop indices: place in the queue, device of that node

tables == <<rtTable, topoKnown>>
visit == <<source, q, dis, i, j>>   \* the locals of one visit
bfsVars == <<interfaceDown, tables, nextHop, strictBaseline, withHost, baseDist, task, visit>>

NoDistances == [n \in Node |-> Unreached]

InitBfs ==
  /\ interfaceDown = [n \in Node |-> {}]
  /\ rtTable = NoEntries
  /\ topoKnown = FALSE
  /\ nextHop = NoEntries
  /\ strictBaseline = FALSE /\ withHost = FALSE
  /\ baseDist = [h \in Host |-> NoDistances]
  /\ task = "none"
  /\ source = 1 /\ q = <<>> /\ dis = NoDistances /\ i = 1 /\ j = 1

\* Wrong: only the interface the visit leaves by is looked at.
LinkUpAtNearEnd(n, m) == m \notin interfaceDown[n]

\* The interfaces at both ends are up.
LinkUp(n, m) == m \notin interfaceDown[n] /\ n \notin interfaceDown[m]

\* Wrong: device 0, the loopback, is scanned as well.
BeginVisitAtLoopback(k) ==
  /\ source' = k
  /\ q' = <<Hosts[k]>>
  /\ dis' = [NoDistances EXCEPT ![Hosts[k]] = 0]
  /\ i' = 1 /\ j' = 0

\* The locals of CalculateRoute for the k-th host: its queue and distances.
BeginVisit(k) ==
  /\ source' = k
  /\ q' = <<Hosts[k]>>
  /\ dis' = [NoDistances EXCEPT ![Hosts[k]] = 0]
  /\ i' = 1 /\ j' = 1

\* EnableStrictBaseline: measure every distance on the fabric as it is now.
BeginBaseline ==
  /\ task' = "baseline"
  /\ strictBaseline' = TRUE
  /\ baseDist' = [h \in Host |-> NoDistances]
  /\ BeginVisit(1)
  /\ UNCHANGED <<interfaceDown, tables, nextHop, withHost>>

\* CalculateRoutes (through = FALSE) and CalculateRoutesWithHost.
BeginRoutes(through) ==
  /\ task' = "routes"
  /\ withHost' = through
  /\ nextHop' = NoEntries
  /\ BeginVisit(1)
  /\ UNCHANGED <<tables, strictBaseline, baseDist>>

\* The strict baseline, once it holds distances from this host.
useBaseline == task = "routes" /\ strictBaseline /\ baseDist[Hosts[source]] # NoDistances

\* Wrong: the distances from one host serve for all.
BaseDistanceFromFirst(n) == baseDist[Hosts[1]][n]

BaseDistance(n) == baseDist[Hosts[source]][n]

\* A node is found if it is new and the baseline does not rule the distance out.
Discovers(next, d) ==
  dis[next] = Unreached /\ (useBaseline => d <= BaseDistance(next))

\* Wrong: hosts pass packets on.
PassesAnywhere(next) == TRUE

\* Hosts are visited but not passed through, unless withHost says so.
PassesOn(next) == next \notin Host \/ (task = "routes" /\ withHost)

\* Wrong: any next hop that is live and found will do.
OnAnyPath(next, d) == dis'[next] # Unreached

\* "if 'now' is on the shortest path from 'next' to 'host'"
OnShortestPath(next, d) ==
  /\ dis'[next] = d
  /\ useBaseline => d = BaseDistance(next)

\* Wrong: depth first.
EnqueueFirst(next) == SubSeq(q, 1, i) \o <<next>> \o SubSeq(q, i + 1, Len(q))

Enqueue(next) == Append(q, next)

\* One turn of the loop over the devices of the node at the head of the queue.
ScanDevice ==
  /\ task # "none" /\ i <= Len(q) /\ j <= Len(Devices[q[i]])
  /\ LET now == q[i]
         next == Devices[now][j]
         d == dis[now] + 1
         found == LinkUp(now, next) /\ Discovers(next, d)
     IN /\ dis' = IF found THEN [dis EXCEPT ![next] = d] ELSE dis
        /\ q' = IF found /\ PassesOn(next) THEN Enqueue(next) ELSE q
        /\ nextHop' = IF task = "routes" /\ LinkUp(now, next) /\ OnShortestPath(next, d)
                      THEN [nextHop EXCEPT ![next][Hosts[source]] = @ \cup {now}]
                      ELSE nextHop
  /\ j' = j + 1
  /\ UNCHANGED <<interfaceDown, tables, strictBaseline, withHost, baseDist, task, source, i>>

\* Wrong: the visit stays at the node.
NextNodeStays ==
  /\ task # "none" /\ i <= Len(q) /\ j > Len(Devices[q[i]])
  /\ j' = 1
  /\ UNCHANGED <<interfaceDown, tables, nextHop, strictBaseline, withHost, baseDist, task,
                 source, q, dis, i>>

NextNode ==
  /\ task # "none" /\ i <= Len(q) /\ j > Len(Devices[q[i]])
  /\ i' = i + 1 /\ j' = 1
  /\ UNCHANGED <<interfaceDown, tables, nextHop, strictBaseline, withHost, baseDist, task,
                 source, q, dis>>

\* The queue is exhausted; the next host follows or, after the last one, the
\* tables of all nodes are cleared and filled (SetRoutingEntries).
EndVisit ==
  /\ task # "none" /\ i > Len(q)
  /\ baseDist' = IF task = "baseline" THEN [baseDist EXCEPT ![Hosts[source]] = dis] ELSE baseDist
  /\ IF source < Len(Hosts)
     THEN /\ BeginVisit(source + 1)
          /\ UNCHANGED <<tables, task>>
     ELSE /\ task' = "none"
          /\ IF task = "routes" THEN rtTable' = nextHop /\ topoKnown' = TRUE
                                ELSE UNCHANGED tables
          /\ UNCHANGED visit
  /\ UNCHANGED <<interfaceDown, nextHop, strictBaseline, withHost>>

Calculate == ScanDevice \/ NextNode \/ EndVisit

\* The interface to m changes at n (Ipv4::SetDown or SetUp); the protocol of n
\* is told and has all routes recalculated, if it knows the topology.
SetInterface(n, m, up, suppressed) ==
  /\ task = "none"
  /\ interfaceDown' = [interfaceDown EXCEPT ![n] = IF up THEN @ \ {m} ELSE @ \cup {m}]
  /\ IF topoKnown /\ ~suppressed
     THEN BeginRoutes(withHost)
     ELSE UNCHANGED <<tables, nextHop, strictBaseline, withHost, baseDist, task, visit>>

-----------------------------------------------------------------------------
TypeOKBfs ==
  /\ interfaceDown \in [Node -> SUBSET Node]
  /\ rtTable \in [Node -> [Host -> SUBSET Node]]
  /\ nextHop \in [Node -> [Host -> SUBSET Node]]
  /\ topoKnown \in BOOLEAN /\ strictBaseline \in BOOLEAN /\ withHost \in BOOLEAN
  /\ baseDist \in [Host -> [Node -> Nat \cup {Unreached}]]
  /\ task \in {"none", "baseline", "routes"}
  /\ source \in 1..Len(Hosts)
  /\ q \in Seq(Node)
  /\ dis \in [Node -> Nat \cup {Unreached}]
  /\ i \in Nat \ {0} /\ j \in Nat \ {0}

\* The queue is visited closest nodes first: the distances in it never
\* decrease and those still to be visited exceed the current one by at most
\* one.  CalculateRoute compares the distance of a node found long ago with
\* that of the node at hand, which is right only in this order.
ClosestFirst ==
  task # "none" =>
    /\ \A a \in 1..Len(q) : dis[q[a]] # Unreached
    /\ \A a, b \in 1..Len(q) : a <= b => dis[q[a]] <= dis[q[b]]
    /\ i <= Len(q) => \A b \in i..Len(q) : dis[q[b]] <= dis[q[i]] + 1

\* Tables are free of forwarding loops after every calculation, through all failures and
\* recoveries and with a baseline too: any set of nodes has one that
\* sends nothing for the host back into the set.
NoForwardingLoop ==
  task = "none" =>
    \A h \in Host, S \in (SUBSET Node) \ {{}} : \E n \in S : rtTable[n][h] \cap S = {}
===============================================================================
