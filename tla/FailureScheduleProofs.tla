--------------------------- MODULE FailureScheduleProofs ---------------------------
(***************************************************************************)
(* Proofs about NodeBfsRouting in the experiments of FailureSchedule, for  *)
(* every fabric, every schedule of failures and every order of devices, in *)
(* four groups.                                                            *)
(*                                                                         *)
(* Parts 1 to 6: types, the order of the breadth-first queue, freedom from *)
(* loops, and that no table names a link that is down.                     *)
(*                                                                         *)
(* Parts 7 to 10: the tables are exactly the next hops on shortest live    *)
(* paths, after every change of an interface.  The visit compares          *)
(* distances of nodes found long ago with that of the node at hand; what   *)
(* makes this right is kept as an invariant of the visit, and compared at  *)
(* its end with the sets of nodes within 0, 1, ... links of ShortestPaths. *)
(*                                                                         *)
(* Parts 11 to 15: tables that keep to a strict baseline hold exactly its  *)
(* next hops that still lead to the host.  A visit finds a node at the     *)
(* distance it had or not at all, because no link is live that was not     *)
(* live when the baseline was measured.                                    *)
(*                                                                         *)
(* Parts 16 to 18: the simulator runs failures and recoveries in the order *)
(* of their times while calls change one end of a link after the other,    *)
(* and yet the statistics miss no failure and every interface is as the    *)
(* last event about its link left it.                                      *)
(***************************************************************************)
EXTENDS FailureSchedule, SequenceTheorems, FiniteSetTheorems, WellFoundedInduction, TLAPS

(* Part 1: the visit.  What one step of a calculation does to the queue    *)
(* and the distances; task, source and dis are as in NodeBfsRouting.       *)

\* Everything in the queue has been reached, closest first.
QueueSorted ==
  /\ \A a \in 1..Len(q) : dis[q[a]] # Unreached
  /\ \A a, b \in 1..Len(q) : a <= b => dis[q[a]] <= dis[q[b]]
  /\ i <= Len(q) => \A b \in i..Len(q) : dis[q[b]] <= dis[q[i]] + 1

\* An entry for the host being visited leads one link closer to it.
EntriesCloser ==
  \A n \in Node : \A m \in nextHop[n][Hosts[source]] :
    dis[m] # Unreached /\ dis[n] = dis[m] + 1

\* f orders the nodes so that the entries T for h only lead downwards.
Ranks(f, T, h) == \A n \in Node : \A m \in T[n][h] : f[m] < f[n]
Ranked(T, h) == \E f \in [Node -> Nat] : Ranks(f, T, h)

\* Entries for the hosts before the current one are ranked, those after it empty.
EntriesRanked ==
  /\ \A k \in 1..(source - 1) : Ranked(nextHop, Hosts[k])
  /\ \A k \in (source + 1)..Len(Hosts) : \A n \in Node : nextHop[n][Hosts[k]] = {}

\* Every entry names a link of the fabric whose ends are up.
EntriesLive(T) == \A n \in Node, h \in Host : T[n][h] \subseteq Live[n]

VisitInv == task # "none" => QueueSorted
RoutesInv == task = "routes" => EntriesCloser /\ EntriesRanked /\ EntriesLive(nextHop)

\* No router knows the topology before the first tables are installed.
StageInv ==
  /\ stage \in {"preApply", "baseline", "routes"} => ~topoKnown /\ task # "routes"
  /\ task = "baseline" => ~topoKnown

TableInv ==
  /\ \A h \in Host : Ranked(rtTable, h)
  /\ topoKnown /\ task = "none" => EntriesLive(rtTable)

IInv == TypeOK /\ VisitInv /\ RoutesInv /\ StageInv /\ TableInv

-----------------------------------------------------------------------------
(* Part 2: types. *)

LEMMA HostIsNode == \A k \in 1..Len(Hosts) : Hosts[k] \in Node /\ Hosts[k] \in Host
  BY BfsAssumption DEF Host

LEMMA HostSubset == Host \subseteq Node
  BY BfsAssumption DEF Host

\* Starting a visit keeps the locals well-typed and the queue sorted.
LEMMA BeginVisitOK ==
  ASSUME NEW k \in 1..Len(Hosts), BeginVisit(k)
  PROVE  /\ source' = k /\ q' \in Seq(Node) /\ i' = 1 /\ j' = 1
         /\ dis' \in [Node -> Nat \cup {Unreached}]
         /\ QueueSorted'
<1>1. Hosts[k] \in Node  BY HostIsNode
<1>2. q' = <<Hosts[k]>> /\ Len(q') = 1 /\ q'[1] = Hosts[k]  BY DEF BeginVisit
<1>3. dis' \in [Node -> Nat \cup {Unreached}] /\ dis'[Hosts[k]] = 0
  BY <1>1 DEF BeginVisit, NoDistances, Unreached
<1>4. QueueSorted'
  BY <1>2, <1>3 DEF QueueSorted, Unreached, BeginVisit
<1> QED  BY <1>1, <1>2, <1>3, <1>4 DEF BeginVisit

LEMMA NoEntriesType == NoEntries \in [Node -> [Host -> SUBSET Node]]
  BY DEF NoEntries

LEMMA NoDistancesType == NoDistances \in [Node -> Nat \cup {Unreached}]
  BY DEF NoDistances

\* The steps of a calculation keep the types.
LEMMA ScanDeviceType ==
  ASSUME TypeOKBfs, ScanDevice
  PROVE  TypeOKBfs'
<1> DEFINE now == q[i]
           next == Devices[now][j]
           d == dis[now] + 1
<1>1. now \in Node /\ Devices[now] \in Seq(Node)
  BY BfsAssumption DEF ScanDevice, TypeOKBfs
<1>2. next \in Node
  BY <1>1 DEF ScanDevice, TypeOKBfs
<1>3. d \in Nat
  <2>1. dis[now] \in Nat \cup {-1}  BY <1>1 DEF TypeOKBfs, Unreached
  <2> QED  BY <2>1
<1>4. dis' \in [Node -> Nat \cup {Unreached}]
  BY <1>2, <1>3 DEF ScanDevice, TypeOKBfs
<1>5. q' \in Seq(Node)
  BY <1>2 DEF ScanDevice, TypeOKBfs, Enqueue
<1>6. nextHop' \in [Node -> [Host -> SUBSET Node]]
  BY <1>1, <1>2, HostIsNode DEF ScanDevice, TypeOKBfs
<1> QED
  BY <1>4, <1>5, <1>6 DEF ScanDevice, TypeOKBfs, tables

LEMMA NextNodeType ==
  ASSUME TypeOKBfs, NextNode
  PROVE  TypeOKBfs'
  BY DEF NextNode, TypeOKBfs, tables

LEMMA EndVisitType ==
  ASSUME TypeOKBfs, EndVisit
  PROVE  TypeOKBfs'
<1>1. baseDist' \in [Host -> [Node -> Nat \cup {Unreached}]]
  BY HostIsNode DEF EndVisit, TypeOKBfs
<1>2. CASE source < Len(Hosts)
  <2>1. source + 1 \in 1..Len(Hosts)  BY <1>2, BfsAssumption DEF TypeOKBfs
  <2>2. BeginVisit(source + 1)  BY <1>2 DEF EndVisit
  <2> QED
    BY <1>1, <1>2, <2>1, <2>2, BeginVisitOK DEF EndVisit, TypeOKBfs, tables
<1>3. CASE ~(source < Len(Hosts))
  BY <1>1, <1>3 DEF EndVisit, TypeOKBfs, tables, visit
<1> QED  BY <1>2, <1>3

LEMMA SetInterfaceType ==
  ASSUME TypeOKBfs, NEW n, NEW m \in Node, NEW up, NEW suppressed, SetInterface(n, m, up, suppressed)
  PROVE  TypeOKBfs'
<1>1. interfaceDown' \in [Node -> SUBSET Node]
  BY DEF SetInterface, TypeOKBfs
<1>2. CASE topoKnown /\ ~suppressed
  <2>1. BeginRoutes(withHost)  BY <1>2 DEF SetInterface
  <2>2. 1 \in 1..Len(Hosts)  BY BfsAssumption
  <2> QED
    BY <1>1, <2>1, <2>2, BeginVisitOK, NoEntriesType DEF BeginRoutes, TypeOKBfs, tables
<1>3. CASE ~(topoKnown /\ ~suppressed)
  BY <1>1, <1>3 DEF SetInterface, TypeOKBfs, tables, visit
<1> QED  BY <1>2, <1>3

-----------------------------------------------------------------------------
(* Part 3: one step of a visit. *)

\* What ScanDevice does in terms of the node at hand and the node it looks at.
LEMMA ScanFacts ==
  ASSUME TypeOKBfs, VisitInv, ScanDevice
  PROVE  LET now == q[i]
             next == Devices[now][j]
             d == dis[now] + 1
         IN /\ now \in Node /\ next \in Node
            /\ dis[now] \in Nat /\ now \in Peers[next] /\ next \in Peers[now]
            /\ QueueSorted /\ i \in 1..Len(q) /\ q' \in Seq(Node) /\ i' = i
            /\ \/ dis' = dis /\ q' = q
               \/ /\ dis[next] = Unreached /\ dis' = [dis EXCEPT ![next] = d]
                  /\ q' = q \/ q' = Append(q, next)
<1> DEFINE now == q[i]
           next == Devices[now][j]
           d == dis[now] + 1
<1>1. i \in 1..Len(q) /\ j \in 1..Len(Devices[now]) /\ task # "none" /\ i' = i
  BY DEF ScanDevice, TypeOKBfs
<1>2. now \in Node /\ Devices[now] \in Seq(Node)
  BY <1>1, BfsAssumption DEF TypeOKBfs
<1>3. next \in Node /\ next \in Peers[now] /\ j \in DOMAIN Devices[now]
  BY <1>1, <1>2 DEF Peers
<1>4. now \in Peers[next]
  BY <1>2, <1>3, BfsAssumption DEF Peers
<1>5. QueueSorted
  BY <1>1 DEF VisitInv
<1>6. dis[now] \in Nat
  BY <1>1, <1>2, <1>5 DEF QueueSorted, TypeOKBfs
<1>7. q' \in Seq(Node)
  BY <1>3 DEF ScanDevice, TypeOKBfs, Enqueue
<1>8. \/ dis' = dis /\ q' = q
      \/ /\ dis[next] = Unreached /\ dis' = [dis EXCEPT ![next] = d]
         /\ q' = q \/ q' = Append(q, next)
  <2>1. CASE LinkUp(now, next) /\ Discovers(next, d)
    BY <2>1, Zenon DEF ScanDevice, Enqueue, Discovers
  <2>2. CASE ~(LinkUp(now, next) /\ Discovers(next, d))
    BY <2>2, Zenon DEF ScanDevice
  <2> QED  BY <2>1, <2>2
<1> QED
  BY <1>1, <1>2, <1>3, <1>4, <1>5, <1>6, <1>7, <1>8

\* A scan keeps the queue sorted: what it appends is one link farther than the node at hand.
LEMMA ScanSorted ==
  ASSUME TypeOKBfs, VisitInv, ScanDevice
  PROVE  QueueSorted'
<1> DEFINE now == q[i]
           next == Devices[now][j]
           d == dis[now] + 1
<1>1. /\ now \in Node /\ next \in Node /\ dis[now] \in Nat
      /\ QueueSorted /\ i \in 1..Len(q) /\ q' \in Seq(Node) /\ i' = i
      /\ \/ dis' = dis /\ q' = q
         \/ /\ dis[next] = Unreached /\ dis' = [dis EXCEPT ![next] = d]
            /\ q' = q \/ q' = Append(q, next)
  BY ScanFacts
<1>2. q \in Seq(Node) /\ dis \in [Node -> Nat \cup {-1}]
  BY DEF TypeOKBfs, Unreached
<1>3. CASE dis' = dis /\ q' = q
  BY <1>1, <1>3 DEF QueueSorted
<1>4. CASE /\ dis[next] = Unreached /\ dis' = [dis EXCEPT ![next] = d]
           /\ q' = q \/ q' = Append(q, next)
  <2>1. \A a \in 1..Len(q) : dis[q[a]] \in Nat /\ dis'[q[a]] = dis[q[a]] /\ dis[q[a]] <= d
    <3> SUFFICES ASSUME NEW a \in 1..Len(q)
                 PROVE  dis[q[a]] \in Nat /\ dis'[q[a]] = dis[q[a]] /\ dis[q[a]] <= d
      OBVIOUS
    <3>1. q[a] \in Node /\ dis[q[a]] # Unreached /\ dis[q[a]] \in Nat
      BY <1>1, <1>2 DEF QueueSorted, Unreached
    <3>2. dis'[q[a]] = dis[q[a]]
      BY <1>2, <1>4, <3>1
    <3>3. a <= i => dis[q[a]] <= dis[now]
      BY <1>1 DEF QueueSorted
    <3>4. a >= i => dis[q[a]] <= dis[now] + 1
      BY <1>1, <1>2 DEF QueueSorted
    <3> QED  BY <1>1, <1>2, <3>1, <3>2, <3>3, <3>4
  <2>2. dis'[next] = d /\ d # Unreached /\ d \in Nat
    BY <1>1, <1>2, <1>4 DEF Unreached
  <2>3. CASE q' = q
    BY <1>1, <1>2, <2>1, <2>3 DEF QueueSorted, Unreached
  <2>4. CASE q' = Append(q, next)
    <3>1. /\ Len(q') = Len(q) + 1 /\ q'[Len(q) + 1] = next
          /\ \A a \in 1..Len(q) : q'[a] = q[a]
      BY <1>1, <1>2, <2>4
    <3>2. ASSUME NEW a \in 1..Len(q')
          PROVE  dis'[q'[a]] \in Nat /\ dis'[q'[a]] <= d
      <4>1. CASE a \in 1..Len(q)
        BY <2>1, <3>1, <4>1
      <4>2. CASE a = Len(q) + 1
        BY <2>2, <3>1, <4>2
      <4>3. Len(q) \in Nat  BY <1>2
      <4> QED  BY <3>1, <4>1, <4>2, <4>3
    <3>3. \A a, b \in 1..Len(q') : a <= b => dis'[q'[a]] <= dis'[q'[b]]
      <4> SUFFICES ASSUME NEW a \in 1..Len(q'), NEW b \in 1..Len(q'), a <= b
                   PROVE  dis'[q'[a]] <= dis'[q'[b]]
        OBVIOUS
      <4>1. CASE b = Len(q) + 1
        BY <2>2, <3>1, <3>2, <4>1
      <4>2. CASE b # Len(q) + 1
        <5>1. a \in 1..Len(q) /\ b \in 1..Len(q)
          BY <1>2, <3>1, <4>2
        <5>2. dis[q[a]] <= dis[q[b]]
          BY <1>1, <5>1 DEF QueueSorted
        <5>3. dis'[q'[a]] = dis[q[a]] /\ dis'[q'[b]] = dis[q[b]]
          BY <2>1, <3>1, <5>1
        <5> QED  BY <5>2, <5>3
      <4> QED  BY <4>1, <4>2
    <3>4. \A b \in i..Len(q') : dis'[q'[b]] <= dis'[q'[i]] + 1
      <4>1. i \in 1..Len(q') /\ dis'[q'[i]] = dis[now]
        BY <1>1, <1>2, <2>1, <3>1
      <4> QED  BY <1>1, <3>2, <4>1
    <3> QED
      BY <1>1, <3>2, <3>3, <3>4 DEF QueueSorted, Unreached
  <2> QED  BY <1>4, <2>3, <2>4
<1> QED  BY <1>1, <1>3, <1>4

\* What a scan adds for the host is one link closer to it, and over a link that is up.
LEMMA ScanEntries ==
  ASSUME TypeOKBfs, VisitInv, RoutesInv, ScanDevice, task = "routes"
  PROVE  EntriesCloser' /\ EntriesRanked' /\ EntriesLive(nextHop)'
<1> DEFINE now == q[i]
           next == Devices[now][j]
           d == dis[now] + 1
           host == Hosts[source]
<1>1. /\ now \in Node /\ next \in Node /\ dis[now] \in Nat /\ now \in Peers[next]
      /\ \/ dis' = dis
         \/ dis[next] = Unreached /\ dis' = [dis EXCEPT ![next] = d]
  BY ScanFacts
<1>2. dis \in [Node -> Nat \cup {-1}] /\ nextHop \in [Node -> [Host -> SUBSET Node]]
  BY DEF TypeOKBfs, Unreached
<1>3. source' = source /\ interfaceDown' = interfaceDown
  BY DEF ScanDevice
<1>4. source \in 1..Len(Hosts) /\ host \in Host
  BY HostIsNode DEF TypeOKBfs
<1>5. \/ nextHop' = nextHop
      \/ /\ LinkUp(now, next) /\ dis'[next] = d
         /\ nextHop' = [nextHop EXCEPT ![next][host] = @ \cup {now}]
  <2>1. CASE LinkUp(now, next) /\ OnShortestPath(next, d)
    BY <2>1, Zenon DEF ScanDevice, OnShortestPath
  <2>2. CASE ~(LinkUp(now, next) /\ OnShortestPath(next, d))
    BY <2>2, Zenon DEF ScanDevice
  <2> QED  BY <2>1, <2>2
<1>6. dis'[now] = dis[now]
  BY <1>1, <1>2 DEF Unreached
<1>7. ASSUME NEW n \in Node, NEW m \in nextHop[n][host]
      PROVE  dis'[m] # Unreached /\ dis'[n] = dis'[m] + 1
  <2>1. m \in Node  BY <1>2, <1>4
  <2>2. dis[m] # Unreached /\ dis[n] = dis[m] + 1  BY DEF RoutesInv, EntriesCloser
  <2>3. dis[m] \in Nat  BY <1>2, <2>1, <2>2 DEF Unreached
  <2>4. dis[n] # Unreached  BY <2>2, <2>3 DEF Unreached
  <2> QED  BY <1>1, <1>2, <2>1, <2>2, <2>4
<1>8. EntriesCloser'
  <2> SUFFICES ASSUME NEW n \in Node, NEW m \in nextHop'[n][host]
               PROVE  dis'[m] # Unreached /\ dis'[n] = dis'[m] + 1
    BY <1>3 DEF EntriesCloser
  <2>1. m \in nextHop[n][host] \/ (n = next /\ m = now /\ dis'[next] = d)
    BY <1>1, <1>2, <1>4, <1>5
  <2> QED  BY <1>1, <1>6, <1>7, <2>1 DEF Unreached
<1>9. ASSUME NEW k \in 1..Len(Hosts), k # source, NEW n \in Node
      PROVE  nextHop'[n][Hosts[k]] = nextHop[n][Hosts[k]]
  <2>1. Hosts[k] \in Host /\ Hosts[k] # host
    BY <1>4, <1>9, HostIsNode, BfsAssumption
  <2> QED  BY <1>2, <1>4, <1>5, <2>1
<1>10. EntriesRanked'
  <2>1. ASSUME NEW k \in 1..(source - 1)  PROVE Ranked(nextHop', Hosts[k])
    <3>1. Ranked(nextHop, Hosts[k])  BY DEF RoutesInv, EntriesRanked
    <3>2. k \in 1..Len(Hosts) /\ k # source  BY <1>4
    <3> QED  BY <1>9, <3>1, <3>2 DEF Ranked, Ranks
  <2>2. ASSUME NEW k \in (source + 1)..Len(Hosts), NEW n \in Node  PROVE nextHop'[n][Hosts[k]] = {}
    <3>1. nextHop[n][Hosts[k]] = {}  BY DEF RoutesInv, EntriesRanked
    <3>2. k \in 1..Len(Hosts) /\ k # source  BY <1>4
    <3> QED  BY <1>9, <3>1, <3>2
  <2>3. \A k \in 1..(source' - 1) : Ranked(nextHop', Hosts[k])  BY <1>3, <2>1
  <2>4. \A k \in (source' + 1)..Len(Hosts) : \A n \in Node : nextHop'[n][Hosts[k]] = {}
    BY <1>3, <2>2
  <2>5. (\A k \in 1..(source - 1) : Ranked(nextHop, Hosts[k]))'
    BY <2>3 DEF Ranked, Ranks
  <2> QED  BY <2>4, <2>5 DEF EntriesRanked
<1>11. EntriesLive(nextHop)'
  <2>1. Live' = Live  BY <1>3 DEF Live, LinkUp
  <2>2. LinkUp(now, next) => now \in Live[next]  BY <1>1 DEF Live, LinkUp
  <2>3. \A n \in Node, h \in Host : nextHop[n][h] \subseteq Live[n]
    BY DEF RoutesInv, EntriesLive
  <2> SUFFICES ASSUME NEW n \in Node, NEW h \in Host, NEW m \in nextHop'[n][h]
               PROVE  m \in Live[n]
    BY <2>1 DEF EntriesLive
  <2>4. m \in nextHop[n][h] \/ (n = next /\ m = now /\ LinkUp(now, next))
    BY <1>1, <1>2, <1>4, <1>5
  <2> QED  BY <2>2, <2>3, <2>4
<1> QED  BY <1>8, <1>10, <1>11

\* A visit that begins finds no entries for its host and none for later hosts.
LEMMA BeginEntries ==
  ASSUME NEW k \in 1..Len(Hosts), source' = k,
         \A l \in k..Len(Hosts) : \A n \in Node : nextHop'[n][Hosts[l]] = {},
         \A l \in 1..(k - 1) : Ranked(nextHop', Hosts[l])
  PROVE  EntriesCloser' /\ EntriesRanked'
<1>1. EntriesCloser'
  BY DEF EntriesCloser
<1>2. EntriesRanked'
  <2>1. (\A l \in 1..(source - 1) : Ranked(nextHop, Hosts[l]))'
    BY DEF Ranked, Ranks
  <2>2. \A l \in (source' + 1)..Len(Hosts) : \A n \in Node : nextHop'[n][Hosts[l]] = {}
    OBVIOUS
  <2> QED  BY <2>1, <2>2 DEF EntriesRanked
<1> QED  BY <1>1, <1>2

\* When a visit ends its distances rank the entries for its host.
LEMMA VisitedIsRanked ==
  ASSUME TypeOKBfs, RoutesInv, task = "routes"
  PROVE  Ranked(nextHop, Hosts[source])
<1> DEFINE f == [n \in Node |-> dis[n] + 1]
<1>1. f \in [Node -> Nat]
  BY DEF TypeOKBfs, Unreached
<1>2. nextHop \in [Node -> [Host -> SUBSET Node]] /\ Hosts[source] \in Host
  <2>1. nextHop \in [Node -> [Host -> SUBSET Node]] /\ source \in 1..Len(Hosts)
    BY DEF TypeOKBfs
  <2> QED  BY <2>1, HostIsNode
<1>3. ASSUME NEW n \in Node, NEW m \in nextHop[n][Hosts[source]]
      PROVE  f[m] < f[n]
  <2>1. m \in Node  BY <1>2
  <2>2. dis[n] = dis[m] + 1  BY DEF RoutesInv, EntriesCloser
  <2>3. f[m] \in Nat /\ f[n] = f[m] + 1  BY <1>1, <2>1, <2>2
  <2> QED  BY <2>3
<1>4. Ranks(f, nextHop, Hosts[source])
  BY <1>3 DEF Ranks
<1> QED  BY <1>1, <1>4 DEF Ranked

LEMMA NextNodeKeeps ==
  ASSUME TypeOKBfs, VisitInv, RoutesInv, TableInv, NextNode
  PROVE  VisitInv' /\ RoutesInv' /\ TableInv'
<1>1. /\ task # "none" /\ i \in 1..Len(q) /\ i' = i + 1 /\ q' = q /\ dis' = dis
      /\ UNCHANGED <<interfaceDown, rtTable, topoKnown, nextHop, task, source>>
  BY DEF NextNode, TypeOKBfs, tables
<1>2. QueueSorted'
  <2>1. QueueSorted  BY <1>1 DEF VisitInv
  <2>2. \A a \in 1..Len(q) : dis[q[a]] \in Nat
    BY <2>1 DEF QueueSorted, TypeOKBfs, Unreached
  <2>3. ASSUME i + 1 <= Len(q), NEW b \in (i + 1)..Len(q)
        PROVE  dis[q[b]] <= dis[q[i + 1]] + 1
    <3>1. b \in 1..Len(q) /\ b \in i..Len(q) /\ i + 1 \in 1..Len(q)  BY <1>1, <2>3
    <3>2. dis[q[b]] <= dis[q[i]] + 1 /\ dis[q[i]] <= dis[q[i + 1]]
      BY <1>1, <2>1, <3>1 DEF QueueSorted
    <3> QED  BY <1>1, <2>2, <3>1, <3>2
  <2> QED  BY <1>1, <2>1, <2>3 DEF QueueSorted
<1>3. VisitInv'  BY <1>2 DEF VisitInv
<1>4. RoutesInv'
  BY <1>1 DEF RoutesInv, EntriesCloser, EntriesRanked, EntriesLive, Ranked, Ranks, Live, LinkUp
<1>5. TableInv'
  BY <1>1 DEF TableInv, EntriesLive, Ranked, Ranks, Live, LinkUp
<1> QED  BY <1>3, <1>4, <1>5, Zenon

LEMMA ScanDeviceKeeps ==
  ASSUME TypeOKBfs, VisitInv, RoutesInv, TableInv, ScanDevice
  PROVE  VisitInv' /\ RoutesInv' /\ TableInv'
<1>1. task # "none" /\ task' = task /\ UNCHANGED <<interfaceDown, rtTable, topoKnown>>
  BY DEF ScanDevice, tables
<1>2. VisitInv'  BY ScanSorted DEF VisitInv
<1>3. RoutesInv'  BY <1>1, ScanEntries DEF RoutesInv
<1>4. TableInv'
  BY <1>1 DEF TableInv, EntriesLive, Ranked, Ranks, Live, LinkUp
<1> QED  BY <1>2, <1>3, <1>4

LEMMA EndVisitKeeps ==
  ASSUME TypeOKBfs, VisitInv, RoutesInv, TableInv, EndVisit, task = "baseline" => ~topoKnown
  PROVE  VisitInv' /\ RoutesInv' /\ TableInv'
<1>1. /\ task \in {"baseline", "routes"} /\ nextHop' = nextHop /\ interfaceDown' = interfaceDown
      /\ source \in 1..Len(Hosts)
  BY DEF EndVisit, TypeOKBfs
<1>2. Live' = Live  BY <1>1 DEF Live, LinkUp
<1>3. task = "routes" => \A k \in 1..source : Ranked(nextHop, Hosts[k])
  BY <1>1, VisitedIsRanked DEF RoutesInv, EntriesRanked
<1>4. CASE source < Len(Hosts)
  <2>1. source + 1 \in 1..Len(Hosts)  BY <1>1, <1>4, BfsAssumption
  <2>2. /\ BeginVisit(source + 1) /\ UNCHANGED <<rtTable, topoKnown, task>>
    BY <1>4 DEF EndVisit, tables
  <2>3. QueueSorted' /\ source' = source + 1  BY <2>1, <2>2, BeginVisitOK
  <2>4. ASSUME task = "routes"  PROVE EntriesCloser' /\ EntriesRanked' /\ EntriesLive(nextHop)'
    <3>1. \A l \in (source + 1)..Len(Hosts) : \A n \in Node : nextHop'[n][Hosts[l]] = {}
      BY <1>1, <2>4 DEF RoutesInv, EntriesRanked
    <3>2. \A l \in 1..((source + 1) - 1) : Ranked(nextHop', Hosts[l])
      BY <1>1, <1>3, <2>4
    <3>3. EntriesLive(nextHop)'
      BY <1>1, <1>2, <2>4 DEF RoutesInv, EntriesLive
    <3> QED  BY <2>1, <2>3, <3>1, <3>2, <3>3, BeginEntries
  <2>5. TableInv'
    BY <1>1, <1>2, <2>2 DEF TableInv, EntriesLive, Ranked, Ranks
  <2> QED  BY <2>2, <2>3, <2>4, <2>5 DEF VisitInv, RoutesInv
<1>5. CASE ~(source < Len(Hosts))
  <2>1. task' = "none"  BY <1>5 DEF EndVisit
  <2>2. source = Len(Hosts)  BY <1>1, <1>5, BfsAssumption
  <2>3. CASE task = "routes"
    <3>1. rtTable' = nextHop  BY <1>5, <2>3 DEF EndVisit
    <3>2. \A h \in Host : Ranked(nextHop, h)  BY <1>3, <2>2, <2>3 DEF Host
    <3>3. EntriesLive(nextHop)  BY <2>3 DEF RoutesInv
    <3>4. (\A h \in Host : Ranked(rtTable, h))'  BY <3>1, <3>2 DEF Ranked, Ranks
    <3>5. EntriesLive(rtTable)'  BY <1>2, <3>1, <3>3 DEF EntriesLive
    <3> QED  BY <2>1, <3>4, <3>5 DEF TableInv, VisitInv, RoutesInv
  <2>4. CASE task = "baseline"
    <3>1. UNCHANGED <<rtTable, topoKnown>>  BY <1>5, <2>4 DEF EndVisit, tables
    <3>2. (\A h \in Host : Ranked(rtTable, h))'  BY <3>1 DEF TableInv, Ranked, Ranks
    <3>3. ~topoKnown'  BY <2>4, <3>1
    <3> QED  BY <2>1, <3>2, <3>3 DEF TableInv, VisitInv, RoutesInv
  <2> QED  BY <1>1, <2>3, <2>4
<1> QED  BY <1>4, <1>5

\* A calculation of routes that begins.
LEMMA BeginRoutesKeeps ==
  ASSUME TypeOKBfs, TableInv, NEW through, BeginRoutes(through)
  PROVE  VisitInv' /\ RoutesInv' /\ TableInv'
<1>1. /\ task' = "routes" /\ nextHop' = NoEntries /\ BeginVisit(1)
      /\ UNCHANGED <<rtTable, topoKnown>>
  BY DEF BeginRoutes, tables
<1>2. 1 \in 1..Len(Hosts)  BY BfsAssumption
<1>3. QueueSorted' /\ source' = 1  BY <1>1, <1>2, BeginVisitOK
<1>4. \A n \in Node, h \in Host : nextHop'[n][h] = {}  BY <1>1 DEF NoEntries
<1>5. EntriesCloser' /\ EntriesRanked'
  BY <1>2, <1>3, <1>4, HostIsNode, BeginEntries
<1>6. EntriesLive(nextHop)'  BY <1>4 DEF EntriesLive
<1>7. TableInv'
  BY <1>1 DEF TableInv, Ranked, Ranks
<1> QED  BY <1>3, <1>5, <1>6, <1>7 DEF VisitInv, RoutesInv

LEMMA SetInterfaceKeeps ==
  ASSUME TypeOKBfs, TableInv, NEW n, NEW m, NEW up, NEW suppressed,
         suppressed => ~topoKnown, SetInterface(n, m, up, suppressed)
  PROVE  VisitInv' /\ RoutesInv' /\ TableInv'
<1>1. CASE topoKnown /\ ~suppressed
  BY <1>1, BeginRoutesKeeps DEF SetInterface
<1>2. CASE ~(topoKnown /\ ~suppressed)
  <2>1. /\ task' = "none" /\ UNCHANGED <<rtTable, topoKnown>>  BY <1>2 DEF SetInterface, tables
  <2>2. ~topoKnown'  BY <1>2, <2>1
  <2>3. (\A h \in Host : Ranked(rtTable, h))'  BY <2>1 DEF TableInv, Ranked, Ranks
  <2> QED  BY <2>1, <2>2, <2>3 DEF TableInv, VisitInv, RoutesInv
<1> QED  BY <1>1, <1>2

-----------------------------------------------------------------------------
(* Part 4: the experiment. *)

LEMMA EventsUnchanged ==
  ASSUME UNCHANGED <<failures, random, preApply>>
  PROVE  Events' = Events
  BY DEF Events, Entries

\* Every scheduled event is about a link and a time of an entry.
LEMMA EventType ==
  ASSUME TypeOKSchedule, NEW e \in Events
  PROVE  Entries[e[1]].link \in Node \X Node /\ TimeOf(e) \in Nat /\ e[2] \in BOOLEAN
<1>1. Entries \in Seq(FailureEntry)
  BY DEF TypeOKSchedule, Entries
<1>2. PICK k \in DOMAIN Entries, up \in BOOLEAN : e = <<k, up>>
  <2>1. CASE e \in {<<k, FALSE>> : k \in DOMAIN Entries}  BY <2>1
  <2>2. CASE e \in {<<k, TRUE>> : k \in {n \in DOMAIN Entries : Entries[n].until # Never}}
    BY <2>2
  <2> QED  BY <2>1, <2>2, Zenon DEF Events
<1>3. Entries[e[1]] \in FailureEntry
  BY <1>1, <1>2
<1> QED  BY <1>2, <1>3 DEF FailureEntry, TimeOf

LEMMA SetLinkType ==
  ASSUME NEW l \in Node \X Node, NEW up \in BOOLEAN, SetLink(l, up)
  PROVE  call' \in [active : BOOLEAN, up : BOOLEAN, ends : Seq(Node \X Node)]
<1>1. <<l[2], l[1]>> \in Node \X Node
  OBVIOUS
<1> QED  BY <1>1 DEF SetLink

LEMMA BeginRoutesType ==
  ASSUME TypeOKBfs, NEW through \in BOOLEAN, BeginRoutes(through), interfaceDown' = interfaceDown
  PROVE  TypeOKBfs'
<1>1. 1 \in 1..Len(Hosts)  BY BfsAssumption
<1> QED  BY <1>1, BeginVisitOK, NoEntriesType DEF BeginRoutes, TypeOKBfs, tables

LEMMA BeginBaselineType ==
  ASSUME TypeOKBfs, BeginBaseline
  PROVE  TypeOKBfs'
<1>1. 1 \in 1..Len(Hosts)  BY BfsAssumption
<1> QED  BY <1>1, BeginVisitOK, NoDistancesType DEF BeginBaseline, TypeOKBfs, tables

LEMMA BfsUnchanged ==
  ASSUME TypeOKBfs, UNCHANGED bfsVars
  PROVE  TypeOKBfs'
  BY DEF TypeOKBfs, bfsVars, tables, visit

\* Wherever an experiment is, its steps keep the types.
LEMMA NextType ==
  ASSUME TypeOK, [Next]_vars
  PROVE  TypeOK'
<1> SUFFICES TypeOKBfs' /\ TypeOKSchedule'
  BY DEF TypeOK
<1>0. TypeOKBfs /\ TypeOKSchedule
  BY DEF TypeOK
<1> USE <1>0
<1>1. CASE PreApplyFailure
  <2>1. failures[applied + 1] \in FailureEntry /\ applied + 1 \in 0..Len(failures)
    BY <1>1 DEF PreApplyFailure, TypeOKSchedule
  <2>2. call' \in [active : BOOLEAN, up : BOOLEAN, ends : Seq(Node \X Node)]
    BY <1>1, <2>1, SetLinkType DEF PreApplyFailure, FailureEntry
  <2>3. TypeOKSchedule'
    BY <1>1, <2>1, <2>2, EventsUnchanged DEF PreApplyFailure, TypeOKSchedule, options
  <2> QED  BY <1>1, <2>3, BfsUnchanged DEF PreApplyFailure
<1>2. CASE PreApplyDone
  <2>1. TypeOKSchedule'
    BY <1>2, EventsUnchanged DEF PreApplyDone, TypeOKSchedule, options
  <2> QED  BY <1>2, <2>1, BfsUnchanged DEF PreApplyDone
<1>3. CASE EnableStrictBaseline
  <2>1. TypeOKSchedule'
    BY <1>3, EventsUnchanged DEF EnableStrictBaseline, TypeOKSchedule, options
  <2> QED  BY <1>3, <2>1, BeginBaselineType DEF EnableStrictBaseline
<1>4. CASE CalculateRoutes
  <2>1. TypeOKSchedule'
    BY <1>4, EventsUnchanged DEF CalculateRoutes, TypeOKSchedule, options
  <2>2. (routing = "NodeBfsWithHost") \in BOOLEAN  OBVIOUS
  <2> QED  BY <1>4, <2>1, <2>2, BeginRoutesType DEF CalculateRoutes
<1>5. CASE ScheduleFailures
  <2>1. Registered \in Nat
    BY DEF Registered, TypeOKSchedule
  <2>2. stats' \in [expected : Nat, completed : Nat, printed : BOOLEAN, counted : Nat]
    <3>1. stats.expected + Registered \in Nat  BY <2>1 DEF TypeOKSchedule
    <3>2. stats' = [stats EXCEPT !.expected = @ + Registered]  BY <1>5 DEF ScheduleFailures
    <3> QED  BY <3>1, <3>2 DEF TypeOKSchedule
  <2>3. TypeOKSchedule'
    BY <1>5, <2>2, EventsUnchanged DEF ScheduleFailures, TypeOKSchedule, options
  <2> QED  BY <1>5, <2>3, BfsUnchanged DEF ScheduleFailures
<1>6. CASE RunEvent
  <2>1. PICK e \in Pending : /\ SetLink(Entries[e[1]].link, e[2]) /\ clock' = TimeOf(e)
                             /\ executed' = executed \cup {e}
    BY <1>6 DEF RunEvent
  <2>2. e \in Events  BY <2>1 DEF Pending
  <2>3. call' \in [active : BOOLEAN, up : BOOLEAN, ends : Seq(Node \X Node)]
    BY <2>1, <2>2, EventType, SetLinkType
  <2>4. clock' \in Nat  BY <2>1, <2>2, EventType
  <2>5. executed' \subseteq Events'
    BY <1>6, <2>1, <2>2, EventsUnchanged DEF RunEvent, TypeOKSchedule, options
  <2>6. TypeOKSchedule'
    BY <1>6, <2>3, <2>4, <2>5 DEF RunEvent, TypeOKSchedule, options
  <2> QED  BY <1>6, <2>6, BfsUnchanged DEF RunEvent
<1>7. CASE ChangeEnd
  <2> DEFINE e == Head(call.ends)
  <2>1. e \in Node \X Node /\ Tail(call.ends) \in Seq(Node \X Node)
    BY <1>7 DEF ChangeEnd, TypeOKSchedule
  <2>2. TypeOKSchedule'
    BY <1>7, <2>1, EventsUnchanged DEF ChangeEnd, TypeOKSchedule, options, progress
  <2> QED  BY <1>7, <2>1, <2>2, SetInterfaceType DEF ChangeEnd
<1>8. CASE LinkSet
  <2>1. NoCall \in [active : BOOLEAN, up : BOOLEAN, ends : Seq(Node \X Node)]
    BY DEF NoCall
  <2>2. Prints(stats.completed + 1) \in BOOLEAN  BY DEF Prints
  <2>3. stats' \in [expected : Nat, completed : Nat, printed : BOOLEAN, counted : Nat]
    <3>1. CASE call.up  BY <1>8, <3>1 DEF LinkSet, TypeOKSchedule
    <3>2. CASE ~call.up
      <4> DEFINE done == stats.completed + 1
      <4>1. stats.completed \in Nat /\ done \in Nat  BY DEF TypeOKSchedule
      <4>2. stats' = [stats EXCEPT !.completed = done, !.printed = @ \/ Prints(done),
                                   !.counted = IF Prints(done) THEN done ELSE @]
        BY <1>8, <3>2 DEF LinkSet
      <4>3. (stats.printed \/ Prints(done)) \in BOOLEAN  BY <2>2 DEF TypeOKSchedule
      <4>4. (IF Prints(done) THEN done ELSE stats.counted) \in Nat  BY <4>1 DEF TypeOKSchedule
      <4> HIDE DEF done
      <4> QED  BY <4>1, <4>2, <4>3, <4>4 DEF TypeOKSchedule
    <3> QED  BY <3>1, <3>2
  <2>4. TypeOKSchedule'
    BY <1>8, <2>1, <2>3, EventsUnchanged DEF LinkSet, TypeOKSchedule, options, progress
  <2> QED  BY <1>8, <2>4, BfsUnchanged DEF LinkSet
<1>9. CASE CalculateStep
  <2>1. TypeOKSchedule'
    BY <1>9, EventsUnchanged DEF CalculateStep, TypeOKSchedule, options, progress
  <2> QED
    BY <1>9, <2>1, ScanDeviceType, NextNodeType, EndVisitType DEF CalculateStep, Calculate
<1>10. CASE UNCHANGED vars
  <2>1. TypeOKSchedule'
    BY <1>10, EventsUnchanged DEF vars, TypeOKSchedule, options, progress
  <2> QED  BY <1>10, <2>1, BfsUnchanged DEF vars
<1> QED
  BY <1>1, <1>2, <1>3, <1>4, <1>5, <1>6, <1>7, <1>8, <1>9, <1>10 DEF Next, Startup

-----------------------------------------------------------------------------
(* Part 5: the invariant. *)

LEMMA InitIInv == Init => IInv
<1> SUFFICES ASSUME Init  PROVE IInv
  OBVIOUS
<1>1. task = "none" /\ topoKnown = FALSE /\ rtTable = NoEntries /\ stage = "preApply"
  BY DEF Init, InitBfs
<1>2. TypeOKBfs
  <2>1. 1 \in 1..Len(Hosts)  BY BfsAssumption
  <2>2. [h \in Host |-> NoDistances] \in [Host -> [Node -> Nat \cup {Unreached}]]
    BY NoDistancesType
  <2>3. [n \in Node |-> {}] \in [Node -> SUBSET Node]  OBVIOUS
  <2>4. <<>> \in Seq(Node)  OBVIOUS
  <2>5. topoKnown \in BOOLEAN /\ strictBaseline \in BOOLEAN /\ withHost \in BOOLEAN
    BY Zenon DEF Init, InitBfs
  <2>6. source \in 1..Len(Hosts) /\ i \in Nat \ {0} /\ j \in Nat \ {0}
    BY <2>1 DEF Init, InitBfs
  <2>7. baseDist \in [Host -> [Node -> Nat \cup {Unreached}]]
    BY <2>2, Zenon DEF Init, InitBfs
  <2> QED
    BY <2>3, <2>4, <2>5, <2>6, <2>7, NoEntriesType, NoDistancesType DEF Init, InitBfs, TypeOKBfs
<1>3. TypeOKSchedule
  <2>1. failures \in Seq(FailureEntry) /\ random \in Seq(FailureEntry) /\ preApply \in BOOLEAN
    BY ExperimentsAssumption DEF Init
  <2> QED  BY <2>1 DEF Init, TypeOKSchedule, NoCall
<1>4. ASSUME NEW h \in Host  PROVE Ranked(rtTable, h)
  <2>1. [n \in Node |-> 0] \in [Node -> Nat]  OBVIOUS
  <2>2. \A n \in Node : rtTable[n][h] = {}  BY <1>1 DEF NoEntries
  <2> QED  BY <2>1, <2>2 DEF Ranked, Ranks
<1> QED
  BY <1>1, <1>2, <1>3, <1>4 DEF IInv, TypeOK, VisitInv, RoutesInv, StageInv, TableInv

\* Steps of the driver that leave fabric, tables and visit alone.
LEMMA BfsUnchangedKeeps ==
  ASSUME VisitInv, RoutesInv, TableInv, UNCHANGED bfsVars
  PROVE  VisitInv' /\ RoutesInv' /\ TableInv'
<1>1. VisitInv'  BY DEF VisitInv, QueueSorted, bfsVars, visit
<1>2. UNCHANGED <<interfaceDown, rtTable, topoKnown, nextHop, task, source, dis>>
  BY DEF bfsVars, tables, visit
<1>3. RoutesInv'
  BY <1>2 DEF RoutesInv, EntriesCloser, EntriesRanked, EntriesLive, Ranked, Ranks, Live, LinkUp
<1>4. TableInv'
  BY <1>2 DEF TableInv, EntriesLive, Ranked, Ranks, Live, LinkUp
<1> QED  BY <1>1, <1>3, <1>4

\* The baseline is measured before any table is installed.
LEMMA BeginBaselineKeeps ==
  ASSUME TableInv, ~topoKnown, BeginBaseline
  PROVE  VisitInv' /\ RoutesInv' /\ TableInv'
<1>1. task' = "baseline" /\ BeginVisit(1) /\ UNCHANGED <<rtTable, topoKnown>>
  BY DEF BeginBaseline, tables
<1>2. 1 \in 1..Len(Hosts)  BY BfsAssumption
<1>3. QueueSorted'  BY <1>1, <1>2, BeginVisitOK
<1>4. TableInv'  BY <1>1 DEF TableInv, Ranked, Ranks
<1> QED  BY <1>1, <1>3, <1>4 DEF VisitInv, RoutesInv

LEMMA NextIInv == IInv /\ [Next]_vars => IInv'
<1> SUFFICES ASSUME IInv, [Next]_vars  PROVE IInv'
  OBVIOUS
<1> USE DEF IInv
<1>1. TypeOK' /\ TypeOKBfs /\ TypeOKSchedule
  BY NextType DEF TypeOK
<1>2. VisitInv' /\ RoutesInv' /\ TableInv'
  <2>1. CASE PreApplyFailure \/ PreApplyDone \/ ScheduleFailures \/ RunEvent \/ LinkSet
               \/ UNCHANGED vars
    <3>1. UNCHANGED bfsVars
      BY <2>1 DEF PreApplyFailure, PreApplyDone, ScheduleFailures, RunEvent, LinkSet, vars
    <3> QED  BY <3>1, BfsUnchangedKeeps
  <2>2. CASE EnableStrictBaseline
    BY <2>2, BeginBaselineKeeps DEF EnableStrictBaseline, StageInv
  <2>3. CASE CalculateRoutes
    BY <1>1, <2>3, BeginRoutesKeeps DEF CalculateRoutes
  <2>4. CASE ChangeEnd
    <3>1. (stage = "preApply") => ~topoKnown  BY DEF StageInv
    <3> QED  BY <1>1, <2>4, <3>1, SetInterfaceKeeps DEF ChangeEnd
  <2>5. CASE CalculateStep
    BY <1>1, <2>5, ScanDeviceKeeps, NextNodeKeeps, EndVisitKeeps
      DEF CalculateStep, Calculate, StageInv
  <2> QED  BY <2>1, <2>2, <2>3, <2>4, <2>5 DEF Next, Startup
<1>3. StageInv'
  <2> USE DEF StageInv
  <2>1. CASE PreApplyFailure \/ PreApplyDone \/ ScheduleFailures \/ RunEvent \/ LinkSet
               \/ UNCHANGED vars
    <3>1. UNCHANGED <<topoKnown, task>>
      BY <2>1 DEF PreApplyFailure, PreApplyDone, ScheduleFailures, RunEvent, LinkSet, vars,
                  bfsVars, tables
    <3>2. \/ stage' = stage \/ stage = "preApply" \/ stage' = "run"
      BY <2>1 DEF PreApplyFailure, PreApplyDone, ScheduleFailures, RunEvent, LinkSet, vars, progress
    <3> QED  BY <3>1, <3>2
  <2>2. CASE EnableStrictBaseline
    BY <2>2 DEF EnableStrictBaseline, BeginBaseline, tables
  <2>3. CASE CalculateRoutes
    BY <2>3 DEF CalculateRoutes, BeginRoutes, tables
  <2>4. CASE ChangeEnd
    BY <2>4 DEF ChangeEnd, SetInterface, BeginRoutes, progress, tables
  <2>5. CASE CalculateStep
    <3>1. stage' = stage /\ task # "none"
      BY <2>5 DEF CalculateStep, Calculate, ScanDevice, NextNode, EndVisit, progress
    <3>2. task' \in {task, "none"}
      BY <2>5 DEF CalculateStep, Calculate, ScanDevice, NextNode, EndVisit
    <3>3. topoKnown' = topoKnown \/ task = "routes"
      BY <2>5 DEF CalculateStep, Calculate, ScanDevice, NextNode, EndVisit, tables
    <3> QED  BY <1>1, <3>1, <3>2, <3>3 DEF TypeOKBfs
  <2> QED  BY <2>1, <2>2, <2>3, <2>4, <2>5 DEF Next, Startup
<1> QED  BY <1>1, <1>2, <1>3

LEMMA SpecIInv == Spec => []IInv
  BY InitIInv, NextIInv, PTL DEF Spec

-----------------------------------------------------------------------------
(* Part 6: the theorems. *)

\* A set of nodes has one that the ranking puts below all others.
LEMMA LowestRank ==
  ASSUME NEW f \in [Node -> Nat], NEW S \in SUBSET Node, S # {}
  PROVE  \E n \in S : \A m \in S : ~(f[m] < f[n])
<1> DEFINE T == {f[n] : n \in S}
<1>1. T \subseteq Nat /\ T # {}
  OBVIOUS
<1>2. PICK x \in T : \A y \in T : ~(<<y, x>> \in OpToRel(<, Nat))
  BY <1>1, NatLessThanWellFounded, WFMin
<1>3. \A y \in T : ~(y < x)
  BY <1>1, <1>2 DEF OpToRel
<1>4. PICK n \in S : x = f[n]
  OBVIOUS
<1>5. ASSUME NEW m \in S  PROVE ~(f[m] < f[n])
  <2>1. f[m] \in T  OBVIOUS
  <2>2. ~(f[m] < x)  BY <1>3, <2>1, Zenon
  <2> QED  BY <1>4, <2>2
<1> QED  BY <1>4, <1>5

\* Ranked tables have no loop.
LEMMA RankedNoLoop ==
  ASSUME TypeOKBfs, NEW h \in Host, Ranked(rtTable, h), NEW S \in (SUBSET Node) \ {{}}
  PROVE  \E n \in S : rtTable[n][h] \cap S = {}
<1>1. PICK f \in [Node -> Nat] : Ranks(f, rtTable, h)
  BY DEF Ranked
<1>2. PICK n \in S : \A m \in S : ~(f[m] < f[n])
  BY LowestRank
<1>3. rtTable[n][h] \cap S = {}
  BY <1>1, <1>2 DEF Ranks
<1> QED  BY <1>3

\* Types: tables map hosts to sets of nodes, distances are natural numbers or absent, and the
\* options, events and statistics of the experiment are what the configuration allows.
THEOREM TypeCorrect == Spec => []TypeOK
<1>1. IInv => TypeOK  BY DEF IInv
<1> QED  BY <1>1, SpecIInv, PTL

\* In every fabric the visit meets the nodes closest first, although the loop appends to the
\* queue it walks over, with or without a baseline and with links down anywhere.
THEOREM QueueClosestFirst == Spec => []ClosestFirst
<1>1. IInv => ClosestFirst  BY DEF IInv, VisitInv, QueueSorted, ClosestFirst
<1> QED  BY <1>1, SpecIInv, PTL

\* In every fabric, with every schedule, the tables that NodeBfsRouting installs have no loop,
\* also between the recalculations for the two ends of one link.
THEOREM TablesLoopFree == Spec => []NoForwardingLoop
<1>1. IInv => NoForwardingLoop
  BY RankedNoLoop DEF IInv, TypeOK, TableInv, NoForwardingLoop
<1> QED  BY <1>1, SpecIInv, PTL

\* No table that packets are forwarded by names a link with an end down: not during the call
\* that changes the two ends of a link, nor after failures that were applied beforehand.
THEOREM TablesLive == Spec => []NoDownInterface
<1>1. IInv => NoDownInterface
  BY DEF IInv, TableInv, EntriesLive, NoDownInterface
<1> QED  BY <1>1, SpecIInv, PTL

-----------------------------------------------------------------------------
(* Part 7: the tables, their inductive invariant. *)

\* The nodes that pass packets on, and those that forward packets for host h.
Through == IF withHost THEN Node ELSE Node \ Host
Forwards(h) == Through \cup {h}

Reached(n) == dis[n] # Unreached

\* The visit has looked at the link from the a-th node of the queue to m.
Scanned(a, m) ==
  /\ m \in Live[q[a]]
  /\ a < i \/ (a = i /\ \E k \in 1..(j - 1) : Devices[q[a]][k] = m)

\* The distances so far: only the host is at distance 0, the queue holds the nodes
\* that forward and are found, a node is found from a neighbour one link closer.
DistancesSound ==
  LET h == Hosts[source] IN
  /\ dis[h] = 0 /\ \A n \in Node : dis[n] = 0 => n = h
  /\ \A a \in 1..Len(q) : q[a] \in Forwards(h)
  /\ \A n \in Forwards(h) : Reached(n) => \E a \in 1..Len(q) : q[a] = n
  /\ \A n \in Node \ {h} : Reached(n) =>
       \E a \in 1..Len(q) : a <= i /\ n \in Live[q[a]] /\ dis[n] = dis[q[a]] + 1

\* What has been looked at is found, no farther than one link on, and has its entry if the visit
\* is for tables.
ScannedDone ==
  LET h == Hosts[source] IN
  /\ \A a \in 1..Len(q), m \in Node : Scanned(a, m) =>
       /\ Reached(m) /\ dis[m] <= dis[q[a]] + 1
       /\ task = "routes" /\ dis[m] = dis[q[a]] + 1 => q[a] \in nextHop[m][h]
  /\ task = "routes" => \A n \in Node : nextHop[n][h] \subseteq Forwards(h)

\* The table T holds exactly the next hops on shortest live paths to h.
Exact(T, h) == \A n \in Node : T[n][h] = ShortestNextHops(h, Through, Live)[n]

ShortestInv ==
  ~strictBaseline =>
    /\ task = "routes" => /\ DistancesSound /\ ScannedDone
                          /\ \A k \in 1..(source - 1) : Exact(nextHop, Hosts[k])
    /\ topoKnown /\ task = "none" => \A h \in Host : Exact(rtTable, h)
-----------------------------------------------------------------------------
(* Part 8: the reference.  Sets of nodes within k links, and distances.    *)

\* Induction for a set of numbers.
LEMMA AllNumbers ==
  ASSUME NEW S \in SUBSET Nat, 0 \in S, \A n \in S : n + 1 \in S
  PROVE  S = Nat
<1> SUFFICES ASSUME Nat \ S # {}  PROVE FALSE
  OBVIOUS
<1>1. PICK n \in Nat \ S : \A m \in Nat \ S : ~(<<m, n>> \in OpToRel(<, Nat))
  BY NatLessThanWellFounded, WFMin
<1>2. \A m \in Nat \ S : ~(m < n)
  BY <1>1 DEF OpToRel
<1>3. n # 0 /\ n - 1 \in Nat /\ n - 1 < n
  OBVIOUS
<1>4. n - 1 \in S
  BY <1>2, <1>3
<1>5. (n - 1) + 1 = n
  OBVIOUS
<1> QED  BY <1>4, <1>5

\* The sequence f of sets begins with s and goes on by the given function.
Chain(f, s, step, n) == f[0] = s /\ \A k \in 1..n : f[k] = step[f[k - 1]]

LEMMA StepsExist ==
  ASSUME NEW V, NEW s \in SUBSET V, NEW step \in [SUBSET V -> SUBSET V], NEW n \in Nat
  PROVE  \E f \in [0..n -> SUBSET V] :
           Chain(f, s, step, n)
<1> DEFINE S == {m \in Nat : \E f \in [0..m -> SUBSET V] : Chain(f, s, step, m)}
<1>1. 0 \in S
  <2> DEFINE f == [k \in 0..0 |-> s]
  <2>1. f \in [0..0 -> SUBSET V] /\ Chain(f, s, step, 0)
    BY DEF Chain
  <2> QED  BY <2>1
<1>2. ASSUME NEW m \in S  PROVE m + 1 \in S
  <2>1. m \in Nat /\ m + 1 \in Nat
    OBVIOUS
  <2>2. PICK f \in [0..m -> SUBSET V] : Chain(f, s, step, m)
    OBVIOUS
  <2> DEFINE g == [k \in 0..(m + 1) |-> IF k = m + 1 THEN step[f[m]] ELSE f[k]]
  <2>3. \A k \in 0..m : f[k] \in SUBSET V
    BY <2>2
  <2>4. g \in [0..(m + 1) -> SUBSET V]
    BY <2>1, <2>3
  <2>5. ASSUME NEW k \in 1..(m + 1)  PROVE g[k] = step[g[k - 1]]
    <3>1. CASE k # m + 1
      <4>1. k \in 1..m /\ k \in 0..(m + 1) /\ k - 1 \in 0..(m + 1) /\ k - 1 # m + 1
        BY <2>1, <3>1
      <4>2. g[k] = f[k] /\ g[k - 1] = f[k - 1] /\ f[k] = step[f[k - 1]]
        BY <2>2, <3>1, <4>1 DEF Chain
      <4> QED  BY <4>2
    <3>2. CASE k = m + 1
      <4>1. g[k] = step[f[m]] /\ g[k - 1] = f[m]
        BY <2>1, <3>2
      <4> QED  BY <4>1
    <3> QED  BY <3>1, <3>2
  <2>6. Chain(g, s, step, m + 1)
    BY <2>1, <2>2, <2>5 DEF Chain
  <2> QED  BY <2>1, <2>4, <2>6
<1>3. S = Nat
  <2> HIDE DEF S
  <2>1. S \subseteq Nat  BY DEF S
  <2> QED  BY <1>1, <1>2, <2>1, AllNumbers
<1> QED  BY <1>3

\* One link further: the vertices of F in w pass on to their neighbours.
Grow(w, F, L) == w \cup UNION {L[n] : n \in w \cap F}

\* What Within computes, without its recursion.
GrowsFrom(W, h, F, L) ==
  /\ Cardinality(Node) \in Nat /\ DOMAIN W = 0..Cardinality(Node) /\ W[0] = {h}
  /\ \A k \in 1..Cardinality(Node) : W[k] = Grow(W[k - 1], F, L)

LEMMA WithinSteps ==
  ASSUME NEW h \in Node, NEW T \in SUBSET Node, NEW L \in [Node -> SUBSET Node]
  PROVE  GrowsFrom(Within(h, T, L), h, T \cup {h}, L)
<1> DEFINE W == Within(h, T, L)
           N == Cardinality(Node)
           step == [w \in SUBSET Node |-> Grow(w, T \cup {h}, L)]
           Eq(f) == f = [k \in 0..N |-> IF k = 0 THEN {h} ELSE Grow(f[k - 1], T \cup {h}, L)]
<1>1. N \in Nat
  BY BfsAssumption, FS_CardinalityType
<1>2. step \in [SUBSET Node -> SUBSET Node]
  BY DEF Grow
<1>3. \E f : Eq(f)
  <2>1. {h} \in SUBSET Node
    OBVIOUS
  <2>2. PICK f \in [0..N -> SUBSET Node] : Chain(f, {h}, step, N)
    <3> HIDE DEF N, step
    <3> QED  BY <1>1, <1>2, <2>1, StepsExist
  <2>3. ASSUME NEW k \in 0..N
        PROVE  f[k] = IF k = 0 THEN {h} ELSE Grow(f[k - 1], T \cup {h}, L)
    <3>1. CASE k = 0
      BY <2>2, <3>1 DEF Chain
    <3>2. CASE k # 0
      <4>1. k \in 1..N /\ k - 1 \in 0..N  BY <1>1, <3>2
      <4>2. f[k - 1] \in SUBSET Node  BY <2>2, <4>1
      <4>3. f[k] = step[f[k - 1]]
        <5> HIDE DEF step
        <5> QED  BY <2>2, <4>1 DEF Chain
      <4> QED  BY <3>2, <4>2, <4>3
    <3> QED  BY <3>1, <3>2
  <2>4. Eq(f)
    BY <2>3
  <2> QED  BY <2>4
<1>4. W = CHOOSE f : Eq(f)
  BY DEF Within, Grow
<1> HIDE DEF W
<1>5. Eq(W)
  <2> HIDE DEF Eq
  <2> QED  BY <1>3, <1>4
<1>6. DOMAIN W = 0..N
  BY <1>5
<1>7. W[0] = {h}
  BY <1>1, <1>5
<1>8. ASSUME NEW k \in 1..N  PROVE W[k] = Grow(W[k - 1], T \cup {h}, L)
  <2>1. k \in 0..N /\ k # 0  BY <1>1
  <2> HIDE DEF N
  <2> QED  BY <1>5, <2>1
<1> QED  BY <1>1, <1>6, <1>7, <1>8 DEF GrowsFrom, W

\* What the distances D from h are when every vertex found that forwards has been looked at:
\* L are the links, T and h the nodes that forward.
Measures(D, h, T, L) ==
  /\ D \in [Node -> Nat \cup {Unreached}]
  /\ D[h] = 0 /\ \A n \in Node : D[n] = 0 => n = h
  /\ \A n \in Node \ {h} : D[n] # Unreached =>
       \E m \in T \cup {h} : D[m] # Unreached /\ n \in L[m] /\ D[n] = D[m] + 1
  /\ \A m \in T \cup {h} : D[m] # Unreached =>
       \A n \in L[m] : D[n] # Unreached /\ D[n] <= D[m] + 1

\* On the way from h to a node every distance occurs.
LEMMA EveryDistance ==
  ASSUME NEW h \in Node, NEW T \in SUBSET Node, NEW L \in [Node -> SUBSET Node], NEW D,
         Measures(D, h, T, L), NEW x \in Node, D[x] # Unreached, NEW k \in 0..D[x]
  PROVE  \E n \in Node : D[n] = k
<1> DEFINE d == D[x]
           S == {l \in Nat : l <= d => \E n \in Node : D[n] = d - l}
<1>1. d \in Nat
  BY DEF Measures, Unreached
<1>2. 0 \in S
  BY <1>1
<1>3. ASSUME NEW l \in S  PROVE l + 1 \in S
  <2>1. CASE l + 1 <= d
    <3>1. PICK n \in Node : D[n] = d - l
      BY <1>1, <2>1
    <3>2. D[n] # Unreached /\ n # h
      BY <1>1, <2>1, <3>1 DEF Measures, Unreached
    <3>3. PICK m \in T \cup {h} : D[m] # Unreached /\ n \in L[m] /\ D[n] = D[m] + 1
      BY <3>2 DEF Measures
    <3>4. D[m] \in Nat
      BY <3>3 DEF Measures, Unreached
    <3>5. D[m] = d - (l + 1)
      BY <1>1, <3>1, <3>3, <3>4
    <3> QED  BY <3>5
  <2>2. CASE ~(l + 1 <= d)
    BY <2>2
  <2> QED  BY <2>1, <2>2
<1>4. S = Nat
  <2> HIDE DEF S
  <2>1. S \subseteq Nat  BY DEF S
  <2> QED  BY <1>2, <1>3, <2>1, AllNumbers
<1>5. d - k \in S
  BY <1>1, <1>4
<1>6. d - (d - k) = k /\ d - k <= d
  BY <1>1
<1> QED  BY <1>5, <1>6

\* So no distance exceeds the number of nodes.
LEMMA DistanceBound ==
  ASSUME NEW h \in Node, NEW T \in SUBSET Node, NEW L \in [Node -> SUBSET Node], NEW D,
         Measures(D, h, T, L), NEW x \in Node, D[x] # Unreached
  PROVE  D[x] < Cardinality(Node)
<1> DEFINE d == D[x]
           f == [k \in 0..d |-> CHOOSE n \in Node : D[n] = k]
<1>1. d \in Nat
  BY DEF Measures, Unreached
<1>2. ASSUME NEW k \in 0..d  PROVE f[k] \in Node /\ D[f[k]] = k
  <2>1. \E n \in Node : D[n] = k
    BY EveryDistance
  <2> QED  BY <2>1
<1>3. f \in Injection(0..d, Node)
  <2>1. f \in [0..d -> Node]
    BY <1>2
  <2>2. \A k, l \in 0..d : f[k] = f[l] => k = l
    <3> HIDE DEF f
    <3> QED  BY <1>2
  <2> HIDE DEF f
  <2> QED  BY <2>1, <2>2 DEF Injection, IsInjective
<1>4. Cardinality(0..d) <= Cardinality(Node) /\ Cardinality(Node) \in Nat
  BY <1>3, BfsAssumption, FS_Injection, FS_CardinalityType
<1>5. Cardinality(0..d) = d + 1
  BY <1>1, FS_Interval
<1> QED  BY <1>1, <1>4, <1>5

\* The nodes within k links are those at distance k or less.
Near(D, k) == {n \in Node : D[n] # Unreached /\ D[n] <= k}

LEMMA WithinMeasured ==
  ASSUME NEW h \in Node, NEW T \in SUBSET Node, NEW L \in [Node -> SUBSET Node], NEW D,
         Measures(D, h, T, L), NEW k \in 0..Cardinality(Node)
  PROVE  Within(h, T, L)[k] = Near(D, k)
<1> DEFINE N == Cardinality(Node)
           W == Within(h, T, L)
           near(l) == {n \in Node : D[n] # Unreached /\ D[n] <= l}
           S == {l \in Nat : l <= N => W[l] = near(l)}
<1>1. /\ N \in Nat /\ W[0] = {h}
      /\ \A l \in 1..N : W[l] = Grow(W[l - 1], T \cup {h}, L)
  <2>1. GrowsFrom(Within(h, T, L), h, T \cup {h}, L)
    BY WithinSteps
  <2> QED  BY <2>1 DEF GrowsFrom
<1> HIDE DEF W
<1>2. D \in [Node -> Nat \cup {-1}]
  BY DEF Measures, Unreached
<1>3. 0 \in S
  <2>1. near(0) = {h}
    BY <1>2 DEF Measures, Unreached
  <2> QED  BY <1>1, <2>1
<1>4. ASSUME NEW l \in S  PROVE l + 1 \in S
  <2> SUFFICES ASSUME l + 1 <= N  PROVE W[l + 1] = near(l + 1)
    OBVIOUS
  <2>1. W[l] = near(l)
    BY <1>1
  <2>2. l + 1 \in 1..N /\ (l + 1) - 1 = l
    BY <1>1
  <2>3. W[l + 1] = W[l] \cup UNION {L[n] : n \in W[l] \cap (T \cup {h})}
    <3>1. W[l + 1] = Grow(W[l], T \cup {h}, L)
      <4> HIDE DEF N, S
      <4> QED  BY <1>1, <2>2
    <3> QED  BY <3>1 DEF Grow
  <2>4. ASSUME NEW n \in W[l + 1]  PROVE n \in near(l + 1)
    <3>1. CASE n \in W[l]
      BY <1>2, <2>1, <3>1 DEF Unreached
    <3>2. CASE n \notin W[l]
      <4>1. PICK m \in W[l] \cap (T \cup {h}) : n \in L[m]
        BY <2>3, <3>2
      <4>2. D[m] # Unreached /\ D[m] <= l /\ m \in Node /\ n \in Node
        BY <2>1, <4>1
      <4>3. D[n] # Unreached /\ D[n] <= D[m] + 1
        BY <4>1, <4>2 DEF Measures
      <4> QED  BY <1>2, <4>2, <4>3 DEF Unreached
    <3> QED  BY <3>1, <3>2
  <2>5. ASSUME NEW n \in near(l + 1)  PROVE n \in W[l + 1]
    <3>1. CASE D[n] <= l
      BY <2>1, <2>3, <3>1
    <3>2. CASE ~(D[n] <= l)
      <4>1. D[n] \in Nat /\ D[n] = l + 1 /\ n # h
        BY <1>2, <3>2 DEF Unreached, Measures
      <4>2. PICK m \in T \cup {h} : D[m] # Unreached /\ n \in L[m] /\ D[n] = D[m] + 1
        BY <4>1 DEF Measures, Unreached
      <4>3. m \in near(l)
        BY <1>2, <4>1, <4>2 DEF Unreached
      <4> QED  BY <2>1, <2>3, <4>2, <4>3
    <3> QED  BY <3>1, <3>2
  <2> HIDE DEF near
  <2> QED  BY <2>3, <2>4, <2>5
<1>5. S = Nat
  <2> HIDE DEF S
  <2>1. S \subseteq Nat  BY DEF S
  <2> QED  BY <1>3, <1>4, <2>1, AllNumbers
<1> QED  BY <1>1, <1>5 DEF W, Near

\* The next hops on shortest paths are the neighbours that forward and are one link closer.
Symmetric(L) == \A n, m \in Node : m \in L[n] <=> n \in L[m]
OneCloser(D, h, T, L, n) == {m \in L[n] \cap (T \cup {h}) : D[m] # Unreached /\ D[n] = D[m] + 1}

LEMMA HopsMeasured ==
  ASSUME NEW h \in Node, NEW T \in SUBSET Node, NEW L \in [Node -> SUBSET Node], NEW D,
         Measures(D, h, T, L), Symmetric(L), NEW n \in Node
  PROVE  ShortestNextHops(h, T, L)[n] = OneCloser(D, h, T, L, n)
<1> DEFINE N == Cardinality(Node)
           W == Within(h, T, L)
           closer == UNION {W[k] : k \in {k \in DOMAIN W : n \notin W[k]}}
<1>1. ShortestNextHops(h, T, L)[n] =
        IF n \notin W[N] THEN {} ELSE L[n] \cap closer \cap (T \cup {h})
  BY DEF ShortestNextHops
<1> HIDE DEF W
<1>2. N \in Nat /\ DOMAIN W = 0..N
  BY WithinSteps DEF W, GrowsFrom
<1>3. \A k \in 0..N : W[k] = {m \in Node : D[m] # Unreached /\ D[m] <= k}
  <2>1. \A k \in 0..N : Within(h, T, L)[k] = Near(D, k)
    BY WithinMeasured
  <2> QED  BY <2>1 DEF W, Near
<1>4. \A m \in Node : D[m] \in Nat \cup {-1}
  BY DEF Measures, Unreached
<1>5. \A m \in Node : D[m] # Unreached => D[m] < N
  BY DistanceBound
<1>6. n \in W[N] <=> D[n] # Unreached
  BY <1>2, <1>3, <1>4, <1>5 DEF Unreached
<1>7. CASE D[n] = Unreached
  <2>1. \A m \in Node : D[m] # Unreached => D[n] # D[m] + 1
    BY <1>4, <1>7 DEF Unreached
  <2> QED  BY <1>1, <1>6, <1>7, <2>1 DEF OneCloser
<1>8. CASE D[n] # Unreached
  <2>1. ASSUME NEW m \in closer  PROVE m \in Node /\ D[m] # Unreached /\ D[m] < D[n]
    <3>1. PICK k \in 0..N : n \notin W[k] /\ m \in W[k]
      BY <1>2
    <3> QED  BY <1>3, <1>4, <1>8, <3>1 DEF Unreached
  <2>2. ASSUME NEW m \in Node, D[m] # Unreached, D[m] < D[n]  PROVE m \in closer
    <3>1. D[m] \in 0..N /\ m \in W[D[m]] /\ n \notin W[D[m]]
      BY <1>2, <1>3, <1>4, <1>5, <1>8, <2>2 DEF Unreached
    <3> QED  BY <1>2, <3>1
  <2> HIDE DEF closer
  <2>3. ASSUME NEW m \in L[n] \cap (T \cup {h}), D[m] # Unreached
        PROVE  D[m] < D[n] <=> D[n] = D[m] + 1
    <3>1. n \in L[m] /\ m \in Node
      BY DEF Symmetric
    <3>2. D[n] <= D[m] + 1
      BY <2>3, <3>1 DEF Measures
    <3> QED  BY <1>4, <1>8, <2>3, <3>1, <3>2 DEF Unreached
  <2>4. L[n] \cap closer \cap (T \cup {h}) =
          {m \in L[n] \cap (T \cup {h}) : D[m] # Unreached /\ D[n] = D[m] + 1}
    BY <2>1, <2>2, <2>3
  <2> QED  BY <1>1, <1>6, <1>8, <2>4 DEF OneCloser
<1> QED  BY <1>7, <1>8
-----------------------------------------------------------------------------
(* Part 9: one step of a visit that finds all nodes, without a baseline or to measure one. *)

\* A channel has a device at both ends.
LEMMA PeerFacts ==
  /\ \A n \in Node : /\ Devices[n] \in Seq(Node)
                     /\ Peers[n] = {Devices[n][k] : k \in DOMAIN Devices[n]}
                     /\ Peers[n] \subseteq Node
  /\ \A n, m \in Node : m \in Peers[n] => n \in Peers[m]
<1>1. \A n \in Node : Devices[n] \in Seq(Node)
  BY BfsAssumption
<1>2. ASSUME NEW n \in Node  PROVE Peers[n] = {Devices[n][k] : k \in DOMAIN Devices[n]}
  BY DEF Peers
<1>3. ASSUME NEW n \in Node  PROVE Peers[n] \subseteq Node
  BY <1>1, <1>2
<1>4. ASSUME NEW n \in Node, NEW m \in Node, m \in Peers[n]  PROVE n \in Peers[m]
  <2>1. PICK k \in DOMAIN Devices[n] : m = Devices[n][k]
    BY <1>2, <1>4
  <2>2. \E l \in DOMAIN Devices[m] : Devices[m][l] = n
    BY <2>1, BfsAssumption
  <2> QED  BY <1>2, <2>2
<1> QED  BY <1>1, <1>2, <1>3, <1>4

\* Links are live in both directions, and each is a device at its ends.
LEMMA LiveFacts ==
  /\ Live \in [Node -> SUBSET Node]
  /\ \A n, m \in Node : m \in Live[n] <=> n \in Live[m]
  /\ \A n, m \in Node : m \in Live[n] <=> LinkUp(n, m) /\ m \in Peers[n]
  /\ \A n, m \in Node : m \in Live[n] => \E k \in 1..Len(Devices[n]) : Devices[n][k] = m
<1>1. \A n \in Node : Devices[n] \in Seq(Node)
  BY PeerFacts
<1>2. ASSUME NEW n \in Node  PROVE Peers[n] = {Devices[n][k] : k \in DOMAIN Devices[n]}
  BY PeerFacts
<1>3. ASSUME NEW n \in Node  PROVE Peers[n] \subseteq Node
  BY PeerFacts
<1>4. ASSUME NEW n \in Node, NEW m \in Node, m \in Peers[n]  PROVE n \in Peers[m]
  BY <1>4, PeerFacts
<1>5. ASSUME NEW n \in Node  PROVE Live[n] = {m \in Peers[n] : LinkUp(n, m)}
  BY DEF Live
<1>6. Live \in [Node -> SUBSET Node]
  <2>1. Live = [n \in Node |-> Live[n]]  BY DEF Live
  <2> QED  BY <1>3, <1>5, <2>1
<1>7. ASSUME NEW n \in Node, NEW m \in Node
      PROVE  m \in Live[n] <=> LinkUp(n, m) /\ m \in Peers[n]
  BY <1>5
<1>8. \A n, m \in Node : LinkUp(n, m) <=> LinkUp(m, n)
  BY DEF LinkUp
<1>9. ASSUME NEW n \in Node, NEW m \in Node, m \in Live[n]
      PROVE  \E k \in 1..Len(Devices[n]) : Devices[n][k] = m
  <2>1. m \in Peers[n]  BY <1>7, <1>9
  <2> QED  BY <1>1, <1>2, <2>1
<1> QED  BY <1>4, <1>6, <1>7, <1>8, <1>9

\* What one turn of the loop does, whatever kind of visit it belongs to: now is the node at hand
\* and next the one that is looked at.
ScanEffect(now, next) ==
  LET h == Hosts[source] IN
  /\ now = q[i] /\ now \in Forwards(h) /\ next \in Node /\ dis[now] \in Nat /\ i \in 1..Len(q)
  /\ dis'[now] = dis[now]
  /\ next \in Live[now] <=> LinkUp(now, next)
  /\ \A n \in Node : Reached(n) => dis'[n] = dis[n]
  /\ \A n \in Node : n # next => dis'[n] = dis[n]
  /\ dis'[next] \in {dis[next], dis[now] + 1}
  /\ \A a \in 1..Len(q) : q'[a] = q[a] /\ q[a] \in Node /\ Reached(q[a]) /\ dis'[q[a]] = dis[q[a]]
  /\ \A n \in Node : nextHop[n][h] \subseteq nextHop'[n][h]
  /\ \A n \in Node : nextHop'[n][h] \subseteq nextHop[n][h] \cup {now}
  /\ \A a \in 1..Len(q'), m \in Node :
       Scanned(a, m)' => a \in 1..Len(q) /\ (Scanned(a, m) \/ (a = i /\ m = next /\ LinkUp(now, next)))

LEMMA ScanSound ==
  ASSUME TypeOKBfs, VisitInv, withHost => task = "routes", DistancesSound, ScanDevice,
         NEW now, now = q[i], NEW next, next = Devices[now][j]
  PROVE  DistancesSound' /\ ScanEffect(now, next)
<1> DEFINE d == dis[now] + 1
           h == Hosts[source]
           F == Forwards(h)
           found == LinkUp(now, next) /\ Discovers(next, d)
<1>1. /\ now \in Node /\ next \in Node /\ dis[now] \in Nat /\ next \in Peers[now]
      /\ QueueSorted /\ i \in 1..Len(q) /\ q' \in Seq(Node) /\ i' = i
  BY ScanFacts
<1>2. /\ dis \in [Node -> Nat \cup {-1}] /\ q \in Seq(Node) /\ j \in Nat
      /\ nextHop \in [Node -> [Host -> SUBSET Node]] /\ task \in {"none", "baseline", "routes"}
  BY DEF TypeOKBfs, Unreached
<1>3. /\ j' = j + 1 /\ source' = source /\ withHost' = withHost
      /\ interfaceDown' = interfaceDown
  BY DEF ScanDevice
<1>4. Live' = Live /\ \A g : Forwards(g)' = Forwards(g)
  BY <1>3 DEF Live, LinkUp, Forwards, Through
<1>5. h \in Host /\ h \in Node
  BY HostIsNode DEF TypeOKBfs
<1>6. next \in Live[now] <=> LinkUp(now, next)
  BY <1>1, LiveFacts
<1>7. /\ dis[h] = 0 /\ \A n \in Node : dis[n] = 0 => n = h
      /\ \A a \in 1..Len(q) : q[a] \in F
      /\ \A n \in F : Reached(n) => \E a \in 1..Len(q) : q[a] = n
      /\ \A n \in Node \ {h} : Reached(n) =>
           \E a \in 1..Len(q) : a <= i /\ n \in Live[q[a]] /\ dis[n] = dis[q[a]] + 1
  BY DEF DistancesSound
<1>8. \A a \in 1..Len(q) : q[a] \in Node /\ Reached(q[a]) /\ dis[q[a]] \in Nat
  BY <1>1, <1>2 DEF QueueSorted, Reached, Unreached
<1>9. /\ dis' = IF found THEN [dis EXCEPT ![next] = d] ELSE dis
      /\ q' = IF found /\ PassesOn(next) THEN Append(q, next) ELSE q
      /\ nextHop' \in {nextHop, [nextHop EXCEPT ![next][h] = @ \cup {now}]}
  <2>1. /\ dis' = IF found THEN [dis EXCEPT ![next] = d] ELSE dis
        /\ q' = IF found /\ PassesOn(next) THEN Enqueue(next) ELSE q
        /\ nextHop' = IF task = "routes" /\ LinkUp(now, next) /\ OnShortestPath(next, d)
                      THEN [nextHop EXCEPT ![next][h] = @ \cup {now}] ELSE nextHop
    BY Zenon DEF ScanDevice
  <2> HIDE DEF d, h, found
  <2> QED  BY <2>1 DEF Enqueue
<1>10. PassesOn(next) <=> next \in Through
  BY <1>1, <1>2 DEF PassesOn, Through
<1>11. found => LinkUp(now, next) /\ dis[next] = Unreached
  BY DEF Discovers
<1> HIDE DEF d, h, F, found
\* What was reached stays, the queue is extended and entries are added.
<1>12. /\ \A n \in Node : Reached(n) => dis'[n] = dis[n]
       /\ \A n \in Node : n # next => dis'[n] = dis[n]
       /\ dis'[next] \in {dis[next], d}
       /\ Len(q) <= Len(q') /\ \A a \in 1..Len(q) : q'[a] = q[a]
       /\ \A n \in Node : nextHop[n][h] \subseteq nextHop'[n][h]
       /\ \A n \in Node : nextHop'[n][h] \subseteq nextHop[n][h] \cup {now}
  <2>1. \A n \in Node : Reached(n) => dis'[n] = dis[n]
    BY <1>1, <1>2, <1>9, <1>11 DEF Reached
  <2>2. Len(q) <= Len(q') /\ \A a \in 1..Len(q) : q'[a] = q[a]
    BY <1>1, <1>2, <1>9
  <2>3. /\ \A n \in Node : nextHop[n][h] \subseteq nextHop'[n][h]
        /\ \A n \in Node : nextHop'[n][h] \subseteq nextHop[n][h] \cup {now}
    <3>1. CASE nextHop' = nextHop
      BY <3>1
    <3>2. CASE nextHop' = [nextHop EXCEPT ![next][h] = @ \cup {now}]
      <4>1. nextHop'[next][h] = nextHop[next][h] \cup {now}
        BY <1>1, <1>2, <1>5, <3>2
      <4>2. \A n \in Node : n # next => nextHop'[n] = nextHop[n]
        BY <1>2, <3>2
      <4> QED  BY <4>1, <4>2
    <3> QED  BY <1>9, <3>1, <3>2
  <2>4. (\A n \in Node : n # next => dis'[n] = dis[n]) /\ dis'[next] \in {dis[next], d}
    BY <1>1, <1>2, <1>9
  <2> QED  BY <2>1, <2>2, <2>3, <2>4
<1>13. \A a \in 1..Len(q) : a \in 1..Len(q') /\ dis'[q[a]] = dis[q[a]]
  BY <1>1, <1>2, <1>8, <1>12
<1>14. DistancesSound'
  <2>1. CASE found
    <3>1. dis'[next] = d
      BY <1>1, <1>2, <1>9, <2>1
    <3>2. next # h /\ d # 0 /\ next \in Live[now]
      BY <1>1, <1>6, <1>7, <1>11, <2>1 DEF d, Unreached
    <3>3. next \in F => Len(q') = Len(q) + 1 /\ q'[Len(q) + 1] = next
      BY <1>1, <1>2, <1>9, <1>10, <2>1, <3>2 DEF F, Forwards
    <3>4. \A a \in 1..Len(q') : a \in 1..Len(q) \/ (a = Len(q) + 1 /\ q'[a] = next /\ next \in F)
      BY <1>1, <1>2, <1>9, <1>10 DEF F, Forwards
    <3>5. dis'[h] = 0 /\ \A n \in Node : dis'[n] = 0 => n = h
      BY <1>5, <1>7, <1>12, <3>1, <3>2
    <3>6. \A a \in 1..Len(q') : q'[a] \in F
      BY <1>7, <1>12, <3>4
    <3>7. ASSUME NEW n \in F, dis'[n] # Unreached  PROVE \E a \in 1..Len(q') : q'[a] = n
      <4>1. CASE n = next
        BY <1>2, <3>3, <3>7, <4>1
      <4>2. CASE n # next
        <5>1. n \in Node  BY <1>5 DEF F, Forwards, Through
        <5>2. Reached(n)  BY <1>12, <3>7, <4>2, <5>1 DEF Reached
        <5>3. PICK a \in 1..Len(q) : q[a] = n  BY <1>7, <5>2
        <5> QED  BY <1>12, <1>13, <5>3
      <4> QED  BY <4>1, <4>2
    <3>8. ASSUME NEW n \in Node \ {h}, dis'[n] # Unreached
          PROVE  \E a \in 1..Len(q') : a <= i /\ n \in Live[q'[a]] /\ dis'[n] = dis'[q'[a]] + 1
      <4>1. CASE n = next
        <5>1. q'[i] = now /\ dis'[now] = dis[now] /\ i <= i /\ i \in 1..Len(q')
          BY <1>1, <1>12, <1>13
        <5> QED  BY <3>1, <3>2, <4>1, <5>1 DEF d
      <4>2. CASE n # next
        <5>1. Reached(n) /\ dis'[n] = dis[n]  BY <1>12, <3>8, <4>2 DEF Reached
        <5>2. PICK a \in 1..Len(q) : a <= i /\ n \in Live[q[a]] /\ dis[n] = dis[q[a]] + 1
          BY <1>7, <5>1
        <5>3. q'[a] = q[a] /\ dis'[q[a]] = dis[q[a]] /\ a \in 1..Len(q')  BY <1>12, <1>13
        <5> QED  BY <5>1, <5>2, <5>3
      <4> QED  BY <4>1, <4>2
    <3> QED
      BY <1>1, <1>3, <1>4, <3>5, <3>6, <3>7, <3>8 DEF DistancesSound, Reached, h, F
  <2>2. CASE ~found
    <3>1. dis' = dis /\ q' = q
      BY <1>9, <2>2
    <3> QED  BY <1>1, <1>3, <1>4, <1>7, <3>1 DEF DistancesSound, Reached, h, F
  <2> QED  BY <2>1, <2>2
<1>15. ASSUME NEW a \in 1..Len(q'), NEW m \in Node, Scanned(a, m)'
       PROVE  a \in 1..Len(q) /\ (Scanned(a, m) \/ (a = i /\ m = next /\ LinkUp(now, next)))
  <2>1. a <= i /\ a \in 1..Len(q)
    BY <1>1, <1>15 DEF Scanned
  <2>2. q'[a] = q[a] /\ m \in Live[q[a]]
    BY <1>4, <1>12, <1>15, <2>1 DEF Scanned
  <2>3. Scanned(a, m) \/ (a = i /\ m = next)
    BY <1>1, <1>2, <1>3, <1>15, <2>1, <2>2 DEF Scanned
  <2>4. a = i /\ m = next => LinkUp(now, next)
    BY <1>1, <1>6, <2>2
  <2> QED  BY <2>1, <2>3, <2>4
<1>16. now \in F /\ dis'[now] = dis[now]
  BY <1>1, <1>7, <1>13
<1> QED
  BY <1>1, <1>6, <1>8, <1>12, <1>13, <1>14, <1>15, <1>16 DEF ScanEffect, d, h, F

LEMMA ScanShortest ==
  ASSUME TypeOKBfs, VisitInv, ~useBaseline, withHost => task = "routes", DistancesSound,
         ScannedDone, ScanDevice
  PROVE  DistancesSound' /\ ScannedDone'
<1> DEFINE d == dis[q[i]] + 1
           h == Hosts[source]
           F == Forwards(h)
<1>1. PICK now, next : now = q[i] /\ next = Devices[now][j]
  OBVIOUS
<1>2. DistancesSound' /\ ScanEffect(now, next)
  BY <1>1, ScanSound
<1>3. /\ QueueSorted /\ dis \in [Node -> Nat \cup {-1}]
      /\ nextHop \in [Node -> [Host -> SUBSET Node]]
      /\ source' = source /\ task' = task /\ h \in Host
      /\ Live' = Live /\ F' = F
  <2>1. source' = source /\ task' = task /\ withHost' = withHost /\ interfaceDown' = interfaceDown
    BY DEF ScanDevice
  <2>2. Live' = Live /\ F' = F
    BY <2>1 DEF Live, LinkUp, Forwards, Through
  <2> QED  BY <2>1, <2>2, ScanFacts, HostIsNode DEF TypeOKBfs, Unreached
<1>4. /\ \A a \in 1..Len(q), m \in Node : Scanned(a, m) =>
           /\ Reached(m) /\ dis[m] <= dis[q[a]] + 1
           /\ task = "routes" /\ dis[m] = dis[q[a]] + 1 => q[a] \in nextHop[m][h]
      /\ task = "routes" => \A n \in Node : nextHop[n][h] \subseteq F
  BY DEF ScannedDone
\* A node that the link leads to is found now, or was before at no greater distance.
<1>5. LinkUp(now, next) =>
        /\ dis'[next] # Unreached /\ dis'[next] <= d
        /\ task = "routes" /\ dis'[next] = d => now \in nextHop'[next][h]
  <2> SUFFICES ASSUME LinkUp(now, next)
               PROVE  /\ dis'[next] # Unreached /\ dis'[next] <= d
                      /\ task = "routes" /\ dis'[next] = d => now \in nextHop'[next][h]
    OBVIOUS
  <2>1. /\ dis' = IF LinkUp(now, next) /\ Discovers(next, d) THEN [dis EXCEPT ![next] = d] ELSE dis
        /\ nextHop' = IF task = "routes" /\ LinkUp(now, next) /\ OnShortestPath(next, d)
                      THEN [nextHop EXCEPT ![next][h] = @ \cup {now}] ELSE nextHop
    BY <1>1, Zenon DEF ScanDevice
  <2>2. /\ Discovers(next, d) <=> dis[next] = Unreached
        /\ OnShortestPath(next, d) <=> dis'[next] = d
    BY DEF Discovers, OnShortestPath
  <2>3. next \in Node /\ d \in Nat /\ now = q[i] /\ i \in 1..Len(q)
    BY <1>1, <1>2 DEF ScanEffect
  <2> HIDE DEF d, h
  <2>4. task = "routes" /\ dis'[next] = d => now \in nextHop'[next][h]
    BY <1>3, <2>1, <2>2, <2>3
  <2>5. CASE dis[next] = Unreached
    BY <1>3, <2>1, <2>2, <2>3, <2>4, <2>5 DEF Unreached
  <2>6. CASE dis[next] # Unreached
    <3>1. dis'[next] = dis[next]
      BY <2>1, <2>2, <2>6
    <3>2. CASE next = h
      BY <2>3, <2>4, <2>6, <3>1, <3>2 DEF DistancesSound, h
    <3>3. CASE next # h
      <4>1. PICK a \in 1..Len(q) : a <= i /\ dis[next] = dis[q[a]] + 1
        BY <2>3, <2>6, <3>3 DEF DistancesSound, Reached, h
      <4>2. dis[q[a]] <= dis[now] /\ dis[q[a]] \in Nat /\ dis[now] \in Nat
        BY <1>2, <1>3, <2>3, <4>1 DEF QueueSorted, ScanEffect, Reached, Unreached
      <4> QED  BY <1>1, <2>4, <2>6, <3>1, <4>1, <4>2 DEF d
    <3> QED  BY <3>2, <3>3
  <2> QED  BY <2>5, <2>6
<1> HIDE DEF d, h, F
<1>6. ASSUME NEW a \in 1..Len(q'), NEW m \in Node, Scanned(a, m)'
      PROVE  /\ dis'[m] # Unreached /\ dis'[m] <= dis'[q'[a]] + 1
             /\ task = "routes" /\ dis'[m] = dis'[q'[a]] + 1 => q'[a] \in nextHop'[m][h]
  <2>1. /\ a \in 1..Len(q) /\ (Scanned(a, m) \/ (a = i /\ m = next /\ LinkUp(now, next)))
        /\ q'[a] = q[a] /\ dis'[q[a]] = dis[q[a]] /\ now = q[i]
        /\ Reached(m) => dis'[m] = dis[m]
        /\ nextHop[m][h] \subseteq nextHop'[m][h]
    BY <1>2, <1>6 DEF ScanEffect, h
  <2>2. CASE Scanned(a, m)
    <3>1. /\ Reached(m) /\ dis[m] <= dis[q[a]] + 1
          /\ task = "routes" /\ dis[m] = dis[q[a]] + 1 => q[a] \in nextHop[m][h]
      BY <1>4, <2>1, <2>2
    <3> QED  BY <2>1, <3>1 DEF Reached
  <2>3. CASE a = i /\ m = next /\ LinkUp(now, next)
    BY <1>5, <2>1, <2>3 DEF d
  <2> QED  BY <2>1, <2>2, <2>3
<1>7. task = "routes" => \A n \in Node : nextHop'[n][h] \subseteq F
  BY <1>2, <1>4 DEF ScanEffect, h, F
<1>8. ScannedDone'
  BY <1>3, <1>6, <1>7 DEF ScannedDone, Reached, h, F
<1> QED  BY <1>2, <1>8

\* The next node of the queue: the devices of the one before it have all been looked at.
LEMMA NextNodeScanned ==
  ASSUME TypeOKBfs, NextNode
  PROVE  \A a \in 1..Len(q), m \in Node : Scanned(a, m)' => Scanned(a, m)
<1> SUFFICES ASSUME NEW a \in 1..Len(q), NEW m \in Node, Scanned(a, m)'
             PROVE  Scanned(a, m)
  OBVIOUS
<1>1. /\ i \in 1..Len(q) /\ i' = i + 1 /\ j' = 1 /\ j > Len(Devices[q[i]]) /\ j \in Nat
      /\ UNCHANGED <<interfaceDown, q>> /\ q \in Seq(Node)
  BY DEF NextNode, TypeOKBfs
<1>2. Live' = Live
  BY <1>1 DEF Live, LinkUp
<1>3. m \in Live[q[a]] /\ a < i + 1
  BY <1>1, <1>2 DEF Scanned
<1>4. CASE a = i
  <2>1. q[a] \in Node  BY <1>1
  <2>2. PICK k \in 1..Len(Devices[q[a]]) : Devices[q[a]][k] = m
    BY <1>3, <2>1, LiveFacts
  <2>3. k \in 1..(j - 1)
    <3>1. Len(Devices[q[a]]) \in Nat  BY <2>1, PeerFacts
    <3> QED  BY <1>1, <1>4, <3>1
  <2> QED  BY <1>3, <1>4, <2>2, <2>3 DEF Scanned
<1>5. CASE a # i
  BY <1>1, <1>3, <1>5 DEF Scanned
<1> QED  BY <1>4, <1>5

LEMMA NextNodeShortest ==
  ASSUME TypeOKBfs, DistancesSound, ScannedDone, NextNode
  PROVE  DistancesSound' /\ ScannedDone'
<1>1. /\ i' = i + 1 /\ i \in Nat
      /\ UNCHANGED <<interfaceDown, nextHop, withHost, task, source, q, dis>>
      /\ q \in Seq(Node)
  BY DEF NextNode, TypeOKBfs
<1>2. Live' = Live /\ \A g : Forwards(g)' = Forwards(g)
  BY <1>1 DEF Live, LinkUp, Forwards, Through
<1>3. DistancesSound'
  <2>1. \A a \in 1..Len(q) : a <= i => a <= i + 1
    BY <1>1
  <2> QED  BY <1>1, <1>2, <2>1 DEF DistancesSound, Reached
<1>4. \A a \in 1..Len(q), m \in Node : Scanned(a, m)' => Scanned(a, m)
  BY NextNodeScanned
<1>5. ScannedDone'
  BY <1>1, <1>2, <1>4 DEF ScannedDone, Reached
<1> QED  BY <1>3, <1>5

\* A visit begins at its host, without entries.
LEMMA BeginShortest ==
  ASSUME NEW k \in 1..Len(Hosts), BeginVisit(k),
         task' = "routes" => \A n \in Node : nextHop'[n][Hosts[k]] = {}
  PROVE  DistancesSound' /\ ScannedDone'
<1> DEFINE h == Hosts[k]
<1>1. h \in Node
  BY HostIsNode
<1>2. source' = k /\ q' = <<h>> /\ Len(q') = 1 /\ q'[1] = h /\ i' = 1 /\ j' = 1
  BY DEF BeginVisit
<1>3. dis'[h] = 0 /\ \A n \in Node \ {h} : dis'[n] = Unreached
  BY <1>1 DEF BeginVisit, NoDistances
<1>4. \A n \in Node : dis'[n] = 0 => n = h
  BY <1>3 DEF Unreached
<1>5. \A g \in Forwards(h)' : g \in Node
  BY <1>1 DEF Forwards, Through
<1>6. DistancesSound'
  <2>1. \A a \in 1..Len(q') : q'[a] \in Forwards(h)'
    BY <1>2 DEF Forwards
  <2>2. ASSUME NEW n \in Forwards(h)', dis'[n] # Unreached  PROVE \E a \in 1..Len(q') : q'[a] = n
    <3>1. n = h  BY <1>3, <1>5, <2>2
    <3> QED  BY <1>2, <3>1
  <2> QED  BY <1>2, <1>3, <1>4, <2>1, <2>2 DEF DistancesSound, Reached
<1>7. \A a \in 1..Len(q'), m \in Node : ~Scanned(a, m)'
  BY <1>2 DEF Scanned
<1>8. ScannedDone'
  BY <1>2, <1>7 DEF ScannedDone
<1> QED  BY <1>6, <1>8

\* At its end a visit has measured all distances.
LEMMA VisitMeasures ==
  ASSUME TypeOKBfs, VisitInv, task # "none", DistancesSound, ScannedDone, i > Len(q)
  PROVE  Measures(dis, Hosts[source], Through, Live)
<1> DEFINE h == Hosts[source]
<1>1. h \in Node /\ h \in Host
  BY HostIsNode DEF TypeOKBfs
<1>2. dis \in [Node -> Nat \cup {Unreached}] /\ q \in Seq(Node) /\ i \in Nat
  BY DEF TypeOKBfs
<1>3. Through \in SUBSET Node /\ Forwards(h) = Through \cup {h} /\ Forwards(h) \subseteq Node
  BY <1>1 DEF Through, Forwards
<1>4. QueueSorted
  BY DEF VisitInv
<1>5. /\ dis[h] = 0 /\ \A n \in Node : dis[n] = 0 => n = h
      /\ \A a \in 1..Len(q) : q[a] \in Forwards(h)
      /\ \A n \in Forwards(h) : Reached(n) => \E a \in 1..Len(q) : q[a] = n
      /\ \A n \in Node \ {h} : Reached(n) =>
           \E a \in 1..Len(q) : a <= i /\ n \in Live[q[a]] /\ dis[n] = dis[q[a]] + 1
  BY DEF DistancesSound
<1>6. ASSUME NEW n \in Node \ {h}, dis[n] # Unreached
      PROVE  \E m \in Through \cup {h} : dis[m] # Unreached /\ n \in Live[m] /\ dis[n] = dis[m] + 1
  <2>1. PICK a \in 1..Len(q) : n \in Live[q[a]] /\ dis[n] = dis[q[a]] + 1
    BY <1>5, <1>6 DEF Reached
  <2>2. q[a] \in Through \cup {h} /\ dis[q[a]] # Unreached
    BY <1>3, <1>4, <1>5 DEF QueueSorted
  <2> QED  BY <2>1, <2>2
<1>7. ASSUME NEW m \in Through \cup {h}, dis[m] # Unreached, NEW n \in Live[m]
      PROVE  dis[n] # Unreached /\ dis[n] <= dis[m] + 1
  <2>1. n \in Node /\ m \in Forwards(h) /\ m \in Node  BY <1>3, LiveFacts
  <2>2. PICK a \in 1..Len(q) : q[a] = m
    BY <1>5, <1>7, <2>1 DEF Reached
  <2>3. Scanned(a, n)
    BY <1>2, <1>7, <2>2 DEF Scanned
  <2> QED  BY <2>1, <2>2, <2>3 DEF ScannedDone, Reached
<1> QED  BY <1>2, <1>5, <1>6, <1>7 DEF Measures

\* Its entries are the exact next hops, if it is for tables.
LEMMA VisitIsExact ==
  ASSUME TypeOKBfs, VisitInv, RoutesInv, task = "routes", DistancesSound, ScannedDone, i > Len(q)
  PROVE  Exact(nextHop, Hosts[source])
<1> DEFINE h == Hosts[source]
<1>1. h \in Node /\ h \in Host
  BY HostIsNode DEF TypeOKBfs
<1>2. /\ dis \in [Node -> Nat \cup {Unreached}] /\ q \in Seq(Node) /\ i \in Nat
      /\ nextHop \in [Node -> [Host -> SUBSET Node]]
  BY DEF TypeOKBfs
<1>3. Through \in SUBSET Node /\ Forwards(h) = Through \cup {h} /\ Forwards(h) \subseteq Node
  BY <1>1 DEF Through, Forwards
<1>4. EntriesCloser /\ EntriesLive(nextHop)
  BY DEF RoutesInv
<1>5. \A n \in Forwards(h) : Reached(n) => \E a \in 1..Len(q) : q[a] = n
  BY DEF DistancesSound
<1>6. /\ \A a \in 1..Len(q), m \in Node : Scanned(a, m) =>
           /\ Reached(m) /\ dis[m] <= dis[q[a]] + 1
           /\ dis[m] = dis[q[a]] + 1 => q[a] \in nextHop[m][h]
      /\ \A n \in Node : nextHop[n][h] \subseteq Forwards(h)
  BY DEF ScannedDone
<1>7. ASSUME NEW m \in Forwards(h), Reached(m), NEW n \in Node, n \in Live[m],
             dis[n] = dis[m] + 1
      PROVE  m \in nextHop[n][h]
  <2>1. PICK a \in 1..Len(q) : q[a] = m
    BY <1>5, <1>7
  <2>2. Scanned(a, n)
    BY <1>2, <1>7, <2>1 DEF Scanned
  <2> QED  BY <1>6, <1>7, <2>1, <2>2
<1>8. Measures(dis, h, Through, Live)
  BY VisitMeasures
<1>9. ASSUME NEW n \in Node  PROVE nextHop[n][h] = ShortestNextHops(h, Through, Live)[n]
  <2>0. Live \in [Node -> SUBSET Node] /\ Symmetric(Live)
    BY LiveFacts DEF Symmetric
  <2>1. ShortestNextHops(h, Through, Live)[n] = OneCloser(dis, h, Through, Live, n)
    BY <1>1, <1>3, <1>8, <2>0, HopsMeasured
  <2>2. ASSUME NEW m \in nextHop[n][h]
        PROVE  m \in Live[n] \cap (Through \cup {h}) /\ dis[m] # Unreached /\ dis[n] = dis[m] + 1
    BY <1>1, <1>3, <1>4, <1>6 DEF EntriesCloser, EntriesLive
  <2>3. ASSUME NEW m \in Live[n] \cap (Through \cup {h}), dis[m] # Unreached, dis[n] = dis[m] + 1
        PROVE  m \in nextHop[n][h]
    <3>1. n \in Live[m] /\ m \in Forwards(h)  BY <1>3, LiveFacts
    <3> QED  BY <1>7, <2>3, <3>1 DEF Reached
  <2> QED  BY <2>1, <2>2, <2>3 DEF OneCloser
<1> QED  BY <1>9 DEF Exact
-----------------------------------------------------------------------------
(* Part 10: the experiment and its tables. *)

\* Tables are exact as long as they and the links stay.
LEMMA ExactKeeps ==
  ASSUME UNCHANGED <<interfaceDown, withHost>>
  PROVE  /\ Live' = Live /\ Through' = Through
         /\ \A T, h : Exact(T, h)' <=> Exact(T', h)
<1>1. Live' = Live /\ Through' = Through
  BY DEF Live, LinkUp, Through
<1> QED  BY <1>1 DEF Exact

\* A scan leaves the entries for other hosts alone.
LEMMA ScanOthers ==
  ASSUME TypeOKBfs, ScanDevice, NEW h \in Host, h # Hosts[source], NEW n \in Node
  PROVE  nextHop'[n][h] = nextHop[n][h]
<1>1. \/ nextHop' = nextHop
      \/ nextHop' = [nextHop EXCEPT ![Devices[q[i]][j]][Hosts[source]] = @ \cup {q[i]}]
  BY DEF ScanDevice
<1>2. nextHop \in [Node -> [Host -> SUBSET Node]]
  BY DEF TypeOKBfs
<1> QED  BY <1>1, <1>2

LEMMA InitShortest == Init => ShortestInv
  BY DEF Init, InitBfs, ShortestInv

\* Steps that leave fabric, tables and visit alone.
LEMMA VisitUnchanged ==
  ASSUME UNCHANGED bfsVars
  PROVE  /\ UNCHANGED <<interfaceDown, rtTable, topoKnown, nextHop, strictBaseline, withHost,
                        baseDist, task, source, q, dis, i, j>>
         /\ Live' = Live /\ Through' = Through
         /\ DistancesSound' <=> DistancesSound
         /\ ScannedDone' <=> ScannedDone
<1>1. UNCHANGED <<interfaceDown, rtTable, topoKnown, nextHop, strictBaseline, withHost, baseDist,
                  task, source, q, dis, i, j>>
  BY DEF bfsVars, tables, visit
<1>2. Live' = Live /\ Through' = Through
  BY <1>1 DEF Live, LinkUp, Through
<1>3. DistancesSound' <=> DistancesSound
  BY <1>1, <1>2 DEF DistancesSound, Reached, Forwards
<1>4. ScannedDone' <=> ScannedDone
  BY <1>1, <1>2 DEF ScannedDone, Scanned, Reached, Forwards
<1> QED  BY <1>1, <1>2, <1>3, <1>4

LEMMA ShortestUnchanged ==
  ASSUME ShortestInv, UNCHANGED bfsVars
  PROVE  ShortestInv'
<1>1. /\ UNCHANGED <<interfaceDown, rtTable, topoKnown, nextHop, strictBaseline, withHost,
                     baseDist, task, source, q, dis, i, j>>
      /\ Live' = Live /\ Through' = Through
      /\ DistancesSound' <=> DistancesSound
      /\ ScannedDone' <=> ScannedDone
  BY VisitUnchanged
<1>2. \A h : (Exact(nextHop, h)' <=> Exact(nextHop, h)) /\ (Exact(rtTable, h)' <=> Exact(rtTable, h))
  BY <1>1 DEF Exact
<1> QED  BY <1>1, <1>2 DEF ShortestInv

LEMMA BeginRoutesShortest ==
  ASSUME NEW through, BeginRoutes(through)
  PROVE  ShortestInv'
<1>1. /\ task' = "routes" /\ nextHop' = NoEntries /\ BeginVisit(1)
  BY DEF BeginRoutes
<1>2. 1 \in 1..Len(Hosts) /\ Hosts[1] \in Host  BY BfsAssumption, HostIsNode
<1>3. source' = 1  BY <1>1 DEF BeginVisit
<1>4. \A n \in Node : nextHop'[n][Hosts[1]] = {}  BY <1>1, <1>2 DEF NoEntries
<1>5. DistancesSound' /\ ScannedDone'  BY <1>1, <1>2, <1>4, BeginShortest
<1> QED  BY <1>1, <1>3, <1>5 DEF ShortestInv

LEMMA CalculateShortest ==
  ASSUME IInv, ShortestInv, Calculate
  PROVE  ShortestInv'
<1>1. /\ TypeOKBfs /\ VisitInv /\ RoutesInv /\ task \in {"none", "baseline", "routes"}
      /\ source \in 1..Len(Hosts) /\ task # "none"
      /\ UNCHANGED <<interfaceDown, strictBaseline, withHost>>
  BY DEF IInv, TypeOK, TypeOKBfs, Calculate, ScanDevice, NextNode, EndVisit
<1> SUFFICES ASSUME ~strictBaseline
             PROVE  /\ task' = "routes" => /\ DistancesSound' /\ ScannedDone'
                                           /\ \A k \in 1..(source' - 1) : Exact(nextHop, Hosts[k])'
                    /\ topoKnown' /\ task' = "none" => \A h \in Host : Exact(rtTable, h)'
  BY <1>1 DEF ShortestInv
<1>2. task = "routes" => /\ DistancesSound /\ ScannedDone
                         /\ \A k \in 1..(source - 1) : Exact(nextHop, Hosts[k])
  BY DEF ShortestInv
<1>3. Live' = Live /\ Through' = Through
  BY <1>1 DEF Live, LinkUp, Through
<1>4. CASE ScanDevice
  <2>1. task' = task /\ source' = source
    BY <1>4 DEF ScanDevice
  <2> SUFFICES ASSUME task = "routes"
               PROVE  /\ DistancesSound' /\ ScannedDone'
                      /\ \A k \in 1..(source - 1) : Exact(nextHop, Hosts[k])'
    BY <1>1, <2>1
  <2>2. DistancesSound' /\ ScannedDone'
    <3>1. ~useBaseline  BY DEF useBaseline
    <3> QED  BY <1>1, <1>2, <1>4, <3>1, ScanShortest
  <2>3. ASSUME NEW k \in 1..(source - 1)  PROVE Exact(nextHop, Hosts[k])'
    <3>1. Hosts[k] # Hosts[source] /\ Exact(nextHop, Hosts[k]) /\ Hosts[k] \in Host
      BY <1>1, <1>2, HostIsNode, BfsAssumption
    <3>2. \A n \in Node : nextHop'[n][Hosts[k]] = nextHop[n][Hosts[k]]
      BY <1>1, <1>4, <3>1, ScanOthers
    <3> QED  BY <1>3, <3>1, <3>2 DEF Exact
  <2> QED  BY <2>2, <2>3
<1>5. CASE NextNode
  <2>1. task' = task /\ source' = source /\ nextHop' = nextHop
    BY <1>5 DEF NextNode
  <2>2. task = "routes" => DistancesSound' /\ ScannedDone'
    BY <1>1, <1>2, <1>5, NextNodeShortest
  <2> QED  BY <1>1, <1>2, <1>3, <2>1, <2>2 DEF Exact
<1>6. CASE EndVisit
  <2>1. task = "routes" => \A k \in 1..source : Exact(nextHop, Hosts[k])
    <3>1. i > Len(q)  BY <1>6 DEF EndVisit
    <3> QED  BY <1>1, <1>2, <3>1, VisitIsExact
  <2>2. nextHop' = nextHop
    BY <1>6 DEF EndVisit
  <2>3. CASE source < Len(Hosts)
    <3>1. BeginVisit(source + 1) /\ source' = source + 1 /\ task' = task
      BY <1>6, <2>3 DEF EndVisit, BeginVisit
    <3>2. source + 1 \in 1..Len(Hosts) /\ Len(Hosts) \in Nat
      BY <1>1, <2>3, BfsAssumption
    <3>3. ASSUME task = "routes"  PROVE DistancesSound' /\ ScannedDone'
      <4>1. \A n \in Node : nextHop'[n][Hosts[source + 1]] = {}
        <5>1. source + 1 \in (source + 1)..Len(Hosts)  BY <3>2, <1>1
        <5> QED  BY <1>1, <2>2, <3>3, <5>1 DEF RoutesInv, EntriesRanked
      <4> QED  BY <3>1, <3>2, <4>1, BeginShortest
    <3>4. ASSUME task = "routes", NEW k \in 1..(source' - 1)  PROVE Exact(nextHop, Hosts[k])'
      <4>1. k \in 1..source  BY <1>1, <3>1
      <4> QED  BY <1>3, <2>1, <2>2, <3>4, <4>1 DEF Exact
    <3> QED  BY <1>1, <3>1, <3>3, <3>4
  <2>4. CASE ~(source < Len(Hosts))
    <3>1. task' = "none" /\ source = Len(Hosts)
      BY <1>1, <1>6, <2>4, BfsAssumption DEF EndVisit
    <3>2. CASE task = "routes"
      <4>1. rtTable' = nextHop  BY <1>6, <2>4, <3>2 DEF EndVisit
      <4>2. \A h \in Host : Exact(nextHop, h)
        BY <2>1, <3>1, <3>2, BfsAssumption DEF Host
      <4>3. \A h \in Host : Exact(rtTable, h)'
        BY <1>3, <4>1, <4>2 DEF Exact
      <4> QED  BY <3>1, <4>3
    <3>3. CASE task = "baseline"
      <4>1. topoKnown' = topoKnown /\ ~topoKnown
        BY <1>6, <2>4, <3>3 DEF EndVisit, tables, IInv, StageInv
      <4> QED  BY <3>1, <4>1
    <3> QED  BY <1>1, <3>2, <3>3
  <2> QED  BY <2>3, <2>4
<1> QED  BY <1>4, <1>5, <1>6 DEF Calculate

LEMMA NextShortest == IInv /\ ShortestInv /\ [Next]_vars => ShortestInv'
<1> SUFFICES ASSUME IInv, ShortestInv, [Next]_vars  PROVE ShortestInv'
  OBVIOUS
<1>1. CASE PreApplyFailure \/ PreApplyDone \/ ScheduleFailures \/ RunEvent \/ LinkSet
             \/ UNCHANGED vars
  <2>1. UNCHANGED bfsVars
    BY <1>1 DEF PreApplyFailure, PreApplyDone, ScheduleFailures, RunEvent, LinkSet, vars
  <2> QED  BY <2>1, ShortestUnchanged
<1>2. CASE EnableStrictBaseline
  <2>1. strictBaseline'
    BY <1>2 DEF EnableStrictBaseline, BeginBaseline
  <2> QED  BY <2>1 DEF ShortestInv
<1>3. CASE CalculateRoutes
  BY <1>3, BeginRoutesShortest DEF CalculateRoutes
<1>4. CASE ChangeEnd
  <2>1. PICK n, m, up : SetInterface(n, m, up, stage = "preApply")
    BY <1>4 DEF ChangeEnd
  <2>2. CASE topoKnown /\ stage # "preApply"
    BY <2>1, <2>2, BeginRoutesShortest DEF SetInterface
  <2>3. CASE ~(topoKnown /\ stage # "preApply")
    <3>1. ~topoKnown
      BY <2>3 DEF IInv, StageInv
    <3>2. task' = "none" /\ topoKnown' = topoKnown
      BY <2>1, <2>3 DEF SetInterface, tables
    <3> QED  BY <3>1, <3>2 DEF ShortestInv
  <2> QED  BY <2>2, <2>3
<1>5. CASE CalculateStep
  BY <1>5, CalculateShortest DEF CalculateStep
<1> QED  BY <1>1, <1>2, <1>3, <1>4, <1>5 DEF Next, Startup

\* In every fabric, after every event of every schedule, the tables installed without a baseline
\* hold exactly the next hops on shortest live paths: the visit misses no path and no node, also
\* if hosts are passed through, and compares no distance too early.
THEOREM TablesShortest == Spec => []ShortestTables
<1>1. IInv /\ ShortestInv => ShortestTables
  BY DEF ShortestInv, ShortestTables, Exact, Through, Quiet
<1>2. Spec => [](IInv /\ ShortestInv)
  BY InitIInv, NextIInv, InitShortest, NextShortest, PTL DEF Spec
<1> QED  BY <1>1, <1>2, PTL
-----------------------------------------------------------------------------
(* Part 11: facts about events. *)

\* An event is the failure or the recovery of an entry.
LEMMA EventFacts ==
  ASSUME TypeOKSchedule, NEW e \in Events
  PROVE  /\ e = <<e[1], e[2]>> /\ e[1] \in 1..Len(Entries) /\ e[2] \in BOOLEAN
         /\ TimeOf(e) \in Nat /\ Entries[e[1]] \in FailureEntry
         /\ e[2] => Entries[e[1]].until # Never
<1>1. Entries \in Seq(FailureEntry)
  BY DEF TypeOKSchedule, Entries
<1>2. PICK k \in DOMAIN Entries, up \in BOOLEAN :
        e = <<k, up>> /\ (up => Entries[k].until # Never)
  <2>1. CASE e \in {<<k, FALSE>> : k \in DOMAIN Entries}
    BY <2>1
  <2>2. CASE e \in {<<k, TRUE>> : k \in {n \in DOMAIN Entries : Entries[n].until # Never}}
    BY <2>2
  <2> QED  BY <2>1, <2>2, Zenon DEF Events
<1>3. e = <<e[1], e[2]>> /\ e[2] \in BOOLEAN /\ (e[2] => Entries[e[1]].until # Never)
  BY <1>2
<1>4. e[1] \in 1..Len(Entries) /\ Entries[e[1]] \in FailureEntry
  BY <1>1, <1>2
<1>5. TimeOf(e) \in Nat
  BY <1>4 DEF TimeOf, FailureEntry
<1> QED  BY <1>3, <1>4, <1>5

\* The ends of a link determine it.
LEMMA SameEnds ==
  ASSUME NEW e, NEW f, NEW x, e.link \in Node \X Node, f.link \in Node \X Node, x \in Ends(e)
  PROVE  x \in Ends(f) <=> Ends(e) = Ends(f)
<1>1. PICK a \in Node, b \in Node : e.link = <<a, b>>
  OBVIOUS
<1>2. PICK c \in Node, d \in Node : f.link = <<c, d>>
  OBVIOUS
<1>3. Ends(e) = {<<a, b>>, <<b, a>>} /\ Ends(f) = {<<c, d>>, <<d, c>>}
  BY <1>1, <1>2 DEF Ends
<1>4. ASSUME x \in Ends(f)  PROVE (a = c /\ b = d) \/ (a = d /\ b = c)
  BY <1>3, <1>4
<1>5. (a = c /\ b = d) \/ (a = d /\ b = c) => Ends(e) = Ends(f)
  BY <1>3
<1> QED  BY <1>4, <1>5

\* The two events of an entry.
FailureOf(m) == <<m, FALSE>>
RecoveryOf(m) == <<m, TRUE>>

LEMMA EventsOfEntry ==
  ASSUME NEW m \in DOMAIN Entries
  PROVE  /\ FailureOf(m)[1] = m /\ ~FailureOf(m)[2] /\ FailureOf(m) \in Events
         /\ RecoveryOf(m)[1] = m /\ RecoveryOf(m)[2]
         /\ Entries[m].until # Never => RecoveryOf(m) \in Events
<1>1. FailureOf(m)[1] = m /\ ~FailureOf(m)[2]
  BY DEF FailureOf
<1>2. RecoveryOf(m)[1] = m /\ RecoveryOf(m)[2]
  BY DEF RecoveryOf
<1>3. FailureOf(m) \in Events
  BY DEF FailureOf, Events
<1>4. Entries[m].until # Never => RecoveryOf(m) \in Events
  BY DEF RecoveryOf, Events
<1> QED  BY <1>1, <1>2, <1>3, <1>4

LEMMA EventIsOfEntry ==
  ASSUME TypeOKSchedule, NEW e \in Events
  PROVE  e[2] => e = RecoveryOf(e[1])
<1>1. e = <<e[1], e[2]>> /\ e[2] \in BOOLEAN
  BY EventFacts
<1> QED  BY <1>1 DEF RecoveryOf

LEMMA FailureIsOfEntry ==
  ASSUME TypeOKSchedule, NEW e \in Events
  PROVE  ~e[2] => e = FailureOf(e[1])
<1>1. e = <<e[1], e[2]>> /\ e[2] \in BOOLEAN
  BY EventFacts
<1> QED  BY <1>1 DEF FailureOf
-----------------------------------------------------------------------------
(* Part 12: the strict baseline, its inductive invariants. *)

\* The fabric as it was when the baseline was measured, and the distances in it.
Original == [n \in Node |-> {m \in Peers[n] : <<n, m>> \notin LostAtBaseline}]
BaseMeasured(h) == Measures(baseDist[h], h, Node \ Host, Original)

\* The options are those of an experiment.
OptionsInv ==
  \E e \in Experiments : /\ routing = e.routing /\ failures = e.failures
                         /\ random = e.random /\ preApply = e.preApply

\* Only the strict experiment has a baseline, and it does not pass through hosts.
ModeInv ==
  /\ stage = "baseline" => routing = "NodeBfsStrict"
  /\ strictBaseline => routing = "NodeBfsStrict" /\ stage \notin {"preApply", "baseline"}
  /\ withHost => routing = "NodeBfsWithHost"
  /\ task = "baseline" => stage = "routes" /\ strictBaseline

\* Both ends of the first k failures of the file.
LostBefore(k) == UNION {Ends(failures[l]) : l \in 1..k}
ToBeChanged(n, m) == call.active /\ \E k \in DOMAIN call.ends : call.ends[k] = <<n, m>>

\* Exactly the failures applied beforehand are down when the baseline is measured, and they stay
\* down, for nothing that is scheduled afterwards recovers them.
LostInv ==
  /\ stage = "preApply" =>
       /\ preApply \/ applied = 0
       /\ call.active => ~call.up
       /\ \A n, m \in Node : /\ ToBeChanged(n, m) => <<n, m>> \in LostBefore(applied)
                             /\ m \in interfaceDown[n] => <<n, m>> \in LostBefore(applied)
                             /\ <<n, m>> \in LostBefore(applied) =>
                                  m \in interfaceDown[n] \/ ToBeChanged(n, m)
  /\ stage \in {"baseline", "routes", "schedule"} =>
       /\ ~call.active
       /\ \A n, m \in Node : m \in interfaceDown[n] <=> <<n, m>> \in LostAtBaseline
  /\ stage = "run" =>
       /\ preApply /\ call.active => ~call.up
       /\ \A n, m \in Node : <<n, m>> \in LostAtBaseline => m \in interfaceDown[n]

\* The baseline holds the distances of the fabric as it was.
BaselineInv ==
  strictBaseline =>
    /\ task = "baseline" => /\ DistancesSound /\ ScannedDone
                            /\ \A k \in 1..(source - 1) : BaseMeasured(Hosts[k])
    /\ task # "baseline" => \A h \in Host : BaseMeasured(h)

\* A visit that keeps to it finds nodes at the distance they had, and has an entry for every link
\* looked at that was on a shortest path then.
OnBaseline == \A n \in Node : Reached(n) => dis[n] = BaseDistance(n)
ScannedStrict ==
  LET h == Hosts[source] IN
  /\ \A a \in 1..Len(q), m \in Node :
       Scanned(a, m) /\ BaseDistance(m) = dis[q[a]] + 1 => Reached(m) /\ q[a] \in nextHop[m][h]
  /\ \A n \in Node : nextHop[n][h] \subseteq Forwards(h)

\* The table T holds exactly the next hops of the baseline that still lead to h.
Survives(T, h) ==
  \A n \in Node : T[n][h] = SurvivingNextHops(h, ShortestNextHops(h, Node \ Host, Original), Live)[n]

StrictInv ==
  strictBaseline =>
    /\ task = "routes" => /\ DistancesSound /\ OnBaseline /\ ScannedStrict
                          /\ \A k \in 1..(source - 1) : Survives(nextHop, Hosts[k])
    /\ topoKnown /\ task = "none" => \A h \in Host : Survives(rtTable, h)

BaseInv == OptionsInv /\ ModeInv /\ LostInv /\ BaselineInv /\ StrictInv
-----------------------------------------------------------------------------
(* Part 13: the reference.  What still leads to h is determined by distances. *)

\* What SurvivingNextHops says of its value f.
LeadOn(f, h, B, L) == f = [n \in Node |-> {m \in B[n] \cap L[n] : m = h \/ f[m] # {}}]

\* The next hops B lead one link closer by D, so that at most one function is as
\* SurvivingNextHops says.
LEMMA SurvivingIs ==
  ASSUME NEW h, NEW B, NEW L, NEW D \in [Node -> Nat \cup {Unreached}],
         \A n \in Node : \A m \in B[n] : m \in Node /\ D[m] # Unreached /\ D[n] = D[m] + 1,
         NEW f, LeadOn(f, h, B, L)
  PROVE  SurvivingNextHops(h, B, L) = f
<1> DEFINE Eq(g) == LeadOn(g, h, B, L)
           S == CHOOSE g : Eq(g)
           below == {k \in Nat : \A n \in Node : D[n] < k => S[n] = f[n]}
<1>1. SurvivingNextHops(h, B, L) = S
  BY DEF SurvivingNextHops, LeadOn
<1>2. Eq(S)
  <2>1. Eq(f)
    OBVIOUS
  <2> HIDE DEF Eq
  <2> QED  BY <2>1
<1>3. \A n \in Node : S[n] = {m \in B[n] \cap L[n] : m = h \/ S[m] # {}}
  <2> HIDE DEF S
  <2> QED  BY <1>2 DEF LeadOn
<1>4. \A n \in Node : f[n] = {m \in B[n] \cap L[n] : m = h \/ f[m] # {}}
  BY DEF LeadOn
<1> HIDE DEF S
<1>5. 0 \in below
  <2>1. ASSUME NEW n \in Node, D[n] < 0  PROVE B[n] = {}
    BY <2>1 DEF Unreached
  <2> QED  BY <1>3, <1>4, <2>1
<1>6. ASSUME NEW k \in below  PROVE k + 1 \in below
  <2>1. ASSUME NEW n \in Node, D[n] < k + 1  PROVE S[n] = f[n]
    <3>1. \A m \in B[n] : m \in Node /\ D[m] < k
      BY <2>1 DEF Unreached
    <3>2. \A m \in B[n] : S[m] = f[m]
      BY <2>1, <3>1
    <3>3. {m \in B[n] \cap L[n] : m = h \/ S[m] # {}} = {m \in B[n] \cap L[n] : m = h \/ f[m] # {}}
      BY <3>2
    <3> QED  BY <1>3, <1>4, <3>3
  <2> QED  BY <2>1
<1>7. below = Nat
  <2> HIDE DEF below
  <2>1. below \subseteq Nat  BY DEF below
  <2> QED  BY <1>5, <1>6, <2>1, AllNumbers
<1>8. ASSUME NEW n \in Node  PROVE S[n] = f[n]
  <2>1. D[n] + 1 \in below /\ D[n] < D[n] + 1
    BY <1>7 DEF Unreached
  <2> QED  BY <2>1
<1>9. S = [n \in Node |-> S[n]] /\ f = [n \in Node |-> f[n]]
  BY <1>2 DEF LeadOn
<1> QED  BY <1>1, <1>8, <1>9
-----------------------------------------------------------------------------
(* Part 14: one step of a visit that keeps to the baseline. *)

LEMMA ScanStrict ==
  ASSUME TypeOKBfs, VisitInv, task = "routes", strictBaseline, ~withHost,
         BaseMeasured(Hosts[source]), \A n \in Node : Live[n] \subseteq Original[n],
         DistancesSound, OnBaseline, ScannedStrict, ScanDevice
  PROVE  DistancesSound' /\ OnBaseline' /\ ScannedStrict'
<1> DEFINE d == dis[q[i]] + 1
           h == Hosts[source]
           F == Forwards(h)
           D == baseDist[h]
<1>1. PICK now, next : now = q[i] /\ next = Devices[now][j]
  OBVIOUS
<1>2. DistancesSound' /\ ScanEffect(now, next)
  BY <1>1, ScanSound
<1>3. /\ dis \in [Node -> Nat \cup {-1}] /\ D \in [Node -> Nat \cup {-1}]
      /\ nextHop \in [Node -> [Host -> SUBSET Node]]
      /\ source' = source /\ h \in Host /\ h \in Node /\ baseDist' = baseDist
      /\ Live' = Live /\ F' = F
  <2>1. source' = source /\ withHost' = withHost /\ interfaceDown' = interfaceDown /\ baseDist' = baseDist
    BY DEF ScanDevice
  <2>2. Live' = Live /\ F' = F
    BY <2>1 DEF Live, LinkUp, Forwards, Through
  <2> QED  BY <2>1, <2>2, HostIsNode DEF TypeOKBfs, Unreached
<1>4. /\ D[h] = 0
      /\ \A m \in F : D[m] # Unreached =>
           \A n \in Original[m] : D[n] # Unreached /\ D[n] <= D[m] + 1
  BY DEF BaseMeasured, Measures, Forwards, Through
<1>5. useBaseline
  BY <1>3, <1>4 DEF useBaseline, NoDistances, Unreached
<1>6. /\ dis' = IF LinkUp(now, next) /\ Discovers(next, d) THEN [dis EXCEPT ![next] = d] ELSE dis
      /\ nextHop' = IF task = "routes" /\ LinkUp(now, next) /\ OnShortestPath(next, d)
                    THEN [nextHop EXCEPT ![next][h] = @ \cup {now}] ELSE nextHop
  BY <1>1, Zenon DEF ScanDevice
<1>7. /\ Discovers(next, d) <=> dis[next] = Unreached /\ d <= D[next]
      /\ OnShortestPath(next, d) <=> dis'[next] = d /\ d = D[next]
  BY <1>5 DEF Discovers, OnShortestPath, BaseDistance
<1>8. /\ next \in Node /\ now \in Node /\ now \in F /\ d \in Nat
      /\ dis[now] = D[now] /\ d = D[now] + 1 /\ D[now] \in Nat
  <2>1. next \in Node /\ now \in F /\ dis[now] \in Nat
    BY <1>2 DEF ScanEffect
  <2>2. now \in Node
    BY <1>3, <2>1 DEF Forwards, Through
  <2> QED  BY <1>1, <2>1, <2>2 DEF OnBaseline, Reached, Unreached, BaseDistance
<1> HIDE DEF d, h, F, D
\* No link leads farther than it did.
<1>9. LinkUp(now, next) => D[next] # Unreached /\ D[next] <= d
  <2>1. LinkUp(now, next) => next \in Original[now]
    BY <1>2, <1>8 DEF ScanEffect
  <2>2. D[now] # Unreached
    BY <1>8 DEF Unreached
  <2>3. \A n \in Original[now] : D[n] # Unreached /\ D[n] <= D[now] + 1
    BY <1>4, <1>8, <2>2
  <2> QED  BY <1>8, <2>1, <2>3
<1>10. OnBaseline'
  <2>1. ASSUME NEW n \in Node, dis'[n] # Unreached  PROVE dis'[n] = D[n]
    <3>1. CASE Reached(n)
      <4>1. dis'[n] = dis[n]
        BY <1>2, <3>1 DEF ScanEffect
      <4> QED  BY <3>1, <4>1 DEF OnBaseline, BaseDistance, D, h
    <3>2. CASE ~Reached(n)
      <4>1. n = next
        BY <1>2, <2>1, <3>2 DEF ScanEffect, Reached
      <4>2. LinkUp(now, next) /\ Discovers(next, d)
        BY <1>6, <2>1, <3>2, <4>1 DEF Reached
      <4>3. dis'[next] = d /\ d <= D[next]
        BY <1>3, <1>6, <1>7, <1>8, <4>2
      <4> QED  BY <1>3, <1>8, <1>9, <4>1, <4>2, <4>3 DEF Unreached
    <3> QED  BY <3>1, <3>2
  <2> QED  BY <1>3, <2>1 DEF OnBaseline, Reached, BaseDistance, D, h
<1>11. LinkUp(now, next) /\ D[next] = d => dis'[next] # Unreached /\ now \in nextHop'[next][h]
  <2> SUFFICES ASSUME LinkUp(now, next), D[next] = d
               PROVE  dis'[next] # Unreached /\ now \in nextHop'[next][h]
    OBVIOUS
  <2>1. dis'[next] = d
    <3>1. CASE dis[next] = Unreached
      BY <1>3, <1>6, <1>7, <1>8, <3>1
    <3>2. CASE dis[next] # Unreached
      BY <1>2, <1>8, <3>2 DEF ScanEffect, OnBaseline, Reached, BaseDistance, D, h
    <3> QED  BY <3>1, <3>2
  <2>2. nextHop' = [nextHop EXCEPT ![next][h] = @ \cup {now}]
    BY <1>6, <1>7, <2>1
  <2> QED  BY <1>3, <1>8, <2>1, <2>2 DEF Unreached
<1>12. ASSUME NEW a \in 1..Len(q'), NEW m \in Node, Scanned(a, m)', D[m] = dis'[q'[a]] + 1
       PROVE  dis'[m] # Unreached /\ q'[a] \in nextHop'[m][h]
  <2>1. /\ a \in 1..Len(q) /\ (Scanned(a, m) \/ (a = i /\ m = next /\ LinkUp(now, next)))
        /\ q'[a] = q[a] /\ dis'[q[a]] = dis[q[a]] /\ now = q[i]
        /\ Reached(m) => dis'[m] = dis[m]
        /\ nextHop[m][h] \subseteq nextHop'[m][h]
    BY <1>2, <1>12 DEF ScanEffect, h
  <2>2. CASE Scanned(a, m)
    <3>1. Reached(m) /\ q[a] \in nextHop[m][h]
      BY <1>12, <2>1, <2>2 DEF ScannedStrict, BaseDistance, D, h
    <3> QED  BY <2>1, <3>1 DEF Reached
  <2>3. CASE a = i /\ m = next /\ LinkUp(now, next)
    BY <1>11, <1>12, <2>1, <2>3 DEF d
  <2> QED  BY <2>1, <2>2, <2>3
<1>13. \A n \in Node : nextHop'[n][h] \subseteq F
  BY <1>2 DEF ScanEffect, ScannedStrict, h, F
<1>14. ScannedStrict'
  BY <1>3, <1>12, <1>13 DEF ScannedStrict, Reached, BaseDistance, h, F, D
<1> QED  BY <1>2, <1>10, <1>14

LEMMA NextNodeStrict ==
  ASSUME TypeOKBfs, DistancesSound, OnBaseline, ScannedStrict, NextNode
  PROVE  DistancesSound' /\ OnBaseline' /\ ScannedStrict'
<1>1. /\ i' = i + 1
      /\ UNCHANGED <<interfaceDown, nextHop, withHost, baseDist, task, source, q, dis>>
      /\ q \in Seq(Node) /\ i \in Nat
  BY DEF NextNode, TypeOKBfs
<1>2. Live' = Live /\ \A g : Forwards(g)' = Forwards(g)
  BY <1>1 DEF Live, LinkUp, Forwards, Through
<1>3. DistancesSound'
  <2>1. \A a \in 1..Len(q) : a <= i => a <= i + 1
    BY <1>1
  <2> QED  BY <1>1, <1>2, <2>1 DEF DistancesSound, Reached
<1>4. OnBaseline'
  BY <1>1 DEF OnBaseline, Reached, BaseDistance
<1>5. \A a \in 1..Len(q), m \in Node : Scanned(a, m)' => Scanned(a, m)
  BY NextNodeScanned
<1>6. ScannedStrict'
  BY <1>1, <1>2, <1>5 DEF ScannedStrict, Reached, BaseDistance
<1> QED  BY <1>3, <1>4, <1>6

\* A visit begins at its host, as far from it as ever.
LEMMA BeginStrict ==
  ASSUME NEW k \in 1..Len(Hosts), BeginVisit(k), BaseMeasured(Hosts[k]), baseDist' = baseDist,
         \A n \in Node : nextHop'[n][Hosts[k]] = {}
  PROVE  DistancesSound' /\ OnBaseline' /\ ScannedStrict'
<1> DEFINE h == Hosts[k]
<1>1. h \in Node
  BY HostIsNode
<1>2. source' = k /\ q' = <<h>> /\ Len(q') = 1 /\ i' = 1 /\ j' = 1
  BY DEF BeginVisit
<1>3. dis'[h] = 0 /\ \A n \in Node \ {h} : dis'[n] = Unreached
  BY <1>1 DEF BeginVisit, NoDistances
<1>4. DistancesSound'
  BY BeginShortest
<1>5. baseDist[h][h] = 0
  BY DEF BaseMeasured, Measures
<1>6. OnBaseline'
  BY <1>2, <1>3, <1>5 DEF OnBaseline, Reached, BaseDistance
<1>7. \A a \in 1..Len(q'), m \in Node : ~Scanned(a, m)'
  BY <1>2 DEF Scanned
<1>8. ScannedStrict'
  BY <1>2, <1>7 DEF ScannedStrict
<1> QED  BY <1>4, <1>6, <1>8

\* Links were lost in both directions.
LEMMA LostBothWays ==
  ASSUME TypeOKSchedule, NEW n \in Node, NEW m \in Node, <<n, m>> \in LostAtBaseline
  PROVE  <<m, n>> \in LostAtBaseline
<1>1. LostAtBaseline = UNION {Ends(failures[k]) : k \in DOMAIN failures}
  BY DEF LostAtBaseline, Ends
<1>2. PICK k \in DOMAIN failures : <<n, m>> \in Ends(failures[k])
  BY <1>1
<1>3. PICK x \in Node, y \in Node : failures[k].link = <<x, y>>
  <2>1. failures[k] \in FailureEntry  BY DEF TypeOKSchedule
  <2> QED  BY <2>1 DEF FailureEntry
<1>4. Ends(failures[k]) = {<<x, y>>, <<y, x>>}
  BY <1>3 DEF Ends
<1>5. <<m, n>> \in Ends(failures[k])
  BY <1>2, <1>4
<1> QED  BY <1>1, <1>5

\* The fabric the baseline was measured on is symmetric, too.
LEMMA OriginalFacts ==
  ASSUME TypeOKSchedule
  PROVE  Original \in [Node -> SUBSET Node] /\ Symmetric(Original)
<1>1. ASSUME NEW n \in Node  PROVE Original[n] = {m \in Peers[n] : <<n, m>> \notin LostAtBaseline}
  BY DEF Original
<1>2. Original \in [Node -> SUBSET Node]
  <2>1. Original = [n \in Node |-> Original[n]]  BY DEF Original
  <2>2. ASSUME NEW n \in Node  PROVE Original[n] \in SUBSET Node
    <3>1. Peers[n] \subseteq Node  BY PeerFacts
    <3> QED  BY <1>1, <3>1
  <2> QED  BY <2>1, <2>2
<1>3. \A n, m \in Node : <<n, m>> \in LostAtBaseline => <<m, n>> \in LostAtBaseline
  BY LostBothWays
<1>4. ASSUME NEW n \in Node, NEW m \in Node, m \in Original[n]  PROVE n \in Original[m]
  <2>1. m \in Peers[n] /\ <<n, m>> \notin LostAtBaseline  BY <1>1, <1>4
  <2>2. n \in Peers[m]  BY <2>1, PeerFacts
  <2>3. <<m, n>> \notin LostAtBaseline  BY <1>3, <2>1
  <2> QED  BY <1>1, <2>2, <2>3
<1>5. Symmetric(Original)
  BY <1>4 DEF Symmetric
<1> QED  BY <1>2, <1>5

\* At the end of a visit its entries are the next hops of the baseline that still lead to the host.
LEMMA VisitSurvives ==
  ASSUME TypeOKBfs, TypeOKSchedule, RoutesInv, task = "routes", ~withHost, BaseMeasured(Hosts[source]),
         \A n \in Node : Live[n] \subseteq Original[n],
         DistancesSound, OnBaseline, ScannedStrict, i > Len(q)
  PROVE  Survives(nextHop, Hosts[source])
<1> DEFINE h == Hosts[source]
           D == baseDist[h]
           F == Forwards(h)
           f == [n \in Node |-> nextHop[n][h]]
           B == ShortestNextHops(h, Node \ Host, Original)
<1>1. /\ h \in Node /\ h \in Host /\ dis \in [Node -> Nat \cup {-1}]
      /\ D \in [Node -> Nat \cup {-1}] /\ D \in [Node -> Nat \cup {Unreached}]
      /\ nextHop \in [Node -> [Host -> SUBSET Node]] /\ q \in Seq(Node) /\ i \in Nat
  BY HostIsNode DEF TypeOKBfs, Unreached
<1>2. F = (Node \ Host) \cup {h} /\ F \subseteq Node
  BY <1>1 DEF Forwards, Through
<1>3. ASSUME NEW n \in Node
      PROVE  B[n] = {m \in Original[n] \cap F : D[m] # Unreached /\ D[n] = D[m] + 1}
  <2>1. Original \in [Node -> SUBSET Node] /\ Symmetric(Original)
    BY OriginalFacts
  <2>2. Measures(D, h, Node \ Host, Original)
    BY DEF BaseMeasured
  <2>3. h \in Node /\ (Node \ Host) \in SUBSET Node
    BY <1>1
  <2> HIDE DEF D, h
  <2>4. ShortestNextHops(h, Node \ Host, Original)[n] = OneCloser(D, h, Node \ Host, Original, n)
    BY <2>1, <2>2, <2>3, HopsMeasured
  <2> QED  BY <1>2, <2>4 DEF OneCloser
<1> HIDE DEF B, F, D
<1>4. ASSUME NEW n \in Node, NEW m \in nextHop[n][h]
      PROVE  /\ m \in F /\ m \in Live[n] /\ m \in Original[n] /\ Reached(m) /\ Reached(n)
             /\ D[m] # Unreached /\ D[n] = D[m] + 1
  <2>1. m \in F /\ m \in Node
    BY <1>2 DEF ScannedStrict, F
  <2>2. m \in Live[n] /\ m \in Original[n]
    BY <1>1 DEF RoutesInv, EntriesLive
  <2>3. dis[m] # Unreached /\ dis[n] = dis[m] + 1
    BY DEF RoutesInv, EntriesCloser
  <2>4. dis[n] # Unreached
    BY <1>1, <2>1, <2>3 DEF Unreached
  <2>5. D[m] = dis[m] /\ D[n] = dis[n]
    BY <2>1, <2>3, <2>4 DEF OnBaseline, Reached, BaseDistance, D
  <2> QED  BY <2>1, <2>2, <2>3, <2>4, <2>5 DEF Reached
<1>5. ASSUME NEW m \in Node, Reached(m), m # h  PROVE nextHop[m][h] # {}
  <2>1. PICK a \in 1..Len(q) : m \in Live[q[a]] /\ dis[m] = dis[q[a]] + 1
    BY <1>5 DEF DistancesSound
  <2>2. Scanned(a, m)
    BY <1>1, <2>1 DEF Scanned
  <2>3. BaseDistance(m) = dis[m]
    BY <1>5 DEF OnBaseline
  <2> QED  BY <2>1, <2>2, <2>3 DEF ScannedStrict
<1>6. ASSUME NEW m \in F, Reached(m), NEW n \in Node, m \in Live[n], D[n] = D[m] + 1
      PROVE  m \in nextHop[n][h]
  <2>1. PICK a \in 1..Len(q) : q[a] = m
    BY <1>6 DEF DistancesSound, F
  <2>2. n \in Live[m] /\ m \in Node
    BY <1>2, <1>6, LiveFacts
  <2>3. Scanned(a, n)
    BY <1>1, <2>1, <2>2 DEF Scanned
  <2>4. BaseDistance(n) = dis[q[a]] + 1
    BY <1>6, <2>1, <2>2 DEF OnBaseline, BaseDistance, D
  <2> QED  BY <2>1, <2>3, <2>4 DEF ScannedStrict
<1>7. ASSUME NEW n \in Node  PROVE f[n] = {m \in B[n] \cap Live[n] : m = h \/ f[m] # {}}
  <2>1. ASSUME NEW m \in f[n]  PROVE m \in B[n] \cap Live[n] /\ (m = h \/ f[m] # {})
    <3>1. m \in nextHop[n][h]  BY <2>1
    <3>2. m \in B[n] \cap Live[n] /\ Reached(m) /\ m \in Node
      BY <1>2, <1>3, <1>4, <3>1
    <3> QED  BY <1>5, <3>2
  <2>2. ASSUME NEW m \in B[n] \cap Live[n], m = h \/ f[m] # {}  PROVE m \in f[n]
    <3>1. m \in F /\ D[n] = D[m] + 1 /\ m \in Node
      BY <1>2, <1>3
    <3>2. Reached(m)
      <4>1. CASE m = h
        BY <4>1 DEF DistancesSound, Reached, Unreached
      <4>2. CASE f[m] # {}
        BY <1>4, <3>1, <4>2
      <4> QED  BY <2>2, <4>1, <4>2
    <3> QED  BY <1>6, <3>1, <3>2
  <2> QED  BY <2>1, <2>2
<1>8. LeadOn(f, h, B, Live)
  BY <1>7 DEF LeadOn
<1>9. \A n \in Node : \A m \in B[n] : m \in Node /\ D[m] # Unreached /\ D[n] = D[m] + 1
  BY <1>2, <1>3
<1> HIDE DEF f, h
<1>10. SurvivingNextHops(h, B, Live) = f
  BY <1>1, <1>8, <1>9, SurvivingIs
<1>11. \A n \in Node : f[n] = nextHop[n][h]
  BY DEF f
<1> QED  BY <1>10, <1>11 DEF Survives, B, h
-----------------------------------------------------------------------------
(* Part 15: the experiment with a baseline. *)

\* The options of an experiment stay, and with them what was lost beforehand.
LEMMA OptionsStay ==
  ASSUME [Next]_vars
  PROVE  /\ UNCHANGED <<routing, failures, random, preApply>>
         /\ LostAtBaseline' = LostAtBaseline /\ Original' = Original
         /\ \A k : LostBefore(k)' = LostBefore(k)
<1>1. UNCHANGED options
  BY DEF Next, Startup, PreApplyFailure, PreApplyDone, EnableStrictBaseline, CalculateRoutes,
         ScheduleFailures, RunEvent, ChangeEnd, LinkSet, CalculateStep, vars
<1>2. UNCHANGED <<routing, failures, random, preApply>>
  BY <1>1 DEF options
<1> QED  BY <1>2 DEF LostAtBaseline, Original, LostBefore, Ends

LEMMA NextOptions == OptionsInv /\ [Next]_vars => OptionsInv'
  BY OptionsStay DEF OptionsInv

LEMMA NextMode == TypeOK /\ ModeInv /\ [Next]_vars => ModeInv'
<1> SUFFICES ASSUME TypeOK, ModeInv, [Next]_vars  PROVE ModeInv'
  OBVIOUS
<1>0. routing' = routing
  BY OptionsStay
<1>1. CASE PreApplyFailure \/ ScheduleFailures \/ RunEvent \/ LinkSet \/ UNCHANGED vars
  <2>1. UNCHANGED <<strictBaseline, withHost, task>>
    BY <1>1 DEF PreApplyFailure, ScheduleFailures, RunEvent, LinkSet, vars, bfsVars
  <2>2. stage' = stage \/ (stage = "schedule" /\ stage' = "run" /\ task = "none")
    BY <1>1 DEF PreApplyFailure, ScheduleFailures, RunEvent, LinkSet, vars, progress, Quiet
  <2> QED  BY <1>0, <2>1, <2>2 DEF ModeInv
<1>2. CASE PreApplyDone
  <2>1. /\ UNCHANGED <<strictBaseline, withHost, task>> /\ stage = "preApply" /\ task = "none"
        /\ stage' = IF routing = "NodeBfsStrict" THEN "baseline" ELSE "routes"
    BY <1>2 DEF PreApplyDone, bfsVars, Quiet
  <2> QED  BY <1>0, <2>1 DEF ModeInv
<1>3. CASE EnableStrictBaseline
  BY <1>0, <1>3 DEF EnableStrictBaseline, BeginBaseline, ModeInv
<1>4. CASE CalculateRoutes
  <2>1. /\ UNCHANGED strictBaseline /\ task' = "routes" /\ stage = "routes" /\ stage' = "schedule"
    BY <1>4 DEF CalculateRoutes, BeginRoutes
  <2>2. withHost' <=> routing = "NodeBfsWithHost"
    BY <1>4 DEF CalculateRoutes, BeginRoutes
  <2> QED  BY <1>0, <2>1, <2>2 DEF ModeInv
<1>5. CASE ChangeEnd
  <2>1. UNCHANGED <<strictBaseline, withHost, stage>> /\ task = "none" /\ task' \in {"none", "routes"}
    BY <1>5 DEF ChangeEnd, SetInterface, BeginRoutes, progress
  <2> QED  BY <1>0, <2>1 DEF ModeInv
<1>6. CASE CalculateStep
  <2>1. UNCHANGED <<strictBaseline, withHost, stage>> /\ task' \in {task, "none"}
    BY <1>6 DEF CalculateStep, Calculate, ScanDevice, NextNode, EndVisit, progress
  <2> QED  BY <1>0, <2>1 DEF ModeInv
<1> QED  BY <1>1, <1>2, <1>3, <1>4, <1>5, <1>6 DEF Next, Startup

\* What the file has taken down before the baseline is measured.
LEMMA PreApplyLost ==
  ASSUME TypeOK, LostInv, PreApplyFailure
  PROVE  LostInv'
<1> DEFINE l == failures[applied + 1].link
           b == <<l[2], l[1]>>
<1>1. /\ stage = "preApply" /\ stage' = "preApply" /\ ~call.active /\ preApply /\ preApply'
      /\ applied < Len(failures) /\ applied' = applied + 1 /\ interfaceDown' = interfaceDown
      /\ failures' = failures /\ applied \in Nat
      /\ call' = [active |-> TRUE, up |-> FALSE, ends |-> <<l, b>>]
  BY DEF PreApplyFailure, SetLink, Quiet, options, bfsVars, TypeOK, TypeOKSchedule
<1>2. LostBefore(applied + 1) = LostBefore(applied) \cup {l, b}
  <2>1. Ends(failures[applied + 1]) = {l, b}
    BY DEF Ends
  <2>2. 1..(applied + 1) = 1..applied \cup {applied + 1}
    BY <1>1
  <2> HIDE DEF l, b
  <2> QED  BY <2>1, <2>2 DEF LostBefore
<1>3. (LostBefore(applied))' = LostBefore(applied + 1)
  BY <1>1 DEF LostBefore, Ends
<1> HIDE DEF l, b
<1>4. call'.active /\ ~call'.up /\ call'.ends = <<l, b>>
  BY <1>1
<1>5. ASSUME NEW n \in Node, NEW m \in Node
      PROVE  /\ ToBeChanged(n, m)' <=> <<n, m>> \in {l, b}
             /\ m \in interfaceDown[n] <=> <<n, m>> \in LostBefore(applied)
  <2>1. ToBeChanged(n, m)' <=> <<n, m>> \in {l, b}
    BY <1>4 DEF ToBeChanged
  <2>2. ~ToBeChanged(n, m)
    BY <1>1 DEF ToBeChanged
  <2> QED  BY <1>1, <2>1, <2>2 DEF LostInv
<1> QED  BY <1>1, <1>2, <1>3, <1>4, <1>5 DEF LostInv

\* All of the file has, or none of it.
LEMMA PreApplyDoneLost ==
  ASSUME TypeOK, LostInv, PreApplyDone
  PROVE  LostInv'
<1>1. /\ stage = "preApply" /\ stage' \in {"baseline", "routes"} /\ ~call.active
      /\ ~preApply \/ applied = Len(failures)
      /\ UNCHANGED <<interfaceDown, failures, preApply, call>>
  BY DEF PreApplyDone, Quiet, options, bfsVars
<1>2. LostBefore(applied) = LostAtBaseline
  <2>1. CASE preApply
    <3>1. LostAtBaseline = UNION {Ends(failures[k]) : k \in DOMAIN failures}
      BY <2>1 DEF LostAtBaseline, Ends
    <3>2. DOMAIN failures = 1..applied
      BY <1>1, <2>1 DEF TypeOK, TypeOKSchedule
    <3> QED  BY <3>1, <3>2 DEF LostBefore
  <2>2. CASE ~preApply
    <3>1. applied = 0  BY <1>1, <2>2 DEF LostInv
    <3> QED  BY <2>2, <3>1 DEF LostBefore, LostAtBaseline
  <2> QED  BY <2>1, <2>2
<1>3. LostAtBaseline' = LostAtBaseline
  BY <1>1 DEF LostAtBaseline
<1>4. \A n, m \in Node : m \in interfaceDown[n] <=> <<n, m>> \in LostBefore(applied)
  BY <1>1 DEF LostInv, ToBeChanged
<1> QED  BY <1>1, <1>2, <1>3, <1>4 DEF LostInv

\* Nothing recovers what was lost beforehand: the file has been applied, and random failures stay.
LEMMA RunEventLost ==
  ASSUME TypeOK, OptionsInv, LostInv, RunEvent
  PROVE  LostInv'
<1>1. stage = "run" /\ UNCHANGED <<stage, interfaceDown, failures, preApply, random>>
  BY DEF RunEvent, options, bfsVars
<1>2. PICK e \in Pending : SetLink(Entries[e[1]].link, e[2])
  BY DEF RunEvent
<1>3. e \in Events /\ call'.up = e[2]
  BY <1>2 DEF Pending, SetLink
<1>4. preApply => ~e[2]
  <2> SUFFICES ASSUME preApply, e[2]  PROVE FALSE
    OBVIOUS
  <2>1. random \in Seq(FailureEntry)  BY DEF TypeOK, TypeOKSchedule
  <2>2. Entries = random
    BY <2>1 DEF Entries
  <2>3. e[1] \in DOMAIN random /\ random[e[1]].until # Never
    BY <1>3, <2>1, <2>2, EventFacts DEF TypeOK
  <2>4. \A k \in DOMAIN random : random[k].until = Never
    BY ExperimentsAssumption DEF OptionsInv
  <2> QED  BY <2>3, <2>4
<1>5. LostAtBaseline' = LostAtBaseline
  BY <1>1 DEF LostAtBaseline
<1> QED  BY <1>1, <1>3, <1>4, <1>5 DEF LostInv

LEMMA ChangeEndLost ==
  ASSUME TypeOK, LostInv, ChangeEnd
  PROVE  LostInv'
<1> DEFINE x == Head(call.ends)
<1>1. /\ call.active /\ call.ends # <<>>
      /\ call' = [call EXCEPT !.ends = Tail(@)]
      /\ UNCHANGED <<failures, preApply, stage, applied>>
      /\ interfaceDown' = [interfaceDown EXCEPT ![x[1]] = IF call.up THEN @ \ {x[2]} ELSE @ \cup {x[2]}]
  BY DEF ChangeEnd, SetInterface, options, progress
<1>2. /\ call \in [active : BOOLEAN, up : BOOLEAN, ends : Seq(Node \X Node)]
      /\ interfaceDown \in [Node -> SUBSET Node]
  BY DEF TypeOK, TypeOKSchedule, TypeOKBfs
<1>3. call'.active /\ call'.up = call.up /\ call'.ends = Tail(call.ends)
  BY <1>1, <1>2
<1>4. x \in Node \X Node
  BY <1>1, <1>2
<1>5. LostAtBaseline' = LostAtBaseline /\ LostBefore(applied)' = LostBefore(applied)
  BY <1>1 DEF LostAtBaseline, LostBefore, Ends
<1>6. ASSUME ~call.up, NEW n \in Node, NEW m \in Node
      PROVE  m \in interfaceDown'[n] <=> m \in interfaceDown[n] \/ <<n, m>> = x
  <2>1. x = <<x[1], x[2]>> /\ x[1] \in Node
    BY <1>4
  <2> HIDE DEF x
  <2> QED  BY <1>1, <1>2, <1>6, <2>1
<1>7. ASSUME NEW n \in Node, NEW m \in Node
      PROVE  ToBeChanged(n, m) <=> ToBeChanged(n, m)' \/ <<n, m>> = x
  <2>1. /\ DOMAIN call.ends = 1..Len(call.ends) /\ 1 \in DOMAIN call.ends /\ x = call.ends[1]
        /\ DOMAIN Tail(call.ends) = 1..(Len(call.ends) - 1) /\ Len(call.ends) \in Nat
        /\ \A k \in 1..(Len(call.ends) - 1) : Tail(call.ends)[k] = call.ends[k + 1]
    BY <1>1, <1>2
  <2> HIDE DEF x
  <2>2. ASSUME ToBeChanged(n, m)'  PROVE ToBeChanged(n, m)
    <3>1. PICK k \in DOMAIN Tail(call.ends) : Tail(call.ends)[k] = <<n, m>>
      BY <1>3, <2>2 DEF ToBeChanged
    <3>2. k + 1 \in DOMAIN call.ends /\ call.ends[k + 1] = <<n, m>>
      BY <2>1, <3>1
    <3> QED  BY <1>1, <3>2 DEF ToBeChanged
  <2>3. ASSUME <<n, m>> = x  PROVE ToBeChanged(n, m)
    BY <1>1, <2>1, <2>3 DEF ToBeChanged
  <2>4. ASSUME ToBeChanged(n, m), <<n, m>> # x  PROVE ToBeChanged(n, m)'
    <3>1. PICK k \in DOMAIN call.ends : call.ends[k] = <<n, m>>
      BY <2>4 DEF ToBeChanged
    <3>2. k - 1 \in DOMAIN Tail(call.ends) /\ Tail(call.ends)[k - 1] = <<n, m>>
      BY <2>1, <2>4, <3>1
    <3> QED  BY <1>3, <3>2 DEF ToBeChanged
  <2> QED  BY <2>2, <2>3, <2>4
<1> HIDE DEF x
<1>8. CASE stage = "preApply"
  <2>1. /\ preApply \/ applied = 0
        /\ ~call.up
        /\ \A n, m \in Node : /\ ToBeChanged(n, m) => <<n, m>> \in LostBefore(applied)
                              /\ m \in interfaceDown[n] => <<n, m>> \in LostBefore(applied)
                              /\ <<n, m>> \in LostBefore(applied) =>
                                   m \in interfaceDown[n] \/ ToBeChanged(n, m)
    BY <1>1, <1>8 DEF LostInv
  <2>2. \A n, m \in Node : /\ ToBeChanged(n, m)' => <<n, m>> \in LostBefore(applied)
                           /\ m \in interfaceDown'[n] => <<n, m>> \in LostBefore(applied)
                           /\ <<n, m>> \in LostBefore(applied) =>
                                m \in interfaceDown'[n] \/ ToBeChanged(n, m)'
    BY <1>6, <1>7, <2>1
  <2> QED  BY <1>1, <1>3, <1>5, <1>8, <2>1, <2>2 DEF LostInv
<1>9. CASE stage = "run"
  <2>1. /\ preApply => ~call.up
        /\ \A n, m \in Node : <<n, m>> \in LostAtBaseline => m \in interfaceDown[n]
    BY <1>1, <1>9 DEF LostInv
  <2>2. \A n, m \in Node : <<n, m>> \in LostAtBaseline => m \in interfaceDown'[n]
    <3>1. CASE preApply  BY <1>6, <2>1, <3>1
    <3>2. CASE ~preApply  BY <3>2 DEF LostAtBaseline
    <3> QED  BY <3>1, <3>2
  <2> QED  BY <1>1, <1>3, <1>5, <1>9, <2>1, <2>2 DEF LostInv
<1>10. CASE stage \notin {"preApply", "run"}
  BY <1>1, <1>10 DEF LostInv, TypeOK, TypeOKSchedule
<1> QED  BY <1>8, <1>9, <1>10

LEMMA NextLost == TypeOK /\ OptionsInv /\ LostInv /\ [Next]_vars => LostInv'
<1> SUFFICES ASSUME TypeOK, OptionsInv, LostInv, [Next]_vars  PROVE LostInv'
  OBVIOUS
<1>0. /\ preApply' = preApply /\ LostAtBaseline' = LostAtBaseline
      /\ \A k : LostBefore(k)' = LostBefore(k)
  BY OptionsStay
<1>1. CASE EnableStrictBaseline \/ CalculateRoutes
  <2>1. /\ stage \in {"baseline", "routes"} /\ stage' \in {"routes", "schedule"}
        /\ UNCHANGED <<interfaceDown, call>>
    BY <1>1 DEF EnableStrictBaseline, BeginBaseline, CalculateRoutes
  <2> QED  BY <1>0, <2>1 DEF LostInv
<1>2. CASE ScheduleFailures
  <2>1. stage = "schedule" /\ stage' = "run" /\ UNCHANGED <<interfaceDown, call>>
    BY <1>2 DEF ScheduleFailures, bfsVars
  <2> QED  BY <1>0, <2>1 DEF LostInv
<1>3. CASE LinkSet
  <2>1. /\ UNCHANGED <<stage, applied, interfaceDown, failures>> /\ ~call'.active /\ call.active
        /\ call.ends = <<>>
    BY <1>3 DEF LinkSet, NoCall, progress, bfsVars, options
  <2>2. \A n, m \in Node : ~ToBeChanged(n, m) /\ ~ToBeChanged(n, m)'
    BY <2>1 DEF ToBeChanged
  <2>3. (LostBefore(applied))' = LostBefore(applied)
    BY <2>1 DEF LostBefore, Ends
  <2> QED  BY <1>0, <2>1, <2>2, <2>3 DEF LostInv
<1>4. CASE CalculateStep \/ UNCHANGED vars
  <2>1. UNCHANGED <<stage, applied, interfaceDown, call, failures>>
    BY <1>4 DEF CalculateStep, Calculate, ScanDevice, NextNode, EndVisit, progress, vars, bfsVars,
                options
  <2>2. \A n, m \in Node : ToBeChanged(n, m)' <=> ToBeChanged(n, m)
    BY <2>1 DEF ToBeChanged
  <2>3. (LostBefore(applied))' = LostBefore(applied)
    BY <2>1 DEF LostBefore, Ends
  <2> QED  BY <1>0, <2>1, <2>2, <2>3 DEF LostInv
<1> QED
  BY <1>1, <1>2, <1>3, <1>4, PreApplyLost, PreApplyDoneLost, RunEventLost, ChangeEndLost
    DEF Next, Startup

\* What is live when the baseline is measured is the fabric as it was, and never more later.
LEMMA LiveOriginal ==
  ASSUME TypeOK, LostInv
  PROVE  /\ stage \in {"baseline", "routes", "schedule"} => Live = Original
         /\ stage # "preApply" => \A n \in Node : Live[n] \subseteq Original[n]
<1>1. \A n, m \in Node : <<n, m>> \in LostAtBaseline => <<m, n>> \in LostAtBaseline
  BY LostBothWays DEF TypeOK
<1>2. ASSUME NEW n \in Node  PROVE Original[n] = {m \in Peers[n] : <<n, m>> \notin LostAtBaseline}
  BY DEF Original
<1>3. ASSUME NEW n \in Node  PROVE Live[n] = {m \in Peers[n] : LinkUp(n, m)}
  BY DEF Live
<1>4. ASSUME stage # "preApply", NEW n \in Node  PROVE Live[n] \subseteq Original[n]
  <2>1. stage \in {"baseline", "routes", "schedule", "run"}
    BY <1>4 DEF TypeOK, TypeOKSchedule
  <2>2. \A m \in Node : <<n, m>> \in LostAtBaseline => m \in interfaceDown[n]
    BY <2>1 DEF LostInv
  <2>3. ASSUME NEW m \in Live[n]  PROVE m \in Original[n]
    <3>1. m \in Peers[n] /\ m \notin interfaceDown[n]  BY <1>3, <2>3 DEF LinkUp
    <3>2. Peers[n] \subseteq Node  BY PeerFacts
    <3> QED  BY <1>2, <2>2, <3>1, <3>2
  <2> QED  BY <2>3
<1>5. ASSUME stage \in {"baseline", "routes", "schedule"}  PROVE Live = Original
  <2>1. \A n, m \in Node : m \in interfaceDown[n] <=> <<n, m>> \in LostAtBaseline
    BY <1>5 DEF LostInv
  <2>2. ASSUME NEW n \in Node  PROVE Live[n] = Original[n]
    <3>1. Peers[n] \subseteq Node  BY PeerFacts
    <3>2. ASSUME NEW m \in Peers[n]  PROVE LinkUp(n, m) <=> <<n, m>> \notin LostAtBaseline
      BY <1>1, <2>1, <3>1 DEF LinkUp
    <3> QED  BY <1>2, <1>3, <3>2
  <2>3. Live = [n \in Node |-> Live[n]] /\ Original = [n \in Node |-> Original[n]]
    BY DEF Live, Original
  <2> QED  BY <2>2, <2>3
<1> QED  BY <1>4, <1>5

\* Visits that measure the baseline.
LEMMA CalculateBaseline ==
  ASSUME IInv, ModeInv, LostInv, BaselineInv, CalculateStep
  PROVE  BaselineInv'
<1>1. /\ TypeOKBfs /\ VisitInv /\ task \in {"baseline", "routes"} /\ Calculate
      /\ source \in 1..Len(Hosts) /\ baseDist \in [Host -> [Node -> Nat \cup {Unreached}]]
      /\ UNCHANGED <<interfaceDown, strictBaseline, withHost>>
  BY DEF IInv, TypeOK, TypeOKBfs, CalculateStep, Calculate, ScanDevice, NextNode, EndVisit
<1> SUFFICES ASSUME strictBaseline  PROVE BaselineInv'
  BY <1>1 DEF BaselineInv
<1>2. Original' = Original
  BY OptionsStay DEF Next
<1>3. \A h : BaseMeasured(h)' <=> Measures(baseDist'[h], h, Node \ Host, Original)
  BY <1>2 DEF BaseMeasured
<1>4. CASE task = "routes"
  <2>1. baseDist' = baseDist /\ task' \in {"routes", "none"}
    BY <1>1, <1>4 DEF Calculate, ScanDevice, NextNode, EndVisit
  <2> QED  BY <1>3, <1>4, <2>1 DEF BaselineInv, BaseMeasured
<1>5. CASE task = "baseline"
  <2>1. ~withHost /\ stage = "routes"
    BY <1>5 DEF ModeInv
  <2>2. Through = Node \ Host /\ Live = Original
    BY <2>1, LiveOriginal DEF Through, IInv
  <2>3. DistancesSound /\ ScannedDone /\ \A k \in 1..(source - 1) : BaseMeasured(Hosts[k])
    BY <1>5 DEF BaselineInv
  <2>4. CASE ScanDevice
    <3>1. UNCHANGED <<task, source, baseDist>>
      BY <2>4 DEF ScanDevice
    <3>2. DistancesSound' /\ ScannedDone'
      <4>1. ~useBaseline  BY <1>5 DEF useBaseline
      <4> QED  BY <1>1, <2>1, <2>3, <2>4, <4>1, ScanShortest
    <3> QED  BY <1>3, <1>5, <2>3, <3>1, <3>2 DEF BaselineInv, BaseMeasured
  <2>5. CASE NextNode
    <3>1. UNCHANGED <<task, source, baseDist>>
      BY <2>5 DEF NextNode
    <3>2. DistancesSound' /\ ScannedDone'
      BY <1>1, <2>3, <2>5, NextNodeShortest
    <3> QED  BY <1>3, <1>5, <2>3, <3>1, <3>2 DEF BaselineInv, BaseMeasured
  <2>6. CASE EndVisit
    <3>1. baseDist' = [baseDist EXCEPT ![Hosts[source]] = dis]
      BY <1>5, <2>6 DEF EndVisit
    <3>2. Measures(dis, Hosts[source], Node \ Host, Original)
      <4>1. i > Len(q)  BY <2>6 DEF EndVisit
      <4> QED  BY <1>1, <1>5, <2>2, <2>3, <4>1, VisitMeasures
    <3>3. ASSUME NEW k \in 1..source  PROVE BaseMeasured(Hosts[k])'
      <4>1. k \in 1..Len(Hosts) /\ Hosts[k] \in Host /\ Hosts[source] \in Host
        BY <1>1, HostIsNode
      <4>2. CASE k = source
        <5>1. baseDist'[Hosts[k]] = dis
          BY <1>1, <3>1, <4>1, <4>2
        <5> QED  BY <1>3, <3>2, <4>2, <5>1
      <4>3. CASE k # source
        <5>1. k \in 1..(source - 1) /\ Hosts[k] # Hosts[source]
          BY <1>1, <4>1, <4>3, BfsAssumption
        <5>2. baseDist'[Hosts[k]] = baseDist[Hosts[k]]
          BY <1>1, <3>1, <4>1, <5>1
        <5> QED  BY <1>3, <2>3, <5>1, <5>2 DEF BaseMeasured
      <4> QED  BY <4>2, <4>3
    <3>4. CASE source < Len(Hosts)
      <4>1. BeginVisit(source + 1) /\ source' = source + 1 /\ task' = "baseline"
        BY <1>5, <2>6, <3>4 DEF EndVisit, BeginVisit
      <4>2. source + 1 \in 1..Len(Hosts)
        BY <1>1, <3>4, BfsAssumption
      <4>3. DistancesSound' /\ ScannedDone'
        BY <4>1, <4>2, BeginShortest
      <4>4. (\A k \in 1..(source - 1) : BaseMeasured(Hosts[k]))'
        <5>1. source' - 1 = source  BY <1>1, <4>1
        <5> QED  BY <3>3, <5>1
      <4> QED  BY <4>1, <4>3, <4>4 DEF BaselineInv
    <3>5. CASE ~(source < Len(Hosts))
      <4>1. task' = "none" /\ source = Len(Hosts)
        BY <1>1, <2>6, <3>5, BfsAssumption DEF EndVisit
      <4>2. (\A h \in Host : BaseMeasured(h))'
        BY <3>3, <4>1, BfsAssumption DEF Host
      <4> QED  BY <4>1, <4>2 DEF BaselineInv
    <3> QED  BY <3>4, <3>5
  <2> QED  BY <1>1, <2>4, <2>5, <2>6 DEF Calculate
<1> QED  BY <1>1, <1>4, <1>5

LEMMA NextBaseline == IInv /\ ModeInv /\ LostInv /\ BaselineInv /\ [Next]_vars => BaselineInv'
<1> SUFFICES ASSUME IInv, ModeInv, LostInv, BaselineInv, [Next]_vars  PROVE BaselineInv'
  OBVIOUS
<1>1. Original' = Original
  BY OptionsStay
<1>2. \A h : BaseMeasured(h)' <=> Measures(baseDist'[h], h, Node \ Host, Original)
  BY <1>1 DEF BaseMeasured
<1>3. CASE PreApplyFailure \/ PreApplyDone \/ ScheduleFailures \/ RunEvent \/ LinkSet
             \/ UNCHANGED vars
  <2>1. UNCHANGED bfsVars
    BY <1>3 DEF PreApplyFailure, PreApplyDone, ScheduleFailures, RunEvent, LinkSet, vars
  <2>2. /\ UNCHANGED <<strictBaseline, baseDist, task, source>>
        /\ DistancesSound' <=> DistancesSound
        /\ ScannedDone' <=> ScannedDone
    BY <2>1, VisitUnchanged
  <2> QED  BY <1>2, <2>2 DEF BaselineInv, BaseMeasured
<1>4. CASE EnableStrictBaseline
  <2>1. task' = "baseline" /\ BeginVisit(1) /\ source' = 1
    BY <1>4 DEF EnableStrictBaseline, BeginBaseline, BeginVisit
  <2>2. 1 \in 1..Len(Hosts)
    BY BfsAssumption
  <2>3. DistancesSound' /\ ScannedDone'
    BY <2>1, <2>2, BeginShortest
  <2> QED  BY <2>1, <2>3 DEF BaselineInv
<1>5. CASE CalculateRoutes \/ ChangeEnd
  <2>1. /\ UNCHANGED <<strictBaseline, baseDist>> /\ task = "none" /\ task' \in {"none", "routes"}
    BY <1>5 DEF CalculateRoutes, ChangeEnd, SetInterface, BeginRoutes, Quiet
  <2> QED  BY <1>2, <2>1 DEF BaselineInv, BaseMeasured
<1>6. CASE CalculateStep
  BY <1>6, CalculateBaseline DEF CalculateStep
<1> QED  BY <1>3, <1>4, <1>5, <1>6 DEF Next, Startup

\* Visits that keep to the baseline.
LEMMA BeginRoutesStrict ==
  ASSUME NEW through, BeginRoutes(through), strictBaseline => \A h \in Host : BaseMeasured(h)
  PROVE  StrictInv'
<1>1. /\ task' = "routes" /\ nextHop' = NoEntries /\ BeginVisit(1) /\ baseDist' = baseDist
      /\ strictBaseline' = strictBaseline
  BY DEF BeginRoutes
<1>2. 1 \in 1..Len(Hosts) /\ Hosts[1] \in Host  BY BfsAssumption, HostIsNode
<1>3. source' = 1  BY <1>1 DEF BeginVisit
<1>4. \A n \in Node : nextHop'[n][Hosts[1]] = {}  BY <1>1, <1>2 DEF NoEntries
<1>5. strictBaseline => DistancesSound' /\ OnBaseline' /\ ScannedStrict'
  BY <1>1, <1>2, <1>4, BeginStrict
<1> QED  BY <1>1, <1>3, <1>5 DEF StrictInv

LEMMA CalculateStrict ==
  ASSUME IInv, ModeInv, LostInv, BaselineInv, StrictInv, CalculateStep
  PROVE  StrictInv'
<1>1. /\ TypeOK /\ TypeOKBfs /\ TypeOKSchedule /\ VisitInv /\ RoutesInv
      /\ task \in {"baseline", "routes"} /\ source \in 1..Len(Hosts) /\ Calculate
      /\ UNCHANGED <<interfaceDown, strictBaseline, withHost>>
  BY DEF IInv, TypeOK, TypeOKBfs, CalculateStep, Calculate, ScanDevice, NextNode, EndVisit
<1> SUFFICES ASSUME strictBaseline  PROVE StrictInv'
  BY <1>1 DEF StrictInv
<1>2. Original' = Original /\ Live' = Live
  <2>1. Original' = Original  BY OptionsStay DEF Next
  <2> QED  BY <1>1, <2>1 DEF Live, LinkUp
<1>3. ASSUME NEW h
      PROVE  (Survives(nextHop, h)' <=> Survives(nextHop', h)) /\ (Survives(rtTable, h)' <=> Survives(rtTable', h))
  BY <1>2 DEF Survives
<1>4. CASE task = "baseline"
  <2>1. ~topoKnown' /\ task' \in {"baseline", "none"}
    BY <1>1, <1>4 DEF Calculate, ScanDevice, NextNode, EndVisit, tables, IInv, StageInv
  <2> QED  BY <2>1 DEF StrictInv
<1>5. CASE task = "routes"
  <2>1. /\ DistancesSound /\ OnBaseline /\ ScannedStrict
        /\ \A k \in 1..(source - 1) : Survives(nextHop, Hosts[k])
    BY <1>5 DEF StrictInv
  <2>2. ~withHost /\ stage # "preApply"
    BY DEF ModeInv
  <2>3. \A h \in Host : BaseMeasured(h)
    BY <1>5 DEF BaselineInv
  <2>4. \A n \in Node : Live[n] \subseteq Original[n]
    BY <1>1, <2>2, LiveOriginal
  <2>5. Hosts[source] \in Host /\ BaseMeasured(Hosts[source])
    BY <1>1, <2>3, HostIsNode
  <2>6. CASE ScanDevice
    <3>1. UNCHANGED <<task, source>>
      BY <2>6 DEF ScanDevice
    <3>2. DistancesSound' /\ OnBaseline' /\ ScannedStrict'
      BY <1>1, <1>5, <2>1, <2>2, <2>4, <2>5, <2>6, ScanStrict
    <3>3. ASSUME NEW k \in 1..(source - 1)  PROVE Survives(nextHop, Hosts[k])'
      <4>1. Hosts[k] # Hosts[source] /\ Hosts[k] \in Host
        BY <1>1, HostIsNode, BfsAssumption
      <4>2. \A n \in Node : nextHop'[n][Hosts[k]] = nextHop[n][Hosts[k]]
        BY <1>1, <2>6, <4>1, ScanOthers
      <4>3. Survives(nextHop', Hosts[k])
        BY <2>1, <4>2 DEF Survives
      <4> QED  BY <1>3, <4>3
    <3> QED  BY <1>5, <3>1, <3>2, <3>3 DEF StrictInv
  <2>7. CASE NextNode
    <3>1. UNCHANGED <<task, source, nextHop>>
      BY <2>7 DEF NextNode
    <3>2. DistancesSound' /\ OnBaseline' /\ ScannedStrict'
      BY <1>1, <2>1, <2>7, NextNodeStrict
    <3>3. (\A k \in 1..(source - 1) : Survives(nextHop, Hosts[k]))'
      BY <1>3, <2>1, <3>1
    <3> QED  BY <1>5, <3>1, <3>2, <3>3 DEF StrictInv
  <2>8. CASE EndVisit
    <3>1. \A k \in 1..source : Survives(nextHop, Hosts[k])
      <4>1. i > Len(q)  BY <2>8 DEF EndVisit
      <4>2. Survives(nextHop, Hosts[source])
        BY <1>1, <1>5, <2>1, <2>2, <2>4, <2>5, <4>1, VisitSurvives
      <4> QED  BY <1>1, <2>1, <4>2
    <3>2. nextHop' = nextHop /\ baseDist' = baseDist
      BY <1>5, <2>8 DEF EndVisit
    <3>3. CASE source < Len(Hosts)
      <4>1. BeginVisit(source + 1) /\ source' = source + 1 /\ task' = task
        BY <2>8, <3>3 DEF EndVisit, BeginVisit
      <4>2. source + 1 \in 1..Len(Hosts) /\ Len(Hosts) \in Nat
        BY <1>1, <3>3, BfsAssumption
      <4>3. \A n \in Node : nextHop'[n][Hosts[source + 1]] = {}
        <5>1. source + 1 \in (source + 1)..Len(Hosts)  BY <1>1, <4>2
        <5> QED  BY <1>1, <1>5, <3>2, <5>1 DEF RoutesInv, EntriesRanked
      <4>4. DistancesSound' /\ OnBaseline' /\ ScannedStrict'
        <5>1. BaseMeasured(Hosts[source + 1])  BY <2>3, <4>2, HostIsNode
        <5> QED  BY <3>2, <4>1, <4>2, <4>3, <5>1, BeginStrict
      <4>5. (\A k \in 1..(source - 1) : Survives(nextHop, Hosts[k]))'
        <5>1. source' - 1 = source  BY <1>1, <4>1
        <5> QED  BY <1>3, <3>1, <3>2, <5>1
      <4> QED  BY <1>5, <4>1, <4>4, <4>5 DEF StrictInv
    <3>4. CASE ~(source < Len(Hosts))
      <4>1. task' = "none" /\ source = Len(Hosts) /\ rtTable' = nextHop
        BY <1>1, <1>5, <2>8, <3>4, BfsAssumption DEF EndVisit
      <4>2. \A h \in Host : Survives(nextHop, h)
        BY <3>1, <4>1, BfsAssumption DEF Host
      <4>3. (\A h \in Host : Survives(rtTable, h))'
        BY <1>3, <4>1, <4>2
      <4> QED  BY <4>1, <4>3 DEF StrictInv
    <3> QED  BY <3>3, <3>4
  <2> QED  BY <1>1, <2>6, <2>7, <2>8 DEF Calculate
<1> QED  BY <1>1, <1>4, <1>5

LEMMA NextStrict ==
  IInv /\ ModeInv /\ LostInv /\ BaselineInv /\ StrictInv /\ [Next]_vars => StrictInv'
<1> SUFFICES ASSUME IInv, ModeInv, LostInv, BaselineInv, StrictInv, [Next]_vars
             PROVE  StrictInv'
  OBVIOUS
<1>1. Original' = Original
  BY OptionsStay
<1>2. CASE PreApplyFailure \/ PreApplyDone \/ ScheduleFailures \/ RunEvent \/ LinkSet
             \/ UNCHANGED vars
  <2>1. UNCHANGED bfsVars
    BY <1>2 DEF PreApplyFailure, PreApplyDone, ScheduleFailures, RunEvent, LinkSet, vars
  <2>2. /\ UNCHANGED <<interfaceDown, rtTable, topoKnown, nextHop, strictBaseline, withHost,
                       baseDist, task, source, q, dis, i, j>>
        /\ Live' = Live /\ Through' = Through
        /\ DistancesSound' <=> DistancesSound
    BY <2>1, VisitUnchanged
  <2>3. OnBaseline' <=> OnBaseline
    BY <2>2 DEF OnBaseline, Reached, BaseDistance
  <2>4. ScannedStrict' <=> ScannedStrict
    BY <2>2 DEF ScannedStrict, Scanned, Reached, BaseDistance, Forwards
  <2>5. \A h : (Survives(nextHop, h)' <=> Survives(nextHop, h)) /\ (Survives(rtTable, h)' <=> Survives(rtTable, h))
    BY <1>1, <2>2 DEF Survives
  <2> QED  BY <2>2, <2>3, <2>4, <2>5 DEF StrictInv
<1>3. CASE EnableStrictBaseline
  <2>1. task' = "baseline"
    BY <1>3 DEF EnableStrictBaseline, BeginBaseline
  <2> QED  BY <2>1 DEF StrictInv
<1>4. task = "none" /\ strictBaseline => \A h \in Host : BaseMeasured(h)
  BY DEF BaselineInv
<1>5. CASE CalculateRoutes
  BY <1>4, <1>5, BeginRoutesStrict DEF CalculateRoutes, Quiet
<1>6. CASE ChangeEnd
  <2>1. PICK n, m, up : SetInterface(n, m, up, stage = "preApply")
    BY <1>6 DEF ChangeEnd
  <2>2. CASE topoKnown /\ stage # "preApply"
    BY <1>4, <2>1, <2>2, BeginRoutesStrict DEF SetInterface
  <2>3. CASE ~(topoKnown /\ stage # "preApply")
    <3>1. ~topoKnown
      BY <2>3 DEF IInv, StageInv
    <3>2. task' = "none" /\ topoKnown' = topoKnown
      BY <2>1, <2>3 DEF SetInterface, tables
    <3> QED  BY <3>1, <3>2 DEF StrictInv
  <2> QED  BY <2>2, <2>3
<1>7. CASE CalculateStep
  BY <1>7, CalculateStrict
<1> QED  BY <1>2, <1>3, <1>5, <1>6, <1>7 DEF Next, Startup

LEMMA InitBase == Init => BaseInv
<1> SUFFICES ASSUME Init  PROVE BaseInv
  OBVIOUS
<1>1. /\ stage = "preApply" /\ applied = 0 /\ call = NoCall /\ task = "none" /\ ~topoKnown
      /\ ~strictBaseline /\ ~withHost /\ interfaceDown = [n \in Node |-> {}]
  BY DEF Init, InitBfs
<1>2. OptionsInv
  BY DEF Init, OptionsInv
<1>3. LostInv
  <2>1. ~call.active /\ LostBefore(applied) = {}
    BY <1>1 DEF NoCall, LostBefore
  <2> QED  BY <1>1, <2>1 DEF LostInv, ToBeChanged
<1> QED  BY <1>1, <1>2, <1>3 DEF BaseInv, ModeInv, BaselineInv, StrictInv

LEMMA NextBase == IInv /\ BaseInv /\ [Next]_vars => BaseInv'
  BY NextOptions, NextMode, NextLost, NextBaseline, NextStrict DEF BaseInv, IInv

\* With a baseline the tables hold after every event of every schedule exactly those shortest paths
\* of the fabric as it was when the routes were first computed that are still whole, failures
\* applied beforehand included: no visit finds a node farther away than it was, and none misses it.
THEOREM TablesStrict == Spec => []StrictTables
<1>1. BaseInv => StrictTables
  <2> SUFFICES ASSUME BaseInv, topoKnown, Quiet, strictBaseline, NEW h \in Host
               PROVE  \A n \in Node : rtTable[n][h] =
                        SurvivingNextHops(h, ShortestNextHops(h, Node \ Host, Original), Live)[n]
    BY Zenon DEF StrictTables, Original
  <2> QED  BY DEF BaseInv, StrictInv, Survives, Quiet
<1>2. Spec => [](IInv /\ BaseInv)
  BY InitIInv, NextIInv, InitBase, NextBase, PTL DEF Spec
<1> QED  BY <1>1, <1>2, PTL
-----------------------------------------------------------------------------
(* Part 16: the events, their inductive invariants. *)

\* What the events of the schedule have done so far and what is left of them.
EventOrder ==
  /\ stage # "run" => executed = {} /\ clock = 0
  /\ ~preApply => applied = 0
  /\ \A e \in executed : TimeOf(e) <= clock
  /\ \A e \in executed, f \in Pending : RunsBefore(e, f)

FailureEvents == {e \in executed : ~e[2]}
FailuresToCome == {e \in Pending : ~e[2]}

\* A failure update counts when its call returns, one applied beforehand like one of the schedule.
\* The line is printed when the counters meet, but not before an event of the schedule.
StatsCount ==
  /\ stats.completed + (IF call.active /\ ~call.up THEN 1 ELSE 0)
       = applied + Cardinality(FailureEvents)
  /\ stats.expected = IF stage = "run" THEN Len(Entries) ELSE 0
  /\ stage = "run" => stats.completed >= applied
  /\ stats.printed <=> /\ stats.expected # 0
                       /\ stats.completed >= stats.expected /\ stats.completed > applied
  /\ stats.printed => stats.counted \in Len(Entries)..(Len(Entries) + applied)

\* e is the last of the events run so far that are about the link of l.
OnLink(e, l) == l \in Ends(Entries[e[1]])
LastOn(e, l) == e \in executed /\ OnLink(e, l)
                  /\ \A f \in executed \ {e} : OnLink(f, l) => RunsBefore(f, e)

\* The end l of a link is as the last event of the link left it, or as it was beforehand.
Follows(l) ==
  \/ /\ \A e \in executed : ~OnLink(e, l)
     /\ l[2] \in interfaceDown[l[1]] <=> l \in LostAtBaseline
  \/ \E e \in executed : LastOn(e, l) /\ (l[2] \in interfaceDown[l[1]] <=> ~e[2])

\* The call that runs is that of the last event.
CallOfLast ==
  stage = "run" /\ call.active =>
    \E e \in executed :
      /\ \A f \in executed \ {e} : RunsBefore(f, e)
      /\ call.up = e[2]
      /\ LET l == Entries[e[1]].link
             m == <<l[2], l[1]>>
         IN call.ends \in {<<l, m>>, <<m>>, <<>>}

EndsFollow ==
  stage = "run" =>
    \A l \in Node \X Node :
      (call.active => \A k \in DOMAIN call.ends : call.ends[k] # l) => Follows(l)

ScheduleInv == EventOrder /\ StatsCount /\ CallOfLast /\ EndsFollow

\* As many failures are scheduled as there are entries, whether they have run or not.
LEMMA FailureEventsCount ==
  ASSUME TypeOKSchedule
  PROVE  /\ Len(Entries) \in Nat /\ Len(Entries) = Registered
         /\ Cardinality(FailureEvents) \in Nat /\ Cardinality(FailuresToCome) \in Nat
         /\ Cardinality(FailureEvents) + Cardinality(FailuresToCome) = Len(Entries)
         /\ IsFiniteSet(FailureEvents)
<1> DEFINE n == Len(Entries)
           all == {e \in Events : ~e[2]}
           f == [k \in 1..n |-> FailureOf(k)]
<1>1. n \in Nat /\ DOMAIN Entries = 1..n /\ n = Registered
  <2>1. failures \in Seq(FailureEntry) /\ random \in Seq(FailureEntry)
    BY DEF TypeOKSchedule
  <2> QED  BY <2>1 DEF Entries, Registered
<1>2. f \in Bijection(1..n, all)
  <2>1. f \in [1..n -> all]
    BY <1>1, EventsOfEntry
  <2>2. \A a, b \in 1..n : f[a] = f[b] => a = b
    BY <1>1, EventsOfEntry
  <2>3. \A e \in all : \E k \in 1..n : f[k] = e
    BY EventFacts, FailureIsOfEntry
  <2> HIDE DEF f, all
  <2> QED  BY <2>1, <2>2, <2>3 DEF Bijection, Injection, IsInjective, Surjection
<1>3. IsFiniteSet(1..n) /\ Cardinality(1..n) = n
  <2> HIDE DEF n
  <2>1. IsFiniteSet(1..n) /\ Cardinality(1..n) = IF 1 > n THEN 0 ELSE n - 1 + 1
    BY <1>1, FS_Interval
  <2> QED  BY <1>1, <2>1
<1>4. IsFiniteSet(all) /\ Cardinality(all) = n
  <2>1. ExistsBijection(1..n, all)
    BY <1>2 DEF ExistsBijection
  <2> HIDE DEF all
  <2> QED  BY <1>3, <2>1, FS_Bijection
<1>5. /\ FailureEvents \subseteq all /\ all \cap FailureEvents = FailureEvents
      /\ FailuresToCome = all \ FailureEvents
  BY DEF FailureEvents, FailuresToCome, Pending, TypeOKSchedule
<1>6. IsFiniteSet(FailureEvents) /\ IsFiniteSet(FailuresToCome)
      /\ Cardinality(FailuresToCome) = Cardinality(all) - Cardinality(FailureEvents)
  <2> HIDE DEF all
  <2>1. IsFiniteSet(FailureEvents)
    BY <1>4, <1>5, FS_Subset
  <2>2. /\ IsFiniteSet(all \ FailureEvents)
        /\ Cardinality(all \ FailureEvents) = Cardinality(all) - Cardinality(all \cap FailureEvents)
    BY <1>4, FS_Difference
  <2> QED  BY <1>5, <2>1, <2>2
<1>7. Cardinality(FailureEvents) \in Nat /\ Cardinality(FailuresToCome) \in Nat
  BY <1>6, FS_CardinalityType
<1> QED  BY <1>1, <1>4, <1>6, <1>7
-----------------------------------------------------------------------------
(* Part 17: the invariant. *)

LEMMA InitSchedule == Init => ScheduleInv
<1> SUFFICES ASSUME Init  PROVE EventOrder /\ StatsCount /\ CallOfLast /\ EndsFollow
  BY DEF ScheduleInv
<1>1. executed = {} /\ clock = 0 /\ call = NoCall /\ stage = "preApply" /\ applied = 0
      /\ interfaceDown = [n \in Node |-> {}]
      /\ stats = [expected |-> 0, completed |-> 0, printed |-> FALSE, counted |-> 0]
  BY DEF Init, InitBfs
<1>2. ~call.active /\ stats.expected = 0 /\ stats.completed = 0 /\ ~stats.printed
  BY <1>1 DEF NoCall
<1>3. EventOrder
  BY <1>1, <1>2 DEF EventOrder
<1>4. StatsCount
  <2>1. FailureEvents = {}  BY <1>1 DEF FailureEvents
  <2>2. Cardinality(FailureEvents) = 0  BY <2>1, FS_EmptySet
  <2> QED  BY <1>1, <1>2, <2>2 DEF StatsCount
<1>5. CallOfLast
  BY <1>1 DEF CallOfLast
<1>6. EndsFollow
  BY <1>1 DEF EndsFollow
<1> QED  BY <1>3, <1>4, <1>5, <1>6

\* Steps that leave the schedule, the interfaces and the call alone.
LEMMA ScheduleUnchanged ==
  ASSUME ScheduleInv, UNCHANGED <<interfaceDown, options, applied, executed, clock, call, stats>>,
         stage' = stage \/ (stage # "run" /\ stage' # "run")
  PROVE  ScheduleInv'
<1>1. UNCHANGED <<failures, random, preApply>>
  BY DEF options
<1>2. Entries' = Entries /\ Events' = Events /\ LostAtBaseline' = LostAtBaseline
  BY <1>1 DEF Entries, Events, LostAtBaseline
<1>3. EventOrder /\ StatsCount /\ CallOfLast /\ EndsFollow
  BY DEF ScheduleInv
<1>4. EventOrder'
  BY <1>1, <1>2, <1>3 DEF EventOrder, TimeOf, Pending, RunsBefore
<1>5. StatsCount'
  BY <1>2, <1>3 DEF StatsCount, FailureEvents
<1>6. CallOfLast'
  BY <1>2, <1>3 DEF CallOfLast, RunsBefore, TimeOf
<1>7. EndsFollow'
  BY <1>2, <1>3 DEF EndsFollow, Follows, LastOn, OnLink, Ends, RunsBefore, TimeOf
<1> QED  BY <1>4, <1>5, <1>6, <1>7 DEF ScheduleInv

\* A failure of the file is applied: a call begins that is no event.
LEMMA PreApplyKeeps ==
  ASSUME TypeOK, ScheduleInv, PreApplyFailure
  PROVE  ScheduleInv'
<1>1. /\ stage = "preApply" /\ stage' = stage /\ ~call.active /\ call'.active /\ ~call'.up
      /\ preApply /\ applied' = applied + 1
      /\ UNCHANGED <<failures, random, preApply, executed, clock, stats>>
  BY DEF PreApplyFailure, SetLink, Quiet, options
<1>2. Entries' = Entries /\ Events' = Events
  BY <1>1 DEF Entries, Events
<1>3. EventOrder /\ StatsCount
  BY DEF ScheduleInv
<1>4. EventOrder'
  BY <1>1, <1>2, <1>3 DEF EventOrder, TimeOf, Pending, RunsBefore
<1>5. StatsCount'
  <2>1. /\ stats.completed \in Nat /\ applied \in Nat /\ Cardinality(FailureEvents) \in Nat
    BY FailureEventsCount DEF TypeOK, TypeOKSchedule
  <2>2. FailureEvents' = FailureEvents
    BY <1>1 DEF FailureEvents
  <2>3. stats.completed = applied + Cardinality(FailureEvents) /\ stats.expected = 0 /\ ~stats.printed
    BY <1>1, <1>3, <2>1 DEF StatsCount
  <2> QED  BY <1>1, <1>2, <2>1, <2>2, <2>3 DEF StatsCount
<1> QED  BY <1>1, <1>4, <1>5 DEF ScheduleInv, CallOfLast, EndsFollow

\* Every failure of the file and of the random batch is expected.
LEMMA ScheduleFailuresKeeps ==
  ASSUME TypeOK, LostInv, ScheduleInv, ScheduleFailures
  PROVE  ScheduleInv'
<1>1. /\ stage = "schedule" /\ stage' = "run"
      /\ stats' = [stats EXCEPT !.expected = @ + Registered]
      /\ UNCHANGED <<interfaceDown, failures, random, preApply, applied, executed, clock, call>>
  BY DEF ScheduleFailures, options, bfsVars
<1>2. Entries' = Entries /\ Events' = Events /\ LostAtBaseline' = LostAtBaseline
  BY <1>1 DEF Entries, Events, LostAtBaseline
<1>3. EventOrder /\ StatsCount
  BY DEF ScheduleInv
<1>4. executed = {} /\ ~call.active
  BY <1>1, <1>3 DEF EventOrder, LostInv
<1>5. EventOrder'
  BY <1>1, <1>2, <1>3, <1>4 DEF EventOrder
<1>6. StatsCount'
  <2>1. FailureEvents = {} /\ FailureEvents' = {}
    BY <1>1, <1>4 DEF FailureEvents
  <2>2. Cardinality({}) = 0
    BY FS_EmptySet
  <2>3. stats.expected = 0 /\ stats.completed = applied /\ ~stats.printed
    <3>1. stats.completed \in Nat /\ applied \in Nat  BY DEF TypeOK, TypeOKSchedule
    <3> QED  BY <1>1, <1>3, <1>4, <2>1, <2>2, <3>1 DEF StatsCount
  <2>4. stats \in [expected : Nat, completed : Nat, printed : BOOLEAN, counted : Nat]
    BY DEF TypeOK, TypeOKSchedule
  <2>5. Registered = Len(Entries) /\ Len(Entries) \in Nat
    BY FailureEventsCount DEF TypeOK
  <2>6. stats'.expected = Len(Entries) /\ stats'.completed = applied /\ ~stats'.printed
    BY <1>1, <2>3, <2>4, <2>5
  <2>7. applied \in Nat
    BY DEF TypeOK, TypeOKSchedule
  <2> QED  BY <1>1, <1>2, <1>4, <2>1, <2>2, <2>6, <2>7 DEF StatsCount
<1>7. CallOfLast'
  BY <1>1, <1>4 DEF CallOfLast
<1>8. EndsFollow'
  <2> SUFFICES ASSUME NEW l \in Node \X Node  PROVE Follows(l)'
    BY DEF EndsFollow
  <2>1. l = <<l[1], l[2]>> /\ l[1] \in Node /\ l[2] \in Node
    OBVIOUS
  <2>2. l[2] \in interfaceDown[l[1]] <=> l \in LostAtBaseline
    BY <1>1, <2>1 DEF LostInv
  <2> QED  BY <1>1, <1>2, <1>4, <2>2 DEF Follows
<1> QED  BY <1>5, <1>6, <1>7, <1>8 DEF ScheduleInv

\* The simulator runs the next event: a call about its link begins.
LEMMA RunEventKeeps ==
  ASSUME TypeOK, ScheduleInv, RunEvent
  PROVE  ScheduleInv'
<1>1. /\ stage = "run" /\ ~call.active
      /\ UNCHANGED <<interfaceDown, failures, random, preApply, stage, applied, stats>>
  BY DEF RunEvent, options, bfsVars, Quiet
<1>2. PICK e \in Pending : /\ \A f \in Pending \ {e} : RunsBefore(e, f)
                          /\ SetLink(Entries[e[1]].link, e[2])
                          /\ clock' = TimeOf(e) /\ executed' = executed \cup {e}
  BY DEF RunEvent
<1>3. Entries' = Entries /\ Events' = Events /\ LostAtBaseline' = LostAtBaseline
  BY <1>1 DEF Entries, Events, LostAtBaseline
<1>4. EventOrder /\ StatsCount /\ EndsFollow
  BY DEF ScheduleInv
<1>5. TypeOKSchedule /\ executed \subseteq Events /\ e \in Events /\ e \notin executed
  BY <1>2 DEF TypeOK, TypeOKSchedule, Pending
<1>6. \A f \in executed : RunsBefore(f, e)
  BY <1>2, <1>4 DEF EventOrder
<1>7. EventOrder'
  <2>1. ASSUME NEW f \in executed'  PROVE TimeOf(f) <= clock'
    <3>1. TimeOf(f) \in Nat /\ TimeOf(e) \in Nat  BY <1>2, <1>5, EventFacts
    <3> QED  BY <1>2, <1>6, <2>1, <3>1 DEF RunsBefore
  <2>2. Pending' = Pending \ {e}
    BY <1>2, <1>3 DEF Pending
  <2>3. ASSUME NEW f \in executed', NEW g \in Pending'  PROVE RunsBefore(f, g)
    BY <1>2, <1>4, <2>2 DEF EventOrder
  <2>4. \A f \in executed' : TimeOf(f)' <= clock'
    BY <1>3, <2>1 DEF TimeOf
  <2>5. \A f \in executed', g \in Pending' : RunsBefore(f, g)'
    BY <1>3, <2>3 DEF RunsBefore, TimeOf
  <2> QED  BY <1>1, <1>4, <2>4, <2>5 DEF EventOrder
<1>8. /\ call'.active /\ call'.up = e[2]
      /\ call'.ends = LET l == Entries[e[1]].link IN <<l, <<l[2], l[1]>>>>
  BY <1>2 DEF SetLink
<1>9. StatsCount'
  <2>1. IsFiniteSet(FailureEvents) /\ Cardinality(FailureEvents) \in Nat
    BY <1>5, FailureEventsCount
  <2>2. e[2] \in BOOLEAN
    BY <1>5, EventFacts
  <2>3. FailureEvents' = IF e[2] THEN FailureEvents ELSE FailureEvents \cup {e}
    BY <1>2, <2>2 DEF FailureEvents
  <2>4. e \notin FailureEvents
    BY <1>5 DEF FailureEvents
  <2>5. Cardinality(FailureEvents') =
          Cardinality(FailureEvents) + (IF e[2] THEN 0 ELSE 1)
    <3>1. Cardinality(FailureEvents \cup {e}) = Cardinality(FailureEvents) + 1
      BY <2>1, <2>4, FS_AddElement
    <3>2. CASE e[2]  BY <2>1, <2>3, <3>2
    <3>3. CASE ~e[2]  BY <2>3, <3>1, <3>3
    <3> QED  BY <3>2, <3>3
  <2>6. stats.completed = applied + Cardinality(FailureEvents) /\ applied \in Nat
    <3>1. stats.completed \in Nat /\ applied \in Nat  BY <1>5 DEF TypeOKSchedule
    <3> QED  BY <1>1, <1>4, <2>1, <3>1 DEF StatsCount
  <2>7. stats.completed + (IF call'.active /\ ~call'.up THEN 1 ELSE 0)
          = applied + Cardinality(FailureEvents')
    BY <1>8, <2>1, <2>2, <2>5, <2>6
  <2> QED  BY <1>1, <1>3, <1>4, <2>7 DEF StatsCount
<1>10. CallOfLast'
  <2>1. \A f \in executed' \ {e} : RunsBefore(f, e)
    BY <1>2, <1>6
  <2>2. \A f \in executed' \ {e} : RunsBefore(f, e)'
    BY <1>3, <2>1 DEF RunsBefore, TimeOf
  <2> QED  BY <1>2, <1>3, <1>8, <2>2 DEF CallOfLast
<1>11. EndsFollow'
  <2> SUFFICES ASSUME NEW l \in Node \X Node, \A k \in DOMAIN call'.ends : call'.ends[k] # l
               PROVE  Follows(l)'
    BY <1>8 DEF EndsFollow
  <2>1. l # call'.ends[1] /\ l # call'.ends[2]
    BY <1>8
  <2>2. ~OnLink(e, l)
    BY <1>8, <2>1 DEF OnLink, Ends
  <2>3. Follows(l)
    BY <1>1, <1>4 DEF EndsFollow
  <2>4. \A f \in Events : OnLink(f, l)' <=> OnLink(f, l)
    BY <1>3 DEF OnLink, Ends
  <2>5. \A f, g \in Events : RunsBefore(f, g)' <=> RunsBefore(f, g)
    BY <1>3 DEF RunsBefore, TimeOf
  <2>6. CASE /\ \A f \in executed : ~OnLink(f, l)
             /\ l[2] \in interfaceDown[l[1]] <=> l \in LostAtBaseline
    BY <1>1, <1>2, <1>3, <1>5, <2>2, <2>4, <2>6 DEF Follows
  <2>7. ASSUME NEW f \in executed, LastOn(f, l), l[2] \in interfaceDown[l[1]] <=> ~f[2]
        PROVE  Follows(l)'
    <3>1. LastOn(f, l)'
      BY <1>2, <1>5, <2>2, <2>4, <2>5, <2>7 DEF LastOn
    <3> QED  BY <1>1, <1>2, <2>7, <3>1 DEF Follows
  <2> QED  BY <2>3, <2>6, <2>7 DEF Follows
<1> QED  BY <1>7, <1>9, <1>10, <1>11 DEF ScheduleInv

\* One end of the link of the last event changes.
LEMMA ChangeEndKeeps ==
  ASSUME TypeOK, ScheduleInv, ChangeEnd
  PROVE  ScheduleInv'
<1> DEFINE x == Head(call.ends)
<1>1. /\ call.active /\ call.ends # <<>>
      /\ call' = [call EXCEPT !.ends = Tail(@)]
      /\ UNCHANGED <<failures, random, preApply, stage, applied, stats, executed, clock>>
      /\ interfaceDown' = [interfaceDown EXCEPT ![x[1]] = IF call.up THEN @ \ {x[2]} ELSE @ \cup {x[2]}]
  BY DEF ChangeEnd, SetInterface, options, progress
<1>2. Entries' = Entries /\ Events' = Events /\ LostAtBaseline' = LostAtBaseline
  BY <1>1 DEF Entries, Events, LostAtBaseline
<1>3. EventOrder /\ StatsCount /\ CallOfLast /\ EndsFollow
  BY DEF ScheduleInv
<1>4. TypeOKSchedule /\ executed \subseteq Events /\ call.ends \in Seq(Node \X Node)
      /\ interfaceDown \in [Node -> SUBSET Node]
      /\ call \in [active : BOOLEAN, up : BOOLEAN, ends : Seq(Node \X Node)]
  BY DEF TypeOK, TypeOKSchedule, TypeOKBfs
<1>5. call'.active /\ call'.up = call.up /\ call'.ends = Tail(call.ends)
  BY <1>1, <1>4
<1>6. EventOrder'
  BY <1>1, <1>2, <1>3, <1>5 DEF EventOrder, TimeOf, Pending, RunsBefore
<1>7. StatsCount'
  BY <1>1, <1>2, <1>3, <1>5 DEF StatsCount, FailureEvents
<1> SUFFICES ASSUME stage = "run"  PROVE CallOfLast' /\ EndsFollow'
  BY <1>1, <1>6, <1>7 DEF ScheduleInv, CallOfLast, EndsFollow
<1>8. PICK e \in executed :
        /\ \A f \in executed \ {e} : RunsBefore(f, e)
        /\ call.up = e[2]
        /\ LET l == Entries[e[1]].link
               m == <<l[2], l[1]>>
           IN call.ends \in {<<l, m>>, <<m>>, <<>>}
  BY <1>1, <1>3 DEF CallOfLast
<1> DEFINE l == Entries[e[1]].link
           m == <<l[2], l[1]>>
<1>9. x \in {l, m} /\ Tail(call.ends) \in {<<m>>, <<>>}
  <2>1. call.ends = <<l, m>> \/ call.ends = <<m>>
    BY <1>1, <1>8
  <2> HIDE DEF l, m
  <2>2. CASE call.ends = <<l, m>>  BY <2>2
  <2>3. CASE call.ends = <<m>>  BY <2>3
  <2> QED  BY <2>1, <2>2, <2>3
<1>10. CallOfLast'
  <2>1. \A f \in executed \ {e} : RunsBefore(f, e)'
    BY <1>2, <1>8 DEF RunsBefore, TimeOf
  <2>2. call'.ends \in {<<l, m>>, <<m>>, <<>>}
    BY <1>5, <1>9
  <2> QED  BY <1>1, <1>2, <1>5, <1>8, <2>1, <2>2 DEF CallOfLast
<1>11. \A f, g \in Events : RunsBefore(f, g)' <=> RunsBefore(f, g)
  BY <1>2 DEF RunsBefore, TimeOf
<1>12. x \in Node \X Node
  BY <1>1, <1>4
<1>13. EndsFollow'
  <2> SUFFICES ASSUME NEW y \in Node \X Node, \A k \in DOMAIN call'.ends : call'.ends[k] # y
               PROVE  Follows(y)'
    BY <1>5 DEF EndsFollow
  <2>1. \A f \in Events : OnLink(f, y)' <=> OnLink(f, y)
    BY <1>2 DEF OnLink, Ends
  <2>2. CASE y = x
    <3>1. OnLink(e, x)
      BY <1>9, <1>4, EventFacts DEF OnLink, Ends, FailureEntry
    <3>2. LastOn(e, y)'
      BY <1>1, <1>4, <1>8, <1>11, <2>1, <2>2, <3>1 DEF LastOn
    <3>3. e[2] \in BOOLEAN
      BY <1>4, EventFacts
    <3>4. y[2] \in interfaceDown'[y[1]] <=> ~e[2]
      BY <1>1, <1>4, <1>8, <1>12, <2>2, <3>3
    <3> QED  BY <1>1, <3>2, <3>4 DEF Follows
  <2>3. CASE y # x
    <3>1. \A k \in DOMAIN call.ends : call.ends[k] # y
      <4> SUFFICES ASSUME NEW k \in DOMAIN call.ends  PROVE call.ends[k] # y
        OBVIOUS
      <4>1. CASE k = 1  BY <1>1, <1>4, <2>3, <4>1
      <4>2. CASE k # 1
        <5>1. k - 1 \in DOMAIN Tail(call.ends) /\ Tail(call.ends)[k - 1] = call.ends[k]
          BY <1>1, <1>4, <4>2
        <5> QED  BY <1>5, <5>1
      <4> QED  BY <4>1, <4>2
    <3>2. Follows(y)
      BY <1>3, <3>1 DEF EndsFollow
    <3>3. y[2] \in interfaceDown'[y[1]] <=> y[2] \in interfaceDown[y[1]]
      <4>1. x = <<x[1], x[2]>> /\ y = <<y[1], y[2]>> /\ x[1] \in Node /\ y[1] \in Node
        BY <1>12
      <4>2. x[1] # y[1] \/ x[2] # y[2]
        BY <2>3, <4>1
      <4> QED  BY <1>1, <1>4, <4>1, <4>2
    <3>4. CASE /\ \A f \in executed : ~OnLink(f, y)
               /\ y[2] \in interfaceDown[y[1]] <=> y \in LostAtBaseline
      BY <1>1, <1>2, <1>4, <2>1, <3>3, <3>4 DEF Follows
    <3>5. ASSUME NEW f \in executed, LastOn(f, y), y[2] \in interfaceDown[y[1]] <=> ~f[2]
          PROVE  Follows(y)'
      <4>1. LastOn(f, y)'
        BY <1>1, <1>4, <1>11, <2>1, <3>5 DEF LastOn
      <4> QED  BY <1>1, <3>3, <3>5, <4>1 DEF Follows
    <3> QED  BY <3>2, <3>4, <3>5 DEF Follows
  <2> QED  BY <2>2, <2>3
<1> QED  BY <1>10, <1>13

\* The call returns; that of a failure is recorded.
LEMMA LinkSetKeeps ==
  ASSUME TypeOK, ScheduleInv, LinkSet
  PROVE  ScheduleInv'
<1>1. /\ call.active /\ call.ends = <<>> /\ call' = NoCall
      /\ UNCHANGED <<interfaceDown, failures, random, preApply, stage, applied, executed, clock>>
  BY DEF LinkSet, options, progress, bfsVars
<1>2. Entries' = Entries /\ Events' = Events /\ ~call'.active /\ LostAtBaseline' = LostAtBaseline
  BY <1>1 DEF Entries, Events, NoCall, LostAtBaseline
<1>3. EventOrder /\ StatsCount /\ EndsFollow
  BY DEF ScheduleInv
<1>4. TypeOKSchedule
  BY DEF TypeOK
<1>6. EventOrder'
  BY <1>1, <1>2, <1>3 DEF EventOrder, TimeOf, Pending, RunsBefore
<1>7. StatsCount'
  <2> DEFINE done == stats.completed + 1
             n == Len(Entries)
             ran == Cardinality(FailureEvents)
  <2>1. /\ stats.completed \in Nat /\ applied \in Nat /\ ran \in Nat /\ n \in Nat
        /\ ran <= n
    BY <1>4, FailureEventsCount DEF TypeOKSchedule
  <2>2. Cardinality(FailureEvents') = ran /\ FailureEvents' = FailureEvents
    BY <1>1 DEF FailureEvents
  <2>3. stats \in [expected : Nat, completed : Nat, printed : BOOLEAN, counted : Nat]
    BY <1>4 DEF TypeOKSchedule
  <2>4. CASE call.up
    <3>1. stats' = stats  BY <2>4 DEF LinkSet
    <3>2. stats.completed = applied + ran  BY <1>3, <2>1, <2>4 DEF StatsCount
    <3> QED  BY <1>1, <1>2, <1>3, <2>1, <2>2, <3>1, <3>2 DEF StatsCount
  <2>5. CASE ~call.up
    <3>1. done = applied + ran
      BY <1>1, <1>3, <2>1, <2>5 DEF StatsCount
    <3>2. Prints(done) <=> ~stats.printed /\ stats.expected # 0 /\ done >= stats.expected
      BY DEF Prints
    <3>3. stats' = [stats EXCEPT !.completed = done, !.printed = @ \/ Prints(done),
                                 !.counted = IF Prints(done) THEN done ELSE @]
      BY <2>5 DEF LinkSet
    <3>4. stage = "run" => done > applied
      BY <1>3, <2>1 DEF StatsCount
    <3>5. done \in Nat /\ done > stats.completed
      BY <2>1
    <3> HIDE DEF done
    <3>6. /\ stats'.completed = done /\ stats'.expected = stats.expected
          /\ stats'.printed <=> stats.printed \/ Prints(done)
          /\ stats'.counted = IF Prints(done) THEN done ELSE stats.counted
      BY <2>3, <3>3
    <3>7. stats'.completed + (IF call'.active /\ ~call'.up THEN 1 ELSE 0) = applied + ran
      BY <1>2, <2>1, <3>1, <3>6
    <3>8. stats.expected = IF stage = "run" THEN n ELSE 0
      BY <1>3 DEF StatsCount
    <3>9. stats.printed => /\ stats.expected # 0 /\ stats.completed >= stats.expected
                           /\ stats.counted \in n..(n + applied)
      BY <1>3 DEF StatsCount
    <3>10. stats'.printed <=> stats'.expected # 0 /\ done >= stats'.expected /\ done > applied
      BY <2>1, <3>2, <3>4, <3>5, <3>6, <3>8, <3>9
    <3>11. stats'.printed => stats'.counted \in n..(n + applied)
      <4>1. CASE Prints(done)
        <5>1. stage = "run"  BY <3>2, <3>8, <4>1
        <5> QED  BY <2>1, <3>1, <3>2, <3>6, <3>8, <4>1, <5>1
      <4>2. CASE ~Prints(done)  BY <3>6, <3>9, <4>2
      <4> QED  BY <4>1, <4>2
    <3>12. stage = "run" => done >= applied
      BY <2>1, <3>4, <3>5
    <3> QED  BY <1>1, <1>2, <2>2, <3>6, <3>7, <3>8, <3>10, <3>11, <3>12 DEF StatsCount
  <2> QED  BY <2>4, <2>5
<1>8. CallOfLast'
  BY <1>2 DEF CallOfLast
<1>9. EndsFollow'
  <2>1. stage = "run" => \A l \in Node \X Node : Follows(l)
    BY <1>1, <1>3 DEF EndsFollow
  <2> QED  BY <1>1, <1>2, <2>1 DEF EndsFollow, Follows, LastOn, OnLink, Ends, RunsBefore, TimeOf
<1> QED  BY <1>6, <1>7, <1>8, <1>9 DEF ScheduleInv

LEMMA NextSchedule == IInv /\ LostInv /\ ScheduleInv /\ [Next]_vars => ScheduleInv'
<1> SUFFICES ASSUME TypeOK, LostInv, ScheduleInv, [Next]_vars  PROVE ScheduleInv'
  BY DEF IInv
<1>1. CASE PreApplyFailure
  BY <1>1, PreApplyKeeps
<1>2. CASE PreApplyDone \/ EnableStrictBaseline \/ CalculateRoutes
  BY <1>2, ScheduleUnchanged
    DEF PreApplyDone, EnableStrictBaseline, CalculateRoutes, BeginBaseline, bfsVars
<1>3. CASE ScheduleFailures
  BY <1>3, ScheduleFailuresKeeps
<1>4. CASE RunEvent
  BY <1>4, RunEventKeeps
<1>5. CASE ChangeEnd
  BY <1>5, ChangeEndKeeps
<1>6. CASE LinkSet
  BY <1>6, LinkSetKeeps
<1>7. CASE CalculateStep
  BY <1>7, ScheduleUnchanged
    DEF CalculateStep, Calculate, ScanDevice, NextNode, EndVisit, progress
<1>8. CASE UNCHANGED vars
  BY <1>8, ScheduleUnchanged DEF vars, progress, bfsVars
<1> QED  BY <1>1, <1>2, <1>3, <1>4, <1>5, <1>6, <1>7, <1>8 DEF Next, Startup

LEMMA SpecSchedule == Spec => [](IInv /\ BaseInv /\ ScheduleInv)
<1>1. BaseInv => LostInv
  BY DEF BaseInv
<1> QED  BY <1>1, InitIInv, NextIInv, InitBase, NextBase, InitSchedule, NextSchedule, PTL DEF Spec
-----------------------------------------------------------------------------
(* Part 18: the theorems about events. *)

LEMMA StatsFollow ==
  ASSUME TypeOK, ScheduleInv
  PROVE  StatsComplete
<1> DEFINE before == IF preApply THEN Len(failures) ELSE 0
<1>1. TypeOKSchedule /\ EventOrder /\ StatsCount
  BY DEF TypeOK, ScheduleInv
<1>2. stats.completed \in Nat /\ applied \in Nat /\ before \in Nat /\ applied <= before
  BY <1>1 DEF TypeOKSchedule, EventOrder
<1>3. /\ Len(Entries) \in Nat
      /\ Cardinality(FailureEvents) \in Nat /\ Cardinality(FailuresToCome) \in Nat
      /\ Cardinality(FailureEvents) + Cardinality(FailuresToCome) = Len(Entries)
  BY <1>1, FailureEventsCount
<1>4. /\ stats.completed <= applied + Cardinality(FailureEvents)
      /\ ~call.active => stats.completed = applied + Cardinality(FailureEvents)
  BY <1>1, <1>2, <1>3 DEF StatsCount
<1>5. stats.expected = IF stage = "run" THEN Len(Entries) ELSE 0
  BY <1>1 DEF StatsCount
<1> HIDE DEF before
<1>6. ASSUME stats.printed
      PROVE  /\ stats.counted \in Len(Entries)..(Len(Entries) + before)
             /\ Cardinality(FailuresToCome) <= before
  <2>1. /\ stats.expected # 0 /\ stats.completed >= stats.expected
        /\ stats.counted \in Len(Entries)..(Len(Entries) + applied)
    BY <1>1, <1>6 DEF StatsCount
  <2>2. stats.completed >= Len(Entries)
    BY <1>5, <2>1
  <2> QED  BY <1>2, <1>3, <1>4, <2>1, <2>2
<1>7. ASSUME Pending = {}, stage = "run", Quiet, Entries # <<>>  PROVE stats.printed
  <2>1. Cardinality(FailuresToCome) = 0
    <3>1. FailuresToCome = {}  BY <1>7 DEF FailuresToCome
    <3> QED  BY <3>1, FS_EmptySet
  <2>2. Len(Entries) # 0
    BY <1>1, <1>7 DEF TypeOKSchedule, Entries
  <2>3. stats.completed = applied + Len(Entries)
    BY <1>2, <1>3, <1>4, <1>7, <2>1 DEF Quiet
  <2>4. stats.expected = Len(Entries) /\ stats.expected # 0
    BY <1>5, <1>7, <2>2
  <2>5. stats.completed >= stats.expected /\ stats.completed > applied
    BY <1>2, <1>3, <2>2, <2>3, <2>4
  <2> QED  BY <1>1, <2>4, <2>5 DEF StatsCount
<1> QED  BY <1>6, <1>7 DEF StatsComplete, before, FailuresToCome

\* The failures of a link that have begun, and that no recovery has undone, are those after its
\* last recovery: there is one exactly if the last event is a failure.
LEMMA LastEventDecides ==
  ASSUME TypeOKSchedule, NEW l \in Node \X Node, NEW e \in executed, LastOn(e, l),
         \A f \in Events : f \in executed <=> TimeOf(f) <= clock
  PROVE  ~e[2] <=> \E k \in DOMAIN Entries : /\ l \in Ends(Entries[k])
                                             /\ Entries[k].from <= clock /\ ~Undone(k)
<1>1. Entries \in Seq(FailureEntry) /\ clock \in Nat /\ executed \subseteq Events
  BY DEF TypeOKSchedule, Entries
<1>2. ASSUME NEW k \in DOMAIN Entries
      PROVE  /\ k \in Nat /\ Entries[k].from \in Nat /\ Entries[k].until \in Nat
             /\ Entries[k].link \in Node \X Node
             /\ TimeOf(FailureOf(k)) = Entries[k].from /\ TimeOf(RecoveryOf(k)) = Entries[k].until
             /\ Entries[k].from <= clock => FailureOf(k) \in executed
             /\ Entries[k].until # Never /\ Entries[k].until <= clock => RecoveryOf(k) \in executed
             /\ OnLink(FailureOf(k), l) <=> l \in Ends(Entries[k])
             /\ OnLink(RecoveryOf(k), l) <=> l \in Ends(Entries[k])
  <2>1. Entries[k] \in FailureEntry
    BY <1>1
  <2>2. TimeOf(FailureOf(k)) = Entries[k].from /\ TimeOf(RecoveryOf(k)) = Entries[k].until
    BY EventsOfEntry DEF TimeOf
  <2>3. OnLink(FailureOf(k), l) /\ OnLink(RecoveryOf(k), l) <=> l \in Ends(Entries[k])
    BY EventsOfEntry DEF OnLink
  <2> QED  BY <1>1, <2>1, <2>2, <2>3, EventsOfEntry DEF FailureEntry, OnLink
<1>3. /\ e[1] \in DOMAIN Entries /\ e[2] \in BOOLEAN /\ TimeOf(e) <= clock
      /\ l \in Ends(Entries[e[1]])
      /\ ~e[2] => e = FailureOf(e[1])
      /\ e[2] => e = RecoveryOf(e[1]) /\ Entries[e[1]].until # Never
  BY <1>1, EventFacts, EventIsOfEntry, FailureIsOfEntry DEF LastOn, OnLink
<1>4. \A f \in executed : OnLink(f, l) /\ f # e => RunsBefore(f, e)
  BY DEF LastOn
<1>5. ASSUME ~e[2]
      PROVE  Entries[e[1]].from <= clock /\ ~Undone(e[1])
  <2> DEFINE k == e[1]
  <2>1. k \in DOMAIN Entries /\ e = FailureOf(k)
    BY <1>3, <1>5
  <2>2. ASSUME NEW p \in DOMAIN Entries, Ends(Entries[p]) = Ends(Entries[k]),
               Entries[p].until # Never, Entries[p].until <= clock
        PROVE  ~(Entries[p].until > Entries[k].from \/ (Entries[p].until = Entries[k].from /\ p >= k))
    <3>1. RecoveryOf(p) \in executed /\ OnLink(RecoveryOf(p), l)
      BY <1>2, <1>3, <2>2
    <3>2. RecoveryOf(p) # e
      BY <1>5, EventsOfEntry
    <3>3. RunsBefore(RecoveryOf(p), FailureOf(k))
      BY <1>4, <2>1, <3>1, <3>2
    <3>4. RecoveryOf(p)[1] = p /\ RecoveryOf(p)[2] /\ FailureOf(k)[1] = k
      BY <2>1, EventsOfEntry
    <3> HIDE DEF k
    <3> QED  BY <1>2, <2>1, <3>3, <3>4 DEF RunsBefore
  <2>3. Entries[k].from <= clock
    BY <1>2, <1>3, <2>1
  <2> QED  BY <2>2, <2>3 DEF Undone
<1>6. ASSUME e[2], NEW k \in DOMAIN Entries, l \in Ends(Entries[k]), Entries[k].from <= clock
      PROVE  Undone(k)
  <2> DEFINE p == e[1]
  <2>1. p \in DOMAIN Entries /\ e = RecoveryOf(p) /\ Entries[p].until # Never
    BY <1>3, <1>6
  <2>2. Entries[p].until <= clock
    BY <1>2, <1>3, <2>1
  <2>3. Ends(Entries[p]) = Ends(Entries[k])
    BY <1>2, <1>3, <1>6, SameEnds
  <2>4. FailureOf(k) # e
    BY <1>6, EventsOfEntry
  <2>5. RunsBefore(FailureOf(k), RecoveryOf(p))
    BY <1>2, <1>4, <1>6, <2>1, <2>4
  <2>6. FailureOf(k)[1] = k /\ RecoveryOf(p)[1] = p
    BY <2>1, EventsOfEntry
  <2> HIDE DEF p
  <2>7. Entries[p].until > Entries[k].from \/ (Entries[p].until = Entries[k].from /\ p >= k)
    BY <1>2, <2>1, <2>5, <2>6 DEF RunsBefore
  <2> QED  BY <2>1, <2>2, <2>3, <2>7 DEF Undone
<1> QED  BY <1>3, <1>5, <1>6

LEMMA DownFollows ==
  ASSUME TypeOK, LostInv, ScheduleInv
  PROVE  DownDuringFailures
<1> DEFINE Failed(l) == \E k \in DOMAIN Entries : /\ l \in Ends(Entries[k])
                                                  /\ Entries[k].from <= clock /\ ~Undone(k)
<1> SUFFICES ASSUME stage = "run", Quiet, \A e \in Pending : TimeOf(e) > clock,
                    NEW n \in Node, NEW m \in Node
             PROVE  m \in interfaceDown[n] <=> <<n, m>> \in LostAtBaseline \/ Failed(<<n, m>>)
  BY DEF DownDuringFailures
<1>1. TypeOKSchedule /\ EventOrder /\ EndsFollow /\ executed \subseteq Events
      /\ Entries \in Seq(FailureEntry) /\ clock \in Nat
  BY DEF TypeOK, ScheduleInv, TypeOKSchedule, Entries
<1>2. \A e \in Events : e \in executed <=> TimeOf(e) <= clock
  <2> SUFFICES ASSUME NEW e \in Events  PROVE e \in executed <=> TimeOf(e) <= clock
    OBVIOUS
  <2>1. TimeOf(e) \in Nat  BY <1>1, EventFacts
  <2>2. e \notin executed => TimeOf(e) > clock  BY DEF Pending
  <2> QED  BY <1>1, <2>1, <2>2 DEF EventOrder
<1>3. PICK l : l = <<n, m>>
  OBVIOUS
<1>4. l \in Node \X Node /\ l[1] = n /\ l[2] = m
  BY <1>3
<1>5. l \in LostAtBaseline => m \in interfaceDown[n]
  BY <1>3 DEF LostInv
<1>6. Follows(l)
  BY <1>1, <1>4 DEF EndsFollow, Quiet
<1>7. CASE /\ \A e \in executed : ~OnLink(e, l)
           /\ m \in interfaceDown[n] <=> l \in LostAtBaseline
  <2>1. ASSUME NEW k \in DOMAIN Entries, l \in Ends(Entries[k]), Entries[k].from <= clock
        PROVE  FALSE
    <3>1. FailureOf(k) \in Events /\ TimeOf(FailureOf(k)) = Entries[k].from
      BY EventsOfEntry DEF TimeOf
    <3>2. OnLink(FailureOf(k), l)
      BY <2>1, EventsOfEntry DEF OnLink
    <3> QED  BY <1>2, <1>7, <2>1, <3>1, <3>2
  <2> QED  BY <1>3, <1>7, <2>1
<1>8. ASSUME NEW e \in executed, LastOn(e, l), m \in interfaceDown[n] <=> ~e[2]
      PROVE  m \in interfaceDown[n] <=> Failed(l)
  <2>1. ~e[2] <=> Failed(l)
    BY <1>1, <1>2, <1>4, <1>8, LastEventDecides
  <2> QED  BY <1>8, <2>1
<1>9. CASE \E e \in executed : LastOn(e, l) /\ (m \in interfaceDown[n] <=> ~e[2])
  <2>1. m \in interfaceDown[n] <=> Failed(l)
    BY <1>8, <1>9
  <2> HIDE DEF Failed
  <2> QED  BY <1>3, <1>5, <2>1
<1> QED  BY <1>4, <1>6, <1>7, <1>9 DEF Follows

\* The statistics line misses no failure of the schedule, although each is recorded only as the
\* call that took the link down returns, but for as many as were applied beforehand.
THEOREM StatsCountAll == Spec => []StatsComplete
<1>1. IInv /\ ScheduleInv => StatsComplete
  BY StatsFollow DEF IInv
<1> QED  BY <1>1, SpecSchedule, PTL

\* Once the events of a moment have run, each end of each link is as the last event about the link
\* left it, or as it was beforehand if there was none: in whatever order entries, files and random
\* failures were scheduled, at whatever times, and for any number of entries about one link.
THEOREM LinksFollowSchedule == Spec => []DownDuringFailures
<1>1. IInv /\ BaseInv /\ ScheduleInv => DownDuringFailures
  BY DownFollows DEF IInv, BaseInv
<1> QED  BY <1>1, SpecSchedule, PTL
===============================================================================
