--------------------------- MODULE FailureWithdrawal ---------------------------
(***************************************************************************)
(* The failure control plane of Nuwa: FailureHelper takes links down and   *)
(* up, each RuleBasedRouting masks its port, updates its exception table   *)
(* and, when a region loses its last candidate, withdraws the region from  *)
(* its neighbours, which do the same.                                      *)
(*                                                                         *)
(* Everything runs inside one call of FailureHelper: a withdrawal is a     *)
(* direct call on the neighbour through a global FIFO that the outermost   *)
(* sender drains.  The state therefore holds the suspended frames of that  *)
(* call:                                                                   *)
(*   call       SetLinkDown / SetLinkUp: the ends still to be notified     *)
(*   notify     NotifyInterfaceDown: regions still to be updated, emptied  *)
(*              regions still to be withdrawn                              *)
(*   broadcast  SendWithdrawalToNeighbors: peers still to be sent to       *)
(*   queue      g_withdrawQueue; a record of it stands for the consecutive *)
(*              entries one SendWithdrawalToNeighbors pushed while the     *)
(*              queue was being drained                                    *)
(* The peers are kept in an unordered_set, the regions of a bucket follow  *)
(* the order in which hosts were created: both are taken in any order.     *)
(***************************************************************************)
EXTENDS RegionKeys, RegionExceptions

CONSTANTS
  Links,          \* <<dev0's node, dev1's node>> of each link that is ever failed
  MaxLinkEvents   \* bound on the number of SetLinkDown and SetLinkUp calls

ASSUME LinksAssumption ==
  /\ MaxLinkEvents \in Nat
  /\ \A l \in Links : l \in Node \X Node /\ l[2] \in Neighbour[l[1]]

VARIABLES
  down,            \* m_failedPorts of each router
  exceptions,      \* the exception table of each router
  lastEpochSeen,   \* m_lastEpochSeen: <<origin, region>> -> epoch
  lastEpochSeenFromSender,  \* <<sender, origin>> -> epoch
  epochCounter,    \* m_withdrawEpochCounter
  queue,           \* g_withdrawQueue
  dispatching,     \* g_withdrawDispatching
  call, notify, broadcast,
  linkEvents       \* calls made so far

routers == <<down, exceptions>>
gates == <<lastEpochSeen, lastEpochSeenFromSender, epochCounter>>
fifo == <<queue, dispatching>>
vars == <<routers, gates, fifo, call, notify, broadcast, linkEvents>>

-----------------------------------------------------------------------------
NoCall == [up |-> FALSE, ends |-> <<>>]
NoNotify == [active |-> FALSE, impacts |-> {}, triggered |-> {}, emptied |-> <<>>]
NoBroadcast == [rk |-> <<>>, epoch |-> 0, peers |-> {}]

Init ==
  /\ down = [n \in Node |-> {}]
  /\ exceptions = [n \in Node |-> NoExceptions]
  /\ lastEpochSeen = [n \in Node |-> << >>]
  /\ lastEpochSeenFromSender = [n \in Node |-> << >>]
  /\ epochCounter = [n \in Node |-> 0]
  /\ queue = << >>
  /\ dispatching = FALSE
  /\ call = NoCall
  /\ notify = NoNotify
  /\ broadcast = NoBroadcast
  /\ linkEvents = 0

\* PortSet::GetAvailable*: the ports of a bucket that are not failed.
Available(n, ports) == ports \ down[n]

\* The epoch a gate holds for a key: 0, below every epoch issued, if none.
EpochAt(gate, key) == IF key \in DOMAIN gate THEN gate[key] ELSE 0

Record(gate, keys, epoch) ==
  [k \in DOMAIN gate \cup keys |-> IF k \in keys THEN epoch ELSE gate[k]]

\* The orders in which one update may list the regions it emptied: the
\* updated region first, then those below it in the trie, parents first.
Listings(regions) ==
  {s \in SetToSeqs(regions) : \A i, j \in DOMAIN s : i < j => ~IsStrictPrefix(s[j], s[i])}

\* Wrong: an enqueued withdrawal is left for later.
QueueDrainedLater == TRUE

\* No frame of the current call is suspended inside the one named.
QueueDrained == ~dispatching
BroadcastDone == QueueDrained /\ broadcast.peers = {}
NotifyDone == BroadcastDone /\ notify.emptied = <<>> /\ notify.impacts = {}
Idle == call.ends = <<>>

\* The router and the port the current NotifyInterfaceDown or Up is about.
Here == Head(call.ends).node
Port == Head(call.ends).port

-----------------------------------------------------------------------------
\* Wrong: only device 0 of the channel is told.
SetLinkOneEnd(l, up) ==
  /\ Idle
  /\ linkEvents < MaxLinkEvents
  /\ linkEvents' = linkEvents + 1
  /\ call' = [up |-> up, ends |-> <<[node |-> l[1], port |-> l[2]]>>]
  /\ UNCHANGED <<routers, gates, fifo, notify, broadcast>>

\* FailureHelper::SetLinkDown and SetLinkUp find the channel between the two
\* nodes and turn to both its ends, device 0 first.
SetLink(l, up) ==
  /\ Idle
  /\ linkEvents < MaxLinkEvents
  /\ linkEvents' = linkEvents + 1
  /\ call' = [up |-> up, ends |-> <<[node |-> l[1], port |-> l[2]],
                                    [node |-> l[2], port |-> l[1]]>>]
  /\ UNCHANGED <<routers, gates, fifo, notify, broadcast>>

SetLinkDown(l) == SetLink(l, FALSE)
SetLinkUp(l) == SetLink(l, TRUE)

\* Buckets of the router that hold the port, with the regions they serve.
Impacts(n, port) ==
  UNION {{[ports |-> b.ports, rk |-> rk] : rk \in BucketRegions(n, b)} :
           b \in {c \in Buckets[n] : port \in c.ports}}

NextEnd == call' = [call EXCEPT !.ends = Tail(@)]

\* Wrong: withdrawals travel upwards only.
UpstreamPeers(n, excluded) == {m \in Neighbour[n] : Level[m] > Level[n]} \ {excluded}

\* Every neighbour, failed links included, but the one left out.
Peers(n, excluded) == Neighbour[n] \ {excluded}

\* Wrong: a bucket that still misses a port is restored as a whole.
RestoredWhole(table, impacts, stillDown) ==
  LET partial == {i \in impacts : i.ports \cap stillDown # {}}
  IN SetExceptions(RemoveExceptions(table, {i.rk : i \in impacts \ partial}),
                   [r \in {i.rk : i \in partial} |-> (CHOOSE i \in partial : i.rk = r).ports])

\* The exception table after a port of these impacted buckets came up: a bucket
\* that is whole again gives up its entries, one that still misses a port has
\* them overwritten.
Restored(table, impacts, stillDown) ==
  LET partial == {i \in impacts : i.ports \cap stillDown # {}}
      kept == [r \in {i.rk : i \in partial} |->
                 (CHOOSE i \in partial : i.rk = r).ports \ stillDown]
  IN SetExceptions(RemoveExceptions(table, {i.rk : i \in impacts \ partial}), kept)

\* NotifyInterfaceUp; it does nothing if the port is up, and sends nothing.
NotifyInterfaceUp ==
  LET stillDown == down[Here] \ {Port}
  IN /\ call.ends # <<>> /\ call.up
     /\ NextEnd
     /\ IF Port \notin down[Here] THEN UNCHANGED routers
        ELSE /\ down' = [down EXCEPT ![Here] = stillDown]
             /\ exceptions' = [exceptions EXCEPT ![Here] =
                                 Restored(@, Impacts(Here, Port), stillDown)]
     /\ UNCHANGED <<gates, fifo, notify, broadcast, linkEvents>>

\* NotifyInterfaceDown, up to its loop over the impacted buckets; it returns
\* at once if the port is down already.
NotifyInterfaceDown ==
  /\ call.ends # <<>> /\ ~call.up /\ ~notify.active
  /\ IF Port \in down[Here]
     THEN /\ NextEnd
          /\ UNCHANGED <<down, notify>>
     ELSE /\ down' = [down EXCEPT ![Here] = @ \cup {Port}]
          /\ notify' = [NoNotify EXCEPT !.active = TRUE, !.impacts = Impacts(Here, Port)]
          /\ UNCHANGED call
  /\ UNCHANGED <<exceptions, gates, fifo, broadcast, linkEvents>>

\* One turn of that loop: the available ports of the bucket are inserted for
\* one of its regions.  The bucket holds the failed port, so what is available
\* differs from the bucket, and before the failure the port was available too.
UpdateRegion(i) ==
  LET n == Here
      avail == Available(n, i.ports)
      emptied == EmptiedRegions(exceptions[n], i.rk, avail, avail \cup {Port})
                   \ notify.triggered
  IN /\ notify.active /\ BroadcastDone /\ notify.emptied = <<>>
     /\ exceptions' = [exceptions EXCEPT ![n] = UpdatedTable(@, i.rk, avail)]
     /\ \E s \in Listings(emptied) :
          notify' = [notify EXCEPT !.impacts = @ \ {i},
                                   !.triggered = @ \cup emptied,
                                   !.emptied = s]
     /\ UNCHANGED <<down, gates, fifo, call, broadcast, linkEvents>>

\* Wrong: all withdrawals of a router carry the same epoch.
WithdrawSameEpoch ==
  LET n == Here
      rk == Head(notify.emptied)
  IN /\ notify.active /\ BroadcastDone /\ notify.emptied # <<>>
     /\ epochCounter' = [epochCounter EXCEPT ![n] = 1]
     /\ lastEpochSeen' = [lastEpochSeen EXCEPT ![n] = Record(@, {<<n, rk>>}, 1)]
     /\ broadcast' = [rk |-> rk, epoch |-> 1, peers |-> Peers(n, Port)]
     /\ notify' = [notify EXCEPT !.emptied = Tail(@)]
     /\ UNCHANGED <<routers, lastEpochSeenFromSender, fifo, call, linkEvents>>

\* The router originates the withdrawal of a region it has just emptied.
Withdraw ==
  LET n == Here
      rk == Head(notify.emptied)
      epoch == epochCounter[n] + 1
  IN /\ notify.active /\ BroadcastDone /\ notify.emptied # <<>>
     /\ epochCounter' = [epochCounter EXCEPT ![n] = epoch]
     /\ lastEpochSeen' = [lastEpochSeen EXCEPT ![n] = Record(@, {<<n, rk>>}, epoch)]
     /\ broadcast' = [rk |-> rk, epoch |-> epoch, peers |-> Peers(n, Port)]
     /\ notify' = [notify EXCEPT !.emptied = Tail(@)]
     /\ UNCHANGED <<routers, lastEpochSeenFromSender, fifo, call, linkEvents>>

\* SendWithdrawalToNeighbors outside any drain, one turn of its loop: the
\* entry is enqueued and EnqueueWithdrawalImmediate starts to drain.
SendToPeer(p) ==
  /\ QueueDrained
  /\ queue' = Append(queue, [rk |-> broadcast.rk, origin |-> Here, epoch |-> broadcast.epoch,
                             from |-> Here, peers |-> {p}])
  /\ dispatching' = TRUE
  /\ broadcast' = IF broadcast.peers = {p} THEN NoBroadcast
                  ELSE [broadcast EXCEPT !.peers = @ \ {p}]
  /\ UNCHANGED <<routers, gates, call, notify, linkEvents>>

\* NotifyInterfaceDown returns.
NotifyReturns ==
  /\ notify.active /\ NotifyDone
  /\ notify' = NoNotify
  /\ NextEnd
  /\ UNCHANGED <<routers, gates, fifo, broadcast, linkEvents>>

-----------------------------------------------------------------------------
(* EnqueueWithdrawalImmediate drains the queue; each entry is handled by   *)
(* HandleWithdrawalFromNeighbor at the receiver p.                         *)
Entry == Head(queue)

\* Wrong: the handled entry is not taken off the queue.
DequeueKeepsEntry(p, pushed) ==
  /\ queue' = queue \o pushed
  /\ dispatching' = (queue' # <<>>)

\* Wrong: the flag that the queue is being drained is never cleared.
DequeueStillDispatching(p, pushed) ==
  /\ queue' = (IF Entry.peers = {p} THEN Tail(queue)
               ELSE <<[Entry EXCEPT !.peers = @ \ {p}]>> \o Tail(queue)) \o pushed
  /\ UNCHANGED dispatching

\* The entry for p leaves the queue, what its handler pushed joins at the end;
\* the drain ends with the last entry.
Dequeue(p, pushed) ==
  /\ queue' = (IF Entry.peers = {p} THEN Tail(queue)
               ELSE <<[Entry EXCEPT !.peers = @ \ {p}]>> \o Tail(queue)) \o pushed
  /\ dispatching' = (queue' # <<>>)

\* The available ports of the bucket of p with this direction and key, if one
\* of them leads to the sender.
Pool(p, dir, key, from) ==
  UNION {Available(p, b.ports) : b \in {c \in Buckets[p] :
           c.dir = dir /\ c.key = key /\ from \in Available(p, c.ports)}}

\* The first pool that leads to the sender: downward by the key read out of
\* the region, upward by the region or by the empty key, same-level.
DefaultCandidates(p, rk, from) ==
  LET pools == <<IF HasDownwardKey(p, rk) THEN Pool(p, "down", DownwardKey(p, rk), from)
                                          ELSE {},
                 Pool(p, "up", rk, from), Pool(p, "up", <<>>, from), Pool(p, "same", rk, from)>>
      usable == {i \in DOMAIN pools : pools[i] # {}}
  IN IF usable = {} THEN {} ELSE pools[CHOOSE i \in usable : \A j \in usable : i <= j]

\* The candidates p holds for the withdrawn region, its own exception first.
Candidates(p, rk, from) ==
  IF rk \in DOMAIN exceptions[p] /\ exceptions[p][rk] # {}
  THEN exceptions[p][rk] ELSE DefaultCandidates(p, rk, from)

\* The gate per sender and origin knows no region.
PassesSenderGate(p) ==
  Entry.epoch > EpochAt(lastEpochSeenFromSender[p], <<Entry.from, Entry.origin>>)

SeenAt(p) == EpochAt(lastEpochSeen[p], <<Entry.origin, Entry.rk>>)

\* The region gate lets the withdrawal pass and p routes by the sender.
Affects(p) ==
  Entry.epoch >= SeenAt(p) /\ Entry.from \in Candidates(p, Entry.rk, Entry.from)

PassGates(p) ==
  /\ dispatching /\ p \in Entry.peers /\ PassesSenderGate(p)
  /\ lastEpochSeenFromSender' =
       [lastEpochSeenFromSender EXCEPT ![p] = Record(@, {<<Entry.from, Entry.origin>>}, Entry.epoch)]

\* The sender gate drops the withdrawal.
DropRepeated(p) ==
  /\ dispatching /\ p \in Entry.peers /\ ~PassesSenderGate(p)
  /\ Dequeue(p, <<>>)
  /\ UNCHANGED <<routers, gates, call, notify, broadcast, linkEvents>>

\* The withdrawal is older than the region's last one, or p does not route
\* the region by the sender.
IgnoreWithdrawal(p) ==
  /\ PassGates(p) /\ ~Affects(p)
  /\ lastEpochSeen' = [lastEpochSeen EXCEPT ![p] =
       IF Entry.epoch < SeenAt(p) THEN @ ELSE Record(@, {<<Entry.origin, Entry.rk>>}, Entry.epoch)]
  /\ Dequeue(p, <<>>)
  /\ UNCHANGED <<routers, epochCounter, call, notify, broadcast, linkEvents>>

\* p stops routing the region by the sender and passes on every region this
\* empties, under the same origin and epoch, to all neighbours but the sender.
ApplyWithdrawal(p) ==
  LET w == Entry
      cand == Candidates(p, w.rk, w.from)
      emptied == EmptiedRegions(exceptions[p], w.rk, cand \ {w.from}, cand)
      peers == Peers(p, w.from)
  IN /\ PassGates(p) /\ Affects(p)
     /\ exceptions' = [exceptions EXCEPT ![p] = UpdatedTable(@, w.rk, cand \ {w.from})]
     /\ lastEpochSeen' = [lastEpochSeen EXCEPT ![p] =
          Record(@, {<<w.origin, r>> : r \in emptied \cup {w.rk}}, w.epoch)]
     /\ \E s \in Listings(emptied) :
          Dequeue(p, IF peers = {} THEN <<>>
                     ELSE [i \in DOMAIN s |-> [rk |-> s[i], origin |-> w.origin,
                             epoch |-> w.epoch, from |-> p, peers |-> peers]])
     /\ UNCHANGED <<down, epochCounter, call, notify, broadcast, linkEvents>>

-----------------------------------------------------------------------------
Dispatch == \E p \in Node : DropRepeated(p) \/ IgnoreWithdrawal(p) \/ ApplyWithdrawal(p)

\* The steps of a call that has started.
Proceed ==
  \/ Dispatch
  \/ \E p \in broadcast.peers : SendToPeer(p)
  \/ Withdraw
  \/ \E i \in notify.impacts : UpdateRegion(i)
  \/ NotifyReturns
  \/ NotifyInterfaceDown
  \/ NotifyInterfaceUp

Fail == \E l \in Links : SetLinkDown(l)
Recover == \E l \in Links : SetLinkUp(l)

Next == Proceed \/ Fail \/ Recover

\* A call runs to its end: the simulator makes no other step meanwhile.
Spec == Init /\ [][Next]_vars /\ WF_vars(Proceed)

\* The links of a run that only fails them.
FailureSpec == Init /\ [][Proceed \/ Fail]_vars /\ WF_vars(Proceed)

-----------------------------------------------------------------------------
Withdrawal == [rk : Region, origin : Node, epoch : Nat, from : Node, peers : SUBSET Node]
LinkEnd == {e \in [node : Node, port : Node] : e.port \in Neighbour[e.node]}
Impact == [ports : SUBSET Node, rk : Region]
IsGate(gate, key) == gate \in [DOMAIN gate -> Nat] /\ DOMAIN gate \subseteq key
IsTable(n, table) ==
  /\ IsFiniteSet(DOMAIN table) /\ DOMAIN table \subseteq Region
  /\ table \in [DOMAIN table -> SUBSET Neighbour[n]]

\* Type invariant: the routers' tables, the gates, and the frames of the
\* running call, each in its range.
TypeOK ==
  /\ down \in [Node -> SUBSET Node]
  /\ DOMAIN exceptions = Node
  /\ DOMAIN lastEpochSeen = Node /\ DOMAIN lastEpochSeenFromSender = Node
  /\ \A n \in Node : /\ down[n] \subseteq Neighbour[n]
                     /\ IsTable(n, exceptions[n])
                     /\ IsGate(lastEpochSeen[n], Node \X Region)
                     /\ IsGate(lastEpochSeenFromSender[n], Node \X Node)
  /\ epochCounter \in [Node -> Nat]
  /\ queue \in Seq(Withdrawal) /\ dispatching \in BOOLEAN /\ (dispatching <=> queue # <<>>)
  /\ call \in [up : BOOLEAN, ends : Seq(LinkEnd)]
  /\ notify \in [active : BOOLEAN, impacts : SUBSET Impact, triggered : SUBSET Region,
                 emptied : Seq(Region)]
  /\ broadcast \in [rk : Region, epoch : Nat, peers : SUBSET Node]
  /\ linkEvents \in Nat

\* A withdrawal speaks for its sender: while it waits in the queue, behind
\* everything queued before it, the router it comes from has no candidate left
\* for the region.  (HandleWithdrawalFromNeighbor and NotifyInterfaceDown
\* decide to send at one moment and the neighbours act on it at a later one.)
WithdrawnIsEmpty ==
  \A i \in DOMAIN queue :
    LET w == queue[i] IN w.rk \in DOMAIN exceptions[w.from] /\ exceptions[w.from][w.rk] = {}

\* All withdrawals in the queue belong to one update, the last that their
\* origin has started: the drain inside SendWithdrawalToNeighbors is over
\* before the next epoch is drawn.  The two gates rely on it when they take
\* equal epochs for one update and smaller ones for an older update.
OneUpdateInFlight ==
  \A i, j \in DOMAIN queue : /\ queue[i].origin = queue[j].origin
                             /\ queue[i].epoch = epochCounter[queue[i].origin]

\* The gate per sender never drops what the originator itself sends: nothing
\* its neighbours echo back makes it send twice under one epoch.
FirstHandAccepted ==
  dispatching /\ Entry.from = Entry.origin => \A p \in Entry.peers : PassesSenderGate(p)

\* Between calls the two ends of a link agree on whether it is down, although
\* either of them may already have been in the state asked for.
EndsAgree == Idle => \A l \in Links : l[2] \in down[l[1]] <=> l[1] \in down[l[2]]

\* Longest-prefix match is sound on the exception tables: a more specific
\* entry never offers an interface that a covering entry has given up.
\* UpdateExceptionWithPrefixIntersections cuts the entries below the inserted
\* one by the candidates passed in, before these are cut by the entries above.
Nested ==
  \A n \in Node : \A q, r \in DOMAIN exceptions[n] :
    IsPrefix(q, r) => exceptions[n][r] \subseteq exceptions[n][q]

\* Links that only fail never widen a route: no step of the cascade gives an
\* entry an interface back, or loses the entry.
OnlyShrink ==
  [][\A n \in Node : \A r \in DOMAIN exceptions[n] :
       /\ r \in DOMAIN exceptions'[n]
       /\ exceptions'[n][r] \subseteq exceptions[n][r]]_exceptions

\* Every call of FailureHelper returns: the cascade of withdrawals dies out,
\* over loops of the fabric as well.
Returns == ~Idle ~> Idle

===============================================================================
