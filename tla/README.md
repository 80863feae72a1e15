# Nuwa: a TLA+ verification project

Nuwa (`Nvwa/src/datacenter` of this repository) is an ns-3 module that builds
structured data-centre fabrics from templates and routes packets in them by
rules on structured addresses instead of routing tables. When links fail, its
routers keep small *exception tables* and withdraw lost destinations from their
neighbours; policies may send packets by a detour. The repository compares this
with baseline protocols that keep tables. This directory models the module in
TLA+, checks the models with TLC and proves their main properties with TLAPS.

The repository contains a whole copy of ns-3. What is modelled is the module
that the project adds to it; all paths below are relative to
`Nvwa/src/datacenter`.

## 1. The system

### Components

| component | state | operations | correct when |
|---|---|---|---|
| `helper/failure-helper` | global batch statistics; otherwise none, links keep their own state | `SetLinkDown`, `SetLinkUp`, applying or scheduling them from JSON or at random | both ends of a link follow each event exactly once, and the statistics count every failure |
| `model/rule-based-routing`, control plane | per router: exception trie, epoch counter, two gates (`m_lastEpochSeen`, `m_lastEpochSeenFromSender`); global withdrawal queue | `NotifyInterfaceDown/Up`, `SendWithdrawalToNeighbors`, `EnqueueWithdrawalImmediate`, `HandleWithdrawalFromNeighbor`, the trie operations | after an event every router uses the next hops that still lead to the destination, and no other; each cascade ends |
| `model/rule-based-routing`, forwarding | caches | `Evaluate`, `RouteInput`, `RouteOutput` | an exception overrides the rules; no failed port is selected |
| `model/routing-common` (`PortSet`, `PortSelector`) | port buckets by direction and key, failed ports, lists of available ports, buckets by number, index of keys by port | `Set*`, `Add*`, `MarkPortDown/Up`, getters | the redundant lists never make a getter answer wrongly |
| `model/clos-inter-level-template` | parameters | `Connect`, `ConnectRailOptimized`, the two Clos rules | addresses, buckets and links fit together |
| `model/structured-topology`, `topology-builder`, `*-level-template`, `symmetric-degree-graph` | nodes, addresses and local indices per level | `CreateLevel`, `ReplicateTopologyInPlace`, `ConnectNodes`, `Build` | addresses are unique, a replica's buckets are those of the original |
| `model/routing-rule`, `routing-rule-manager` | rules per level, cached "needs a flow hash" | `AddRule`, `FreezeLevel`, `GetRules` | rules are tried by priority |
| `model/non-minimal-policy`, `non-minimal-routing-tag`, `congestion-signal-provider`, `ingress-classifier` | cached field values; phase, flags and rewrites in the packet's tag; bucket of every port | `Decide` of Valiant, UGAL and Detour; `Classify` | a packet makes its detour, leaves it and arrives |
| `model/structured-address`, `-directory`, helper | fields; address book | parse, format, look up, compare prefixes | |
| baselines `dragonfly-ugal/valiant-routing`, `torus-detour-routing` | neighbour and group tables, caches; the same tag | `RouteInput`, `RouteOutput` | they forward a packet as the policy they are compared with does |
| baseline `node-bfs-routing` and helper | a table of next hops per node and host; distances of the intact fabric | `CalculateRoutes`, `EnableStrictBaseline`, recalculation after every interface change | the tables hold the shortest live paths, without loops |
| `examples/constructor.cc`, the other examples, `experiments/`, `utils/` | options of an experiment | build a fabric from a recipe, install a protocol, fail links, start flows | failures are applied before or during the run, as asked |

### Interactions

The simulator is single-threaded and everything in the failure control plane is
a *direct call*: `SetLinkDown` tells both routers at the ends of a link, a
router that has lost the last next hop for a region calls
`HandleWithdrawalFromNeighbor` on each neighbour, through a global FIFO which
the outermost sender drains. So there are no lost or concurrent messages, but
there is reentrancy, deferred work and order: what a router decides before the
drain, its neighbours act on during it; peers are taken from an `unordered_set`
and regions in the order of hosts; the cascade of the first end of a link runs
while the second end does not yet know that the link is down.

### What is hard

The list is in `PROJECT.json` under `hazards`, each at its line. In the control
plane: the order of failures and of deliveries; regions that overlap (a rack and its
pod) and longest-prefix match; the two gates, which compare epochs; cascades
around the loops of a fabric; recovery, which sends nothing; exceptions that
outlive the ports they name; keys read out of a region by position; the lowest
level, whose address bit is -1; redundant lists in `PortSet` that are stale
while buckets are filled.

In the rest: routes are recalculated for each end of a link in turn, from within
the call that changes it; a baseline measured once has to stay the reference
through failures and recoveries; failure intervals of a link may meet, and
recoveries come before their failures.
Replication copies buckets by interface *number*, before the copies have links;
rules are generated one template at a time, and an action without ports hands
over to the next rule silently. The phase of a detour travels in a tag that
several routers read and change, and two implementations of the same policy, on
different tables, have to agree at every hop.

## 2. Modules

```
RegionKeys, RegionExceptions <-- FailureWithdrawal <-- ClosForwarding, ClosFabric <-- MCWithdrawal
                                     FailureWithdrawalProofs <-- ClosForwardingProofs

PortSet --> AvailablePorts (refinement)                 PortSetProofs

NodeBfsRouting <-- FailureSchedule <-- MCRecalculation  FailureScheduleProofs
                     --> ShortestPaths (reference)

StructuredTopology <-- TemplateRouting <-- Construction <-- MCConstruction
     ^                     ^                 --> ClosFabric, ShortestPaths
     |                     |
     |     NonMinimalRouting <-- Baselines <-- Detours <-- MCDetours
     |                                                  DetoursProofs
TopologyProofs <-- ReplicationProofs <-- ConstructionProofs, DetoursProofs
```

An arrow `<--` is EXTENDS, `-->` INSTANCE; a `...Proofs` module
extends the specification it is about. There are four machines: the
failure control plane, `PortSet`, an experiment over the BFS baseline, and the
building of a fabric, which goes on with one packet in `Detours`.

### The failure control plane

* **RegionKeys** declares the fabric a router sees (nodes, neighbours, levels,
  addresses, buckets) with its assumptions, and defines the regions that
  `NotifyInterfaceDown` derives from a bucket and the bucket key that
  `HandleWithdrawalFromNeighbor` reads out of a region. A region is a prefix of
  an address, most significant field first. Conditions of the code on address
  bits and lengths are kept, as the findings turn on them.
* **RegionExceptions** has the exception table as operators: the trie is a
  function from the regions that own an entry to candidate *sets*, because
  `PickEgress` picks by flow hash and may pick any.
  `UpdatedTable` and `EmptiedRegions` together are
  `UpdateExceptionWithPrefixIntersections`.
* **FailureWithdrawal** is the control plane. Its variables are those of the
  routers (`down`, `exceptions`, the gates, `epochCounter`), the global queue,
  and the suspended frames of the running call (`call`, `notify`, `broadcast`),
  so that each loop iteration of the code is one step and the steps of two
  routers interleave exactly as reentrancy allows:

  | action | code |
  |---|---|
  | `SetLinkDown`, `SetLinkUp` | find the channel, turn to its two ends (device 0 first) |
  | `NotifyInterfaceDown` | early return; mask the port; collect the impacted buckets |
  | `UpdateRegion` | one turn of the loop over impacted buckets and their regions |
  | `Withdraw` | a region emptied just now: next epoch, start sending |
  | `SendToPeer` | one turn of `SendWithdrawalToNeighbors`: enqueue, start to drain |
  | `DropRepeated`, `IgnoreWithdrawal`, `ApplyWithdrawal` | the three outcomes of `HandleWithdrawalFromNeighbor`, with the entries it pushes |
  | `NotifyReturns` | `NotifyInterfaceDown` returns to `SetLinkDown` |
  | `NotifyInterfaceUp` | the whole handler |

  A queue record stands for the consecutive entries one
  `SendWithdrawalToNeighbors` pushed during a drain; its peers are taken in any
  order, as they come out of an `unordered_set`.
* **ClosFabric** computes the fabric that a stack of `ClosInterLevelTemplate`s
  builds: links by group, addresses, buckets. Parameters are the template's
  (copies, parents, groups), so fat trees, full meshes and dual-homed racks are
  instances.
* **ClosForwarding** adds `Evaluate` over the two Clos rules, as the set of
  interfaces over all flow hashes, and states what the control plane is for,
  against a reference the code does not compute (which next hops lead to the
  destination over live links).
* **PortSet** models every method of the class with its redundant lists;
  **AvailablePorts** is the abstract specification, a port set without any. That
  `PortSet` implements it is checked by TLC and proved.
* **MCWithdrawal** instantiates the fabrics and the sets of links that fail.

### The BFS baseline and the failure schedule

* **NodeBfsRouting** is the helper's `CalculateRoute`, with and without the strict
  baseline. The loop is kept: `ScanDevice` looks at one device of the node at
  hand, `NextNode` goes to the next one in the queue, `EndVisit` to the next host
  or, after the last, installs all tables. `SetInterface` is `Ipv4::SetDown` or
  `SetUp`, whose notification starts the calculation afresh within the call.
* **FailureSchedule** is the part of `constructor.cc` around it. `PreApplyFailure`,
  `PreApplyDone`, `EnableStrictBaseline`, `CalculateRoutes` and
  `ScheduleFailures` are the stages of the driver, `RunEvent` is the simulator
  taking the next event (by time, then in scheduling order), `ChangeEnd` one end
  of a link, `LinkSet` the return of the call, when the destructor of its timer
  updates the statistics.
* **ShortestPaths** says what the tables should be, in terms of sets of nodes
  within a distance (a recursive function, so that it can be proved about); it
  knows nothing of queues.

### Building a fabric, and routing in it

* **StructuredTopology** is `TopologyBuilder::Build`: one step per level
  replicated (`ReplicateLevel`, `CopyPortSets`), per level or dimension created
  (`CreateLevel`, `CreateDimension`), per `Connect` and per call of
  `ConnectNodes`, then `GenerateRoutingRules`. Templates are Clos, rail, server,
  full mesh (both arrangements) and torus. The order in which the code calls
  `ConnectNodes` decides the interface numbers, so the links are sequences in
  that order.
* **TemplateRouting** is `Evaluate` with the rules of all templates: match,
  bucket, priority; the result is the set of interfaces over all flow hashes.
* **Construction** states what a finished fabric has to satisfy.
* **NonMinimalRouting** is `NonMinimalPolicy`: field values, transit rewrites,
  the decision of each algorithm on the tag of a packet.
* **Baselines** holds `DragonflyValiantRouting`, `DragonflyUgalRouting` and
  `TorusDetourRouting` as functions from a node and a tag to an interface and a
  tag, on the neighbour tables the code derives.
* **Detours** builds a fabric, sends one packet (`Send` is `RouteOutput` at a
  host, `Forward` is `RouteInput`) with any flow hash and any queue lengths, and
  forwards a twin by the baseline beside it. UGAL looks at queues only at the
  source router, which is where `Forward` chooses their lengths.
* Definitions that begin with `\* Wrong:` are variants of the definition that
  follows them with a plausible bug in it. No specification uses them; they
  document which mistake each property catches (`mutants` in `PROJECT.json`).

## 3. What is checked

All fabrics of the control plane have two pods of two racks of two hosts (the host-link run has two
racks). Two of everything is the least at which a next hop can be lost while
another is left, a region be emptied, a cascade pass through a second switch
and come back by a loop; two racks per pod make regions overlap.

| run | instance | shows |
|---|---|---|
| `failures` | two edge switches per rack, fully meshed core, up to 3 of the 12 links of pod 1 fail | `RoutesExact`: after any failures in any order and with any delivery order every router offers exactly the next hops that still lead to the rack. `Nested`, `OnlyShrink`: tables stay sound for longest-prefix match and only narrow. `FirstHandAccepted`: an echo of a withdrawal never makes the sender gate drop what the originator itself sends |
| `recoveries` | fat tree, up to 3 failures and recoveries of the links of pod 1 | `TypeOK`; `NoFailedNextHop`, `ExceptionsNarrowRules`: no packet goes to a failed port or against the rules; `EndsAgree`; `OneUpdateInFlight` and `WithdrawnIsEmpty`: what waits in the queue is current and still true |
| `calls_return` | fully meshed core, 2 events | `Returns`: every cascade ends |
| `port_set_getters` | 2 ports, 2 keys (one numeric), 2 groups, 4 building calls, any failures and recoveries | `KeepsPromise`: `PortSet` implements `AvailablePorts` |
| `recalculation` | two dual-homed racks under a spine; failure files with up to 2 of 3 links, at equal, meeting or separate times, in order and against it, one recovered from before it fails, and two random failures at once; applied before or scheduled; all three ways of routing | `ClosestFirst`: distances are final when they are compared. `NoForwardingLoop`, `NoDownInterface`: after every calculation the tables are free of loops and of failed links. `ShortestTables`, `StrictTables`: they are exactly the shortest live paths, or those of the intact fabric that are whole. `DownDuringFailures`: both ends of a link are as its last event left them, however its entries meet. `StatsComplete`: the statistics count all failures, too early by no more than were applied beforehand. `Settles`: calls and calculations end |
| `construction` | 13 recipes: fat trees, dual-homed hosts, a level without copies, rails with full and partly filled segments, dragonflies, tori of 2 and 3 dimensions, a ring of switches with hosts | `CopiesAlike`: the copies of a node are wired as it is, interface by interface. `PortsLead`, `EachLinkInOneBucket`: copied buckets lead where their keys say and miss no link. `HostAddressesDiffer`. `RulesDeliver`: whatever candidates are picked, every packet arrives within the length the templates promise. `RulesShortest`: in Clos fabrics the candidates are all shortest next hops, as the BFS baseline has them. `BuiltAsFabric`: the steps of the builder make the fabric that `ClosFabric` states in closed form, on which the runs above work |
| `detours` | dragonflies with 1 and 2 global links a router and with 3 routers a group, tori of 2 and 3 dimensions, two Clos fabrics and a ring under Valiant; queues of up to 2 | `SameAsBaseline`: policy and baseline take the same interfaces and write the same tags. `DetourMade`, `DetourBound`: the detour is made and costs at most one minimal route per transit. `LostOnlyWithoutTransit`: only a made-up address loses a packet. `DecidedAtSource`: UGAL decides once. `PhasesInOrder`: no router turns a tag back |

Three events are enough for a region to be lost in two steps and a third one to
hit what is left, or to be recovered; 4 building calls for a bucket to be
filled, replaced and extended next to another one. Two failures of one file are
enough for intervals to meet and for a baseline to lose a path in two steps,
the random ones add a batch and hit a link of the file at the moment of its recovery. The recipes have two, three and four
copies of a dimension, as the code computes with differences and halves of their
number. A queue of 2 is enough to be above the cost of a
detour (1), so that UGAL prefers either way.

`MaxLinkEvents`, `MaxBuilds`, `MaxLoad` and `MaxHops` are the only bounds;
`MaxHops` stops a counter at 20, far above `DetourBound`. Most runs switch
deadlock detection off: a simulation ends after its last link event, a builder
after its last template, and a run of `Detours` with the one packet it sends.

The links from edge switches to hosts are left out of the two large runs because
they break what these runs check: see `host_link_blackhole` and
`stale_host_exception`. `RoutesExact` speaks of racks for the same reason.

### Where code and documentation disagree

Each of these runs has one property, taken from a comment or a test, that the
code violates (`findings` in `PROJECT.json` gives lines and the behaviour):

* `recovery_blackhole` - recovery sends nothing and asks nothing, so a router
  takes up a route its neighbour withdrew while the link was down.
* `sender_gate_drops` - one update may empty several regions; they travel under
  one epoch, and the gate per sender takes the second for a repetition.
* `host_link_blackhole` - switches above hosts build no downward region, so a
  failed host link is withdrawn from nobody, even if the host has another one.
* `dual_tor_detour` - the bucket key is read out of a region by position only:
  a rack of another pod is taken for an own rack if the sender serves that one.
* `stale_host_exception` - hosts build no upward region, so their exceptions
  are not updated when an uplink fails, and `Evaluate` does not ask whether the
  port it picks is up.

### Fairness

`Spec` and `FailureSpec` state weak fairness of `Proceed`, the steps of a call
that has begun. The code justifies it: the calls are ordinary function calls of
a single-threaded simulator, which makes no other step before they return. No
fairness is assumed of link events. Only `Returns` needs it; a run that never
fails a link satisfies every property. For the same reason `FailureSchedule`
assumes it of `ChangeEnd`, `LinkSet` and the steps of a calculation, and of no
event; only `Settles` needs it. `Construction` states it of the builder, which
is one function call, although no property needs it. `Detours` assumes none.

## 4. What is proved

The theorems hold for every fabric that satisfies `FabricAssumption` and
`LinksAssumption` (addresses of one length, symmetric neighbours, finitely many
buckets and hosts, one bucket per interface), any set of failing links and any
number of events; TLC evaluates the assumptions in each run. Those of
`ClosForwardingProofs` are about the fabrics of `ClosFabric` (`ClosInstance`), with any
numbers of levels, replicas, parents and groups that let a parent have one child
in each replica (`OneChildPerReplica`), as fat trees and leaf-spine fabrics do. Those of
`FailureScheduleProofs` hold for every finite fabric and
order of devices (`BfsAssumption`) and every failure schedule
(`ExperimentsAssumption`, which includes that random failures are not recovered
from: the driver schedules `SetLinkDown` only for them). Those of `ConstructionProofs` hold for every list of
templates that gets through the assertions of the templates
(`RecipesAssumption`, `ConnectAssumption`), of any length and with any numbers.
Those of `DetoursProofs` hold for every list of templates, topology and policy
(`ScenariosAssumption`).

| theorem | says |
|---|---|
| `TypeCorrect` (FailureWithdrawalProofs) | `Spec => []TypeOK` |
| `WithdrawalsTrue` (FailureWithdrawalProofs) | `Spec => []WithdrawnIsEmpty` |
| `OneUpdate` (FailureWithdrawalProofs) | `Spec => []OneUpdateInFlight` |
| `LinkEndsAgree` (FailureWithdrawalProofs) | `Spec => []EndsAgree` |
| `NestedTables` (FailureWithdrawalProofs) | `FailureSpec => []Nested` |
| `TablesShrink` (FailureWithdrawalProofs) | `FailureSpec => OnlyShrink` |
| `NarrowRules` (ClosForwardingProofs) | `Spec => []ExceptionsNarrowRules` where a parent has one child per replica |
| `FailedMasked` (ClosForwardingProofs) | `Spec => []NoFailedNextHop` where, besides, a rack has one switch |
| `TypeCorrect` (FailureScheduleProofs) | `Spec => []TypeOK` |
| `QueueClosestFirst` (FailureScheduleProofs) | `Spec => []ClosestFirst` |
| `TablesLoopFree` (FailureScheduleProofs) | `Spec => []NoForwardingLoop` |
| `TablesLive` (FailureScheduleProofs) | `Spec => []NoDownInterface` |
| `TablesShortest` (FailureScheduleProofs) | `Spec => []ShortestTables`: the BFS of the code computes the reference |
| `TablesStrict` (FailureScheduleProofs) | `Spec => []StrictTables`: with the strict baseline, the routes of the fabric as it was that are still whole |
| `StatsCountAll` (FailureScheduleProofs) | `Spec => []StatsComplete` |
| `LinksFollowSchedule` (FailureScheduleProofs) | `Spec => []DownDuringFailures` |
| `TypeCorrect` (ConstructionProofs) | `Spec => []TypeOK`: every link the templates make is between existing nodes |
| `HostsNamedApart` (ConstructionProofs) | `Spec => []HostAddressesDiffer` |
| `CopiesWired` (ConstructionProofs) | `Spec => []CopiesAlike`: copied interface numbers are right |
| `LinksBucketed` (ConstructionProofs) | `Spec => []EachLinkInOneBucket` |
| `DetoursMoveOn` (DetoursProofs) | `Spec => PhasesInOrder` unless a scenario has UGAL |
| `TagsFit` (DetoursProofs) | `Spec => []TypeOK`: packets stay in the fabric and their tags fit the policy |
| `DecidedFirst` (DetoursProofs) | `Spec => []DecidedAtSource` where UGAL runs on fabrics whose hosts are linked to switches only |
| `TransitAvoidsEnds` (DetoursProofs) | the transit value is of neither end, if there is such a value |
| `PortSetImplements` (PortSetProofs) | `Spec => KeepsPromise`, the refinement |

*Inductive invariant of the protocol.* `WithdrawnIsEmpty` is not inductive: a
region becomes empty in `UpdateRegion` and enters the queue only after
`Withdraw` and `SendToPeer`. `Inv == TypeOK /\ Frames /\ SpeakForSender` states
it for every frame that will send as well: each region in `notify.emptied`,
`broadcast` and `queue` is empty at its sender. It is kept because an insertion
only ever narrows a table (`UpdateShrinks`) and because recovery, the one
step that widens tables, runs only when no frame is suspended (`Frames`). For
the region a step has just emptied it uses `EmptiedAreEmpty`.

*One update.* `CurrentUpdate` ties all entries of the queue and the running
broadcast to the router whose port went down and to its last epoch; nothing
else draws an epoch before the queue is empty.

*Link ends.* `LinkStates` follows the two ends of the link a call is about: the
end already notified has the state asked for, all other links agree. The case
that makes it interesting is an end already in that state.

*Tables.* While links only fail, a step leaves all tables alone or makes one
insertion (`FailureSteps`), and an insertion keeps nested tables nested
(`UpdateKeepsNested`) although it cuts the entries below by the candidates it
was given and not by what is left of them above.

*Exceptions narrow the rules.* What a router does with a withdrawal depends on
the bucket key read out of the region, whatever the fields before it are, so a
withdrawal about hosts elsewhere may be taken for one about a child. `LeadUp`
says what comes of that where every downward bucket has one port (`OnePathDown`,
shown for the stacks of templates by `ClosOnePathDown`): the entry made from
such a bucket is empty; an entry with candidates names ports up and its region
has no host below the router (`UpwardOnly`); and no parent ever withdraws from
a child a region with hosts below that child (`MayTell`), be it queued, being
sent or still to be sent. The last is what keeps the second when a withdrawal
comes down: a router that passes one on either has no hosts of the region below
it, or has them behind the sender, which is left out (`PassOn`). It fails where
a parent has two children in one replica, which is what `dual_tor_detour` shows.
The fat trees of `recoveries` and `recovery_blackhole` (`Num = <<1, 2, 2>>`,
`Grp = <<1, 1, 2>>`) satisfy the hypotheses.

*No failed next hop.* An entry may name a failed port: a failure inserts at the
regions its bucket serves, which cuts the entries below these and leaves those
above alone. `Masked` says when that is harmless: for each region `u` a router
serves upward, entries at and below `u` are clear of failed ports, and an entry above
`u` is clear or `u` has an entry, which lookup prefers; or else the loop of
`NotifyInterfaceDown` has still to come to `u` (`Awaited`). The hard step is
recovery, which removes entries (`RestoredClear`): a bucket that is whole again
leaves nothing to clear, one that is not gets entries at all its regions, and
the regions of a downward bucket are never such a `u`. Hosts serve no region, so
nothing clears their entries when their only port fails; `HostsEmpty` says they
are empty, as one port up leaves none when it is withdrawn. With two switches to
a rack they are not: `stale_host_exception`.

*PortSet.* `Inv == TypeOK /\ Mirrored /\ Rebuilt`: the copy by number and the
index always follow the downward buckets, the lists of available ports are only
right while some port is failed, which is when the getters read them.

*Recalculation.* `ClosestFirst` compares distances in the queue only; what keeps
it is that a scan appends a node one farther than the one at hand
(`QueueSorted`). `NoForwardingLoop` speaks of tables, which outlive the visits
that computed them. `IInv` carries it over: during a visit every entry for the
current host leads to a node closer to it by `dis` (`EntriesCloser`), hosts
already done have *some* ranking of the nodes that their entries descend
(`EntriesRanked`, for which `dis` is the witness when a visit ends), and
installed tables have such a ranking for each host (`TableInv`). A ranking
excludes loops, because the lowest node of any set has no next hop in the set.
`EntriesLive` is kept because a link
changes only between calculations (`task = "none"`), and either starts a new
one at once or comes before any table is installed.

*Detours.* `PhaseInv` says of the tag that its flags number a stage still to
come and that there are no more rewrites than the policy has stages;
`StagesMoveOn` that the first open stage is never before the one the tag holds.
With UGAL the theorem would not hold for every topology: a host that forwarded a
packet of its neighbour back would make a later router look like the source
router. In the fabrics the templates build, TLC finds that it holds.

`TagsFit` and `DecidedFirst` need to know where the packet is, so their
invariant `WayInv` contains the one of the builder (`WiringInv`): `BucketInv`
says that an interface a routing rule returns is an interface of the node, and
the wiring that its other end is a node, a switch if this end is a host of a
fabric whose first template has switches (`HostsBelow`). To it `WayInv` adds
`OnWay`: the packet has been at nodes of the fabric only (`Visited`), its tag
fits the policy (`TagFits`), and a mark left by UGAL has come at most one link
far (`NearSource`). That a picked transit value is one that its field has
(`PickedRewrites`) needs that the values of a field are finitely many numbers
(`ValuesFinite`, `GreatestNumber`), for `TransitValue` reads them as a circle.
Hosts linked to each other would hand the mark on, hence the hypothesis of
`DecidedFirst`; all fabrics the experiments run UGAL on satisfy it.

*Shortest tables.* `ShortestInv` says what a visit knows half way
(`DistancesSound`: a node found is one link farther than a node of the queue
that it has a live link to; `ScannedDone`: whatever has been looked at is found
and has its entry). When the queue is used up this gives, by well-founded
induction over the distance, that `dis` is the number of the first set of
`ShortestPaths` that holds the node, and that the entries are exactly its next
hops. It needs `ClosestFirst` for an entry not to be replaced later. That links
change between calculations only, and that a change starts the next one, carries
it over to the installed tables. All this is for `~strictBaseline`.

*Strict tables.* `StrictTables` compares the tables with those of a fabric that is
gone. `LostInv` relates the two: when the baseline is measured exactly the
failures applied beforehand are down (`ToBeChanged` are the ends a running call
has not reached), and they stay down, because recoveries are scheduled only for
a file that was not applied. So the links live later are among those of then
(`LiveOriginal`), and no node is closer than it was. By `BaselineInv` the
measuring visits, which are those of the shortest tables, leave the distances of
that fabric in `baseDist`; by `StrictInv` a visit that keeps to them finds a node
at its old distance or not at all (`OnBaseline`). Its entries then satisfy the
equation of `SurvivingNextHops`, and induction over the distance shows that only
one function does (`SurvivingIs`). Nothing is assumed of the schedule except that
random failures stay.

*Schedule.* `ScheduleInv` orders the events (`EventOrder`: what has run comes
before what is pending, by time and then by place in the file), counts them
(`StatsCount`: completed plus the failure whose call is running are those applied
beforehand and those run), and says that an end of a link is as the *last* event
on the link left it, or as it was beforehand, unless a call is just about to
change it (`EndsFollow`, `CallOfLast`). What was down when the schedule begins is
known from `LostInv` of the strict baseline, so the invariants of that proof are
part of this one. `DownDuringFailures` does not speak of a last event: by
`LastEventDecides` there is a failure without a recovery after it exactly if the
last event is a failure. `StatsComplete` follows by counting. Neither excludes any
schedule.

*Building.* `TopologyInv == SizeInv /\ LinkInv`. The loops of a template compute
node numbers from sizes, and the sizes are products that an earlier template has
made: `SizeInv` gives the product for every level and says which levels the
running replication has multiplied. The asserts of `Connect` are about the top
level; to know that they hold, `SizeInv` ties its size to `TopSizes` of the
recipe. `LinkInv` says that interfaces and pending calls are between existing
nodes, and that the links of the original block stay in it while copies are
made (otherwise `Copy` would number a node that does not exist). The division
and remainder arithmetic of the loops is in lemmas of its own (`Slot`,
`SlotsDiffer`, `LoopsRange`, `...Between`). `HostInv` adds that addresses of
hosts are of one length and differ; replication appends the number of the copy,
and rails and servers rewrite the addresses from the host's number.

*Copies.* `CopyPortSets` copies interface numbers, so every link of a copy has to
get the number its original has, although a replication makes the links by
level, dimension and node and not in the order of the original's interfaces.
`ReplicationProofs` shows that the two orders are the same. A link has a name,
`<<level, dimension, index of the node it was made from, interface there>>`;
`Before` compares names as the loops of the replication run. `OrderInv` says
that there are names for all links such that the interfaces of every node of the
block come in their order (`LinksNamed`), that a copy has the interfaces of its
original whose links have been copied and no others (`ReplicaOf`), and that the
calls still to come are in that order for each copy (`CallsCopy`). So the next
call always makes the first interface that a copy lacks (`NextInterface`). The
invariant is about names because interface numbers alone do not say in what
order two nodes got a link. When all levels are replicated, copies of names are
names of the copies (`Lift`); and the links a template adds come last, because
they are of the top level and a new dimension and are made node by node
(`TopOrder`, shown for each of the loops of the templates).

*Buckets.* `BucketInv` says of the block that every interface is in one bucket
once (`FilledOnce`), and of the copies on finished levels that their buckets are
those of the originals; `CopiesAlike` turns that into `FilledOnce` of the copies.

*Only model-checked.* `RoutesExact` and `FirstHandAccepted` are properties of
the bounded runs and not of all fabrics. `RoutesExact` fails
where one withdrawal makes a router pass on two regions: the second has the
epoch of the first and is dropped by the gate per sender and origin (finding
`sender_gate_drops`). On the fat tree three failed links
that cut a pod off are enough, as TLC finds when it simulates failures of
all `FabricLinks`: a host then goes on offering its switch for one of the racks. `FirstHandAccepted` would need that no region longer
than the one withdrawn comes back to the originator under its epoch, which the
gates do not exclude. `RulesDeliver`, `RulesShortest`, `PortsLead` and
`BuiltAsFabric` compare the whole fabric, template by template, with what it
should be. `SameAsBaseline`, `DetourMade`, `DetourBound` and
`LostOnlyWithoutTransit` are about the routes in such a fabric. `Returns` and
`Settles` are liveness properties, out of the prover's reach.

## 5. What is not modelled

* ns-3 itself, which is most of the repository by far: the module is modelled
  from how it calls the simulator (events in order of time, single-threaded,
  a channel with two devices, interfaces that notify their protocol).
* Parallel links: an interface is named by its neighbour in the protocols.
  `SetLinkDown` toggles only the first channel between two nodes.
* Same-level buckets under the withdrawal protocol: the actions have them, but
  no instance of `FailureWithdrawal` does; full meshes and tori are modelled
  without failures.
* `FatTreeRouting`, which is not built; `SymmetricDegreeGraph`, which chooses
  senders and receivers for two examples; `IngressClassifier`, whose directions
  no policy reads; `PortSelector`, whose hash is left open as a choice among all
  candidates.
* Packets that a router sends itself; more than one packet at a time (queues are
  arbitrary numbers instead); local delivery and header handling.
* The names and addresses of ns-3: the IP address book, parsing and formatting
  of structured addresses (except by field), serialisation of the tag.
* Logging, profiling, traces, wording and layout of dumps; the JSON files.

## 6. Plan

Done, in the order of what matters most to the system: the failure control
plane with forwarding in Clos fabrics; `PortSet`; the failure schedule with the
BFS baseline; the builder, shown to make the fabrics the control plane is checked
on; non-minimal routing beside its baselines; the theorems above.

Left:

1. Full-mesh and torus fabrics as instances of the withdrawal protocol, to
   exercise same-level buckets, built by `StructuredTopology` instead of being
   given in closed form.
2. Detours and failures together: an exception may empty the bucket that the
   way to a transit node needs.
3. Proofs: `PortsLead` template by template, and from it where the rules lead.
