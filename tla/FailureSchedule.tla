------------------------------ MODULE FailureSchedule ------------------------------
(***************************************************************************)
(* An experiment of constructor.cc over NodeBfsRouting: failures of a      *)
(* configuration file are applied before the routes are computed, or       *)
(* scheduled as events of the simulator; random failures are scheduled in  *)
(* any case.  FailureHelper takes links down and up and keeps the          *)
(* statistics of the updates.                                              *)
(***************************************************************************)
EXTENDS NodeBfsRouting

CONSTANT
  Experiments    \* the options tried, records of
                 \*   routing   "NodeBfs", "NodeBfsStrict" or "NodeBfsWithHost"
                 \*   failures  the failure file, a sequence of
                 \*             [link |-> <<n, m>>, from |-> time, until |-> time or Never]
                 \*   random    the links picked by random failure, as such a sequence
                 \*   preApply  whether the file is applied beforehand

Never == 0       \* the entry has no recovery_time

FailureEntry == [link : Node \X Node, from : Nat, until : Nat]

ASSUME ExperimentsAssumption ==
  \A e \in Experiments : /\ e.preApply \in BOOLEAN
                         /\ e.failures \in Seq(FailureEntry)
                         /\ e.random \in Seq(FailureEntry)
                         \* random failures are not recovered from
                         /\ \A k \in DOMAIN e.random : e.random[k].until = Never

VARIABLES
  routing, failures, random, preApply,   \* the options of the experiment
  stage,       \* how far constructor.cc has got
  applied,     \* number of failures applied before the routes are computed
  executed,    \* events run so far, each <<number of its entry, up>>
  clock,       \* Simulator::Now()
  call,        \* the running SetLinkDown or SetLinkUp: ends still to be changed
  stats        \* FailureUpdateStats; counted: what the printed line was made of

options == <<routing, failures, random, preApply>>
progress == <<stage, applied, executed, clock>>
vars == <<bfsVars, options, progress, call, stats>>

NoCall == [active |-> FALSE, up |-> FALSE, ends |-> <<>>]

Init ==
  /\ InitBfs
  /\ \E e \in Experiments : /\ routing = e.routing /\ failures = e.failures
                              /\ random = e.random /\ preApply = e.preApply
  /\ stage = "preApply" /\ applied = 0 /\ executed = {} /\ clock = 0
  /\ call = NoCall
  /\ stats = [expected |-> 0, completed |-> 0, printed |-> FALSE, counted |-> 0]

\* No call runs and no calculation.
Quiet == ~call.active /\ task = "none"

\* SetLinkDown, SetLinkUp: both ends of the channel, device 0 first.
SetLink(l, up) == call' = [active |-> TRUE, up |-> up, ends |-> <<l, <<l[2], l[1]>>>>]

\* ApplyFailuresFromJsonNow takes the links of the file down, whatever their
\* times; recoveries are not applied.
PreApplyFailure ==
  /\ stage = "preApply" /\ Quiet
  /\ preApply /\ applied < Len(failures)
  /\ SetLink(failures[applied + 1].link, FALSE)
  /\ applied' = applied + 1
  /\ UNCHANGED <<bfsVars, options, stage, executed, clock, stats>>

PreApplyDone ==
  /\ stage = "preApply" /\ Quiet
  /\ ~preApply \/ applied = Len(failures)
  /\ stage' = IF routing = "NodeBfsStrict" THEN "baseline" ELSE "routes"
  /\ UNCHANGED <<bfsVars, options, applied, executed, clock, call, stats>>

EnableStrictBaseline ==
  /\ stage = "baseline" /\ Quiet
  /\ BeginBaseline
  /\ stage' = "routes"
  /\ UNCHANGED <<options, applied, executed, clock, call, stats>>

CalculateRoutes ==
  /\ stage = "routes" /\ Quiet
  /\ BeginRoutes(routing = "NodeBfsWithHost")
  /\ stage' = "schedule"
  /\ UNCHANGED <<interfaceDown, options, applied, executed, clock, call, stats>>

\* Wrong: the batch of random failures is not registered.
RegisteredFromFile == Len(failures)

\* RegisterFailureBatch for the file, unless it was applied, and for the random links.
Registered == (IF preApply THEN 0 ELSE Len(failures)) + Len(random)

ScheduleFailures ==
  /\ stage = "schedule" /\ Quiet
  /\ stats' = [stats EXCEPT !.expected = @ + Registered]
  /\ stage' = "run"
  /\ UNCHANGED <<bfsVars, options, applied, executed, clock, call>>

-----------------------------------------------------------------------------
\* The scheduled entries, in the order of the calls of Simulator::Schedule.
Entries == (IF preApply THEN <<>> ELSE failures) \o random

Events ==
  {<<k, FALSE>> : k \in DOMAIN Entries}
    \cup {<<k, TRUE>> : k \in {n \in DOMAIN Entries : Entries[n].until # Never}}

\* Wrong: recovery_time is taken for the duration of the failure.
TimeOfDuration(e) ==
  IF e[2] THEN Entries[e[1]].from + Entries[e[1]].until ELSE Entries[e[1]].from

TimeOf(e) == IF e[2] THEN Entries[e[1]].until ELSE Entries[e[1]].from

\* The simulator takes events by time, those of the same time as scheduled.
RunsBefore(e, f) ==
  \/ TimeOf(e) < TimeOf(f)
  \/ TimeOf(e) = TimeOf(f) /\ (e[1] < f[1] \/ (e[1] = f[1] /\ ~e[2]))

Pending == Events \ executed

RunEvent ==
  /\ stage = "run" /\ Quiet
  /\ \E e \in Pending :
       /\ \A f \in Pending \ {e} : RunsBefore(e, f)
       /\ SetLink(Entries[e[1]].link, e[2])
       /\ clock' = TimeOf(e)
       /\ executed' = executed \cup {e}
  /\ UNCHANGED <<bfsVars, options, stage, applied, stats>>

\* One end of the link changes; routes are recalculated unless the driver
\* suppresses that while it applies the file.
ChangeEnd ==
  /\ call.active /\ call.ends # <<>>
  /\ LET e == Head(call.ends) IN SetInterface(e[1], e[2], call.up, stage = "preApply")
  /\ call' = [call EXCEPT !.ends = Tail(@)]
  /\ UNCHANGED <<options, progress, stats>>

\* MaybePrintFailureStats
Prints(completed) ==
  ~stats.printed /\ stats.expected # 0 /\ completed >= stats.expected

\* The call returns; the destructor of its timer records a failure update.
LinkSet ==
  /\ call.active /\ call.ends = <<>> /\ task = "none"
  /\ call' = NoCall
  /\ stats' = IF call.up THEN stats
              ELSE LET completed == stats.completed + 1
                   IN [stats EXCEPT !.completed = completed,
                                    !.printed = @ \/ Prints(completed),
                                    !.counted = IF Prints(completed) THEN completed ELSE @]
  /\ UNCHANGED <<bfsVars, options, progress>>

CalculateStep == Calculate /\ UNCHANGED <<options, progress, call, stats>>

Startup == PreApplyFailure \/ PreApplyDone \/ EnableStrictBaseline \/ CalculateRoutes
             \/ ScheduleFailures

Next == Startup \/ RunEvent \/ ChangeEnd \/ LinkSet \/ CalculateStep

Fairness == WF_vars(ChangeEnd \/ LinkSet \/ CalculateStep)

Spec == Init /\ [][Next]_vars /\ Fairness

-----------------------------------------------------------------------------
INSTANCE ShortestPaths WITH Vertex <- Node

Peers == [n \in Node |-> {Devices[n][k] : k \in DOMAIN Devices[n]}]
Live == [n \in Node |-> {m \in Peers[n] : LinkUp(n, m)}]

TypeOKSchedule ==
  /\ failures \in Seq(FailureEntry) /\ random \in Seq(FailureEntry) /\ preApply \in BOOLEAN
  /\ stage \in {"preApply", "baseline", "routes", "schedule", "run"}
  /\ applied \in 0..Len(failures)
  /\ executed \subseteq Events /\ clock \in Nat
  /\ call \in [active : BOOLEAN, up : BOOLEAN, ends : Seq(Node \X Node)]
  /\ stats \in [expected : Nat, completed : Nat, printed : BOOLEAN, counted : Nat]

\* What each variable of the tables, of the visit and of the experiment may hold.
TypeOK == TypeOKBfs /\ TypeOKSchedule

\* No table names a link with an end down, also after the calculation that the first end of
\* the link starts before the second has been told: the visit asks the interfaces at both ends.
NoDownInterface ==
  topoKnown /\ task = "none" =>
    \A n \in Node, h \in Host : rtTable[n][h] \subseteq Live[n]

\* Without a baseline the tables hold, after every event, exactly the next
\* hops on shortest live paths, through hosts only if withHost says so.
ShortestTables ==
  topoKnown /\ Quiet /\ ~strictBaseline =>
    \A h \in Host :
      LET hops == ShortestNextHops(h, IF withHost THEN Node ELSE Node \ Host, Live)
      IN \A n \in Node : rtTable[n][h] = hops[n]

\* The links that were down when the baseline was measured.
LostAtBaseline ==
  IF preApply THEN UNION {{failures[k].link, <<failures[k].link[2], failures[k].link[1]>>} :
                            k \in DOMAIN failures}
              ELSE {}

\* With a baseline they hold exactly those shortest paths of the fabric, as
\* it was when the routes were first computed, that are still whole: what
\* failed is not routed around by longer paths, and no table leads to a
\* node that has lost all its own routes.
StrictTables ==
  topoKnown /\ Quiet /\ strictBaseline =>
    LET original == [n \in Node |-> {m \in Peers[n] : <<n, m>> \notin LostAtBaseline}]
    IN \A h \in Host :
         LET hops == SurvivingNextHops(h, ShortestNextHops(h, Node \ Host, original), Live)
         IN \A n \in Node : rtTable[n][h] = hops[n]

\* Both ends of the link of an entry.
Ends(e) == {e.link, <<e.link[2], e.link[1]>>}

\* By now a recovery of the link of entry k has run after the failure of k.  It may be that
\* of another entry; of events at one time that of the later entry runs last.
Undone(k) ==
  \E p \in DOMAIN Entries :
    /\ Ends(Entries[p]) = Ends(Entries[k])
    /\ Entries[p].until # Never /\ Entries[p].until <= clock
    /\ \/ Entries[p].until > Entries[k].from
       \/ Entries[p].until = Entries[k].from /\ p >= k

\* Once the events of a moment have run, either end of a link is down exactly if the link was
\* down beforehand or has failed with no recovery after it.  Entries of one link may meet: the
\* first recovery ends all failures that have begun, and one before its failure ends nothing.
DownDuringFailures ==
  stage = "run" /\ Quiet /\ (\A e \in Pending : TimeOf(e) > clock) =>
    \A n, m \in Node :
      m \in interfaceDown[n] <=>
        \/ <<n, m>> \in LostAtBaseline
        \/ \E k \in DOMAIN Entries : /\ <<n, m>> \in Ends(Entries[k])
                                     /\ Entries[k].from <= clock /\ ~Undone(k)

\* The statistics line counts a failure update for every scheduled failure and is printed by
\* the time the last has been processed.  Failures applied beforehand are completed although
\* nobody expected them: the line may come early by as many updates, and by no more.
StatsComplete ==
  LET before == IF preApply THEN Len(failures) ELSE 0
  IN /\ stats.printed =>
          /\ stats.counted \in Len(Entries)..(Len(Entries) + before)
          /\ Cardinality({e \in Pending : ~e[2]}) <= before
     /\ Pending = {} /\ stage = "run" /\ Quiet /\ Entries # <<>> => stats.printed

\* Every call of FailureHelper returns and every calculation of routes ends: the
\* visits run out of nodes, although a change in the middle of a call starts anew.
Settles == ~Quiet ~> Quiet
===============================================================================
