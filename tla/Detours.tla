---------------------------------- MODULE Detours ----------------------------------
(***************************************************************************)
(* One packet in a finished fabric, forwarded by RuleBasedRouting with a   *)
(* non-minimal policy, and its twin in the same fabric, forwarded by the   *)
(* baseline protocol of that policy.  Both see the same flow hashes and    *)
(* the same queues.                                                        *)
(***************************************************************************)
EXTENDS Baselines

CONSTANTS
  Scenarios,   \* the pairs of a recipe and a policy that are tried
  MaxLoad,     \* packets in a queue that UGAL looks at
  MaxHops      \* hops are counted up to this number

ASSUME ScenariosAssumption ==
  /\ Recipes = {s.recipe : s \in Scenarios}
  /\ \A s \in Scenarios : s.policy.algorithm \in {"Valiant", "UGAL", "Detour"}
  /\ \A s \in Scenarios : s.policy.fields \in Seq(Nat) /\ s.policy.stages \in Nat \ {0}
  /\ MaxLoad \in Nat /\ MaxHops \in Nat

VARIABLES
  packet,      \* forwarded by RuleBasedRouting
  twin         \* forwarded by the baseline

\* from is the node before at, out the last interface taken, seen the nodes visited.
Packet(src, dst) ==
  [src |-> src, dst |-> dst, at |-> src, from |-> src, out |-> 0, hops |-> 0,
   status |-> "sent", tag |-> NoTag, seen |-> {src}]
NoPacket == [status |-> "none"]

vars == <<topoVars, policy, packet, twin>>

Hosts == LevelNodes(0)
Built == built = Len(recipe) /\ stage = "replicate"

Init ==
  /\ InitTopology
  /\ \E s \in Scenarios : s.recipe = recipe /\ policy = s.policy
  /\ packet = NoPacket /\ twin = NoPacket

Build == BuildStep /\ UNCHANGED <<policy, packet, twin>>

\* The packet leaves by interface out with this tag; 0: there is no route.
Leave(p, tag, out) ==
  IF out = 0 THEN [p EXCEPT !.tag = tag, !.status = "lost"]
  ELSE LET next == devices[p.at][out].peer
       IN [p EXCEPT !.tag = tag, !.out = out, !.from = p.at, !.at = next, !.seen = @ \cup {next},
                    !.hops = IF @ = MaxHops THEN @ ELSE @ + 1,
                    !.status = IF next = p.dst THEN "delivered" ELSE @]

\* The "sourceRouter" mark of Lookup: the packet comes from the node that owns its source.
SourceRouter(p, inject) == p.at[1] > 0 /\ (inject \/ p.from = p.src)

\* RuleBasedRouting::Lookup, and the packet is passed on.
Decide(p, inject, draw, load) ==
  LET src == addr[p.at]
      dst == addr[p.dst]
  IN CASE policy.algorithm = "Valiant" -> DecideValiant(src, dst, inject, p.tag, draw)
       [] policy.algorithm = "UGAL" ->
            DecideUgal(p.at, dst, inject, SourceRouter(p, inject), p.tag, draw, load)
       [] policy.algorithm = "Detour" -> DecideDetour(src, dst, inject, p.tag, draw)

RuleBased(p, inject, draw, load) ==
  LET d == Decide(p, inject, draw, load)
      out == Candidates(p.at, d.effective)
  IN {Leave(p, d.tag, o) : o \in IF out = {} THEN {0} ELSE out}

Kinds == {recipe[k].kind : k \in DOMAIN recipe}
IsDragonfly == "Full" \in Kinds
HasBaseline ==
  \/ IsDragonfly /\ policy.algorithm \in {"Valiant", "UGAL"}
  \/ Kinds = {"Torus"} /\ policy.algorithm = "Detour"

Baseline(p, inject, draw, load) ==
  LET look == CASE policy.algorithm = "Valiant" ->
                     DragonflyValiant(p.at, p.src, p.dst, inject, p.tag, draw)
                [] policy.algorithm = "UGAL" ->
                     DragonflyUgal(p.at, p.src, p.dst, inject, p.tag, draw, load)
                [] policy.algorithm = "Detour" -> TorusDetour(p.at, p.dst, inject, p.tag, draw)
  IN Leave(p, look.tag, look.out)

Pass(p, q, inject, draw, load) ==
  /\ packet' \in RuleBased(p, inject, draw, load)
  /\ twin' = IF HasBaseline /\ q.status = "sent" THEN Baseline(q, inject, draw, load) ELSE q
  /\ UNCHANGED <<topoVars, policy>>

\* RouteOutput at a host.
Send ==
  /\ Built /\ packet = NoPacket
  /\ \E src \in Hosts, dst \in Hosts : \E draw \in Draws(addr[src], addr[dst]) :
       /\ src # dst
       /\ Pass(Packet(src, dst), Packet(src, dst), TRUE, draw, <<>>)

\* Queue lengths at the only router that looks at them, of the interfaces it looks at.
Loads(p) ==
  LET dst == addr[p.dst]
      probed == Candidates(p.at, dst) \cup Candidates(p.at, ApplyRewrites(dst, p.tag.rewrites))
      busy == IF policy.algorithm = "UGAL" /\ SourceRouter(p, FALSE) THEN probed ELSE {}
  IN {[o \in DOMAIN devices[p.at] |-> IF o \in busy THEN load[o] ELSE 0] :
        load \in [busy -> 0..MaxLoad]}

\* RouteInput, of a packet that is not for this node.
Forward ==
  /\ packet.status = "sent"
  /\ \E load \in Loads(packet) : Pass(packet, twin, FALSE, <<>>, load)

Next == Build \/ Send \/ Forward

Spec == Init /\ [][Next]_vars

-----------------------------------------------------------------------------
Phases == {"none", "min", "toTransit", "toFinal"}

\* A tag holds rewrites exactly while they are needed: on the way to a transit node or while
\* UGAL has not decided; its flags are the number of a stage that is open, or the mark that
\* the decision is pending.
TagOK(t) ==
  /\ t.phase \in Phases
  /\ \A i \in DOMAIN t.rewrites : t.rewrites[i].value \in FieldValues(t.rewrites[i].field)
  /\ t.rewrites # <<>> <=> t.phase = "toTransit" \/ (t.flags = UgalPending /\ t.phase = "min")
  /\ CASE t.phase = "min" -> policy.algorithm = "UGAL" /\ t.flags \in {0, UgalPending}
       [] t.phase = "toTransit" -> t.flags = 0 \/ (policy.algorithm = "Detour"
                                                     /\ t.flags \in 1..(Len(t.rewrites) - 1))
       [] OTHER -> t.flags = 0

TypeOK ==
  packet # NoPacket =>
    /\ packet.status \in {"sent", "delivered", "lost"}
    /\ {packet.at, packet.from, packet.src, packet.dst} \subseteq packet.seen
         \cup (IF packet.status = "delivered" THEN {} ELSE {packet.dst})
    /\ packet.seen \subseteq TopoNode
    /\ TagOK(packet.tag)

\* RuleBasedRouting with a policy and the baseline of that policy forward every packet by the
\* same interfaces and write the same tags: what experiments/README.md section 1.3 compares on
\* traces.  The two read different tables, and for UGAL find the source router differently.
SameAsBaseline ==
  HasBaseline /\ packet # NoPacket =>
    /\ packet.at = twin.at /\ packet.out = twin.out
    /\ packet.tag = twin.tag /\ packet.status = twin.status

\* The longest minimal route, template by template.
HopsOf(t) ==
  CASE t.kind = "Clos" -> 2
    [] t.kind = "Full" -> IF t.arrangement = "Absolute" THEN 2 ELSE 1
    [] t.kind = "Torus" -> t.copies \div 2
HopBound == FoldSeq(LAMBDA t, s : s + HopsOf(t), 0, recipe)
Transits == IF policy.algorithm = "Detour" THEN policy.stages ELSE Len(policy.fields)

\* A detour costs one minimal route for every transit node, no more: although several routers
\* read and change the phase (non-minimal-policy.cc:250), no packet goes round for ever.
DetourBound == packet # NoPacket => packet.hops <= (Transits + 1) * HopBound

\* In a dragonfly a Valiant packet, and a UGAL packet that took the detour, passes a group that
\* is neither its sender's nor its receiver's; it cannot arrive while on its way there.
DetourMade ==
  IsDragonfly /\ packet.status = "delivered" =>
    /\ packet.tag.phase # "toTransit"
    /\ packet.tag.phase = "toFinal" =>
         \E n \in packet.seen \cap LevelNodes(1) :
           addr[n][3] \notin {addr[packet.src][3], addr[packet.dst][3]}

\* A packet is lost only by Valiant, which does not look whether a node has the address it
\* makes up: no other node has it.  Detour refuses the sender's own address
\* (non-minimal-policy.cc:566).
LostOnlyWithoutTransit ==
  packet.status = "lost" =>
    /\ policy.algorithm = "Valiant" /\ packet.tag.phase = "toTransit"
    /\ \A h \in Hosts \ {packet.at} :
         addr[h] # ApplyRewrites(addr[packet.dst], packet.tag.rewrites)

\* UGAL decides at the source router, once: the pending mark never gets past it, so no later
\* router compares its own queues instead.
DecidedAtSource ==
  packet # NoPacket /\ packet.tag.phase = "min" /\ packet.tag.flags = UgalPending
    => packet.hops <= 1 /\ packet.from = packet.src

Rank(t) ==
  CASE t.phase = "none" -> 0
    [] t.phase = "min" -> 1
    [] t.phase = "toTransit" -> 2 + t.flags
    [] t.phase = "toFinal" -> 3 + Transits

\* On its way a packet never goes back to an earlier phase or stage, and the rewrites drawn
\* when it was sent are never replaced, only dropped.
PhasesInOrder ==
  [][packet # NoPacket =>
       /\ Rank(packet'.tag) >= Rank(packet.tag)
       /\ packet'.tag.rewrites \in {packet.tag.rewrites, <<>>}]_packet
===============================================================================
