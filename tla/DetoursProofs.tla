------------------------------ MODULE DetoursProofs ------------------------------
(***************************************************************************)
(* Proofs about the non-minimal policies of Detours, for every topology    *)
(* and every choice of transit fields and stages.  Those about the packet  *)
(* in a finished fabric use what ReplicationProofs proves of the fabric.   *)
(***************************************************************************)
EXTENDS Detours, ReplicationProofs, WellFoundedInduction, TLAPS

\* A nonempty set of numbers has a least one.
LEMMA LeastNumber ==
  ASSUME NEW S \in SUBSET Nat, S # {}
  PROVE  \E n \in S : \A m \in S : n <= m
<1>1. PICK n \in S : \A m \in S : ~(<<m, n>> \in OpToRel(<, Nat))
  BY NatLessThanWellFounded, WFMin
<1>2. \A m \in S : ~(m < n)
  BY <1>1 DEF OpToRel
<1> QED  BY <1>2

\* The value Valiant and UGAL choose for a transit field is that of neither the node that
\* decides nor the destination, if there is any such value: the round over the sorted values
\* from the one the flow hash selects misses none (NonMinimalPolicy::PickTransitRewrites).
THEOREM TransitAvoidsEnds ==
  ASSUME NEW src, NEW dst, NEW f, NEW start \in Nat,
         FieldValues(f) \subseteq Nat, Allowed(src, dst, f) # {}
  PROVE  /\ TransitValue(src, dst, f, start) \in FieldValues(f)
         /\ ~HasValue(dst, f, TransitValue(src, dst, f, start))
         /\ ~HasValue(src, f, TransitValue(src, dst, f, start))
<1> DEFINE allowed == Allowed(src, dst, f)
           after == {v \in allowed : v >= start}
           least(S) == CHOOSE v \in S : \A w \in S : v <= w
<1>1. allowed \subseteq Nat /\ after \subseteq Nat
  BY DEF Allowed
<1>2. ASSUME after # {}  PROVE least(after) \in allowed
  <2>1. \E v \in after : \A w \in after : v <= w
    BY <1>1, <1>2, LeastNumber
  <2> QED  BY <2>1
<1>3. least(allowed) \in allowed
  <2>1. \E v \in allowed : \A w \in allowed : v <= w
    BY <1>1, LeastNumber
  <2> QED  BY <2>1
<1>4. TransitValue(src, dst, f, start) = IF after # {} THEN least(after) ELSE least(allowed)
  BY DEF TransitValue
<1>5. TransitValue(src, dst, f, start) \in allowed
  BY <1>2, <1>3, <1>4
<1> QED  BY <1>5 DEF Allowed

-----------------------------------------------------------------------------
\* The tag of a packet under Valiant or Detour, and the policy: flags is 0 but for the stage
\* of a detour, which is below the number of its rewrites.
PolicyOK ==
  /\ policy.algorithm \in {"Valiant", "Detour"}
  /\ policy.fields \in Seq(Nat) /\ policy.stages \in Nat \ {0}

TagInv(t) ==
  /\ {"phase", "flags", "rewrites"} \subseteq DOMAIN t
  /\ t.phase \in {"none", "toTransit", "toFinal"} /\ t.flags \in Nat
  /\ t.phase = "toTransit" /\ policy.algorithm = "Detour" =>
       /\ Len(t.rewrites) \in 1..policy.stages
       /\ t.flags < Len(t.rewrites)
  /\ t.phase # "toTransit" \/ policy.algorithm # "Detour" => t.flags = 0

IsPacket(p) == {"tag", "status"} \subseteq DOMAIN p

PacketInv == packet # NoPacket => IsPacket(packet) /\ TagInv(packet.tag)
PhaseInv == PolicyOK /\ PacketInv

\* What one decision at a node the packet passes may do to its tag.
InOrder(t, u) == Rank(u) >= Rank(t) /\ u.rewrites \in {t.rewrites, <<>>}

\* The packet is not injected here, but comes from another node.
Passing(inject) == ~inject

LEMMA RankIsNat ==
  ASSUME PolicyOK, NEW t, TagInv(t)
  PROVE  Transits \in Nat /\ Rank(t) \in Nat
<1>1. Transits \in Nat
  BY DEF PolicyOK, Transits
<1> QED  BY <1>1 DEF TagInv, Rank

LEMMA Unchanged ==
  ASSUME PolicyOK, NEW t, TagInv(t)
  PROVE  InOrder(t, t)
BY RankIsNat DEF InOrder

\* The tag of a detour with n stages of which u.flags are done.
LEMMA StageTag ==
  ASSUME policy.algorithm = "Detour", policy.stages \in Nat, NEW u,
         {"phase", "flags", "rewrites"} \subseteq DOMAIN u,
         u.phase = "toTransit", u.flags \in Nat,
         NEW n \in 1..policy.stages, Len(u.rewrites) = n, u.flags < n
  PROVE  TagInv(u)
<1>1. u.phase \in {"none", "toTransit", "toFinal"}
  OBVIOUS
<1>2. Len(u.rewrites) \in 1..policy.stages /\ u.flags < Len(u.rewrites)
  OBVIOUS
<1>3. ~(u.phase # "toTransit" \/ policy.algorithm # "Detour")
  OBVIOUS
<1> QED  BY <1>1, <1>2, <1>3, Zenon DEF TagInv

\* A packet on its way to a transit node that reaches it.
LEMMA TransitReached ==
  ASSUME PolicyOK, NEW t, TagInv(t), t.phase = "toTransit"
  PROVE  /\ TagInv(Tag("toFinal", 0, <<>>))
         /\ InOrder(t, Tag("toFinal", 0, <<>>))
<1> DEFINE u == Tag("toFinal", 0, <<>>)
<1>1. u.phase = "toFinal" /\ u.flags = 0 /\ u.rewrites = <<>>
      /\ DOMAIN u = {"phase", "flags", "rewrites"}
  BY DEF Tag
<1>2. Transits \in Nat
  BY RankIsNat
<1>3. t.flags \in Nat /\ t.flags <= Transits
  <2>1. CASE policy.algorithm = "Detour"
    BY <2>1 DEF TagInv, Transits, PolicyOK
  <2>2. CASE policy.algorithm # "Detour"
    BY <1>2, <2>2 DEF TagInv
  <2> QED  BY <2>1, <2>2
<1> HIDE DEF u
<1>4. Rank(t) = 2 + t.flags /\ Rank(u) = 3 + Transits
  BY <1>1 DEF Rank
<1>5. Rank(u) >= Rank(t)
  BY <1>2, <1>3, <1>4
<1>6. TagInv(u)
  BY <1>1 DEF TagInv
<1>7. InOrder(t, u)
  BY <1>1, <1>5 DEF InOrder
<1> QED  BY <1>6, <1>7 DEF u

LEMMA ValiantInOrder ==
  ASSUME PolicyOK, policy.algorithm = "Valiant", NEW t, TagInv(t), NEW src, NEW dst, NEW draw,
         NEW inject, Passing(inject), NEW u, u = DecideValiant(src, dst, inject, t, draw).tag
  PROVE  TagInv(u) /\ InOrder(t, u)
<1>1. u = t \/ (t.phase = "toTransit" /\ u = Tag("toFinal", 0, <<>>))
  <2>1. CASE t.phase = "toTransit" /\ t.rewrites # <<>>
    BY <2>1 DEF DecideValiant, OnTransit, Decision
  <2>2. CASE ~(t.phase = "toTransit" /\ t.rewrites # <<>>)
    BY <2>2 DEF DecideValiant, Decision, Passing
  <2> QED  BY <2>1, <2>2
<1> QED  BY <1>1, Unchanged, TransitReached

\* The stage of a detour moves on, at most to the end.
LEMMA StagesMoveOn ==
  ASSUME NEW t, NEW src, t.flags \in Nat, Len(t.rewrites) \in Nat, t.flags <= Len(t.rewrites)
  PROVE  StagesDone(src, t) \in t.flags..Len(t.rewrites)
<1> DEFINE open == {i \in (t.flags + 1)..Len(t.rewrites) :
                      ~MatchesRewrites(src, <<t.rewrites[i]>>)}
           first == CHOOSE i \in open : \A j \in open : i <= j
<1>1. CASE open = {}
  BY <1>1 DEF StagesDone
<1>2. CASE open # {}
  <2>1. open \subseteq (t.flags + 1)..Len(t.rewrites)
    OBVIOUS
  <2>2. \E i \in open : \A j \in open : i <= j
    <3> HIDE DEF open
    <3>1. open \in SUBSET Nat
      BY <2>1
    <3> QED  BY <1>2, <3>1, LeastNumber
  <2>3. first \in open
    <3> HIDE DEF open
    <3> QED  BY <2>2
  <2>4. StagesDone(src, t) = first - 1
    BY <1>2 DEF StagesDone
  <2> HIDE DEF open, first
  <2>5. first \in (t.flags + 1)..Len(t.rewrites)
    BY <2>1, <2>3
  <2> QED  BY <2>4, <2>5
<1> QED  BY <1>1, <1>2

LEMMA DetourInOrder ==
  ASSUME PolicyOK, policy.algorithm = "Detour", NEW t, TagInv(t), NEW src, NEW dst, NEW draw,
         NEW inject, Passing(inject), NEW u, u = DecideDetour(src, dst, inject, t, draw).tag
  PROVE  TagInv(u) /\ InOrder(t, u)
<1> DEFINE done == StagesDone(src, t)
<1>1. CASE t.phase = "toTransit" /\ t.rewrites # <<>>
  <2>1. /\ t.flags \in Nat /\ Len(t.rewrites) \in 1..policy.stages /\ policy.stages \in Nat
        /\ t.flags < Len(t.rewrites)
    BY <1>1 DEF TagInv, PolicyOK
  <2>2. done \in t.flags..Len(t.rewrites)
    BY <2>1, StagesMoveOn
  <2>3. CASE done = Len(t.rewrites)
    <3>1. u = Tag("toFinal", 0, <<>>)
      BY <1>1, <2>3 DEF DecideDetour, Decision
    <3> QED  BY <1>1, <3>1, TransitReached
  <2>4. CASE done # Len(t.rewrites)
    <3>1. u = [t EXCEPT !.flags = done]
      BY <1>1, <2>4 DEF DecideDetour, Decision
    <3>2. DOMAIN u = DOMAIN t /\ {"phase", "flags", "rewrites"} \subseteq DOMAIN t
      BY <3>1 DEF TagInv
    <3>3. u.phase = "toTransit" /\ u.flags = done /\ u.rewrites = t.rewrites
      BY <1>1, <3>1, <3>2
    <3> HIDE DEF done
    <3> DEFINE n == Len(t.rewrites)
    <3>3A. /\ n \in 1..policy.stages /\ n \in Nat /\ t.flags \in Nat /\ policy.stages \in Nat
          /\ done \in t.flags..n /\ done # n
      BY <2>1, <2>2, <2>4
    <3> HIDE DEF n
    <3>3B. done \in Nat /\ done < n /\ done >= t.flags
      BY <3>3A
    <3>4. TagInv(u)
      <4>1. {"phase", "flags", "rewrites"} \subseteq DOMAIN u
        BY <3>2
      <4>2. Len(u.rewrites) = n /\ u.flags \in Nat /\ u.flags < n
        BY <3>3, <3>3B DEF n
      <4> QED  BY <3>3, <3>3A, <4>1, <4>2, StageTag
    <3>5. Rank(t) = 2 + t.flags /\ Rank(u) = 2 + done
      BY <1>1, <3>3 DEF Rank
    <3>6. InOrder(t, u)
      <4>1. 2 + done >= 2 + t.flags
        BY <3>3A, <3>3B
      <4>2. Rank(u) >= Rank(t)
        BY <3>5, <4>1
      <4>3. u.rewrites \in {t.rewrites, <<>>}
        BY <3>3
      <4> QED  BY <4>2, <4>3 DEF InOrder
    <3> QED  BY <3>4, <3>6
  <2> QED  BY <2>3, <2>4
<1>2. CASE ~(t.phase = "toTransit" /\ t.rewrites # <<>>)
  <2>1. u = t
    BY <1>2 DEF DecideDetour, Decision, Passing
  <2> QED  BY <2>1, Unchanged
<1> QED  BY <1>1, <1>2

\* A sender chooses a tag with its first stage open.
LEMMA TagFields ==
  ASSUME NEW phase, NEW flags, NEW rewrites
  PROVE  /\ DOMAIN Tag(phase, flags, rewrites) = {"phase", "flags", "rewrites"}
         /\ Tag(phase, flags, rewrites).phase = phase
         /\ Tag(phase, flags, rewrites).flags = flags
         /\ Tag(phase, flags, rewrites).rewrites = rewrites
BY DEF Tag

LEMMA NoTagOK == TagInv(NoTag)
<1>1. /\ DOMAIN NoTag = {"phase", "flags", "rewrites"}
      /\ NoTag.phase = "none" /\ NoTag.flags = 0
  BY DEF NoTag
<1> QED  BY <1>1 DEF TagInv

LEMMA ValiantSends ==
  ASSUME PolicyOK, policy.algorithm = "Valiant", NEW src, NEW dst, NEW draw,
         NEW inject, NEW u
  PROVE  u = DecideValiant(src, dst, inject, NoTag, draw).tag => TagInv(u)
<1> DEFINE r == PickTransitRewrites(src, dst, draw)
<1>1. u = DecideValiant(src, dst, inject, NoTag, draw).tag => u \in {NoTag, Tag("toTransit", 0, r)}
  BY DEF DecideValiant, Decision, NoTag
<1> HIDE DEF r
<1>2. TagInv(Tag("toTransit", 0, r))
  BY TagFields DEF TagInv
<1>3. u \in {NoTag, Tag("toTransit", 0, r)} => TagInv(u)
  BY <1>2, NoTagOK
<1> QED  BY <1>1, <1>3, Zenon

LEMMA DetourSends ==
  ASSUME PolicyOK, policy.algorithm = "Detour", NEW src, NEW dst, NEW draw \in Draws(src, dst),
         NEW inject, NEW u
  PROVE  u = DecideDetour(src, dst, inject, NoTag, draw).tag => TagInv(u)
<1>1. PICK k \in 0..policy.stages : draw \in [1..k -> StageRewrites(src, dst)]
  <2>1. PICK k \in IF StageMayFail(src, dst) THEN 0..policy.stages ELSE {policy.stages} :
               draw \in [1..k -> StageRewrites(src, dst)]
    BY DEF Draws
  <2> QED  BY <2>1 DEF PolicyOK
<1>2. Len(draw) = k /\ k \in Nat /\ policy.stages \in Nat
  BY <1>1 DEF PolicyOK
<1>3. u = DecideDetour(src, dst, inject, NoTag, draw).tag =>
        u = NoTag \/ (draw # <<>> /\ u = Tag("toTransit", 0, draw))
  BY DEF DecideDetour, Decision, NoTag
<1>4. CASE draw = <<>>
  <2>1. u = NoTag => TagInv(u)
    BY NoTagOK
  <2> QED  BY <1>3, <1>4, <2>1, Zenon
<1>5. CASE draw # <<>>
  <2>1. k > 0
    BY <1>1, <1>2, <1>5
  <2>2. k \in 1..policy.stages
    BY <1>1, <1>2, <2>1
  <2>3. TagInv(Tag("toTransit", 0, draw))
    <3> DEFINE v == Tag("toTransit", 0, draw)
    <3>1. /\ {"phase", "flags", "rewrites"} \subseteq DOMAIN v
          /\ v.phase = "toTransit" /\ v.flags = 0 /\ v.rewrites = draw
      BY TagFields
    <3> HIDE DEF v
    <3>2. Len(v.rewrites) = k /\ v.flags \in Nat /\ v.flags < k
      BY <1>2, <2>1, <3>1
    <3>3. TagInv(v)
      BY <1>2, <2>2, <3>1, <3>2, StageTag
    <3> QED  BY <3>3 DEF v
  <2>4. u = NoTag => TagInv(u)
    BY NoTagOK
  <2>5. u = Tag("toTransit", 0, draw) => TagInv(u)
    BY <2>3
  <2> QED  BY <1>3, <2>4, <2>5, Zenon
<1> QED  BY <1>4, <1>5

-----------------------------------------------------------------------------
\* Passing a packet on writes its tag and keeps it a packet.
LEMMA LeaveTag ==
  ASSUME NEW p, IsPacket(p), NEW u, NEW o
  PROVE  /\ Leave(p, u, o).tag = u
         /\ IsPacket(Leave(p, u, o))
<1>1. CASE o = 0
  BY <1>1 DEF IsPacket, Leave
<1>2. CASE o # 0
  BY <1>2 DEF IsPacket, Leave
<1> QED  BY <1>1, <1>2

LEMMA RuleBasedTag ==
  ASSUME PolicyOK, NEW p, IsPacket(p), NEW inject, NEW draw, NEW load,
         NEW q \in RuleBased(p, inject, draw, load)
  PROVE  /\ IsPacket(q)
         /\ policy.algorithm = "Valiant" =>
              q.tag = DecideValiant(addr[p.at], addr[p.dst], inject, p.tag, draw).tag
         /\ policy.algorithm = "Detour" =>
              q.tag = DecideDetour(addr[p.at], addr[p.dst], inject, p.tag, draw).tag
<1> DEFINE u == Decide(p, inject, draw, load).tag
<1>1. PICK o : q = Leave(p, u, o)
  BY DEF RuleBased
<1>2. IsPacket(q) /\ q.tag = u
  BY <1>1, LeaveTag
<1> QED  BY <1>2 DEF Decide

\* A packet that a node passes on, and one that its sender hands out.
LEMMA PassedOn ==
  ASSUME PolicyOK, NEW p, IsPacket(p), TagInv(p.tag), NEW inject, NEW draw, NEW load,
         NEW q \in RuleBased(p, inject, draw, load)
  PROVE  IsPacket(q) /\ (Passing(inject) => TagInv(q.tag) /\ InOrder(p.tag, q.tag))
<1>1. CASE policy.algorithm = "Valiant"
  <2>1. q.tag = DecideValiant(addr[p.at], addr[p.dst], inject, p.tag, draw).tag
    BY <1>1, RuleBasedTag
  <2>2. IsPacket(q)
    BY RuleBasedTag
  <2> QED  BY <1>1, <2>1, <2>2, ValiantInOrder
<1>2. CASE policy.algorithm = "Detour"
  <2>1. q.tag = DecideDetour(addr[p.at], addr[p.dst], inject, p.tag, draw).tag
    BY <1>2, RuleBasedTag
  <2>2. IsPacket(q)
    BY RuleBasedTag
  <2> QED  BY <1>2, <2>1, <2>2, DetourInOrder
<1>3. policy.algorithm = "Valiant" \/ policy.algorithm = "Detour"
  BY DEF PolicyOK
<1> QED  BY <1>1, <1>2, <1>3, Zenon

LEMMA SentOut ==
  ASSUME PolicyOK, NEW src, NEW dst, NEW inject, NEW draw \in Draws(addr[src], addr[dst]),
         NEW load, NEW q \in RuleBased(Packet(src, dst), inject, draw, load)
  PROVE  IsPacket(q) /\ TagInv(q.tag)
<1> DEFINE p == Packet(src, dst)
<1>1. IsPacket(p) /\ p.tag = NoTag /\ p.at = src /\ p.dst = dst
  BY DEF Packet, IsPacket
<1> HIDE DEF p
<1>2. q \in RuleBased(p, inject, draw, load)
  BY DEF p
<1>3. IsPacket(q)
  BY <1>1, <1>2, RuleBasedTag
<1>4. CASE policy.algorithm = "Valiant"
  <2>1. q.tag = DecideValiant(addr[src], addr[dst], inject, NoTag, draw).tag
    BY <1>1, <1>2, <1>4, RuleBasedTag
  <2> QED  BY <1>3, <1>4, <2>1, ValiantSends
<1>5. CASE policy.algorithm = "Detour"
  <2>1. q.tag = DecideDetour(addr[src], addr[dst], inject, NoTag, draw).tag
    BY <1>1, <1>2, <1>5, RuleBasedTag
  <2> QED  BY <1>3, <1>5, <2>1, DetourSends
<1> QED  BY <1>4, <1>5 DEF PolicyOK

LEMMA PhaseStep ==
  ASSUME PhaseInv, [Next]_vars
  PROVE  /\ PhaseInv'
         /\ packet # NoPacket => InOrder(packet.tag, packet'.tag)
<1> SUFFICES ASSUME TRUE
             PROVE  /\ PacketInv'
                    /\ policy' = policy
                    /\ packet # NoPacket => InOrder(packet.tag, packet'.tag)
  BY DEF PhaseInv, PolicyOK
<1> USE DEF PhaseInv
<1>1. CASE UNCHANGED vars
  BY <1>1, Unchanged DEF vars, PacketInv, TagInv
<1>2. CASE Build
  BY <1>2, Unchanged DEF Build, PacketInv, TagInv
<1>3. CASE Send
  <2>1. PICK src \in Hosts, dst \in Hosts : \E draw \in Draws(addr[src], addr[dst]) :
          Pass(Packet(src, dst), Packet(src, dst), TRUE, draw, <<>>)
    BY <1>3 DEF Send
  <2>2. PICK draw \in Draws(addr[src], addr[dst]) :
          packet' \in RuleBased(Packet(src, dst), TRUE, draw, <<>>) /\ policy' = policy
    BY <2>1, Zenon DEF Pass
  <2>3. IsPacket(packet') /\ TagInv(packet'.tag)
    BY <2>2, SentOut, Zenon
  <2>4. policy' = policy
    BY <2>2
  <2>5. PacketInv'
    BY <2>3, <2>4 DEF PacketInv, TagInv, IsPacket
  <2> QED  BY <1>3, <2>4, <2>5 DEF Send
<1>4. CASE Forward
  <2>1. packet # NoPacket
    BY <1>4 DEF Forward, NoPacket
  <2>2. PICK load : Pass(packet, twin, FALSE, <<>>, load)
    BY <1>4, Zenon DEF Forward
  <2>3. packet' \in RuleBased(packet, FALSE, <<>>, load) /\ policy' = policy
    BY <2>2, Zenon DEF Pass
  <2>4. IsPacket(packet) /\ TagInv(packet.tag)
    BY <2>1 DEF PacketInv
  <2>5. /\ IsPacket(packet')
        /\ TagInv(packet'.tag) /\ InOrder(packet.tag, packet'.tag)
    BY <2>3, <2>4, PassedOn, Zenon DEF Passing
  <2>6. policy' = policy
    BY <2>3
  <2>7. PacketInv'
    BY <2>5, <2>6 DEF PacketInv, TagInv, IsPacket
  <2> QED  BY <2>5, <2>6, <2>7
<1> QED  BY <1>1, <1>2, <1>3, <1>4 DEF Next

\* Under Valiant and Detour no router sends a packet back to an earlier phase or stage, or
\* replaces the rewrites drawn when it was sent (NonMinimalPolicy::Decide), in every fabric
\* and with every choice of transit fields and stages.
THEOREM DetoursMoveOn ==
  ASSUME \A s \in Scenarios : s.policy.algorithm # "UGAL"
  PROVE  Spec => PhasesInOrder
<1>1. Init => PhaseInv
  BY ScenariosAssumption DEF Init, PhaseInv, PolicyOK, PacketInv
<1>2. PhaseInv /\ [Next]_vars => PhaseInv'
  BY PhaseStep
<1>3. PhaseInv /\ [Next]_vars =>
        [packet # NoPacket =>
           /\ Rank(packet'.tag) >= Rank(packet.tag)
           /\ packet'.tag.rewrites \in {packet.tag.rewrites, <<>>}]_packet
  BY PhaseStep DEF InOrder
<1> QED  BY <1>1, <1>2, <1>3, PTL DEF Spec, PhasesInOrder
-----------------------------------------------------------------------------
(* The values of a field: there is always one to choose. *)

\* A finite nonempty set of numbers has a greatest one.
HasGreatest(T) == \E n \in T : \A m \in T : n >= m

LEMMA GreatestNumber ==
  ASSUME NEW S \in SUBSET Nat, IsFiniteSet(S), S # {}
  PROVE  HasGreatest(S)
<1> SUFFICES ASSUME ~HasGreatest(S)  PROVE FALSE
  OBVIOUS
<1> DEFINE bad == {T \in SUBSET S : T # {} /\ ~HasGreatest(T)}
           counts == {Cardinality(T) : T \in bad}
<1>1. S \in bad
  OBVIOUS
<1>2. \A T \in bad : IsFiniteSet(T) /\ Cardinality(T) \in Nat /\ T \in SUBSET Nat
  BY FS_Subset, FS_CardinalityType
<1>3. counts \in SUBSET Nat /\ counts # {}
  BY <1>1, <1>2
<1>4. PICK c \in counts : \A d \in counts : c <= d
  <2> HIDE DEF counts
  <2> QED  BY <1>3, LeastNumber
<1>5. PICK T \in bad : c = Cardinality(T)
  BY <1>4
<1>6. PICK x \in T : TRUE
  BY <1>5
<1>7. PICK R : R = T \ {x}
  OBVIOUS
<1>8. Cardinality(R) = Cardinality(T) - 1
  BY <1>2, <1>5, <1>6, <1>7, FS_RemoveElement
<1>9. R \notin bad
  <2> SUFFICES ASSUME R \in bad  PROVE FALSE
    OBVIOUS
  <2>1. Cardinality(R) \in counts
    OBVIOUS
  <2> QED  BY <1>2, <1>4, <1>5, <1>8, <2>1
<1>10. x \in Nat /\ \A m \in T : m \in Nat
  BY <1>2, <1>5, <1>6
<1>11. CASE R = {}
  <2>1. \A m \in T : m = x
    BY <1>7, <1>11
  <2>2. HasGreatest(T)
    BY <1>6, <1>10, <2>1 DEF HasGreatest
  <2> QED  BY <1>5, <2>2
<1>12. CASE HasGreatest(R)
  <2>1. PICK g \in R : \A m \in R : g >= m
    BY <1>12 DEF HasGreatest
  <2>2. g \in T /\ g \in Nat /\ \A m \in T : m = x \/ m \in R
    BY <1>7, <1>10, <2>1
  <2>3. CASE g >= x
    <3>1. \A m \in T : g >= m
      BY <2>1, <2>2, <2>3
    <3> QED  BY <1>5, <2>2, <3>1 DEF HasGreatest
  <2>4. CASE x >= g
    <3>1. \A m \in T : x >= m
      BY <1>10, <2>1, <2>2, <2>4
    <3> QED  BY <1>5, <1>6, <3>1 DEF HasGreatest
  <2> QED  BY <1>10, <2>2, <2>3, <2>4
<1>13. R \in SUBSET S
  BY <1>5, <1>7
<1> QED  BY <1>9, <1>11, <1>12, <1>13

\* What a function takes finite sets to is finite.
LEMMA FiniteImage ==
  ASSUME NEW T, IsFiniteSet(T), NEW f, DOMAIN f = T
  PROVE  IsFiniteSet({f[x] : x \in T})
<1> DEFINE I == {f[x] : x \in T}
           g == [x \in T |-> f[x]]
<1>1. g \in Surjection(T, I)
  BY DEF Surjection
<1> QED  BY <1>1, FS_Surjection

LEMMA NodesFinite ==
  ASSUME TopologyInv
  PROVE  IsFiniteSet(TopoNode)
<1>1. DOMAIN size = 0..Top /\ Top \in Nat /\ TopoNode = UNION {LevelNodes(l) : l \in DOMAIN size}
  BY DEF TopologyInv, SizeInv, LinkInv
<1>2. ASSUME NEW l \in DOMAIN size  PROVE IsFiniteSet(LevelNodes(l))
  <2>1. size[l] \in Nat
    BY <1>1, BlockNodes
  <2> DEFINE K == 0..(size[l] - 1)
             f == [k \in K |-> <<l, k>>]
  <2>2. IsFiniteSet(K)
    BY <2>1, FS_Interval
  <2>3. IsFiniteSet({f[k] : k \in K})
    <3>1. PICK h : h = f
      OBVIOUS
    <3>2. DOMAIN h = K
      BY <3>1
    <3>3. IsFiniteSet({h[k] : k \in K})
      <4> HIDE DEF K, f
      <4> QED  BY <2>2, <3>2, FiniteImage
    <3> QED  BY <3>1, <3>3
  <2>4. {f[k] : k \in K} = LevelNodes(l)
    BY DEF LevelNodes
  <2> QED  BY <2>3, <2>4
<1>3. PICK g : g = [l \in 0..Top |-> LevelNodes(l)]
  OBVIOUS
<1>4. IsFiniteSet(0..Top)
  BY <1>1, FS_Interval
<1>5. DOMAIN g = 0..Top
  BY <1>3
<1>6. IsFiniteSet({g[l] : l \in 0..Top})
  BY <1>4, <1>5, FiniteImage
<1>7. {g[l] : l \in 0..Top} = {LevelNodes(l) : l \in DOMAIN size}
  BY <1>1, <1>3
<1>8. \A T \in {LevelNodes(l) : l \in DOMAIN size} : IsFiniteSet(T)
  BY <1>2
<1> QED  BY <1>1, <1>6, <1>7, <1>8, FS_UNION

\* The values of a field are numbers, and they are finitely many.
ValuesOK == \A f \in Nat : FieldValues(f) \subseteq Nat /\ IsFiniteSet(FieldValues(f))

LEMMA ValuesFinite ==
  ASSUME TopologyInv
  PROVE  ValuesOK
<1> SUFFICES ASSUME NEW f \in Nat  PROVE FieldValues(f) \subseteq Nat /\ IsFiniteSet(FieldValues(f))
  BY DEF ValuesOK
<1> DEFINE N == {n \in TopoNode : f < Len(addr[n])}
<1>1. \A n \in TopoNode : addr[n] \in Seq(Nat)
  BY DEF TopologyInv, LinkInv
<1>2. ASSUME NEW n \in N  PROVE addr[n][f + 1] \in Nat
  <2>1. addr[n] \in Seq(Nat) /\ f < Len(addr[n])
    BY <1>1
  <2> QED  BY <2>1
<1>3. FieldValues(f) = {addr[n][f + 1] : n \in N}
  BY DEF FieldValues
<1>4. IsFiniteSet(N)
  BY NodesFinite, FS_Subset
<1>5. PICK h : h = [n \in N |-> addr[n][f + 1]]
  OBVIOUS
<1>6. DOMAIN h = N /\ {h[n] : n \in N} = FieldValues(f)
  BY <1>3, <1>5
<1> HIDE DEF N
<1>7. IsFiniteSet(FieldValues(f))
  BY <1>4, <1>6, FiniteImage
<1> QED  BY <1>2, <1>3, <1>7

\* A field that has values gets one of them, wherever the round over them starts.
LEMMA TransitIsValue ==
  ASSUME ValuesOK, NEW src, NEW dst, NEW f \in Nat, NEW start, FieldValues(f) # {}
  PROVE  TransitValue(src, dst, f, start) \in FieldValues(f)
<1> DEFINE allowed == Allowed(src, dst, f)
           after == {v \in allowed : v >= start}
           before == {v \in FieldValues(f) : v < start}
           least(S) == CHOOSE v \in S : \A w \in S : v <= w
           greatest(S) == CHOOSE v \in S : \A w \in S : v >= w
<1>1. ASSUME NEW S \in SUBSET FieldValues(f), S # {}
      PROVE  least(S) \in FieldValues(f) /\ greatest(S) \in FieldValues(f)
  <2>1. S \in SUBSET Nat /\ IsFiniteSet(S)
    BY FS_Subset DEF ValuesOK
  <2>2. \E v \in S : \A w \in S : v <= w
    BY <1>1, <2>1, LeastNumber
  <2>3. \E v \in S : \A w \in S : v >= w
    BY <1>1, <2>1, GreatestNumber DEF HasGreatest
  <2> QED  BY <2>2, <2>3
<1>2. allowed \in SUBSET FieldValues(f) /\ after \in SUBSET FieldValues(f)
      /\ before \in SUBSET FieldValues(f)
  BY DEF Allowed
<1>3. TransitValue(src, dst, f, start) =
        CASE after # {} -> least(after)
          [] after = {} /\ allowed # {} -> least(allowed)
          [] allowed = {} /\ before # {} -> greatest(before)
          [] OTHER -> greatest(FieldValues(f))
  BY Zenon DEF TransitValue
<1>4. PICK a, l, b, v : /\ a = least(after) /\ l = least(allowed)
                        /\ b = greatest(before) /\ v = greatest(FieldValues(f))
  OBVIOUS
<1>5. /\ after # {} => a \in FieldValues(f)
      /\ allowed # {} => l \in FieldValues(f)
      /\ before # {} => b \in FieldValues(f)
      /\ v \in FieldValues(f)
  BY <1>1, <1>2, <1>4
<1>6. TransitValue(src, dst, f, start) =
        CASE after # {} -> a
          [] after = {} /\ allowed # {} -> l
          [] allowed = {} /\ before # {} -> b
          [] OTHER -> v
  BY <1>3, <1>4, Zenon
<1> HIDE DEF allowed, after, before, least, greatest
<1> QED  BY <1>5, <1>6

\* The rewrites of a tag: a sequence, of values that their fields have.
Rewrites(r) ==
  IsSequence(r) /\ \A i \in DOMAIN r : r[i].value \in FieldValues(r[i].field)

LEMMA ChosenRewrites ==
  ASSUME NEW n \in Nat, NEW P \in SUBSET (1..n), NEW x, NEW seqs, ChosenAt(seqs, n, P, x),
         \A k \in P : x[k].value \in FieldValues(x[k].field)
  PROVE  Rewrites(FlattenSeq(seqs))
<1>1. IsSequence(FlattenSeq(seqs))
  BY Chosen
<1>2. \A i \in DOMAIN FlattenSeq(seqs) : \E k \in P : FlattenSeq(seqs)[i] = x[k]
  BY Chosen
<1>3. PICK r : r = FlattenSeq(seqs)
  OBVIOUS
<1>4. IsSequence(r) /\ \A i \in DOMAIN r : \E k \in P : r[i] = x[k]
  BY <1>1, <1>2, <1>3, Zenon
<1>5. Rewrites(r)
  BY <1>4 DEF Rewrites
<1> QED  BY <1>3, <1>5

LEMMA PickedRewrites ==
  ASSUME ValuesOK, policy.fields \in Seq(Nat), NEW src, NEW dst, NEW start
  PROVE  Rewrites(PickTransitRewrites(src, dst, start))
<1>1. PICK s : s = policy.fields
  OBVIOUS
<1>2. PICK n \in Nat : DOMAIN s = 1..n /\ \A i \in 1..n : s[i] \in Nat
  BY <1>1
<1>3. PICK P \in SUBSET (1..n) : \A i \in 1..n : i \in P <=> FieldValues(s[i]) # {}
  <2>1. {i \in 1..n : FieldValues(s[i]) # {}} \in SUBSET (1..n)
    OBVIOUS
  <2> QED  BY <2>1
<1>4. PICK x : x = [i \in 1..n |->
                      [field |-> s[i], value |-> TransitValue(src, dst, s[i], start[s[i]])]]
  OBVIOUS
<1>5. PICK seqs : seqs = [k \in 1..n |-> IF k \in P THEN <<x[k]>> ELSE <<>>]
  OBVIOUS
<1>6. PickTransitRewrites(src, dst, start) = FlattenSeq(seqs)
  <2>1. PickTransitRewrites(src, dst, start) =
          FlattenSeq([i \in 1..n |->
            IF FieldValues(s[i]) = {} THEN <<>>
            ELSE <<[field |-> s[i], value |-> TransitValue(src, dst, s[i], start[s[i]])]>>])
    BY <1>1, <1>2 DEF PickTransitRewrites
  <2>2. [i \in 1..n |->
            IF FieldValues(s[i]) = {} THEN <<>>
            ELSE <<[field |-> s[i], value |-> TransitValue(src, dst, s[i], start[s[i]])]>>] = seqs
    BY <1>3, <1>4, <1>5
  <2> QED  BY <2>1, <2>2
<1>7. ChosenAt(seqs, n, P, x)
  BY <1>5 DEF ChosenAt
<1>10. ASSUME NEW k \in P  PROVE x[k].value \in FieldValues(x[k].field)
  <2>1. s[k] \in Nat /\ FieldValues(s[k]) # {} /\ k \in 1..n
    BY <1>2, <1>3
  <2>2. x[k].field = s[k] /\ x[k].value = TransitValue(src, dst, s[k], start[s[k]])
    BY <1>4, <2>1
  <2>3. PICK f, a : f \in Nat /\ f = s[k] /\ a = start[s[k]]
    BY <2>1
  <2>4. TransitValue(src, dst, f, a) \in FieldValues(f)
    BY <2>1, <2>3, TransitIsValue
  <2> QED  BY <2>2, <2>3, <2>4
<1>11. Rewrites(FlattenSeq(seqs))
  BY <1>7, <1>10, ChosenRewrites
<1> QED  BY <1>6, <1>11
-----------------------------------------------------------------------------
(* What a decision makes of the tag. *)

AnyPolicy ==
  /\ policy.algorithm \in {"Valiant", "UGAL", "Detour"}
  /\ policy.fields \in Seq(Nat) /\ policy.stages \in Nat \ {0}

\* A tag that is one, and fits the policy.
TagFits(t) ==
  {"phase", "flags", "rewrites"} \subseteq DOMAIN t /\ IsSequence(t.rewrites) /\ TagOK(t)

\* UGAL has not decided yet.
Undecided(t) == t.phase = "min" /\ t.flags = UgalPending

Detouring(r) == Tag("toTransit", 0, r)
Waiting(r) == Tag("min", UgalPending, r)
Sending(inject) == inject

LEMMA NoTagFits == TagFits(NoTag) /\ ~Undecided(NoTag)
<1>1. /\ DOMAIN NoTag = {"phase", "flags", "rewrites"}
      /\ NoTag.phase = "none" /\ NoTag.flags = 0 /\ NoTag.rewrites = <<>>
  BY DEF NoTag
<1>2. IsSequence(NoTag.rewrites) /\ DOMAIN NoTag.rewrites = {}
  BY <1>1, EmptySequence
<1>3. TagOK(NoTag)
  BY <1>1, <1>2 DEF TagOK, Phases
<1> QED  BY <1>1, <1>2, <1>3 DEF TagFits, Undecided

LEMMA FinalFits == TagFits(Tag("toFinal", 0, <<>>)) /\ ~Undecided(Tag("toFinal", 0, <<>>))
<1>1. PICK u : u = Tag("toFinal", 0, <<>>)
  OBVIOUS
<1>2. /\ DOMAIN u = {"phase", "flags", "rewrites"}
      /\ u.phase = "toFinal" /\ u.flags = 0 /\ u.rewrites = <<>>
  BY <1>1, TagFields
<1>3. IsSequence(u.rewrites) /\ DOMAIN u.rewrites = {}
  BY <1>2, EmptySequence
<1>4. TagOK(u)
  BY <1>2, <1>3 DEF TagOK, Phases
<1> QED  BY <1>1, <1>2, <1>3, <1>4 DEF TagFits, Undecided

LEMMA MinimalFits ==
  ASSUME policy.algorithm = "UGAL", NEW t
  PROVE  TagFits(Minimal(t)) /\ ~Undecided(Minimal(t))
<1>1. PICK u : u = Minimal(t)
  OBVIOUS
<1>2. /\ DOMAIN u = {"phase", "flags", "rewrites"}
      /\ u.phase = "min" /\ u.flags = 0 /\ u.rewrites = <<>>
  BY <1>1, TagFields DEF Minimal
<1>3. IsSequence(u.rewrites) /\ DOMAIN u.rewrites = {}
  BY <1>2, EmptySequence
<1>4. TagOK(u)
  BY <1>2, <1>3 DEF TagOK, Phases, UgalPending
<1> QED  BY <1>1, <1>2, <1>3, <1>4 DEF TagFits, Undecided, UgalPending

LEMMA DetouringFits ==
  ASSUME NEW r, Rewrites(r), r # <<>>
  PROVE  TagFits(Detouring(r)) /\ ~Undecided(Detouring(r))
<1>1. PICK u : u = Detouring(r)
  OBVIOUS
<1>2. /\ DOMAIN u = {"phase", "flags", "rewrites"}
      /\ u.phase = "toTransit" /\ u.flags = 0 /\ u.rewrites = r
  BY <1>1, TagFields DEF Detouring
<1>3. TagOK(u)
  BY <1>2 DEF TagOK, Phases, Rewrites
<1> QED  BY <1>1, <1>2, <1>3 DEF TagFits, Undecided, Rewrites

LEMMA WaitingFits ==
  ASSUME policy.algorithm = "UGAL", NEW r, Rewrites(r), r # <<>>
  PROVE  TagFits(Waiting(r))
<1>1. PICK u : u = Waiting(r)
  OBVIOUS
<1>2. /\ DOMAIN u = {"phase", "flags", "rewrites"}
      /\ u.phase = "min" /\ u.flags = UgalPending /\ u.rewrites = r
  BY <1>1, TagFields DEF Waiting
<1>3. TagOK(u)
  BY <1>2 DEF TagOK, Phases, Rewrites
<1> QED  BY <1>1, <1>2, <1>3 DEF TagFits, Rewrites

\* The stage of a detour that is on its way.
LEMMA StageFits ==
  ASSUME policy.algorithm = "Detour", NEW t, TagFits(t), t.phase = "toTransit",
         NEW done \in Nat, done >= t.flags, done < Len(t.rewrites),
         NEW u, u = [t EXCEPT !.flags = done]
  PROVE  TagFits(u) /\ ~Undecided(u)
<1>1. DOMAIN u = DOMAIN t /\ {"phase", "flags", "rewrites"} \subseteq DOMAIN t
  BY DEF TagFits
<1>2. u.phase = "toTransit" /\ u.flags = done /\ u.rewrites = t.rewrites
  BY <1>1
<1>3. Len(t.rewrites) \in Nat
  BY SequenceType DEF TagFits
<1>4. done = 0 \/ done \in 1..(Len(t.rewrites) - 1)
  BY <1>3
<1>5. TagOK(u)
  BY <1>2, <1>4 DEF TagFits, TagOK, Phases
<1> QED  BY <1>1, <1>2, <1>5 DEF TagFits, Undecided

-----------------------------------------------------------------------------
(* Decisions. *)

\* A packet that is passed on under Valiant and UGAL.
LEMMA OnTransitTag ==
  ASSUME NEW t, NEW src, NEW dst
  PROVE  OnTransit(src, dst, t).tag \in {t, Tag("toFinal", 0, <<>>)}
BY DEF OnTransit, Decision

LEMMA UgalPasses ==
  ASSUME ValuesOK, AnyPolicy, policy.algorithm = "UGAL", NEW t, TagFits(t), NEW n, NEW dst,
         NEW inject, Passing(inject), NEW source, NEW draw, NEW load, NEW u,
         u = DecideUgal(n, dst, inject, source, t, draw, load).tag
  PROVE  TagFits(u) /\ (Undecided(u) => Undecided(t) /\ ~source)
<1> DEFINE picked == PickTransitRewrites(addr[n], dst, draw)
           pending == t.phase = "min" /\ t.flags = UgalPending /\ t.rewrites # <<>>
           r == IF pending THEN t.rewrites ELSE picked
           better == PrefersDetour(Probe(n, dst, load), Probe(n, ApplyRewrites(dst, r), load))
<1>1. Rewrites(r)
  <2>1. Rewrites(t.rewrites)
    BY DEF TagFits, TagOK, Rewrites
  <2>2. Rewrites(picked)
    BY PickedRewrites DEF AnyPolicy
  <2> QED  BY <2>1, <2>2
<1>2. CASE t.phase = "toTransit" /\ t.rewrites # <<>>
  <2>1. u \in {t, Tag("toFinal", 0, <<>>)}
    BY <1>2, OnTransitTag DEF DecideUgal
  <2>2. ~Undecided(t)
    BY <1>2 DEF Undecided
  <2> QED  BY <2>1, <2>2, FinalFits
<1>3. CASE ~(t.phase = "toTransit" /\ t.rewrites # <<>>)
  <2>1. CASE ~source
    <3>1. u = t
      BY <1>3, <2>1, Zenon DEF DecideUgal, Decision, Passing
    <3> QED  BY <2>1, <3>1
  <2>2. CASE source
    <3>1. u = IF r # <<>> /\ better THEN Detouring(r) ELSE Minimal(t)
      BY <1>3, <2>2 DEF DecideUgal, Decision, Detouring
    <3> HIDE DEF r, better
    <3>2. u = Minimal(t) \/ (r # <<>> /\ u = Detouring(r))
      BY <3>1
    <3> QED  BY <1>1, <3>2, MinimalFits, DetouringFits
  <2> QED  BY <2>1, <2>2
<1> QED  BY <1>2, <1>3

\* A packet that a host sends under UGAL.
LEMMA UgalSends ==
  ASSUME ValuesOK, AnyPolicy, policy.algorithm = "UGAL", NEW n, NEW dst,
         NEW inject, Sending(inject), NEW source, ~source, NEW draw, NEW load, NEW u
  PROVE  u = DecideUgal(n, dst, inject, source, NoTag, draw, load).tag => TagFits(u)
<1> SUFFICES ASSUME u = DecideUgal(n, dst, inject, source, NoTag, draw, load).tag
             PROVE  TagFits(u)
  OBVIOUS
<1> DEFINE r == PickTransitRewrites(addr[n], dst, draw)
<1>1. Rewrites(r)
  BY PickedRewrites DEF AnyPolicy
<1>2. NoTag.phase = "none"
  BY DEF NoTag
<1>3. u = IF r = <<>> THEN Minimal(NoTag) ELSE Waiting(r)
  BY <1>2 DEF DecideUgal, Decision, Waiting, Sending
<1> HIDE DEF r
<1> QED  BY <1>1, <1>3, MinimalFits, WaitingFits

LEMMA ValiantDecides ==
  ASSUME ValuesOK, AnyPolicy, policy.algorithm = "Valiant", NEW t, TagFits(t), NEW src, NEW dst,
         NEW inject, Sending(inject) => t.flags = 0, NEW draw, NEW u,
         u = DecideValiant(src, dst, inject, t, draw).tag
  PROVE  TagFits(u) /\ ~Undecided(u)
<1>1. ~Undecided(t)
  BY DEF TagFits, TagOK, Undecided
<1>2. CASE t.phase = "toTransit" /\ t.rewrites # <<>>
  <2>1. u \in {t, Tag("toFinal", 0, <<>>)}
    BY <1>2, OnTransitTag DEF DecideValiant
  <2> QED  BY <1>1, <2>1, FinalFits
<1>3. CASE ~(t.phase = "toTransit" /\ t.rewrites # <<>>)
  <2>1. PICK r : r = PickTransitRewrites(src, dst, draw)
    OBVIOUS
  <2>2. Rewrites(r)
    BY <2>1, PickedRewrites DEF AnyPolicy
  <2>3. u = t \/ (r # <<>> /\ Sending(inject) /\ u = Tag("toTransit", t.flags, r))
    BY <1>3, <2>1 DEF DecideValiant, Decision, Sending
  <2>4. u = t \/ (r # <<>> /\ u = Detouring(r))
    BY <2>3 DEF Detouring
  <2> QED  BY <1>1, <2>2, <2>4, DetouringFits
<1> QED  BY <1>2, <1>3

\* Rewrites of the stages of a detour.
LEMMA DrawnRewrites ==
  ASSUME AnyPolicy, policy.algorithm = "Detour", NEW src, NEW dst, NEW draw \in Draws(src, dst)
  PROVE  Rewrites(draw)
<1>1. PICK k \in Int : draw \in [1..k -> StageRewrites(src, dst)] /\ k >= 0
  BY DEF Draws, AnyPolicy
<1>2. IsSequence(draw)
  BY <1>1, SequenceOf
<1>3. \A i \in DOMAIN draw : draw[i].value \in FieldValues(draw[i].field)
  BY <1>1 DEF StageRewrites, StageAttempts
<1> QED  BY <1>2, <1>3 DEF Rewrites

LEMMA DetourDecides ==
  ASSUME AnyPolicy, policy.algorithm = "Detour", NEW t, TagFits(t), NEW src, NEW dst,
         NEW inject, NEW draw, Sending(inject) => Rewrites(draw), NEW u,
         u = DecideDetour(src, dst, inject, t, draw).tag
  PROVE  TagFits(u) /\ ~Undecided(u)
<1>1. ~Undecided(t)
  BY DEF TagFits, TagOK, Undecided
<1>2. CASE t.phase = "toTransit" /\ t.rewrites # <<>>
  <2>1. PICK done, n : done = StagesDone(src, t) /\ n = Len(t.rewrites)
    OBVIOUS
  <2>2. n \in Nat /\ t.flags \in Nat /\ t.flags <= n
    <3>1. n \in Nat
      BY <2>1, SequenceType DEF TagFits
    <3>2. t.flags = 0 \/ t.flags \in 1..(n - 1)
      BY <1>2, <2>1 DEF TagFits, TagOK
    <3> QED  BY <3>1, <3>2
  <2>3. done \in t.flags..n
    BY <2>1, <2>2, StagesMoveOn
  <2>4. CASE done = n
    <3>1. u = Tag("toFinal", 0, <<>>)
      BY <1>2, <2>1, <2>4 DEF DecideDetour, Decision
    <3> QED  BY <3>1, FinalFits
  <2>5. CASE done # n
    <3>1. u = [t EXCEPT !.flags = done]
      BY <1>2, <2>1, <2>5 DEF DecideDetour, Decision
    <3>2. done \in Nat /\ done >= t.flags /\ done < n
      BY <2>2, <2>3, <2>5
    <3> QED  BY <1>2, <2>1, <3>1, <3>2, StageFits
  <2> QED  BY <2>4, <2>5
<1>3. CASE ~(t.phase = "toTransit" /\ t.rewrites # <<>>)
  <2>1. u = t \/ (draw # <<>> /\ Sending(inject) /\ u = Detouring(draw))
    BY <1>3 DEF DecideDetour, Decision, Sending, Detouring
  <2> QED  BY <1>1, <2>1, DetouringFits
<1> QED  BY <1>2, <1>3
-----------------------------------------------------------------------------
(* The packet on its way. *)

\* The interfaces that Evaluate may return are interfaces of the node.
InterfacesOK(n) == \A dst : Candidates(n, dst) \subseteq DOMAIN devices[n]

LEMMA CandidatesExist ==
  ASSUME WiringInv, Built, NEW n \in TopoNode
  PROVE  InterfacesOK(n)
<1>1. FilledOnce(ports[n], DOMAIN devices[n])
  <2>1. stage = "replicate" /\ level = 0
    BY DEF Built, WiringInv, TopologyInv, SizeInv
  <2>2. Block = TopoNode
    BY <2>1, WholeBlock DEF WiringInv
  <2> QED  BY <2>2 DEF WiringInv, BucketInv
<1>2. ASSUME NEW b  PROVE PortsIn(n, b) \subseteq DOMAIN devices[n]
  BY <1>1 DEF PortsIn, FilledOnce, ToSet
<1>3. ASSUME NEW dst  PROVE Candidates(n, dst) \subseteq DOMAIN devices[n]
  BY <1>2 DEF Candidates
<1> QED  BY <1>3 DEF InterfacesOK

IsWhole(p) ==
  DOMAIN p = {"src", "dst", "at", "from", "out", "hops", "status", "tag", "seen"}

\* Where a packet has been.
Visited(p) ==
  /\ p.status \in {"sent", "delivered", "lost"} /\ p.hops \in Nat
  /\ p.seen \subseteq TopoNode /\ {p.at, p.from, p.src} \subseteq p.seen
  /\ p.status = "delivered" => p.dst \in p.seen

\* In a fabric whose hosts are linked to switches only, a packet that UGAL has not decided yet
\* is at most one link away from its sender.
NearSource(p) ==
  HostsBelow /\ Undecided(p.tag) =>
    p.hops <= 1 /\ p.from = p.src /\ (p.status = "sent" => p.at[1] > 0)

OnWay(p) == IsWhole(p) /\ Visited(p) /\ TagFits(p.tag) /\ NearSource(p)

\* What forwarding does to everything but the tag.
LEMMA LeaveFields ==
  ASSUME NEW p, IsWhole(p), NEW u, NEW o, NEW q, q = Leave(p, u, o)
  PROVE  /\ IsWhole(q) /\ q.tag = u /\ q.src = p.src /\ q.dst = p.dst
         /\ o = 0 => /\ q.status = "lost" /\ q.at = p.at /\ q.from = p.from /\ q.seen = p.seen
                     /\ q.hops = p.hops
         /\ o # 0 => /\ q.at = devices[p.at][o].peer /\ q.from = p.at
                     /\ q.seen = p.seen \cup {devices[p.at][o].peer}
                     /\ q.hops = IF p.hops = MaxHops THEN p.hops ELSE p.hops + 1
                     /\ q.status = IF devices[p.at][o].peer = p.dst THEN "delivered"
                                   ELSE p.status
<1>1. CASE o = 0
  BY <1>1 DEF Leave, IsWhole
<1>2. CASE o # 0
  BY <1>2 DEF Leave, IsWhole
<1> QED  BY <1>1, <1>2

LEMMA LeaveVisited ==
  ASSUME WiringInv, Built, NEW p, IsWhole(p), Visited(p), NEW u,
         NEW o \in {0} \cup DOMAIN devices[p.at], NEW q, q = Leave(p, u, o)
  PROVE  /\ IsWhole(q) /\ q.tag = u /\ Visited(q)
         /\ p.from = p.src /\ p.at = p.src /\ p.hops = 0 => q.hops <= 1 /\ q.from = q.src
         /\ HostsBelow /\ p.at[1] = 0 /\ q.status = "sent" => q.at[1] > 0
<1>1. CASE o = 0
  <2>1. /\ IsWhole(q) /\ q.tag = u /\ q.src = p.src /\ q.dst = p.dst
        /\ q.status = "lost" /\ q.at = p.at /\ q.from = p.from /\ q.seen = p.seen
        /\ q.hops = p.hops
    BY <1>1, LeaveFields
  <2> QED  BY <2>1 DEF Visited
<1>2. CASE o # 0
  <2>1. PICK m : m = devices[p.at][o].peer
    OBVIOUS
  <2>2. /\ IsWhole(q) /\ q.tag = u /\ q.src = p.src /\ q.dst = p.dst
        /\ q.at = m /\ q.from = p.at /\ q.seen = p.seen \cup {m}
        /\ q.hops = IF p.hops = MaxHops THEN p.hops ELSE p.hops + 1
        /\ q.status = IF m = p.dst THEN "delivered" ELSE p.status
    BY <1>2, <2>1, LeaveFields
  <2>3. p.at \in TopoNode /\ o \in DOMAIN devices[p.at]
    BY <1>2 DEF Visited
  <2>4. m \in TopoNode /\ (HostsBelow => p.at[1] > 0 \/ m[1] > 0)
    BY <2>1, <2>3 DEF WiringInv, TopologyInv, LinkInv, DevicesOK, DeviceOK
  <2>5. Visited(q)
    BY <2>2, <2>4 DEF Visited
  <2>6. p.hops = 0 => q.hops <= 1
    BY <2>2
  <2>7. p.at[1] = 0 => ~(p.at[1] > 0)
    OBVIOUS
  <2> QED  BY <2>2, <2>4, <2>5, <2>6, <2>7
<1> QED  BY <1>1, <1>2

LEMMA RuleBasedLeaves ==
  ASSUME WiringInv, Built, NEW p, Visited(p), NEW inject, NEW draw, NEW load,
         NEW q \in RuleBased(p, inject, draw, load)
  PROVE  \E o \in {0} \cup DOMAIN devices[p.at] :
           q = Leave(p, Decide(p, inject, draw, load).tag, o)
<1> DEFINE d == Decide(p, inject, draw, load)
<1>1. p.at \in TopoNode
  BY DEF Visited
<1>2. Candidates(p.at, d.effective) \subseteq DOMAIN devices[p.at]
  BY <1>1, CandidatesExist DEF InterfacesOK
<1>3. \E o \in IF Candidates(p.at, d.effective) = {} THEN {0} ELSE Candidates(p.at, d.effective) :
        q = Leave(p, d.tag, o)
  BY DEF RuleBased
<1> QED  BY <1>2, <1>3

LEMMA PacketStays ==
  ASSUME WiringInv, Built, AnyPolicy, NEW p, OnWay(p), p.status = "sent",
         NEW inject, Passing(inject), NEW draw, NEW load,
         NEW q \in RuleBased(p, inject, draw, load)
  PROVE  OnWay(q)
<1>1. IsWhole(p) /\ Visited(p) /\ TagFits(p.tag) /\ NearSource(p)
  BY DEF OnWay
<1>2. PICK u : u = Decide(p, inject, draw, load).tag
  OBVIOUS
<1>3. PICK o \in {0} \cup DOMAIN devices[p.at] : q = Leave(p, u, o)
  BY <1>1, <1>2, RuleBasedLeaves
<1>4. IsWhole(q) /\ q.tag = u /\ Visited(q)
  BY <1>1, <1>3, LeaveVisited
<1>5. ValuesOK
  BY ValuesFinite DEF WiringInv
<1>6. ~Sending(inject)
  BY DEF Sending, Passing
<1>7. TagFits(u) /\ (Undecided(u) => Undecided(p.tag) /\ ~SourceRouter(p, inject))
  <2>1. CASE policy.algorithm = "Valiant"
    <3>1. u = DecideValiant(addr[p.at], addr[p.dst], inject, p.tag, draw).tag
      BY <1>2, <2>1 DEF Decide
    <3> QED  BY <1>1, <1>5, <1>6, <2>1, <3>1, ValiantDecides
  <2>2. CASE policy.algorithm = "UGAL"
    <3>1. u = DecideUgal(p.at, addr[p.dst], inject, SourceRouter(p, inject), p.tag, draw, load).tag
      BY <1>2, <2>2 DEF Decide
    <3>2. PICK s : s = SourceRouter(p, inject)
      OBVIOUS
    <3>3. u = DecideUgal(p.at, addr[p.dst], inject, s, p.tag, draw, load).tag
      BY <3>1, <3>2
    <3>4. TagFits(u) /\ (Undecided(u) => Undecided(p.tag) /\ ~s)
      BY <1>1, <1>5, <2>2, <3>3, UgalPasses
    <3> QED  BY <3>2, <3>4
  <2>3. CASE policy.algorithm = "Detour"
    <3>1. u = DecideDetour(addr[p.at], addr[p.dst], inject, p.tag, draw).tag
      BY <1>2, <2>3 DEF Decide
    <3> QED  BY <1>1, <1>6, <2>3, <3>1, DetourDecides
  <2> QED  BY <2>1, <2>2, <2>3 DEF AnyPolicy
<1>8. NearSource(q)
  <2> SUFFICES ASSUME HostsBelow, Undecided(q.tag)  PROVE FALSE
    BY DEF NearSource
  <2>1. Undecided(p.tag) /\ ~SourceRouter(p, inject)
    BY <1>4, <1>7
  <2>2. p.from = p.src /\ p.at[1] > 0
    BY <1>1, <2>1 DEF NearSource
  <2> QED  BY <2>1, <2>2 DEF SourceRouter
<1> QED  BY <1>4, <1>7, <1>8 DEF OnWay

LEMMA PacketStarts ==
  ASSUME WiringInv, Built, AnyPolicy, NEW src \in Hosts, NEW dst, NEW inject, Sending(inject),
         NEW draw \in Draws(addr[src], addr[dst]), NEW load,
         NEW q \in RuleBased(Packet(src, dst), inject, draw, load)
  PROVE  OnWay(q)
<1>1. PICK p : p = Packet(src, dst)
  OBVIOUS
<1>2. /\ IsWhole(p) /\ p.src = src /\ p.dst = dst /\ p.at = src /\ p.from = src /\ p.hops = 0
      /\ p.status = "sent" /\ p.tag = NoTag /\ p.seen = {src}
  BY <1>1 DEF Packet, IsWhole
<1>3. src \in TopoNode /\ src[1] = 0
  <2>1. 0 \in DOMAIN size /\ TopoNode = UNION {LevelNodes(l) : l \in DOMAIN size}
    BY DEF WiringInv, TopologyInv, SizeInv, LinkInv
  <2> QED  BY <2>1 DEF Hosts, LevelNodes
<1>4. Visited(p)
  BY <1>2, <1>3 DEF Visited
<1>5. PICK u : u = Decide(p, inject, draw, load).tag
  OBVIOUS
<1>6. PICK o \in {0} \cup DOMAIN devices[p.at] : q = Leave(p, u, o)
  BY <1>1, <1>4, <1>5, RuleBasedLeaves
<1>7. /\ IsWhole(q) /\ q.tag = u /\ Visited(q)
      /\ q.hops <= 1 /\ q.from = q.src
      /\ HostsBelow /\ q.status = "sent" => q.at[1] > 0
  BY <1>2, <1>3, <1>4, <1>6, LeaveVisited
<1>8. ValuesOK
  BY ValuesFinite DEF WiringInv
<1>9. TagFits(u)
  <2>1. CASE policy.algorithm = "Valiant"
    <3>1. u = DecideValiant(addr[src], addr[dst], inject, p.tag, draw).tag
      BY <1>2, <1>5, <2>1 DEF Decide
    <3>2. TagFits(p.tag) /\ p.tag.flags = 0
      BY <1>2, NoTagFits DEF NoTag
    <3> QED  BY <1>8, <2>1, <3>1, <3>2, ValiantDecides
  <2>2. CASE policy.algorithm = "UGAL"
    <3>1. u = DecideUgal(p.at, addr[p.dst], inject, SourceRouter(p, inject), p.tag, draw, load).tag
      BY <1>5, <2>2 DEF Decide
    <3>2. PICK s, b : s = SourceRouter(p, inject) /\ b = addr[p.dst]
      OBVIOUS
    <3>3. ~s
      <4>1. ~(p.at[1] > 0)
        BY <1>2, <1>3
      <4>2. ~SourceRouter(p, inject)
        BY <4>1 DEF SourceRouter
      <4> QED  BY <3>2, <4>2
    <3>4. u = DecideUgal(src, b, inject, s, NoTag, draw, load).tag
      BY <1>2, <3>1, <3>2
    <3> QED  BY <1>8, <2>2, <3>3, <3>4, UgalSends
  <2>3. CASE policy.algorithm = "Detour"
    <3>1. u = DecideDetour(addr[src], addr[dst], inject, p.tag, draw).tag
      BY <1>2, <1>5, <2>3 DEF Decide
    <3>2. Rewrites(draw)
      BY <2>3, DrawnRewrites
    <3>3. TagFits(p.tag)
      BY <1>2, NoTagFits
    <3> QED  BY <2>3, <3>1, <3>2, <3>3, DetourDecides
  <2> QED  BY <2>1, <2>2, <2>3 DEF AnyPolicy
<1>10. NearSource(q)
  BY <1>7 DEF NearSource
<1> QED  BY <1>7, <1>9, <1>10 DEF OnWay

-----------------------------------------------------------------------------
(* The invariant. *)

\* The policy was chosen with the list of templates.
PolicyOf == \E s \in Scenarios : s.recipe = recipe /\ s.policy = policy

WayInv ==
  WiringInv /\ PolicyOf /\ (packet # NoPacket => Built /\ OnWay(packet))

LEMMA PolicyChosen ==
  ASSUME PolicyOf
  PROVE  AnyPolicy
BY ScenariosAssumption DEF PolicyOf, AnyPolicy

\* A fabric with a packet in it stays as it is.
LEMMA NothingBuilt ==
  ASSUME Built
  PROVE  ~BuildStep
BY DEF Built, BuildStep, ReplicateLevel, CopyPortSets, Replicated, CreateLevel, CreateDimension,
       Connect, ConnectNodes, GenerateRoutingRules

LEMMA StaysOnWay ==
  ASSUME UNCHANGED <<topoVars, policy>>, NEW q, q = packet', OnWay(q)
  PROVE  OnWay(packet)'
<1>1. /\ TopoNode' = TopoNode /\ (HostsBelow' <=> HostsBelow) /\ addr' = addr /\ policy' = policy
  BY DEF topoVars, topology, TopoNode, HostsBelow
<1>2. Visited(packet)'
  BY <1>1 DEF OnWay, Visited
<1>3. NearSource(packet)'
  BY <1>1 DEF OnWay, NearSource, Undecided
<1>4. TagFits(packet.tag)'
  BY <1>1 DEF OnWay, TagFits, TagOK, FieldValues, IsSequence
<1>5. IsWhole(packet)'
  BY DEF OnWay, IsWhole
<1> QED  BY <1>2, <1>3, <1>4, <1>5 DEF OnWay

LEMMA WayStep ==
  ASSUME WayInv, [Next]_vars
  PROVE  WayInv'
<1>1. WiringInv'
  <2>1. [BuildStep]_topoVars
    BY DEF Next, Build, Send, Forward, Pass, vars
  <2> QED  BY <2>1, WiringStep DEF WayInv
<1>2. recipe' = recipe /\ policy' = policy
  BY DEF Next, Build, Send, Forward, Pass, vars, BuildStep, ReplicateLevel, CopyPortSets, Replicated,
         CreateLevel, CreateDimension, Connect, ConnectNodes, GenerateRoutingRules, topoVars
<1>3. PolicyOf'
  BY <1>2 DEF WayInv, PolicyOf
<1>4. AnyPolicy
  BY PolicyChosen DEF WayInv
<1>5. ASSUME UNCHANGED <<topoVars, policy>>, Built, NEW q, q = packet', OnWay(q)
      PROVE  (Built /\ OnWay(packet))'
  <2>1. OnWay(packet)'
    BY <1>5, StaysOnWay
  <2>2. Built'
    BY <1>5 DEF Built, topoVars
  <2> QED  BY <1>5, <2>1, <2>2
<1>6. (packet # NoPacket => Built /\ OnWay(packet))'
  <2>1. CASE UNCHANGED vars
    <3>1. CASE packet = NoPacket
      BY <2>1, <3>1 DEF vars, NoPacket
    <3>2. CASE packet # NoPacket
      <4>1. UNCHANGED <<topoVars, policy>> /\ packet' = packet
        BY <2>1 DEF vars
      <4>2. Built /\ OnWay(packet)
        BY <3>2 DEF WayInv
      <4> QED  BY <1>5, <4>1, <4>2
    <3> QED  BY <3>1, <3>2
  <2>2. CASE Build
    <3>1. packet = NoPacket
      BY <2>2, NothingBuilt DEF WayInv, Build
    <3> QED  BY <2>2, <3>1 DEF Build, NoPacket
  <2>3. CASE Send
    <3>1. PICK src \in Hosts, dst \in Hosts : \E draw \in Draws(addr[src], addr[dst]) :
            Pass(Packet(src, dst), Packet(src, dst), TRUE, draw, <<>>)
      BY <2>3 DEF Send
    <3>2. PICK draw \in Draws(addr[src], addr[dst]) :
            Pass(Packet(src, dst), Packet(src, dst), TRUE, draw, <<>>)
      BY <3>1
    <3>3. packet' \in RuleBased(Packet(src, dst), TRUE, draw, <<>>)
          /\ UNCHANGED <<topoVars, policy>>
      BY <3>2, Zenon DEF Pass
    <3>4. Built
      BY <2>3 DEF Send
    <3>5. PICK q : q = packet'
      OBVIOUS
    <3>6. OnWay(q)
      <4>1. q \in RuleBased(Packet(src, dst), TRUE, draw, <<>>) /\ Sending(TRUE)
        BY <3>3, <3>5, Zenon DEF Sending
      <4>2. WiringInv
        BY DEF WayInv
      <4> QED  BY <1>4, <3>4, <4>1, <4>2, PacketStarts, Zenon
    <3> QED  BY <1>5, <3>3, <3>4, <3>5, <3>6
  <2>4. CASE Forward
    <3>1. packet # NoPacket /\ packet.status = "sent"
      BY <2>4 DEF Forward, NoPacket
    <3>2. PICK load : Pass(packet, twin, FALSE, <<>>, load)
      BY <2>4, Zenon DEF Forward
    <3>3. packet' \in RuleBased(packet, FALSE, <<>>, load) /\ UNCHANGED <<topoVars, policy>>
      BY <3>2, Zenon DEF Pass
    <3>4. Built /\ OnWay(packet) /\ WiringInv
      BY <3>1 DEF WayInv
    <3>5. PICK q, p : q = packet' /\ p = packet
      OBVIOUS
    <3>6. OnWay(q)
      <4>1. q \in RuleBased(p, FALSE, <<>>, load) /\ Passing(FALSE)
        BY <3>3, <3>5, Zenon DEF Passing
      <4>2. OnWay(p) /\ p.status = "sent"
        BY <3>1, <3>4, <3>5
      <4> QED  BY <1>4, <3>4, <4>1, <4>2, PacketStays, Zenon
    <3> QED  BY <1>5, <3>3, <3>4, <3>5, <3>6
  <2> QED  BY <2>1, <2>2, <2>3, <2>4 DEF Next
<1> QED  BY <1>1, <1>3, <1>6 DEF WayInv

LEMMA WayStart == Init => WayInv
<1> SUFFICES ASSUME Init  PROVE WayInv
  OBVIOUS
<1>1. WiringInv /\ packet = NoPacket
  BY WiringStart DEF Init
<1>2. PolicyOf
  BY DEF Init, PolicyOf
<1> QED  BY <1>1, <1>2 DEF WayInv

\* For every list of templates and every policy: a packet visits nodes of the fabric only, it has
\* rewrites exactly while it is on its way to a transit node or UGAL has not decided, all of them
\* to values that their fields have, and the stage of a detour is below the number of rewrites
\* (NonMinimalPolicy::Decide and PickTransitRewrites).
THEOREM TagsFit == Spec => []TypeOK
<1>1. WayInv => TypeOK
  <2> SUFFICES ASSUME WayInv, packet # NoPacket
               PROVE  /\ packet.status \in {"sent", "delivered", "lost"}
                      /\ {packet.at, packet.from, packet.src, packet.dst} \subseteq packet.seen
                           \cup (IF packet.status = "delivered" THEN {} ELSE {packet.dst})
                      /\ packet.seen \subseteq TopoNode
                      /\ TagOK(packet.tag)
    BY DEF TypeOK
  <2>1. Visited(packet) /\ TagFits(packet.tag)
    BY DEF WayInv, OnWay
  <2> QED  BY <2>1 DEF Visited, TagFits
<1> QED  BY <1>1, WayStart, WayStep, PTL DEF Spec

\* For every list of templates whose first gives the hosts a switch, as the dragonflies and fat
\* trees that run UGAL have: the packet of a host loses the pending mark at the first router
\* (UgalPolicy::Decide).  Hosts that are linked to each other would pass the mark on.
THEOREM DecidedFirst ==
  ASSUME \A s \in Scenarios :
           s.policy.algorithm = "UGAL" => Len(s.recipe) > 0 /\ s.recipe[1].nodes > 0
  PROVE  Spec => []DecidedAtSource
<1>1. WayInv => DecidedAtSource
  <2> SUFFICES ASSUME WayInv, packet # NoPacket, Undecided(packet.tag)
               PROVE  packet.hops <= 1 /\ packet.from = packet.src
    BY DEF DecidedAtSource, Undecided
  <2>1. TagOK(packet.tag) /\ NearSource(packet)
    BY DEF WayInv, OnWay, TagFits
  <2>2. policy.algorithm = "UGAL"
    BY <2>1 DEF TagOK, Undecided
  <2>3. HostsBelow
    BY <2>2 DEF WayInv, PolicyOf, HostsBelow
  <2> QED  BY <2>1, <2>3 DEF NearSource
<1> QED  BY <1>1, WayStart, WayStep, PTL DEF Spec
=================================================================================
