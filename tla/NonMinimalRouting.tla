----------------------------- MODULE NonMinimalRouting -----------------------------
(***************************************************************************)
(* The non-minimal policies of RuleBasedRouting: Valiant, UGAL and Detour. *)
(* A policy rewrites fields of the destination while a packet is on its    *)
(* way to a transit node; what is still to be done is in the packet's tag. *)
(*                                                                         *)
(* A tag is [phase, flags, rewrites].  Phase "none" is a tag of no         *)
(* algorithm, flags is the pending mark of UGAL or the stage of a detour,  *)
(* rewrites is a sequence of [field, value].                               *)
(***************************************************************************)
EXTENDS TemplateRouting

VARIABLE
  policy     \* algorithm, fields (m_transitFields), stages (m_stages), the one object that
             \* ApplyNonMinimalPolicyFromJson gives all nodes

\* m_alpha * m_detourPenalty, by default
DetourCost == 1
UgalPending == 1

NoTag == [phase |-> "none", flags |-> 0, rewrites |-> <<>>]
Tag(phase, flags, rewrites) == [phase |-> phase, flags |-> flags, rewrites |-> rewrites]

\* EnsureFieldValues: the values of field f in all addresses, of switches as well.
FieldValues(f) == {addr[n][f + 1] : n \in {n \in TopoNode : f < Len(addr[n])}}

HasValue(a, f, v) == f < Len(a) /\ a[f + 1] = v

\* Wrong: only the value of the destination is avoided.
AllowedBesidesDst(src, dst, f) == {v \in FieldValues(f) : ~HasValue(dst, f, v)}

Allowed(src, dst, f) == {v \in FieldValues(f) : ~HasValue(dst, f, v) /\ ~HasValue(src, f, v)}

\* The first allowed value from start on in cyclic order; the last value of the round, which
\* is the one before start, if none is allowed.
TransitValue(src, dst, f, start) ==
  LET allowed == Allowed(src, dst, f)
      after == {v \in allowed : v >= start}
      before == {v \in FieldValues(f) : v < start}
      least(S) == CHOOSE v \in S : \A w \in S : v <= w
      greatest(S) == CHOOSE v \in S : \A w \in S : v >= w
  IN CASE after # {} -> least(after)
       [] after = {} /\ allowed # {} -> least(allowed)
       [] allowed = {} /\ before # {} -> greatest(before)
       [] OTHER -> greatest(FieldValues(f))

\* PickTransitRewrites: start[f] is the value the flow hash selects.
PickTransitRewrites(src, dst, start) ==
  LET rewrite(f) == IF FieldValues(f) = {} THEN <<>>
                    ELSE <<[field |-> f, value |-> TransitValue(src, dst, f, start[f])]>>
  IN FlattenSeq([i \in DOMAIN policy.fields |-> rewrite(policy.fields[i])])

ApplyRewrites(a, rewrites) ==
  FoldLeft(LAMBDA b, r : IF r.field < Len(b) THEN [b EXCEPT ![r.field + 1] = r.value] ELSE b,
           a, rewrites)

MatchesRewrites(a, rewrites) ==
  \A i \in DOMAIN rewrites : HasValue(a, rewrites[i].field, rewrites[i].value)

\* pickStageRewrite: the rewrites that its attempts come across.
StageAttempts(dst) ==
  {r \in [field : ToSet(policy.fields), value : UNION {FieldValues(f) : f \in ToSet(policy.fields)}] :
     /\ r.field < Len(dst)
     /\ {r.value, dst[r.field + 1]} \subseteq FieldValues(r.field)
     /\ r.value # dst[r.field + 1]}

\* Wrong: a rewrite may give the address of the sender.
AnyStageRewrite(src, dst) == StageAttempts(dst)

StageRewrites(src, dst) == {r \in StageAttempts(dst) : ApplyRewrites(dst, <<r>>) # src}

\* The attempts are many enough for one to succeed unless some can fail: with a field that
\* has one value or that the destination lacks, or with the address of the sender.  Without
\* fields there is no attempt.
StageMayFail(src, dst) ==
  \/ policy.fields = <<>>
  \/ StageRewrites(src, dst) # StageAttempts(dst)
  \/ \E f \in ToSet(policy.fields) : Cardinality(FieldValues(f)) <= 1 \/ f >= Len(dst)

\* What the flow hash of a packet from src to dst may select: starting values for Valiant and
\* UGAL in the fields that some address has, the rewrites of the stages for Detour, of which a
\* failed stage is the last.
Draws(src, dst) ==
  IF policy.algorithm = "Detour"
  THEN UNION {[1..k -> StageRewrites(src, dst)] :
                k \in IF StageMayFail(src, dst) THEN 0..policy.stages ELSE {policy.stages}}
  ELSE LET used == {f \in ToSet(policy.fields) : FieldValues(f) # {}}
       IN {s \in [used -> UNION {FieldValues(f) : f \in used}] :
             \A f \in used : s[f] \in FieldValues(f)}

-----------------------------------------------------------------------------
Decision(effective, tag) == [effective |-> effective, tag |-> tag]

\* Wrong: the rewrites are left in the tag.
OnTransitKeepsRewrites(src, dst, tag) ==
  IF MatchesRewrites(src, tag.rewrites)
  THEN Decision(dst, Tag("toFinal", 0, tag.rewrites))
  ELSE Decision(ApplyRewrites(dst, tag.rewrites), tag)

\* Valiant and UGAL on the way to the transit node.
OnTransit(src, dst, tag) ==
  IF MatchesRewrites(src, tag.rewrites)
  THEN Decision(dst, Tag("toFinal", 0, <<>>))
  ELSE Decision(ApplyRewrites(dst, tag.rewrites), tag)

DecideValiant(src, dst, inject, tag, draw) ==
  IF tag.phase = "toTransit" /\ tag.rewrites # <<>> THEN OnTransit(src, dst, tag)
  ELSE LET r == PickTransitRewrites(src, dst, draw)
       IN IF ~inject \/ r = <<>> THEN Decision(dst, tag)
          ELSE Decision(ApplyRewrites(dst, r), Tag("toTransit", tag.flags, r))

\* The probe: an interface that Evaluate selects, and the length of its queue.
Probe(n, dst, load) ==
  LET out == Candidates(n, dst)
  IN IF out = {} THEN [found |-> FALSE, metric |-> 0]
     ELSE [found |-> TRUE, metric |-> load[CHOOSE p \in out : TRUE]]

\* Wrong: the queues are compared without the cost of the detour.
PrefersDetourForFree(min, val) ==
  val.found /\ (~min.found \/ val.metric < min.metric)

PrefersDetour(min, val) ==
  val.found /\ (~min.found \/ val.metric + DetourCost < min.metric)

\* Wrong: a minimal route is taken without telling the next routers.
KeepsTag(tag) == tag

Minimal(tag) == Tag("min", 0, <<>>)

DecideUgal(n, dst, inject, sourceRouter, tag, draw, load) ==
  LET src == addr[n]
      picked == PickTransitRewrites(src, dst, draw)
      pending == tag.phase = "min" /\ tag.flags = UgalPending /\ tag.rewrites # <<>>
      r == IF pending THEN tag.rewrites ELSE picked
      minimal == Decision(dst, Minimal(tag))
  IN CASE tag.phase = "toTransit" /\ tag.rewrites # <<>> -> OnTransit(src, dst, tag)
       [] OTHER ->
            IF ~sourceRouter
            THEN CASE ~inject -> Decision(dst, tag)
                   [] inject /\ picked = <<>> -> minimal
                   [] OTHER -> Decision(dst, Tag("min", UgalPending, picked))
            ELSE LET detour == ApplyRewrites(dst, r)
                 IN IF r # <<>> /\ PrefersDetour(Probe(n, dst, load), Probe(n, detour, load))
                    THEN Decision(detour, Tag("toTransit", 0, r))
                    ELSE minimal

\* Wrong: counted from the first stage again.
StagesDoneAfresh(src, tag) ==
  LET open == {i \in 1..Len(tag.rewrites) : ~MatchesRewrites(src, <<tag.rewrites[i]>>)}
  IN IF open = {} THEN Len(tag.rewrites) ELSE (CHOOSE i \in open : \A j \in open : i <= j) - 1

\* Detour: the number of stages of a packet at src that are done.
StagesDone(src, tag) ==
  LET open == {i \in (tag.flags + 1)..Len(tag.rewrites) :
                 ~MatchesRewrites(src, <<tag.rewrites[i]>>)}
  IN IF open = {} THEN Len(tag.rewrites) ELSE (CHOOSE i \in open : \A j \in open : i <= j) - 1

DecideDetour(src, dst, inject, tag, draw) ==
  IF tag.phase = "toTransit" /\ tag.rewrites # <<>>
  THEN LET done == StagesDone(src, tag)
       IN IF done = Len(tag.rewrites) THEN Decision(dst, Tag("toFinal", 0, <<>>))
          ELSE Decision(ApplyRewrites(dst, <<tag.rewrites[done + 1]>>),
                        [tag EXCEPT !.flags = done])
  ELSE IF ~inject \/ draw = <<>> THEN Decision(dst, tag)
       ELSE Decision(ApplyRewrites(dst, <<draw[1]>>), Tag("toTransit", 0, draw))
===============================================================================
