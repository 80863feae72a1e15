------------------------------ MODULE TemplateRouting ------------------------------
(***************************************************************************)
(* RuleBasedRouting::Evaluate without exceptions: the rules of the level   *)
(* of a node are tried by priority, and the first that matches and whose   *)
(* bucket has interfaces gives the candidates.  Which of them PortSelector *)
(* picks is left open.                                                     *)
(***************************************************************************)
EXTENDS StructuredTopology

\* StructuredAddressHelper::ComparePrefix: equal from field f of src on.
SamePrefix(src, dst, f) ==
  f >= Len(src) \/ SubSeq(src, f + 1, Len(src)) = SubSeq(dst, f + 1, Len(src))

\* The field an intra-level template routes by.
Field(r, a) == a[startBit[r.level] + r.dim + 1]

\* Wrong: the rule upward does not look whether dst is below.
UpWithoutMatch(r, src, dst) ==
  CASE r.kind = "down" -> SamePrefix(src, dst, startBit[r.level] + 1)
    [] r.kind = "up" -> TRUE
    [] OTHER -> Field(r, src) # Field(r, dst)

Matches(r, src, dst) ==
  CASE r.kind = "down" -> SamePrefix(src, dst, startBit[r.level] + 1)
    [] r.kind = "up" -> ~SamePrefix(src, dst, startBit[r.level] + 1)
    [] r.kind \in {"full", "torus"} -> Field(r, src) # Field(r, dst)
    [] r.kind = "server" -> /\ Len(src) >= 2 /\ Len(dst) >= 2
                            /\ src[2] = dst[2] /\ src[1] # dst[1]

\* Absolute: the link to the group of dst is at the border router of that number.
AbsoluteBucket(r, n, dst) ==
  LET d == Field(r, dst)
      border == (IF d < Field(r, addr[n]) THEN d - 1 ELSE d - 2) \div r.template.outLinks
  IN IF n[2] % (size[r.level] \div r.template.copies) = border
     THEN Same(r.dim, d) ELSE Same(r.dim - 1, border + 1)

\* Wrong: the positive way round, however long.
TorusBucketPositive(r, n, dst) == Same(r.dim, 1)

\* Torus: the shorter way round, the positive one on a tie.
TorusBucket(r, n, dst) ==
  LET round(x) == IF x < 0 THEN x + r.template.copies ELSE x
      forward == Field(r, dst) - Field(r, addr[n])
  IN Same(r.dim, IF round(forward) <= round(-forward) THEN 1 ELSE -1)

DownKey(r, dst) == Fields(dst, startBit[r.level - 1] + 1, startBit[r.level])

\* The bucket the action of rule r takes an interface from.
Bucket(r, n, dst) ==
  CASE r.kind = "down" -> Down(DownKey(r, dst))
    [] r.kind = "up" -> Up
    [] r.kind = "full" /\ r.template.arrangement = "Absolute" -> AbsoluteBucket(r, n, dst)
    [] r.kind = "full" /\ r.template.arrangement = "SameRank" -> Same(r.dim, Field(r, dst))
    [] r.kind = "torus" -> TorusBucket(r, n, dst)
    [] r.kind = "server" -> Same(r.dim, dst[1])

PortsIn(n, bucket) == IF bucket \in DOMAIN ports[n] THEN ToSet(ports[n][bucket]) ELSE {}

\* Wrong: rules by ascending priority.
RuleByAscendingPriority(usable) ==
  CHOOSE r \in usable : \A q \in usable : q.priority >= r.priority

\* FreezeLevel sorts the rules by descending priority.
FirstRule(usable) == CHOOSE r \in usable : \A q \in usable : q.priority <= r.priority

\* The interfaces of n that Evaluate may return for a packet to dst.
Candidates(n, dst) ==
  LET usable == {r \in rules : /\ r.level = n[1] /\ Matches(r, addr[n], dst)
                               /\ PortsIn(n, Bucket(r, n, dst)) # {}}
      r == FirstRule(usable)
  IN IF usable = {} THEN {} ELSE PortsIn(n, Bucket(r, n, dst))

NextHops(n, dst) == {devices[n][p].peer : p \in Candidates(n, dst)}
===============================================================================
