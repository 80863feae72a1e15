-------------------------- MODULE ClosForwardingProofs --------------------------
(***************************************************************************)
(* Forwarding under the failure control plane, on the fabrics that stacks  *)
(* of ClosInterLevelTemplates make if a parent has one child in each       *)
(* replica below it: fat trees and leaf-spine fabrics of any size.         *)
(*                                                                         *)
(* There the exceptions of a router only ever narrow its rules.  A router  *)
(* has one port down to a host, so that no exception with candidates left  *)
(* is about hosts below it; and those about hosts elsewhere name ports up, *)
(* because a withdrawal that comes down is never about hosts below, where  *)
(* the rules of the receiver could take it for one about a child.  If      *)
(* hosts, too, have one port up, no packet is sent to a failed port.       *)
(***************************************************************************)
EXTENDS FailureWithdrawalProofs, ClosForwarding, ClosFabric, WellFoundedInduction

-----------------------------------------------------------------------------
(* Part 1: fabrics with one path down, where the ports that a router has   *)
(* for one downward key are one port.  There, what an exception can hold   *)
(* is told from the fabric alone.                                          *)

UpPorts(n) == BucketPorts(n, "up", <<>>)

\* What the proofs use of such a fabric: the fields below a level start at its
\* number, a bucket is downward or the one upward bucket, and a router below
\* which a host is, is the port its parents have for that host.
OnePathDown ==
  /\ \A l \in 0..AddrSize : LevelAddrBit[l] = l - 1
  /\ \A n \in Node : \A b \in Buckets[n] : b.dir = "down" \/ (b.dir = "up" /\ b.key = <<>>)
  /\ \A n \in Node : \A b, c \in Buckets[n] :
       b.dir = c.dir /\ b.key = c.key => b.ports = c.ports
  /\ \A n \in Node, key \in Seq(Nat) : \A c, d \in BucketPorts(n, "down", key) : c = d
  /\ \A p \in Node : \A f \in UpPorts(p) : \A dst \in HostAddress :
       MatchPrefix(p, dst) =>
         /\ Level[f] > 0 /\ MatchPrefix(f, dst)
         /\ p \in BucketPorts(f, "down", DownwardKey(f, dst))

\* No host of region rk is below n.
Outside(n, rk) == \A dst \in HostAddress : Matches(rk, dst) => ~MatchPrefix(n, dst)

\* An entry that still has candidates is about hosts elsewhere and leads up.
UpwardOnly(n, table) ==
  \A r \in DOMAIN table : table[r] # {} => table[r] \subseteq UpPorts(n) /\ Outside(n, r)

\* A parent tells a router nothing about the hosts below that router.
MayTell(f, p, rk) == f \in UpPorts(p) => Outside(p, rk)

\* A sequence and one it is a prefix of agree on every part the first has.
LEMMA PrefixPart ==
  ASSUME NEW s \in Seq(Nat), NEW t \in Seq(Nat), IsPrefix(s, t),
         NEW a \in Nat \ {0}, NEW b \in Int, b <= Len(s)
  PROVE  SubSeq(s, a, b) = SubSeq(t, a, b)
<1>1. Len(s) <= Len(t) /\ \A i \in 1..Len(s) : s[i] = t[i]
  BY PrefixElements
<1>2. Len(s) \in Nat /\ Len(t) \in Nat
  OBVIOUS
<1>3. \A i \in a..b : s[i] \in Nat /\ t[i] \in Nat /\ s[i] = t[i]
  BY <1>1, <1>2
<1> DEFINE S == SubSeq(s, a, b)
           T == SubSeq(t, a, b)
<1>4. /\ S \in Seq(Nat) /\ Len(S) = (IF a <= b THEN b - a + 1 ELSE 0)
      /\ \A i \in 1..(b - a + 1) : S[i] = s[a + i - 1]
  BY <1>3, SubSeqProperties
<1>5. /\ T \in Seq(Nat) /\ Len(T) = (IF a <= b THEN b - a + 1 ELSE 0)
      /\ \A i \in 1..(b - a + 1) : T[i] = t[a + i - 1]
  BY <1>3, SubSeqProperties
<1> HIDE DEF S, T
<1>6. \A i \in 1..Len(S) : S[i] = T[i]
  <2> SUFFICES ASSUME NEW i \in 1..Len(S) PROVE S[i] = T[i]
    OBVIOUS
  <2>1. i \in 1..(b - a + 1) /\ a + i - 1 \in a..b
    BY <1>4
  <2> QED  BY <1>3, <1>4, <1>5, <2>1
<1> QED  BY <1>4, <1>5, <1>6, SeqEqual DEF S, T

\* The fields of the hosts and of the routers of the fabric.
LEMMA FieldsType ==
  ASSUME OnePathDown, NEW n \in Node
  PROVE  /\ Address[n] \in Seq(Nat) /\ Len(Address[n]) = AddrSize
         /\ Level[n] \in Nat /\ AddrSize \in Nat /\ Level[n] <= AddrSize
         /\ LevelAddrBit[Level[n]] = Level[n] - 1
         /\ CurrentPrefixLen(n) = AddrSize - Level[n]
         /\ Level[n] > 0 => SegmentLen(n) = 1
         /\ \A dst \in HostAddress :
              /\ dst \in Seq(Nat) /\ Len(dst) = AddrSize
              /\ MatchPrefix(n, dst) <=> Leading(Address[n], AddrSize - Level[n]) =
                                         Leading(dst, AddrSize - Level[n])
<1>1. /\ Address[n] \in Seq(Nat) /\ Len(Address[n]) = AddrSize
      /\ Level[n] \in 0..AddrSize /\ AddrSize \in Nat
      /\ \A dst \in HostAddress : dst \in Seq(Nat) /\ Len(dst) = AddrSize
  BY FabricAssumption
<1>2. LevelAddrBit[Level[n]] = Level[n] - 1
  BY <1>1 DEF OnePathDown
<1>3. Level[n] > 0 => SegmentLen(n) = 1
  <2>1. Level[n] > 0 => LevelAddrBit[Level[n] - 1] = Level[n] - 2
    BY <1>1 DEF OnePathDown
  <2> QED  BY <1>1, <1>2, <2>1 DEF SegmentLen
<1>4. AddrSize - (LevelAddrBit[Level[n]] + 1) = AddrSize - Level[n]
  BY <1>1, <1>2
<1> QED  BY <1>1, <1>2, <1>3, <1>4 DEF CurrentPrefixLen, MatchPrefix

\* A region within another has no host the other has not.
LEMMA OutsideWithin ==
  ASSUME NEW n, NEW q \in Region, NEW r \in Region, IsPrefix(q, r), Outside(n, q)
  PROVE  Outside(n, r)
<1>1. \A dst \in HostAddress : dst \in Seq(Nat)
  BY FabricAssumption
<1> QED  BY <1>1, PrefixOrder DEF Outside, Matches, Region

\* What an insertion reports as emptied lies within the inserted region.
LEMMA EmptiedWithin ==
  ASSUME NEW table, DOMAIN table \subseteq Region, NEW rk \in Region, NEW cand, NEW fallback,
         NEW r \in EmptiedRegions(table, rk, cand, fallback)
  PROVE  r \in Region /\ IsPrefix(rk, r)
<1>1. r \in DOMAIN table \cup {rk}
  BY DEF EmptiedRegions, UpdatedTable
<1>2. CASE r = rk
  BY <1>2, PrefixOrder DEF Region
<1>3. CASE r # rk /\ ~IsPrefix(rk, r)
  <2>1. r \in DOMAIN table /\ UpdatedTable(table, rk, cand)[r] = table[r]
    BY <1>1, <1>3 DEF UpdatedTable, IsStrictPrefix
  <2> QED  BY <2>1 DEF EmptiedRegions, Previous
<1> QED  BY <1>1, <1>2, <1>3

\* An insertion of candidates that lead up, for hosts elsewhere, or of none.
LEMMA UpdateUpward ==
  ASSUME NEW n, NEW table, DOMAIN table \subseteq Region, UpwardOnly(n, table),
         NEW rk \in Region, NEW cand,
         cand # {} => cand \subseteq UpPorts(n) /\ Outside(n, rk)
  PROVE  UpwardOnly(n, UpdatedTable(table, rk, cand))
<1> DEFINE after == UpdatedTable(table, rk, cand)
<1>1. /\ DOMAIN after = DOMAIN table \cup {rk} /\ after[rk] \subseteq cand
      /\ \A r \in DOMAIN table : after[r] \subseteq table[r]
  BY UpdateShrinks DEF Region
<1> HIDE DEF after
<1>2. ASSUME NEW r \in DOMAIN after, after[r] # {}
      PROVE  after[r] \subseteq UpPorts(n) /\ Outside(n, r)
  <2>1. CASE r = rk
    BY <1>1, <1>2, <2>1
  <2>2. CASE r \in DOMAIN table
    BY <1>1, <1>2, <2>2 DEF UpwardOnly
  <2> QED  BY <1>1, <2>1, <2>2
<1> QED  BY <1>2 DEF UpwardOnly, after

\* The key of a router below is one port.
LEMMA OneDown ==
  ASSUME OnePathDown, NEW n \in Node, NEW key \in Seq(Nat),
         NEW c \in BucketPorts(n, "down", key), NEW d \in BucketPorts(n, "down", key)
  PROVE  c = d
BY DEF OnePathDown

\* The pool a router falls back on: the one port down to the sender, or its
\* ports up.
LEMMA DefaultPool ==
  ASSUME OnePathDown, NEW p \in Node, NEW rk \in Region, NEW f,
         f \in DefaultCandidates(p, rk, f)
  PROVE  \/ /\ DefaultCandidates(p, rk, f) = {f} /\ HasDownwardKey(p, rk)
            /\ f \in BucketPorts(p, "down", DownwardKey(p, rk))
         \/ /\ DefaultCandidates(p, rk, f) \subseteq Available(p, UpPorts(p)) /\ f \in UpPorts(p)
<1> DEFINE pools == <<IF HasDownwardKey(p, rk) THEN Pool(p, "down", DownwardKey(p, rk), f)
                                               ELSE {},
                      Pool(p, "up", rk, f), Pool(p, "up", <<>>, f),
                      Pool(p, "same", rk, f)>>
           usable == {i \in DOMAIN pools : pools[i] # {}}
           first == CHOOSE i \in usable : \A j \in usable : i <= j
<1>1. DOMAIN pools = 1..4
  OBVIOUS
<1>2. DefaultCandidates(p, rk, f) = IF usable = {} THEN {} ELSE pools[first]
  BY DEF DefaultCandidates
<1>3. \A dir, key : Pool(p, dir, key, f) \subseteq Available(p, BucketPorts(p, dir, key))
  BY DEF Pool, BucketPorts, Available
<1>4. /\ Pool(p, "up", rk, f) \subseteq Available(p, UpPorts(p))
      /\ Pool(p, "up", <<>>, f) \subseteq Available(p, UpPorts(p))
      /\ Pool(p, "same", rk, f) = {}
  <2>1. BucketPorts(p, "up", rk) \subseteq UpPorts(p) /\ BucketPorts(p, "same", rk) = {}
    BY DEF OnePathDown, UpPorts, BucketPorts
  <2> QED  BY <1>3, <2>1 DEF UpPorts, Available
<1>5. /\ pools[1] = IF HasDownwardKey(p, rk) THEN Pool(p, "down", DownwardKey(p, rk), f) ELSE {}
      /\ pools[2] = Pool(p, "up", rk, f) /\ pools[3] = Pool(p, "up", <<>>, f)
      /\ pools[4] = Pool(p, "same", rk, f)
  OBVIOUS
<1> HIDE DEF pools
<1>6. usable # {}
  BY <1>2
<1>7. first \in 1..4 /\ f \in pools[first]
  <2>1. \E i \in usable : \A j \in usable : i <= j
    BY <1>1, <1>6
  <2> QED  BY <1>1, <1>2, <1>6, <2>1
<1>8. CASE first = 1
  <2>1. /\ HasDownwardKey(p, rk) /\ f \in BucketPorts(p, "down", DownwardKey(p, rk))
        /\ pools[first] \subseteq BucketPorts(p, "down", DownwardKey(p, rk))
    BY <1>3, <1>5, <1>7, <1>8 DEF Available
  <2>2. DownwardKey(p, rk) \in Seq(Nat)
    <3>1. Level[p] \in Nat /\ AddrSize - Level[p] \in Nat
      BY FieldsType
    <3>2. SegmentLen(p) = 1 /\ Len(rk) >= AddrSize - Level[p] + 1 /\ rk \in Seq(Nat)
      BY <2>1, FieldsType DEF HasDownwardKey, Region
    <3>3. DownwardKey(p, rk) = SubSeq(rk, AddrSize - Level[p] + 1, AddrSize - Level[p] + 1)
      BY <3>2, FieldsType DEF DownwardKey
    <3>4. \A i \in (AddrSize - Level[p] + 1)..(AddrSize - Level[p] + 1) : rk[i] \in Nat
      BY <3>1, <3>2
    <3> QED  BY <3>1, <3>3, <3>4, SubSeqProperties
  <2>3. pools[first] = {f}
    <3>1. \A x \in pools[first] : x = f
      BY <2>1, <2>2, OneDown
    <3> QED  BY <1>7, <3>1
  <2> QED  BY <1>2, <1>6, <2>1, <2>3
<1>9. CASE first # 1
  <2>1. first = 2 \/ first = 3 \/ first = 4
    BY <1>7, <1>9
  <2>2. pools[first] \subseteq Available(p, UpPorts(p))
    BY <1>4, <1>5, <2>1
  <2> QED  BY <1>2, <1>6, <1>7, <2>2 DEF Available
<1> QED  BY <1>8, <1>9

\* The leading fields, one by one.
LEMMA LeadingFields ==
  ASSUME NEW s \in Seq(Nat), NEW k \in Nat, k <= Len(s)
  PROVE  /\ Leading(s, k) \in Seq(Nat) /\ Len(Leading(s, k)) = k
         /\ \A i \in 1..k : Leading(s, k)[i] = s[i]
<1>1. \A i \in 1..k : s[i] \in Nat
  OBVIOUS
<1>2. /\ SubSeq(s, 1, k) \in Seq(Nat)
      /\ Len(SubSeq(s, 1, k)) = (IF 1 <= k THEN k - 1 + 1 ELSE 0)
      /\ \A i \in 1..(k - 1 + 1) : SubSeq(s, 1, k)[i] = s[1 + i - 1]
  BY <1>1, SubSeqProperties
<1> QED  BY <1>2 DEF Leading

\* One field.
LEMMA OneField ==
  ASSUME NEW s \in Seq(Nat), NEW k \in Nat, k < Len(s)
  PROVE  SubSeq(s, k + 1, k + 1) = <<s[k + 1]>>
<1> DEFINE S == SubSeq(s, k + 1, k + 1)
           e == s[k + 1]
<1>1. \A i \in (k + 1)..(k + 1) : s[i] \in Nat
  OBVIOUS
<1>2. /\ S \in Seq(Nat)
      /\ Len(S) = (IF k + 1 <= k + 1 THEN k + 1 - (k + 1) + 1 ELSE 0)
      /\ \A i \in 1..(k + 1 - (k + 1) + 1) : S[i] = s[k + 1 + i - 1]
  BY <1>1, SubSeqProperties
<1>3. k + 1 - (k + 1) + 1 = 1 /\ k + 1 + 1 - 1 = k + 1 /\ 1 \in 1..1 /\ e \in Nat
  BY <1>1
<1> HIDE DEF S
<1>4. Len(S) = 1 /\ S[1] = e
  BY <1>2, <1>3
<1> HIDE DEF e
<1>5. S = <<e>>
  BY <1>2, <1>3, <1>4
<1> QED  BY <1>5 DEF S, e

\* A prefix is what it leads with.
LEMMA LeadingPrefix ==
  ASSUME NEW s \in Seq(Nat), NEW t \in Seq(Nat), IsPrefix(s, t)
  PROVE  Leading(t, Len(s)) = s
<1> DEFINE L == Leading(t, Len(s))
<1>1. Len(s) \in Nat /\ Len(s) <= Len(t) /\ \A i \in 1..Len(s) : s[i] = t[i]
  BY PrefixElements
<1>2. L \in Seq(Nat) /\ Len(L) = Len(s) /\ \A i \in 1..Len(s) : L[i] = t[i]
  BY <1>1, LeadingFields
<1> HIDE DEF L
<1>3. L = s
  BY <1>1, <1>2, SeqEqual
<1> QED  BY <1>3 DEF L

\* A sequence that starts with own and one more field.
LEMMA StartsWith ==
  ASSUME NEW own \in Seq(Nat), NEW key \in Seq(Nat), Len(key) = 1,
         NEW dst \in Seq(Nat), IsPrefix(own \o key, dst)
  PROVE  /\ Leading(dst, Len(own)) = own
         /\ SubSeq(dst, Len(own) + 1, Len(own) + 1) = key
<1> DEFINE rk == own \o key
           len == Len(own)
<1>1. /\ rk \in Seq(Nat) /\ len \in Nat /\ Len(rk) = len + 1
      /\ \A i \in 1..len : rk[i] = own[i]
  <2>1. rk \in Seq(Nat) /\ Len(rk) = Len(own) + Len(key)
    BY ConcatProperties
  <2>2. \A i \in 1..(Len(own) + Len(key)) : rk[i] = IF i <= Len(own) THEN own[i]
                                                  ELSE key[i - Len(own)]
    BY ConcatProperties
  <2> QED  BY <2>1, <2>2
<1>2. rk[len + 1] = key[1]
  <2>1. \A i \in 1..(Len(own) + Len(key)) : rk[i] = IF i <= Len(own) THEN own[i]
                                                  ELSE key[i - Len(own)]
    BY ConcatProperties
  <2> HIDE DEF rk
  <2>2. len + 1 \in 1..(Len(own) + Len(key)) /\ ~(len + 1 <= Len(own)) /\ len + 1 - Len(own) = 1
    OBVIOUS
  <2> QED  BY <2>1, <2>2
<1> HIDE DEF rk
<1>3. len + 1 <= Len(dst) /\ \A i \in 1..(len + 1) : rk[i] = dst[i]
  BY <1>1, PrefixElements DEF rk
<1> HIDE DEF len
<1>4. len < Len(dst)
  BY <1>1, <1>3
<1>5. Leading(dst, len) = own
  <2>1. IsPrefix(own, dst)
    <3>1. \A i \in 1..len : i \in 1..(len + 1)
      BY <1>1
    <3>2. \A i \in 1..Len(own) : own[i] = dst[i]
      BY <1>1, <1>3, <3>1 DEF len
    <3>3. Len(own) <= Len(dst)
      BY <1>1, <1>4 DEF len
    <3> QED  BY <3>2, <3>3, PrefixElements
  <2> QED  BY <2>1, LeadingPrefix DEF len
<1>6. SubSeq(dst, len + 1, len + 1) = key
  <2>1. SubSeq(dst, len + 1, len + 1) = <<dst[len + 1]>>
    BY <1>1, <1>4, OneField
  <2>2. dst[len + 1] = key[1]
    BY <1>1, <1>2, <1>3
  <2> DEFINE e == key[1]
  <2>3. key = <<e>>
    OBVIOUS
  <2> QED  BY <2>1, <2>2, <2>3
<1> QED  BY <1>5, <1>6 DEF len

\* The hosts of a bucket's region: an upward bucket serves hosts elsewhere, a
\* downward one the hosts below that have its key.
LEMMA RegionHosts ==
  ASSUME OnePathDown, NEW n \in Node, NEW b \in Buckets[n], NEW rk \in BucketRegions(n, b),
         NEW dst \in HostAddress, Matches(rk, dst)
  PROVE  \/ b.dir = "up" /\ b.key = <<>> /\ ~MatchPrefix(n, dst)
         \/ b.dir = "down" /\ MatchPrefix(n, dst) /\ Level[n] > 0 /\ b.key = DownwardKey(n, dst)
<1>1. rk \in Seq(Nat) /\ b.key \in Seq(Nat)
  BY BucketRegionsType, FabricAssumption DEF Region
<1>2. /\ dst \in Seq(Nat) /\ Len(dst) = AddrSize /\ IsPrefix(rk, dst)
      /\ Address[n] \in Seq(Nat) /\ Len(Address[n]) = AddrSize
      /\ AddrSize \in Nat /\ Level[n] \in Nat /\ Level[n] <= AddrSize
      /\ LevelAddrBit[Level[n]] = Level[n] - 1
  BY FieldsType DEF Matches
<1> DEFINE len == AddrSize - Level[n]
           own == Leading(Address[n], len)
<1>3. MatchPrefix(n, dst) <=> own = Leading(dst, len)
  BY FieldsType
<1>4. CASE b.dir = "down"
  <2>1. rk \in DownwardRegions(n, b.key)
    BY <1>4 DEF BucketRegions
  <2>2. /\ Level[n] > 0 /\ SegmentLen(n) = 1 /\ Len(b.key) = 1
        /\ rk = Leading(Address[n], CurrentPrefixLen(n)) \o b.key
    BY <2>1, FieldsType DEF DownwardRegions
  <2>3. rk = own \o b.key /\ CurrentPrefixLen(n) = len
    BY <2>2, FieldsType
  <2>4. own \in Seq(Nat) /\ Len(own) = len
    <3>1. len \in Nat /\ len <= Len(Address[n])
      BY <1>2
    <3> QED  BY <1>2, <3>1, LeadingFields
  <2> HIDE DEF own
  <2>5. Leading(dst, len) = own /\ SubSeq(dst, len + 1, len + 1) = b.key
    <3>1. IsPrefix(own \o b.key, dst)
      BY <1>2, <2>3
    <3>2. /\ Leading(dst, Len(own)) = own
          /\ SubSeq(dst, Len(own) + 1, Len(own) + 1) = b.key
      BY <1>1, <1>2, <2>2, <2>4, <3>1, StartsWith
    <3> QED  BY <2>4, <3>2
  <2>6. DownwardKey(n, dst) = b.key
    BY <2>2, <2>3, <2>5 DEF DownwardKey
  <2> QED  BY <1>3, <1>4, <2>2, <2>5, <2>6
<1>5. CASE b.dir = "up" /\ b.key = <<>>
  <2>1. rk \in UpwardRegions(n)
    BY <1>5 DEF BucketRegions
  <2>2. AddrSize - (LevelAddrBit[Level[n]] + 1) = len
    BY <1>2
  <2>3. len > 0 /\ rk \in {Leading(a, len) : a \in HostAddress} \ {own}
    <3> DEFINE up == AddrSize - (LevelAddrBit[Level[n]] + 1)
    <3>1. up > 0 /\ rk \in {Leading(a, up) : a \in HostAddress} \ {Leading(Address[n], up)}
      <4>1. ~(LevelAddrBit[Level[n]] < 0 \/ up <= 0)
        BY <2>1 DEF UpwardRegions
      <4>2. up > 0
        BY <1>2, <2>2, <4>1
      <4> QED  BY <2>1, <4>1, <4>2 DEF UpwardRegions
    <3>2. up = len
      BY <2>2
    <3> HIDE DEF up, len
    <3> QED  BY <3>1, <3>2 DEF own
  <2>4. rk = Leading(dst, len)
    <3>1. PICK a \in HostAddress : rk = Leading(a, len)
      BY <2>3
    <3>2. a \in Seq(Nat) /\ Len(a) = AddrSize
      BY FabricAssumption
    <3>3. len \in Nat /\ len <= Len(a)
      BY <1>2, <3>2
    <3>4. Len(rk) = len
      BY <3>1, <3>2, <3>3, LeadingFields
    <3> QED  BY <1>1, <1>2, <3>4, LeadingPrefix
  <2> QED  BY <1>3, <1>5, <2>3, <2>4
<1> QED  BY <1>4, <1>5 DEF OnePathDown

\* The other ends of a router's links are not told about the hosts behind the
\* port whose bucket failed, if they are its children.
LEMMA ImpactMayTell ==
  ASSUME OnePathDown, NEW n \in Node, NEW port \in Neighbour[n],
         NEW i \in Impacts(n, port), NEW p \in Peers(n, port)
  PROVE  MayTell(n, p, i.rk)
<1> SUFFICES ASSUME n \in UpPorts(p), NEW dst \in HostAddress, Matches(i.rk, dst),
                    MatchPrefix(p, dst)
             PROVE  FALSE
  BY DEF MayTell, Outside
<1>1. p \in Node /\ p # port
  BY FabricAssumption DEF Peers
<1>2. /\ MatchPrefix(n, dst) /\ Level[n] > 0
      /\ p \in BucketPorts(n, "down", DownwardKey(n, dst))
  BY <1>1 DEF OnePathDown
<1>3. PICK b \in Buckets[n] : port \in b.ports /\ i.rk \in BucketRegions(n, b)
  BY DEF Impacts
<1>4. b.dir = "down" /\ b.key = DownwardKey(n, dst)
  BY <1>2, <1>3, RegionHosts
<1>5. port \in BucketPorts(n, "down", DownwardKey(n, dst)) /\ DownwardKey(n, dst) \in Seq(Nat)
  BY <1>3, <1>4, FabricAssumption DEF BucketPorts
<1> QED  BY <1>1, <1>2, <1>5, OneDown

\* A bucket with two ports is the upward one.
LEMMA ImpactUpward ==
  ASSUME OnePathDown, NEW n \in Node, NEW port \in Neighbour[n],
         NEW i \in Impacts(n, port), NEW x \in i.ports, x # port
  PROVE  i.ports \subseteq UpPorts(n) /\ Outside(n, i.rk)
<1>1. PICK b \in Buckets[n] : port \in b.ports /\ i.rk \in BucketRegions(n, b) /\ i.ports = b.ports
  BY DEF Impacts
<1>2. b.dir # "down"
  <2> SUFFICES ASSUME b.dir = "down" PROVE FALSE
    OBVIOUS
  <2>1. b.key \in Seq(Nat)
    BY FabricAssumption
  <2>2. port \in BucketPorts(n, "down", b.key) /\ x \in BucketPorts(n, "down", b.key)
    BY <1>1 DEF BucketPorts
  <2> QED  BY <2>1, <2>2, OneDown
<1>3. b.dir = "up" /\ b.key = <<>>
  BY <1>2 DEF OnePathDown
<1>4. b.ports \subseteq UpPorts(n)
  BY <1>3 DEF UpPorts, BucketPorts
<1>5. Outside(n, i.rk)
  BY <1>1, <1>2, RegionHosts DEF Outside
<1> QED  BY <1>1, <1>4, <1>5

\* A recovery restores ports of upward buckets only.
LEMMA RestoredUpward ==
  ASSUME OnePathDown, NEW n \in Node, NEW port \in Neighbour[n], NEW table,
         UpwardOnly(n, table), NEW stillDown, port \notin stillDown
  PROVE  UpwardOnly(n, Restored(table, Impacts(n, port), stillDown))
<1> DEFINE impacts == Impacts(n, port)
           partial == {i \in impacts : i.ports \cap stillDown # {}}
           kept == [r \in {i.rk : i \in partial} |->
                      (CHOOSE i \in partial : i.rk = r).ports \ stillDown]
           left == RemoveExceptions(table, {i.rk : i \in impacts \ partial})
           after == SetExceptions(left, kept)
<1>1. ASSUME NEW r \in DOMAIN kept
      PROVE  kept[r] \subseteq UpPorts(n) /\ Outside(n, r)
  <2>1. PICK i \in partial : i.rk = r /\ kept[r] = i.ports \ stillDown
    <3>1. \E i \in partial : i.rk = r
      BY <1>1
    <3> QED  BY <1>1, <3>1
  <2>2. \E x \in i.ports : x # port
    BY <2>1
  <2> QED  BY <2>1, <2>2, ImpactUpward
<1>2. /\ DOMAIN left \in SUBSET DOMAIN table
      /\ \A r \in DOMAIN left : left[r] = table[r]
  BY DEF RemoveExceptions
<1> HIDE DEF kept, left
<1>3. DOMAIN after = DOMAIN left \cup DOMAIN kept
  BY DEF SetExceptions
<1>4. ASSUME NEW r \in DOMAIN after, after[r] # {}
      PROVE  after[r] \subseteq UpPorts(n) /\ Outside(n, r)
  <2>1. CASE r \in DOMAIN kept
    <3>1. after[r] = kept[r]
      BY <1>3, <2>1 DEF SetExceptions
    <3> QED  BY <1>1, <2>1, <3>1
  <2>2. CASE r \notin DOMAIN kept
    <3>1. r \in DOMAIN table /\ after[r] = table[r]
      BY <1>2, <1>3, <1>4, <2>2 DEF SetExceptions
    <3> QED  BY <1>4, <3>1 DEF UpwardOnly
  <2> QED  BY <2>1, <2>2
<1>5. Restored(table, impacts, stillDown) = after
  BY DEF Restored, kept, left
<1> HIDE DEF after
<1> QED  BY <1>4, <1>5 DEF UpwardOnly

-----------------------------------------------------------------------------
(* Part 2: tables that lead up, and withdrawals that parents may tell.     *)

Heard == {w \in Withdrawal : \A p \in w.peers : MayTell(w.from, p, w.rk)}
Sayable(n, peers) == {rk \in Region : \A p \in peers : MayTell(n, p, rk)}

LeadUp ==
  /\ \A n \in Node : UpwardOnly(n, exceptions[n])
  /\ notify.active => notify.impacts \subseteq Impacts(Here, Port)
  /\ queue \in Seq(Heard)
  /\ notify.emptied \in Seq(Sayable(Here, Peers(Here, Port)))
  /\ \A p \in broadcast.peers : MayTell(Here, p, broadcast.rk)

\* Between the frames of a call only the tables and the impacts matter.
LEMMA QuietLeadUp ==
  ASSUME \A n \in Node : UpwardOnly(n, exceptions'[n]),
         notify'.active => notify'.impacts \subseteq Impacts(Here', Port'),
         queue' = <<>>, notify'.emptied = <<>>, broadcast'.peers = {}
  PROVE  LeadUp'
BY EmptySeq DEF LeadUp

\* A call starts, and its frames open and close.
LEMMA FramesLeadUp ==
  ASSUME OnePathDown, Inv, LeadUp,
         \/ \E l \in Links, up \in BOOLEAN : SetLink(l, up)
         \/ NotifyInterfaceDown \/ NotifyReturns
  PROVE  LeadUp'
<1>1. queue' = <<>> /\ broadcast'.peers = {} /\ UNCHANGED exceptions
  <2>1. queue' = <<>> /\ broadcast'.peers = {}
    BY QuietSteps
  <2> QED  BY <2>1 DEF SetLink, NotifyInterfaceDown, NotifyReturns, routers
<1>2. /\ notify'.emptied = <<>>
      /\ notify'.active => notify'.impacts \subseteq Impacts(Here', Port')
  <2>1. CASE \E l \in Links, up \in BOOLEAN : SetLink(l, up)
    BY <2>1 DEF SetLink, Idle, Inv, Frames
  <2>2. CASE NotifyReturns
    BY <2>2 DEF NotifyReturns, NoNotify
  <2>3. CASE NotifyInterfaceDown
    <3>1. CASE Port \in down[Here]
      BY <2>3, <3>1 DEF NotifyInterfaceDown, Inv, Frames
    <3>2. CASE Port \notin down[Here]
      <4>1. /\ notify' = [NoNotify EXCEPT !.active = TRUE, !.impacts = Impacts(Here, Port)]
            /\ UNCHANGED call
        BY <2>3, <3>2 DEF NotifyInterfaceDown
      <4>2. Here' = Here /\ Port' = Port
        BY <4>1 DEF Here, Port
      <4>3. notify'.impacts = Impacts(Here, Port) /\ notify'.emptied = <<>>
        BY <4>1 DEF NoNotify
      <4> QED  BY <4>2, <4>3
    <3> QED  BY <3>1, <3>2
  <2> QED  BY <2>1, <2>2, <2>3
<1> QED  BY <1>1, <1>2, QuietLeadUp DEF LeadUp

\* A recovery.
LEMMA NotifyInterfaceUpLeadUp ==
  ASSUME OnePathDown, Inv, LeadUp, NotifyInterfaceUp
  PROVE  LeadUp'
<1>1. call.ends # <<>> /\ call.up /\ ~notify.active /\ UNCHANGED notify
  BY DEF NotifyInterfaceUp, Inv, Frames
<1>2. queue' = <<>> /\ broadcast'.peers = {} /\ notify'.emptied = <<>> /\ ~notify'.active
  BY <1>1, QuietSteps DEF Inv, Frames
<1>3. \A n \in Node : UpwardOnly(n, exceptions'[n])
  <2>1. CASE UNCHANGED exceptions
    BY <2>1 DEF LeadUp
  <2>2. CASE exceptions' = [exceptions EXCEPT ![Here] =
                              Restored(@, Impacts(Here, Port), down[Here] \ {Port})]
    <3>1. /\ Here \in Node /\ Port \in Neighbour[Here] /\ DOMAIN exceptions = Node
          /\ UpwardOnly(Here, exceptions[Here])
      BY <1>1, HereType DEF Inv, TypeOK, LeadUp
    <3> DEFINE stillDown == down[Here] \ {Port}
    <3>2. Port \notin stillDown
      OBVIOUS
    <3> HIDE DEF stillDown
    <3>3. UpwardOnly(Here, Restored(exceptions[Here], Impacts(Here, Port), stillDown))
      BY <3>1, <3>2, RestoredUpward
    <3>4. exceptions' = [exceptions EXCEPT ![Here] =
                           Restored(exceptions[Here], Impacts(Here, Port), stillDown)]
      BY <2>2 DEF stillDown
    <3>5. /\ exceptions'[Here] = Restored(exceptions[Here], Impacts(Here, Port), stillDown)
          /\ \A n \in Node \ {Here} : exceptions'[n] = exceptions[n]
      BY <3>1, <3>4
    <3> QED  BY <3>3, <3>5 DEF LeadUp
  <2> QED  BY <2>1, <2>2 DEF NotifyInterfaceUp, routers
<1> QED  BY <1>2, <1>3, QuietLeadUp

\* One turn of the loop of NotifyInterfaceDown: a downward bucket has lost its
\* only port, an upward one keeps ports that lead up.
LEMMA UpdateRegionLeadUp ==
  ASSUME OnePathDown, Inv, LinkStates, LeadUp, NEW i \in notify.impacts, UpdateRegion(i)
  PROVE  LeadUp'
<1> DEFINE avail == Available(Here, i.ports)
           emptied == EmptiedRegions(exceptions[Here], i.rk, avail, avail \cup {Port})
                        \ notify.triggered
<1>1. /\ notify.active /\ broadcast.peers = {} /\ queue = <<>> /\ call.ends # <<>>
  BY DEF UpdateRegion, BroadcastDone, QueueDrained, Inv, TypeOK, Frames
<1>2. /\ Here \in Node /\ Port \in Neighbour[Here] /\ IsTable(Here, exceptions[Here])
      /\ i \in Impacts(Here, Port) /\ i.rk \in Region /\ DOMAIN exceptions = Node
      /\ Port \in down[Here] /\ UpwardOnly(Here, exceptions[Here])
  BY <1>1, HereType DEF Inv, TypeOK, Impact, LeadUp, LinkStates
<1>3. /\ exceptions' = [exceptions EXCEPT ![Here] = UpdatedTable(@, i.rk, avail)]
      /\ UNCHANGED <<queue, call, broadcast>>
  BY DEF UpdateRegion, fifo
<1>4. PICK s \in Listings(emptied) :
        notify' = [notify EXCEPT !.impacts = @ \ {i}, !.triggered = @ \cup emptied, !.emptied = s]
  BY DEF UpdateRegion
<1>5. Here' = Here /\ Port' = Port
  BY <1>3 DEF Here, Port
<1>6. avail # {} => avail \subseteq UpPorts(Here) /\ Outside(Here, i.rk)
  BY <1>2, ImpactUpward DEF Available
<1>7. UpwardOnly(Here, UpdatedTable(exceptions[Here], i.rk, avail))
  <2> HIDE DEF avail
  <2> QED  BY <1>2, <1>6, UpdateUpward DEF IsTable
<1>8. \A n \in Node : UpwardOnly(n, exceptions'[n])
  <2> HIDE DEF avail
  <2>1. /\ exceptions'[Here] = UpdatedTable(exceptions[Here], i.rk, avail)
        /\ \A n \in Node \ {Here} : exceptions'[n] = exceptions[n]
    BY <1>2, <1>3
  <2> QED  BY <1>7, <2>1 DEF LeadUp
<1>9. emptied \subseteq Sayable(Here, Peers(Here, Port))
  <2>1. \A r \in emptied : r \in Region /\ IsPrefix(i.rk, r)
    <3> HIDE DEF avail
    <3> QED  BY <1>2, EmptiedWithin DEF IsTable
  <2> HIDE DEF emptied
  <2>2. \A p \in Peers(Here, Port) : MayTell(Here, p, i.rk)
    BY <1>2, ImpactMayTell
  <2>3. \A r \in emptied, p \in Peers(Here, Port) : MayTell(Here, p, r)
    BY <1>2, <2>1, <2>2, OutsideWithin DEF MayTell
  <2> QED  BY <2>1, <2>3 DEF Sayable
<1>10. s \in Seq(Sayable(Here, Peers(Here, Port)))
  <2>1. s \in Seq(EmptyRegions(UpdatedTable(exceptions[Here], i.rk, avail)))
    <3>1. emptied \in SUBSET EmptiedRegions(exceptions[Here], i.rk, avail, avail \cup {Port})
      OBVIOUS
    <3> HIDE DEF emptied, avail
    <3> QED  BY <1>2, <1>4, <3>1, EmptiedListing
  <2>2. DOMAIN s = 1..Len(s) /\ Len(s) \in Nat
    BY <2>1
  <2>3. s \in [1..Cardinality(emptied) -> emptied]
    BY <1>4 DEF Listings, SetToSeqs
  <2> HIDE DEF emptied
  <2>4. \A j \in 1..Len(s) : s[j] \in Sayable(Here, Peers(Here, Port))
    BY <1>9, <2>2, <2>3
  <2>5. s = [j \in 1..Len(s) |-> s[j]]
    BY <2>2, <2>3
  <2> QED  BY <2>2, <2>4, <2>5
<1> HIDE DEF emptied
<1>11. notify'.impacts \subseteq notify.impacts /\ notify'.emptied = s
  BY <1>4 DEF Inv, TypeOK
<1>12. notify'.impacts \subseteq Impacts(Here', Port')
  BY <1>1, <1>5, <1>11 DEF LeadUp
<1>13. notify'.emptied \in Seq(Sayable(Here', Peers(Here', Port')))
  BY <1>5, <1>10, <1>11
<1>14. queue' \in Seq(Heard) /\ \A p \in broadcast'.peers : MayTell(Here', p, broadcast'.rk)
  BY <1>1, <1>3, EmptySeq
<1> QED  BY <1>8, <1>12, <1>13, <1>14 DEF LeadUp

\* The originator withdraws a region and enqueues it for its peers.
LEMMA SendingLeadUp ==
  ASSUME Inv, LeadUp, Withdraw \/ \E p \in broadcast.peers : SendToPeer(p)
  PROVE  LeadUp'
<1>1. /\ UNCHANGED <<exceptions, call>> /\ Here' = Here /\ Port' = Port
      /\ notify'.active => notify'.impacts \subseteq Impacts(Here, Port)
  BY DEF Withdraw, SendToPeer, routers, Here, Port, LeadUp, Inv, TypeOK
<1>2. CASE Withdraw
  <2>1. /\ notify.emptied # <<>> /\ queue' = queue
        /\ broadcast' = [rk |-> Head(notify.emptied), epoch |-> epochCounter[Here] + 1,
                         peers |-> Peers(Here, Port)]
        /\ notify'.emptied = Tail(notify.emptied)
    BY <1>2 DEF Withdraw, fifo, Inv, TypeOK
  <2> DEFINE S == Sayable(Here, Peers(Here, Port))
  <2>2. notify.emptied \in Seq(S)
    BY DEF LeadUp
  <2>3. Head(notify.emptied) \in S /\ Tail(notify.emptied) \in Seq(S)
    <3> HIDE DEF S
    <3> QED  BY <2>1, <2>2, HeadTailProperties
  <2>4. \A p \in broadcast'.peers : MayTell(Here, p, broadcast'.rk)
    BY <2>1, <2>3 DEF Sayable
  <2> QED  BY <1>1, <2>1, <2>3, <2>4 DEF LeadUp
<1>3. ASSUME NEW p \in broadcast.peers, SendToPeer(p) PROVE LeadUp'
  <2> DEFINE w == [rk |-> broadcast.rk, origin |-> Here, epoch |-> broadcast.epoch,
                   from |-> Here, peers |-> {p}]
  <2>1. call.ends # <<>> /\ queue' = Append(queue, w) /\ UNCHANGED notify
    BY <1>3 DEF SendToPeer, Inv, Frames
  <2>2. w \in Withdrawal
    BY <2>1, HereType DEF Withdrawal, Inv, TypeOK
  <2>3. MayTell(w.from, p, w.rk)
    BY DEF LeadUp
  <2>4. w \in Heard
    BY <2>2, <2>3 DEF Heard
  <2> HIDE DEF w
  <2>5. queue' \in Seq(Heard)
    BY <2>1, <2>4, AppendProperties DEF LeadUp
  <2>6. \A q \in broadcast'.peers : q \in broadcast.peers /\ broadcast'.rk = broadcast.rk
    BY <1>3 DEF SendToPeer, NoBroadcast, Inv, TypeOK
  <2> QED  BY <1>1, <2>1, <2>5, <2>6 DEF LeadUp
<1> QED  BY <1>2, <1>3

\* What a router holds for a region a neighbour withdraws: if that neighbour is
\* one of it, the one port down to it, or ports up for hosts elsewhere.
LEMMA CandidatesUp ==
  ASSUME OnePathDown, NEW p \in Node, NEW rk \in Region, NEW f,
         UpwardOnly(p, exceptions[p]), MayTell(f, p, rk), f \in Candidates(p, rk, f)
  PROVE  \/ /\ Candidates(p, rk, f) = {f} /\ HasDownwardKey(p, rk)
            /\ f \in BucketPorts(p, "down", DownwardKey(p, rk))
         \/ Candidates(p, rk, f) \subseteq UpPorts(p) /\ Outside(p, rk)
<1>1. CASE rk \in DOMAIN exceptions[p] /\ exceptions[p][rk] # {}
  BY <1>1 DEF Candidates, UpwardOnly
<1>2. CASE ~(rk \in DOMAIN exceptions[p] /\ exceptions[p][rk] # {})
  <2>1. Candidates(p, rk, f) = DefaultCandidates(p, rk, f)
    BY <1>2 DEF Candidates
  <2> QED  BY <2>1, DefaultPool DEF MayTell, Available
<1> QED  BY <1>1, <1>2

\* The key of a region is that of every host in it.
LEMMA RegionKey ==
  ASSUME OnePathDown, NEW n \in Node, NEW rk \in Region, HasDownwardKey(n, rk),
         NEW dst \in HostAddress, Matches(rk, dst)
  PROVE  DownwardKey(n, rk) = DownwardKey(n, dst) /\ DownwardKey(n, rk) \in Seq(Nat)
<1> DEFINE len == AddrSize - Level[n]
<1>1. /\ rk \in Seq(Nat) /\ dst \in Seq(Nat) /\ IsPrefix(rk, dst) /\ len \in Nat
      /\ CurrentPrefixLen(n) = len /\ SegmentLen(n) = 1 /\ len + 1 <= Len(rk)
  BY FieldsType DEF HasDownwardKey, Matches, Region
<1>2. /\ DownwardKey(n, rk) = SubSeq(rk, len + 1, len + 1)
      /\ DownwardKey(n, dst) = SubSeq(dst, len + 1, len + 1)
  BY <1>1 DEF DownwardKey
<1> HIDE DEF len
<1>3. len + 1 \in Nat \ {0} /\ len + 1 \in Int /\ len < Len(rk)
  BY <1>1
<1>4. SubSeq(rk, len + 1, len + 1) = SubSeq(dst, len + 1, len + 1)
  BY <1>1, <1>3, PrefixPart
<1>5. SubSeq(rk, len + 1, len + 1) = <<rk[len + 1]>> /\ rk[len + 1] \in Nat
  BY <1>1, <1>3, OneField
<1>6. \A e \in Nat : <<e>> \in Seq(Nat)
  OBVIOUS
<1> QED  BY <1>2, <1>4, <1>5, <1>6

\* A router that applies a withdrawal may pass it on to its other neighbours:
\* below it lie no hosts of the region, or those behind the sender.
LEMMA PassOn ==
  ASSUME OnePathDown, NEW n \in Node, NEW rk \in Region, NEW f,
         UpwardOnly(n, exceptions[n]), MayTell(f, n, rk), f \in Candidates(n, rk, f),
         NEW p \in Peers(n, f)
  PROVE  MayTell(n, p, rk)
<1> SUFFICES ASSUME n \in UpPorts(p), NEW dst \in HostAddress, Matches(rk, dst),
                    MatchPrefix(p, dst)
             PROVE  FALSE
  BY DEF MayTell, Outside
<1>1. p \in Node /\ p # f
  BY FabricAssumption DEF Peers
<1>2. MatchPrefix(n, dst) /\ p \in BucketPorts(n, "down", DownwardKey(n, dst))
  BY <1>1 DEF OnePathDown
<1>3. HasDownwardKey(n, rk) /\ f \in BucketPorts(n, "down", DownwardKey(n, rk))
  BY <1>2, CandidatesUp DEF Outside
<1>4. f \in BucketPorts(n, "down", DownwardKey(n, dst)) /\ DownwardKey(n, dst) \in Seq(Nat)
  BY <1>3, RegionKey
<1> QED  BY <1>1, <1>2, <1>4, OneDown

\* The drain of the queue.
LEMMA DispatchLeadUp ==
  ASSUME OnePathDown, Inv, LeadUp, NEW p \in Node,
         DropRepeated(p) \/ IgnoreWithdrawal(p) \/ ApplyWithdrawal(p)
  PROVE  LeadUp'
<1>1. dispatching /\ p \in Entry.peers /\ UNCHANGED <<call, notify, broadcast>>
  BY DEF DropRepeated, IgnoreWithdrawal, ApplyWithdrawal, PassGates
<1>2. /\ Here' = Here /\ Port' = Port
      /\ queue # <<>> /\ queue \in Seq(Heard) /\ Entry.rk \in Region /\ Entry.from \in Node
      /\ Entry.origin \in Node /\ Entry.epoch \in Nat
  BY <1>1, EntryType DEF Here, Port, LeadUp
<1>3. MayTell(Entry.from, p, Entry.rk)
  <2>1. Entry \in Heard
    BY <1>2, HeadTailProperties DEF Entry
  <2> QED  BY <1>1, <2>1 DEF Heard
<1>4. \A w \in Heard : [w EXCEPT !.peers = @ \ {p}] \in Heard
  BY DEF Heard, Withdrawal
<1>5. ASSUME \A n \in Node : UpwardOnly(n, exceptions'[n]), NEW pushed \in Seq(Heard),
             Dequeue(p, pushed)
      PROVE  LeadUp'
  <2>1. queue' \in Seq(Heard)
    BY <1>2, <1>4, <1>5, DequeueType
  <2> QED  BY <1>1, <1>2, <1>5, <2>1 DEF LeadUp
<1>6. CASE DropRepeated(p) \/ IgnoreWithdrawal(p)
  <2>1. UNCHANGED exceptions /\ Dequeue(p, <<>>)
    BY <1>6 DEF DropRepeated, IgnoreWithdrawal, routers
  <2> QED  BY <1>5, <2>1, EmptySeq DEF LeadUp
<1>7. CASE ApplyWithdrawal(p)
  <2> DEFINE rk == Entry.rk
             f == Entry.from
             cand == Candidates(p, rk, f)
             emptied == EmptiedRegions(exceptions[p], rk, cand \ {f}, cand)
             peers == Peers(p, f)
             pushed(s) == IF peers = {} THEN <<>>
                          ELSE [i \in DOMAIN s |-> [rk |-> s[i], origin |-> Entry.origin,
                                  epoch |-> Entry.epoch, from |-> p, peers |-> peers]]
  <2>1. /\ exceptions' = [exceptions EXCEPT ![p] = UpdatedTable(@, rk, cand \ {f})]
        /\ f \in cand
        /\ \E s \in Listings(emptied) : Dequeue(p, pushed(s))
    BY <1>7 DEF ApplyWithdrawal, Affects
  <2>2. /\ UpwardOnly(p, exceptions[p]) /\ IsTable(p, exceptions[p]) /\ DOMAIN exceptions = Node
        /\ peers \in SUBSET Node
    BY FabricAssumption DEF LeadUp, Inv, TypeOK, Peers
  <2>3. MayTell(f, p, rk) /\ rk \in Region
    BY <1>2, <1>3
  <2> HIDE DEF rk, f
  <2>4. cand \ {f} # {} => cand \ {f} \subseteq UpPorts(p) /\ Outside(p, rk)
    BY <2>1, <2>2, <2>3, CandidatesUp
  <2>5. \A q \in peers : MayTell(p, q, rk)
    BY <2>1, <2>2, <2>3, PassOn
  <2> HIDE DEF cand, peers
  <2>6. UpwardOnly(p, UpdatedTable(exceptions[p], rk, cand \ {f}))
    BY <2>2, <2>3, <2>4, UpdateUpward DEF IsTable
  <2>7. \A n \in Node : UpwardOnly(n, exceptions'[n])
    <3>1. /\ exceptions'[p] = UpdatedTable(exceptions[p], rk, cand \ {f})
          /\ \A n \in Node \ {p} : exceptions'[n] = exceptions[n]
      BY <2>1, <2>2
    <3> QED  BY <2>6, <3>1 DEF LeadUp
  <2>8. \A r \in emptied : r \in Region /\ IsPrefix(rk, r)
    BY <2>2, <2>3, EmptiedWithin DEF IsTable
  <2>9. PICK s \in Listings(emptied) : Dequeue(p, pushed(s))
    BY <2>1
  <2>10. s \in Seq(EmptyRegions(UpdatedTable(exceptions[p], rk, cand \ {f})))
    BY <2>2, <2>3, <2>9, EmptiedListing
  <2>11. DOMAIN s = 1..Len(s) /\ Len(s) \in Nat /\ \A i \in DOMAIN s : s[i] \in emptied
    <3>1. DOMAIN s = 1..Len(s) /\ Len(s) \in Nat
      BY <2>10
    <3>2. s \in [1..Cardinality(emptied) -> emptied]
      BY <2>9 DEF Listings, SetToSeqs
    <3> QED  BY <3>1, <3>2
  <2> HIDE DEF emptied
  <2>12. \A i \in DOMAIN s : s[i] \in Region /\ \A q \in peers : MayTell(p, q, s[i])
    BY <2>3, <2>5, <2>8, <2>11, OutsideWithin DEF MayTell
  <2>13. \A i \in DOMAIN s : [rk |-> s[i], origin |-> Entry.origin, epoch |-> Entry.epoch,
                               from |-> p, peers |-> peers] \in Heard
    BY <1>2, <2>2, <2>12 DEF Heard, Withdrawal
  <2>14. pushed(s) \in Seq(Heard)
    BY <2>11, <2>13, EmptySeq
  <2> HIDE DEF pushed
  <2> QED  BY <1>5, <2>7, <2>9, <2>14
<1> QED  BY <1>6, <1>7

\* Every step keeps the tables leading up.
LEMMA NextLeadUp ==
  ASSUME OnePathDown, Inv, LinkStates, LeadUp, [Next]_vars
  PROVE  LeadUp'
<1>1. CASE UNCHANGED vars
  BY <1>1 DEF vars, routers, fifo, LeadUp, Here, Port
<1>2. CASE Fail \/ Recover
  BY <1>2, FramesLeadUp DEF Fail, Recover, SetLinkDown, SetLinkUp
<1>3. CASE Proceed
  BY <1>3, FramesLeadUp, NotifyInterfaceUpLeadUp, UpdateRegionLeadUp, SendingLeadUp,
     DispatchLeadUp DEF Proceed, Dispatch
<1> QED  BY <1>1, <1>2, <1>3 DEF Next

\* The lookup returns a longest of the entries that cover the destination.
LEMMA LookupLongest ==
  ASSUME NEW table, DOMAIN table \subseteq Region, NEW dst \in Seq(Nat), HasException(table, dst)
  PROVE  LET e == LookupException(table, dst)
         IN /\ e \in DOMAIN table /\ Matches(e, dst)
            /\ \A r \in DOMAIN table : Matches(r, dst) => Len(r) <= Len(e)
<1> DEFINE on == EntriesOnPath(table, dst)
           short == {Len(dst) - Len(r) : r \in on}
<1>1. \A r \in on : r \in Seq(Nat) /\ Len(r) \in Nat /\ Len(r) <= Len(dst)
  BY PrefixElements DEF EntriesOnPath, Region
<1>2. short \subseteq Nat /\ short # {}
  BY <1>1 DEF HasException, EntriesOnPath, Matches
<1>3. PICK n \in short : \A m \in short : ~(<<m, n>> \in OpToRel(<, Nat))
  BY <1>2, NatLessThanWellFounded, WFMin
<1>4. \A m \in short : ~(m < n)
  BY <1>2, <1>3 DEF OpToRel
<1>5. PICK r \in on : n = Len(dst) - Len(r)
  BY <1>3
<1>6. \A q \in on : Len(q) <= Len(r)
  <2> SUFFICES ASSUME NEW q \in on PROVE Len(q) <= Len(r)
    OBVIOUS
  <2>1. ~(Len(dst) - Len(q) < Len(dst) - Len(r))
    BY <1>4, <1>5
  <2>2. Len(q) \in Nat /\ Len(r) \in Nat /\ Len(dst) \in Nat
    BY <1>1
  <2> QED  BY <2>1, <2>2
<1>7. /\ LookupException(table, dst) \in on
      /\ \A q \in on : Len(q) <= Len(LookupException(table, dst))
  <2>1. \E x \in on : \A q \in on : Len(q) <= Len(x)
    BY <1>6
  <2> QED  BY <2>1 DEF LookupException
<1> QED  BY <1>7 DEF EntriesOnPath, Matches

\* A table that leads up narrows the rules.
LEMMA LeadUpNarrows ==
  ASSUME Inv, LeadUp, NEW n \in Node, NEW dst \in HostAddress
  PROVE  NextHops(n, dst) \subseteq DefaultPorts(n, dst)
<1>1. CASE HasException(exceptions[n], dst)
  <2> DEFINE e == LookupException(exceptions[n], dst)
  <2>1. dst \in Seq(Nat) /\ DOMAIN exceptions[n] \subseteq Region
    BY FabricAssumption DEF Inv, TypeOK, IsTable
  <2>2. e \in DOMAIN exceptions[n] /\ Matches(e, dst)
    BY <1>1, <2>1, LookupLongest
  <2> HIDE DEF e
  <2>3. NextHops(n, dst) = exceptions[n][e]
    BY <1>1 DEF NextHops, e
  <2>4. exceptions[n][e] # {} => exceptions[n][e] \subseteq UpPorts(n) /\ ~MatchPrefix(n, dst)
    BY <2>2 DEF LeadUp, UpwardOnly, Outside
  <2> QED  BY <2>3, <2>4 DEF DefaultPorts, UpPorts
<1>2. CASE ~HasException(exceptions[n], dst)
  BY <1>2 DEF NextHops, Available
<1> QED  BY <1>1, <1>2

\* Nothing has happened yet.
LEMMA InitLeadUp == Init => LeadUp
<1> SUFFICES ASSUME Init PROVE LeadUp
  OBVIOUS
<1>1. \A n \in Node : UpwardOnly(n, exceptions[n])
  BY DEF Init, NoExceptions, UpwardOnly
<1>2. ~notify.active /\ notify.emptied = <<>> /\ broadcast.peers = {} /\ queue = <<>>
  BY DEF Init, NoNotify, NoBroadcast
<1> QED  BY <1>1, <1>2, EmptySeq DEF LeadUp

-----------------------------------------------------------------------------
(* Part 3: entries that offer no port that is down.  A failure overwrites  *)
(* the entries of the regions that the bucket serves, and cuts those below *)
(* them, but not those above: these may go on naming the port, as long as  *)
(* longer entries cover all destinations that are looked up.               *)

\* A host has one port up.
SinglyHomed == \A n \in Node : Level[n] = 0 => \A c, d \in UpPorts(n) : c = d

\* The loop of NotifyInterfaceDown has still to update region u of router n.
Awaited(n, u) == notify.active /\ n = Here /\ \E i \in notify.impacts : i.rk = u

\* No destination in u is sent to a port in ports that is down.
Clear(table, ports, u) ==
  \A r \in DOMAIN table :
    /\ IsPrefix(u, r) => table[r] \cap ports = {}
    /\ IsStrictPrefix(r, u) => table[r] \cap ports = {} \/ u \in DOMAIN table

HostsEmpty ==
  \A n \in Node : Level[n] = 0 => \A r \in DOMAIN exceptions[n] : exceptions[n][r] = {}

Masked ==
  \A n \in Node : \A u \in UpwardRegions(n) : Awaited(n, u) \/ Clear(exceptions[n], down[n], u)

\* A region served upward leads to a host elsewhere.
LEMMA UpwardHost ==
  ASSUME OnePathDown, NEW n \in Node, NEW u \in UpwardRegions(n)
  PROVE  /\ u \in Region /\ Level[n] > 0
         /\ \E dst \in HostAddress : Matches(u, dst) /\ ~MatchPrefix(n, dst)
<1> DEFINE len == AddrSize - (LevelAddrBit[Level[n]] + 1)
           own == Leading(Address[n], len)
<1>1. /\ Level[n] \in Nat /\ AddrSize \in Nat /\ Level[n] <= AddrSize
      /\ LevelAddrBit[Level[n]] = Level[n] - 1
      /\ \A dst \in HostAddress : dst \in Seq(Nat) /\ Len(dst) = AddrSize
  BY FieldsType
<1>2. /\ ~(LevelAddrBit[Level[n]] < 0 \/ len <= 0)
      /\ u \in {Leading(a, len) : a \in HostAddress} \ {own}
  <2>1. UpwardRegions(n) = IF LevelAddrBit[Level[n]] < 0 \/ len <= 0 THEN {}
                           ELSE {Leading(a, len) : a \in HostAddress} \ {own}
    BY DEF UpwardRegions
  <2> HIDE DEF len, own
  <2> QED  BY <2>1
<1>3. PICK dst \in HostAddress : u = Leading(dst, len)
  BY <1>2
<1>4. len \in Nat /\ len <= AddrSize
  BY <1>1, <1>2
<1>5. ~MatchPrefix(n, dst)
  BY <1>2, <1>3 DEF MatchPrefix
<1> HIDE DEF len, own
<1>6. u \in Seq(Nat) /\ Len(u) = len /\ \A i \in 1..len : u[i] = dst[i]
  BY <1>1, <1>3, <1>4, LeadingFields
<1>7. IsPrefix(u, dst)
  BY <1>1, <1>4, <1>6, PrefixElements
<1>8. Level[n] > 0
  BY <1>1, <1>2
<1> QED  BY <1>5, <1>6, <1>7, <1>8 DEF Matches, Region

\* A host elsewhere lies in one of the regions served upward.
LEMMA HostUpward ==
  ASSUME OnePathDown, NEW n \in Node, Level[n] > 0,
         NEW dst \in HostAddress, ~MatchPrefix(n, dst)
  PROVE  \E u \in UpwardRegions(n) : Matches(u, dst)
<1> DEFINE len == AddrSize - (LevelAddrBit[Level[n]] + 1)
           own == Leading(Address[n], len)
           u == Leading(dst, len)
<1>1. /\ Level[n] \in Nat /\ AddrSize \in Nat /\ Level[n] <= AddrSize
      /\ LevelAddrBit[Level[n]] = Level[n] - 1
      /\ dst \in Seq(Nat) /\ Len(dst) = AddrSize
      /\ Address[n] \in Seq(Nat) /\ Len(Address[n]) = AddrSize
  BY FieldsType
<1>2. len = AddrSize - Level[n] /\ ~(LevelAddrBit[Level[n]] < 0) /\ len \in Nat /\ len <= AddrSize
  BY <1>1
<1>3. u # own
  BY DEF MatchPrefix
<1>4. UpwardRegions(n) = IF LevelAddrBit[Level[n]] < 0 \/ len <= 0 THEN {}
                         ELSE {Leading(a, len) : a \in HostAddress} \ {own}
  BY DEF UpwardRegions
<1>5. len > 0
  <2> SUFFICES ASSUME ~(len > 0) PROVE FALSE
    OBVIOUS
  <2>1. len = 0
    BY <1>2
  <2>2. Len(u) = 0 /\ u \in Seq(Nat) /\ Len(own) = 0 /\ own \in Seq(Nat)
    <3> HIDE DEF len
    <3>1. len \in Nat /\ len <= Len(dst) /\ len <= Len(Address[n])
      BY <1>1, <1>2
    <3>2. /\ Leading(dst, len) \in Seq(Nat) /\ Len(Leading(dst, len)) = len
          /\ Leading(Address[n], len) \in Seq(Nat) /\ Len(Leading(Address[n], len)) = len
      BY <1>1, <3>1, LeadingFields
    <3> QED  BY <2>1, <3>2
  <2> HIDE DEF u, own, len
  <2> QED  BY <1>3, <2>2, SeqEqual
<1>6. u \in UpwardRegions(n)
  <2> HIDE DEF len, own
  <2>1. ~(len <= 0)
    BY <1>2, <1>5
  <2> QED  BY <1>2, <1>3, <1>4, <2>1
<1>7. IsPrefix(u, dst)
  <2> HIDE DEF len
  <2>1. u \in Seq(Nat) /\ Len(u) = len /\ \A i \in 1..len : u[i] = dst[i]
    BY <1>1, <1>2, LeadingFields
  <2> HIDE DEF u
  <2> QED  BY <1>1, <1>2, <2>1, PrefixElements
<1> QED  BY <1>6, <1>7 DEF Matches

\* The buckets a failed or recovered port is in.
LEMMA ImpactBucket ==
  ASSUME OnePathDown, NEW n \in Node, NEW port \in Neighbour[n], NEW i \in Impacts(n, port)
  PROVE  \/ /\ port \in UpPorts(n) /\ i.ports = UpPorts(n) /\ i.rk \in UpwardRegions(n)
         \/ /\ port \notin UpPorts(n) /\ i.ports = {port}
            /\ \A dst \in HostAddress : Matches(i.rk, dst) => MatchPrefix(n, dst)
<1>1. PICK b \in Buckets[n] : port \in b.ports /\ i.rk \in BucketRegions(n, b) /\ i.ports = b.ports
  BY DEF Impacts
<1>2. b.key \in Seq(Nat) /\ b.ports \subseteq Neighbour[n]
  BY FabricAssumption
<1>3. CASE b.dir = "up" /\ b.key = <<>>
  <2>1. b.ports \subseteq UpPorts(n)
    BY <1>3 DEF UpPorts, BucketPorts
  <2>2. UpPorts(n) \subseteq b.ports
    <3> SUFFICES ASSUME NEW x \in UpPorts(n) PROVE x \in b.ports
      OBVIOUS
    <3>1. PICK c \in Buckets[n] : c.dir = "up" /\ c.key = <<>> /\ x \in c.ports
      BY DEF UpPorts, BucketPorts
    <3> QED  BY <1>3, <3>1 DEF OnePathDown
  <2>3. BucketRegions(n, b) = UpwardRegions(n)
    BY <1>3 DEF BucketRegions
  <2> QED  BY <1>1, <2>1, <2>2, <2>3
<1>4. CASE b.dir = "down"
  <2>1. port \notin UpPorts(n)
    <3> SUFFICES ASSUME port \in UpPorts(n) PROVE FALSE
      OBVIOUS
    <3>1. PICK c \in Buckets[n] : c.dir = "up" /\ port \in c.ports
      BY DEF UpPorts, BucketPorts
    <3>2. b = c
      BY <1>1, <3>1, FabricAssumption
    <3> QED  BY <1>4, <3>1, <3>2
  <2>2. b.ports = {port}
    <3>1. b.ports \subseteq BucketPorts(n, "down", b.key)
      BY <1>4 DEF BucketPorts
    <3>2. \A x \in b.ports : x = port
      BY <1>1, <1>2, <3>1, OneDown
    <3> QED  BY <1>1, <3>2
  <2>3. \A dst \in HostAddress : Matches(i.rk, dst) => MatchPrefix(n, dst)
    BY <1>1, <1>4, RegionHosts
  <2> QED  BY <1>1, <2>1, <2>2, <2>3
<1> QED  BY <1>3, <1>4 DEF OnePathDown

\* A port up that fails or recovers concerns every region served upward.
LEMMA ImpactsAll ==
  ASSUME OnePathDown, NEW n \in Node, NEW port \in UpPorts(n), NEW u \in UpwardRegions(n)
  PROVE  \E i \in Impacts(n, port) : i.rk = u
<1>1. PICK b \in Buckets[n] : b.dir = "up" /\ b.key = <<>> /\ port \in b.ports
  BY DEF UpPorts, BucketPorts
<1>2. u \in BucketRegions(n, b)
  BY <1>1 DEF BucketRegions
<1>3. [ports |-> b.ports, rk |-> u] \in Impacts(n, port)
  BY <1>1, <1>2 DEF Impacts
<1> QED  BY <1>3

\* The links of a host serve no region.
LEMMA HostImpacts ==
  ASSUME OnePathDown, NEW n \in Node, Level[n] = 0, NEW port \in Neighbour[n]
  PROVE  Impacts(n, port) = {}
<1> SUFFICES ASSUME NEW i \in Impacts(n, port) PROVE FALSE
  OBVIOUS
<1>1. PICK b \in Buckets[n] : i.rk \in BucketRegions(n, b)
  BY DEF Impacts
<1>2. b.dir = "up" /\ b.key = <<>> => i.rk \in UpwardRegions(n)
  BY <1>1 DEF BucketRegions
<1>3. b.dir = "down" => i.rk \in DownwardRegions(n, b.key)
  BY <1>1 DEF BucketRegions
<1>4. UpwardRegions(n) = {}
  BY UpwardHost
<1>5. DownwardRegions(n, b.key) = {}
  BY DEF DownwardRegions
<1> QED  BY <1>2, <1>3, <1>4, <1>5 DEF OnePathDown

-----------------------------------------------------------------------------
(* Part 4: what the operations on a table do to it, and the steps.         *)

\* An insertion of candidates that are up, or where an entry is cut.
LEMMA UpdateClear ==
  ASSUME NEW table, DOMAIN table \subseteq Region, NEW rk \in Region, NEW cand, NEW ports,
         NEW u \in Region, Clear(table, ports, u),
         rk \in DOMAIN table \/ cand \cap ports = {}
  PROVE  Clear(UpdatedTable(table, rk, cand), ports, u)
<1> DEFINE after == UpdatedTable(table, rk, cand)
<1>1. /\ DOMAIN after = DOMAIN table \cup {rk} /\ after[rk] \subseteq cand
      /\ \A r \in DOMAIN table : after[r] \subseteq table[r]
  BY UpdateShrinks DEF Region
<1> HIDE DEF after
<1>2. ASSUME NEW r \in DOMAIN after
      PROVE  r \in DOMAIN table \/ after[r] \cap ports = {}
  BY <1>1, <1>2
<1>3. ASSUME NEW r \in DOMAIN after
      PROVE  /\ IsPrefix(u, r) => after[r] \cap ports = {}
             /\ IsStrictPrefix(r, u) => after[r] \cap ports = {} \/ u \in DOMAIN after
  <2>1. CASE r \in DOMAIN table
    <3>1. after[r] \subseteq table[r]
      BY <1>1, <2>1
    <3>2. /\ IsPrefix(u, r) => table[r] \cap ports = {}
          /\ IsStrictPrefix(r, u) => table[r] \cap ports = {} \/ u \in DOMAIN table
      BY <2>1 DEF Clear
    <3> QED  BY <1>1, <3>1, <3>2
  <2> QED  BY <1>2, <1>3, <2>1
<1> QED  BY <1>3 DEF Clear, after

\* An insertion of candidates that are up clears its own region.
LEMMA UpdateClears ==
  ASSUME NEW table, NEW u \in Region, NEW cand, NEW ports, cand \cap ports = {}
  PROVE  Clear(UpdatedTable(table, u, cand), ports, u)
<1> DEFINE after == UpdatedTable(table, u, cand)
<1>1. u \in DOMAIN after
  BY DEF UpdatedTable
<1>2. ASSUME NEW r \in DOMAIN after, IsPrefix(u, r) PROVE after[r] \cap ports = {}
  <2>1. CASE r = u
    <3>1. after[u] = NewCandidates(table, u, cand)
      BY <1>1 DEF UpdatedTable
    <3> HIDE DEF after
    <3> QED  BY <2>1, <3>1 DEF NewCandidates
  <2>2. CASE r # u
    <3>1. IsStrictPrefix(u, r)
      BY <1>2, <2>2 DEF IsStrictPrefix
    <3>2. after[r] = table[r] \cap cand
      BY <1>2, <2>2, <3>1 DEF UpdatedTable
    <3> HIDE DEF after
    <3> QED  BY <3>2
  <2> QED  BY <2>1, <2>2
<1> HIDE DEF after
<1> QED  BY <1>1, <1>2 DEF Clear, after

\* A recovery, where nothing is awaited.
LEMMA RestoredClear ==
  ASSUME OnePathDown, NEW n \in Node, NEW port \in Neighbour[n],
         NEW table, UpwardOnly(n, table), NEW failed,
         NEW u \in UpwardRegions(n), Clear(table, failed, u)
  PROVE  Clear(Restored(table, Impacts(n, port), failed \ {port}), failed \ {port}, u)
<1> DEFINE impacts == Impacts(n, port)
           stillDown == failed \ {port}
           partial == {i \in impacts : i.ports \cap stillDown # {}}
           kept == [r \in {i.rk : i \in partial} |->
                      (CHOOSE i \in partial : i.rk = r).ports \ stillDown]
           gone == {i.rk : i \in impacts \ partial}
           left == RemoveExceptions(table, gone)
           after == SetExceptions(left, kept)
<1>1. after = Restored(table, impacts, stillDown)
  BY DEF Restored
<1>2. \A r \in DOMAIN kept : kept[r] \cap stillDown = {}
  OBVIOUS
<1>3. DOMAIN kept = {i.rk : i \in partial}
  OBVIOUS
<1>4. DOMAIN left = DOMAIN table \ gone /\ \A r \in DOMAIN left : left[r] = table[r]
  BY DEF RemoveExceptions
<1> HIDE DEF kept, left
<1>5. /\ DOMAIN after = DOMAIN left \cup DOMAIN kept
      /\ \A r \in DOMAIN kept : after[r] = kept[r]
      /\ \A r \in DOMAIN left \ DOMAIN kept : after[r] = left[r]
  BY DEF SetExceptions
<1> HIDE DEF after
<1>6. ASSUME NEW r \in DOMAIN after
      PROVE  after[r] \cap stillDown = {} \/ (r \in DOMAIN table \ gone /\ after[r] = table[r])
  BY <1>2, <1>4, <1>5
<1>7. ASSUME NEW r \in DOMAIN after, IsPrefix(u, r) PROVE after[r] \cap stillDown = {}
  <2>1. CASE r \in DOMAIN table \ gone /\ after[r] = table[r]
    <3>1. table[r] \cap failed = {}
      BY <1>7, <2>1 DEF Clear
    <3> QED  BY <2>1, <3>1
  <2> QED  BY <1>6, <2>1
<1>8. ASSUME NEW r \in DOMAIN after, IsStrictPrefix(r, u)
      PROVE  after[r] \cap stillDown = {} \/ u \in DOMAIN after
  <2> SUFFICES ASSUME r \in DOMAIN table, after[r] = table[r], after[r] \cap stillDown # {}
               PROVE  u \in DOMAIN after
    BY <1>6
  <2>1. CASE port \in UpPorts(n)
    <3>1. table[r] \subseteq UpPorts(n)
      BY DEF UpwardOnly
    <3>2. PICK i \in impacts : i.rk = u
      BY <2>1, ImpactsAll
    <3>3. i.ports = UpPorts(n)
      BY <2>1, ImpactBucket
    <3>4. i \in partial
      BY <3>1, <3>3
    <3> QED  BY <1>3, <1>5, <3>2, <3>4
  <2>2. CASE port \notin UpPorts(n)
    <3>1. u \in DOMAIN table
      <4>1. table[r] \cap failed # {}
        OBVIOUS
      <4> QED  BY <1>8, <4>1 DEF Clear
    <3>2. u \notin gone
      <4> SUFFICES ASSUME NEW i \in impacts, i.rk = u PROVE FALSE
        OBVIOUS
      <4>1. \A dst \in HostAddress : Matches(u, dst) => MatchPrefix(n, dst)
        BY <2>2, ImpactBucket
      <4> QED  BY <4>1, UpwardHost
    <3> QED  BY <1>4, <1>5, <3>1, <3>2
  <2> QED  BY <2>1, <2>2
<1>9. Clear(after, stillDown, u)
  BY <1>7, <1>8 DEF Clear
<1> QED  BY <1>1, <1>9

\* Steps that touch neither a table nor a port, nor what is awaited.
LEMMA SameMasked ==
  ASSUME Masked, HostsEmpty, UNCHANGED <<down, exceptions>>,
         \A n \in Node, u \in Region : Awaited(n, u) => Awaited(n, u)',
         \A n \in Node : UpwardRegions(n) \subseteq Region
  PROVE  (Masked /\ HostsEmpty)'
BY DEF Masked, HostsEmpty

\* The regions served upward are regions.
LEMMA UpwardRegionsType ==
  ASSUME OnePathDown, NEW n \in Node
  PROVE  UpwardRegions(n) \subseteq Region
BY UpwardHost

\* A call starts, and its frames open and close.
LEMMA FramesMasked ==
  ASSUME OnePathDown, Inv, LinkStates, LeadUp, Masked, HostsEmpty,
         \/ \E l \in Links, up \in BOOLEAN : SetLink(l, up)
         \/ NotifyInterfaceDown \/ NotifyReturns
  PROVE  (Masked /\ HostsEmpty)'
<1>1. UNCHANGED exceptions
  BY DEF SetLink, NotifyInterfaceDown, NotifyReturns, routers
<1>2. ASSUME UNCHANGED down, ~notify.active \/ notify.impacts = {} PROVE (Masked /\ HostsEmpty)'
  BY <1>1, <1>2, SameMasked, UpwardRegionsType DEF Awaited
<1>3. CASE \E l \in Links, up \in BOOLEAN : SetLink(l, up)
  BY <1>2, <1>3 DEF SetLink, Idle, routers, Inv, Frames
<1>4. CASE NotifyReturns
  BY <1>2, <1>4 DEF NotifyReturns, NotifyDone, routers
<1>5. CASE NotifyInterfaceDown
  <2>1. ~notify.active /\ call.ends # <<>>
    BY <1>5 DEF NotifyInterfaceDown
  <2>2. CASE Port \in down[Here]
    BY <1>2, <1>5, <2>1, <2>2 DEF NotifyInterfaceDown
  <2>3. CASE Port \notin down[Here]
    <3>1. /\ down' = [down EXCEPT ![Here] = @ \cup {Port}]
          /\ notify' = [NoNotify EXCEPT !.active = TRUE, !.impacts = Impacts(Here, Port)]
          /\ UNCHANGED call
      BY <1>5, <2>3 DEF NotifyInterfaceDown
    <3>2. Here' = Here /\ notify'.impacts = Impacts(Here, Port)
      BY <3>1 DEF Here, NoNotify
    <3>3. notify'.active
      BY <3>1 DEF NoNotify
    <3>4. Here \in Node /\ Port \in Neighbour[Here] /\ down \in [Node -> SUBSET Node]
      BY <2>1, HereType DEF Inv, TypeOK
    <3>5. ASSUME NEW n \in Node, NEW u \in UpwardRegions(n)
          PROVE  Awaited(n, u)' \/ Clear(exceptions[n], down'[n], u)
      <4>1. Clear(exceptions[n], down[n], u)
        BY <2>1 DEF Masked, Awaited
      <4>2. CASE n # Here
        BY <3>1, <3>4, <4>1, <4>2
      <4>3. CASE n = Here /\ Port \in UpPorts(Here)
        <5>1. \E i \in Impacts(Here, Port) : i.rk = u
          BY <3>4, <4>3, ImpactsAll
        <5> QED  BY <3>2, <3>3, <4>3, <5>1 DEF Awaited
      <4>4. CASE n = Here /\ Port \notin UpPorts(Here)
        <5>1. down'[n] = down[n] \cup {Port}
          BY <3>1, <3>4, <4>4
        <5>2. \A r \in DOMAIN exceptions[n] : exceptions[n][r] \subseteq UpPorts(n)
          BY DEF LeadUp, UpwardOnly
        <5>3. \A r \in DOMAIN exceptions[n] :
                exceptions[n][r] \cap down'[n] = exceptions[n][r] \cap down[n]
          BY <4>4, <5>1, <5>2
        <5> QED  BY <4>1, <5>3 DEF Clear
      <4> QED  BY <4>2, <4>3, <4>4
    <3>6. Masked'
      BY <1>1, <3>5 DEF Masked
    <3> QED  BY <1>1, <3>6 DEF HostsEmpty
  <2> QED  BY <2>2, <2>3
<1> QED  BY <1>3, <1>4, <1>5

\* A recovery.
LEMMA NotifyInterfaceUpMasked ==
  ASSUME OnePathDown, Inv, LeadUp, Masked, HostsEmpty, NotifyInterfaceUp
  PROVE  (Masked /\ HostsEmpty)'
<1>1. call.ends # <<>> /\ call.up /\ ~notify.active
  BY DEF NotifyInterfaceUp, Inv, Frames
<1>2. /\ Here \in Node /\ Port \in Neighbour[Here] /\ DOMAIN exceptions = Node
      /\ down \in [Node -> SUBSET Node] /\ UpwardOnly(Here, exceptions[Here])
  BY <1>1, HereType DEF Inv, TypeOK, LeadUp
<1>3. CASE UNCHANGED routers
  BY <1>1, <1>3, SameMasked, UpwardRegionsType DEF Awaited, routers
<1>4. CASE /\ down' = [down EXCEPT ![Here] = down[Here] \ {Port}]
           /\ exceptions' = [exceptions EXCEPT ![Here] =
                               Restored(@, Impacts(Here, Port), down[Here] \ {Port})]
  <2> DEFINE failed == down[Here]
             table == exceptions[Here]
             after == Restored(table, Impacts(Here, Port), failed \ {Port})
  <2>1. /\ down'[Here] = failed \ {Port} /\ exceptions'[Here] = after
        /\ \A n \in Node \ {Here} : down'[n] = down[n] /\ exceptions'[n] = exceptions[n]
    BY <1>2, <1>4
  <2>2. ASSUME NEW n \in Node, NEW u \in UpwardRegions(n)
        PROVE  Clear(exceptions'[n], down'[n], u)
    <3>1. Clear(exceptions[n], down[n], u)
      BY <1>1 DEF Masked, Awaited
    <3>2. CASE n = Here
      <4>1. Clear(table, failed, u) /\ UpwardOnly(Here, table) /\ u \in UpwardRegions(Here)
        BY <1>2, <3>1, <3>2
      <4> HIDE DEF table, failed
      <4>2. Clear(after, failed \ {Port}, u)
        BY <1>2, <4>1, RestoredClear
      <4> HIDE DEF after
      <4> QED  BY <2>1, <3>2, <4>2
    <3>3. CASE n # Here
      BY <2>1, <3>1, <3>3
    <3> QED  BY <3>2, <3>3
  <2>3. ASSUME NEW n \in Node, Level[n] = 0, NEW r \in DOMAIN exceptions'[n]
        PROVE  exceptions'[n][r] = {}
    <3>1. CASE n = Here
      <4>1. Impacts(Here, Port) = {}
        BY <1>2, <2>3, <3>1, HostImpacts
      <4>2. DOMAIN after = DOMAIN table /\ \A q \in DOMAIN table : after[q] = table[q]
        <5> HIDE DEF table, failed
        <5> QED  BY <4>1 DEF Restored, SetExceptions, RemoveExceptions
      <4> HIDE DEF after
      <4>3. r \in DOMAIN table /\ exceptions'[n][r] = table[r]
        BY <2>1, <2>3, <3>1, <4>2
      <4> QED  BY <1>2, <2>3, <3>1, <4>3 DEF HostsEmpty
    <3>2. CASE n # Here
      <4>1. exceptions'[n] = exceptions[n]
        BY <2>1, <3>2
      <4> QED  BY <2>3, <4>1 DEF HostsEmpty
    <3> QED  BY <3>1, <3>2
  <2> HIDE DEF after, table, failed
  <2>4. Masked'
    BY <2>2 DEF Masked
  <2>5. HostsEmpty'
    BY <2>3 DEF HostsEmpty
  <2> QED  BY <2>4, <2>5
<1> QED  BY <1>3, <1>4 DEF NotifyInterfaceUp

\* One turn of the loop of NotifyInterfaceDown.
LEMMA UpdateRegionMasked ==
  ASSUME OnePathDown, Inv, LeadUp, Masked, HostsEmpty,
         NEW i \in notify.impacts, UpdateRegion(i)
  PROVE  (Masked /\ HostsEmpty)'
<1> DEFINE avail == Available(Here, i.ports)
<1>1. notify.active /\ call.ends # <<>>
  BY DEF UpdateRegion, Inv, Frames
<1>2. /\ Here \in Node /\ Port \in Neighbour[Here] /\ DOMAIN exceptions[Here] \subseteq Region
      /\ i \in Impacts(Here, Port) /\ i.rk \in Region /\ DOMAIN exceptions = Node
      /\ \A n \in Node : UpwardRegions(n) \subseteq Region
  BY <1>1, HereType, UpwardRegionsType DEF Inv, TypeOK, IsTable, Impact, LeadUp
<1>3. /\ exceptions' = [exceptions EXCEPT ![Here] = UpdatedTable(@, i.rk, avail)]
      /\ UNCHANGED <<down, call>>
  BY DEF UpdateRegion
<1>4. notify'.active = notify.active /\ notify'.impacts = notify.impacts \ {i}
  BY DEF UpdateRegion, Inv, TypeOK
<1>5. Here' = Here
  BY <1>3 DEF Here
<1>6. avail \cap down[Here] = {}
  BY DEF Available
<1> HIDE DEF avail
<1>7. /\ exceptions'[Here] = UpdatedTable(exceptions[Here], i.rk, avail)
      /\ \A n \in Node \ {Here} : exceptions'[n] = exceptions[n]
  BY <1>2, <1>3
<1>8. ASSUME NEW n \in Node, NEW u \in UpwardRegions(n)
      PROVE  Awaited(n, u)' \/ Clear(exceptions'[n], down[n], u)
  <2>1. Awaited(n, u) \/ Clear(exceptions[n], down[n], u)
    BY DEF Masked
  <2>2. CASE n # Here
    BY <1>7, <2>1, <2>2 DEF Awaited
  <2>3. CASE n = Here /\ u = i.rk
    BY <1>2, <1>6, <1>7, <2>3, UpdateClears
  <2>4. CASE n = Here /\ u # i.rk
    <3>1. CASE Awaited(n, u)
      BY <1>4, <1>5, <2>4, <3>1 DEF Awaited
    <3>2. CASE Clear(exceptions[n], down[n], u)
      BY <1>2, <1>6, <1>7, <2>4, <3>2, UpdateClear
    <3> QED  BY <2>1, <3>1, <3>2
  <2> QED  BY <2>2, <2>3, <2>4
<1>9. Masked'
  BY <1>3, <1>8 DEF Masked
<1>10. Level[Here] # 0
  BY <1>2, HostImpacts
<1>11. HostsEmpty'
  BY <1>7, <1>10 DEF HostsEmpty
<1> QED  BY <1>9, <1>11

\* A router applies a withdrawal.
LEMMA ApplyMasked ==
  ASSUME OnePathDown, SinglyHomed, Inv, Masked, HostsEmpty, NEW p \in Node, ApplyWithdrawal(p)
  PROVE  (Masked /\ HostsEmpty)'
<1> DEFINE rk == Entry.rk
           f == Entry.from
           own == exceptions[p]
           cand == Candidates(p, rk, f)
           rest == cand \ {f}
<1>1. /\ exceptions' = [exceptions EXCEPT ![p] = UpdatedTable(@, rk, rest)]
      /\ f \in cand /\ dispatching
      /\ UNCHANGED <<down, call, notify>>
  BY DEF ApplyWithdrawal, Affects, PassGates
<1>2. /\ rk \in Region /\ DOMAIN exceptions = Node /\ DOMAIN own \subseteq Region
      /\ \A n \in Node : UpwardRegions(n) \subseteq Region
  BY <1>1, EntryType, UpwardRegionsType DEF Inv, TypeOK, IsTable
<1> HIDE DEF rk, f
<1>3. rk \in DOMAIN own \/ rest \cap down[p] = {}
  <2> SUFFICES ASSUME rk \notin DOMAIN own PROVE rest \cap down[p] = {}
    OBVIOUS
  <2>1. cand = DefaultCandidates(p, rk, f)
    BY DEF Candidates
  <2>2. f \in DefaultCandidates(p, rk, f)
    BY <1>1, <2>1
  <2> HIDE DEF cand
  <2> QED  BY <1>2, <2>1, <2>2, DefaultPool DEF Available
<1>4. Level[p] = 0 => rest = {}
  <2> SUFFICES ASSUME Level[p] = 0 PROVE rest = {}
    OBVIOUS
  <2>1. cand = DefaultCandidates(p, rk, f)
    BY DEF Candidates, HostsEmpty
  <2>2. f \in DefaultCandidates(p, rk, f)
    BY <1>1, <2>1
  <2> HIDE DEF cand
  <2>3. \/ cand = {f}
        \/ cand \subseteq Available(p, UpPorts(p)) /\ f \in UpPorts(p)
    BY <1>2, <2>1, <2>2, DefaultPool
  <2>4. \A c \in UpPorts(p) : f \in UpPorts(p) => c = f
    BY DEF SinglyHomed
  <2> QED  BY <2>3, <2>4 DEF Available
<1>5. /\ exceptions'[p] = UpdatedTable(own, rk, rest)
      /\ \A n \in Node \ {p} : exceptions'[n] = exceptions[n]
  BY <1>1, <1>2
<1>6. Here' = Here
  BY <1>1 DEF Here
<1> HIDE DEF rest
<1>7. ASSUME NEW n \in Node, NEW u \in UpwardRegions(n)
      PROVE  Awaited(n, u)' \/ Clear(exceptions'[n], down[n], u)
  <2>1. Awaited(n, u) \/ Clear(exceptions[n], down[n], u)
    BY DEF Masked
  <2>2. CASE Awaited(n, u)
    BY <1>1, <1>6, <2>2 DEF Awaited
  <2>3. CASE n # p /\ Clear(exceptions[n], down[n], u)
    BY <1>5, <2>3
  <2>4. CASE n = p /\ Clear(exceptions[n], down[n], u)
    BY <1>2, <1>3, <1>5, <2>4, UpdateClear
  <2> QED  BY <2>1, <2>2, <2>3, <2>4
<1>8. Masked'
  BY <1>1, <1>7 DEF Masked
<1>9. ASSUME NEW n \in Node, Level[n] = 0, NEW r \in DOMAIN exceptions'[n]
      PROVE  exceptions'[n][r] = {}
  <2>1. CASE n = p
    <3> DEFINE after == UpdatedTable(own, rk, rest)
    <3>1. /\ DOMAIN after = DOMAIN own \cup {rk} /\ after[rk] \subseteq rest
          /\ \A q \in DOMAIN own : after[q] \subseteq own[q]
      <4> HIDE DEF own
      <4> QED  BY <1>2, UpdateShrinks DEF Region
    <3>2. \A q \in DOMAIN own : own[q] = {}
      BY <1>9, <2>1 DEF HostsEmpty
    <3> HIDE DEF after, own
    <3>3. r \in DOMAIN after /\ after[r] = {}
      BY <1>4, <1>5, <1>9, <2>1, <3>1, <3>2 DEF after
    <3> QED  BY <1>5, <2>1, <3>3 DEF after
  <2>2. CASE n # p
    <3>1. exceptions'[n] = exceptions[n]
      BY <1>5, <2>2
    <3> QED  BY <1>9, <3>1 DEF HostsEmpty
  <2> QED  BY <2>1, <2>2
<1>10. HostsEmpty'
  BY <1>9 DEF HostsEmpty
<1> QED  BY <1>8, <1>10

\* Every step keeps what is down from being offered.
LEMMA NextMasked ==
  ASSUME OnePathDown, SinglyHomed, Inv, LinkStates, LeadUp, Masked, HostsEmpty, [Next]_vars
  PROVE  (Masked /\ HostsEmpty)'
<1>1. ASSUME UNCHANGED <<down, exceptions, call>>, UNCHANGED <<notify.active, notify.impacts>>
      PROVE  (Masked /\ HostsEmpty)'
  <2>1. Here' = Here
    BY <1>1 DEF Here
  <2>2. \A n \in Node, u \in Region : Awaited(n, u) => Awaited(n, u)'
    BY <1>1, <2>1 DEF Awaited
  <2> QED  BY <1>1, <2>2, SameMasked, UpwardRegionsType
<1>2. CASE UNCHANGED vars
  BY <1>1, <1>2 DEF vars, routers
<1>3. CASE Withdraw \/ \E p \in broadcast.peers : SendToPeer(p)
  <2>1. UNCHANGED <<notify.active, notify.impacts>>
    BY <1>3 DEF Withdraw, SendToPeer, Inv, TypeOK
  <2> QED  BY <1>1, <1>3, <2>1 DEF Withdraw, SendToPeer, routers
<1>4. CASE \E p \in Node : DropRepeated(p) \/ IgnoreWithdrawal(p)
  BY <1>1, <1>4 DEF DropRepeated, IgnoreWithdrawal, routers
<1>5. CASE Fail \/ Recover
  BY <1>5, FramesMasked DEF Fail, Recover, SetLinkDown, SetLinkUp
<1>6. CASE NotifyReturns \/ NotifyInterfaceDown
  BY <1>6, FramesMasked
<1>7. CASE \E p \in Node : ApplyWithdrawal(p)
  BY <1>7, ApplyMasked
<1>8. CASE NotifyInterfaceUp \/ \E i \in notify.impacts : UpdateRegion(i)
  BY <1>8, NotifyInterfaceUpMasked, UpdateRegionMasked
<1> QED  BY <1>2, <1>3, <1>4, <1>5, <1>6, <1>7, <1>8 DEF Next, Proceed, Dispatch

\* Two prefixes of one address: one is a prefix of the other.
LEMMA PrefixesComparable ==
  ASSUME NEW r \in Seq(Nat), NEW s \in Seq(Nat), NEW t \in Seq(Nat),
         IsPrefix(r, t), IsPrefix(s, t)
  PROVE  IsPrefix(r, s) \/ (IsStrictPrefix(s, r) /\ Len(s) < Len(r))
<1>1. /\ Len(r) <= Len(t) /\ \A i \in 1..Len(r) : r[i] = t[i]
      /\ Len(s) <= Len(t) /\ \A i \in 1..Len(s) : s[i] = t[i]
  BY PrefixElements
<1>2. Len(r) \in Nat /\ Len(s) \in Nat
  OBVIOUS
<1>3. CASE Len(r) <= Len(s)
  <2>1. \A i \in 1..Len(r) : r[i] = s[i]
    BY <1>1, <1>2, <1>3
  <2> QED  BY <1>3, <2>1, PrefixElements
<1>4. CASE Len(s) < Len(r)
  <2>1. \A i \in 1..Len(s) : s[i] = r[i]
    BY <1>1, <1>2, <1>4
  <2>2. IsPrefix(s, r)
    BY <1>2, <1>4, <2>1, PrefixElements
  <2> QED  BY <1>2, <1>4, <2>2 DEF IsStrictPrefix
<1> QED  BY <1>2, <1>3, <1>4

\* Between calls a packet leaves by a port that is up.
LEMMA MaskedHops ==
  ASSUME OnePathDown, Inv, LeadUp, Masked, HostsEmpty, Idle,
         NEW n \in Node, NEW dst \in HostAddress
  PROVE  NextHops(n, dst) \cap down[n] = {}
<1>0. ~notify.active
  BY DEF Inv, Frames, Idle
<1>1. CASE HasException(exceptions[n], dst)
  <2> DEFINE table == exceptions[n]
             e == LookupException(table, dst)
  <2>1. dst \in Seq(Nat) /\ DOMAIN table \subseteq Region
    BY FabricAssumption DEF Inv, TypeOK, IsTable
  <2>2. /\ e \in DOMAIN table /\ Matches(e, dst)
        /\ \A r \in DOMAIN table : Matches(r, dst) => Len(r) <= Len(e)
    <3> HIDE DEF table
    <3> QED  BY <1>1, <2>1, LookupLongest DEF table
  <2>3. NextHops(n, dst) = table[e]
    BY <1>1 DEF NextHops
  <2> HIDE DEF e
  <2> SUFFICES ASSUME table[e] \cap down[n] # {} PROVE FALSE
    BY <2>3
  <2>4. ~MatchPrefix(n, dst) /\ Level[n] > 0
    <3>1. ~MatchPrefix(n, dst)
      BY <2>2 DEF LeadUp, UpwardOnly, Outside
    <3>2. Level[n] # 0
      BY <2>2 DEF HostsEmpty
    <3> QED  BY <3>1, <3>2, FieldsType
  <2>5. PICK u \in UpwardRegions(n) : Matches(u, dst)
    BY <2>4, HostUpward
  <2>6. Clear(table, down[n], u) /\ u \in Region
    BY <1>0, UpwardRegionsType DEF Masked, Awaited
  <2> HIDE DEF table
  <2>7. IsPrefix(u, e) \/ (IsStrictPrefix(e, u) /\ Len(e) < Len(u))
    BY <2>1, <2>2, <2>5, <2>6, PrefixesComparable DEF Matches, Region
  <2>8. ~IsPrefix(u, e)
    BY <2>2, <2>6 DEF Clear
  <2>9. u \in DOMAIN table
    BY <2>2, <2>6, <2>7, <2>8 DEF Clear
  <2>10. Len(u) <= Len(e) /\ Len(u) \in Nat /\ Len(e) \in Nat
    BY <2>1, <2>2, <2>5, <2>6, <2>9 DEF Region
  <2> QED  BY <2>7, <2>8, <2>10
<1>2. CASE ~HasException(exceptions[n], dst)
  BY <1>2 DEF NextHops, Available
<1> QED  BY <1>1, <1>2

\* Nothing has failed yet.
LEMMA InitMasked == Init => Masked /\ HostsEmpty
<1> SUFFICES ASSUME Init PROVE Masked /\ HostsEmpty
  OBVIOUS
<1>1. \A n \in Node : DOMAIN exceptions[n] = {}
  BY DEF Init, NoExceptions
<1> QED  BY <1>1 DEF Masked, HostsEmpty, Clear

-----------------------------------------------------------------------------
(* Part 5: stacks of ClosInterLevelTemplates that have one path down.      *)

\* The routers are those of a stack of ClosInterLevelTemplates.
ClosInstance ==
  /\ Node = ClosNode /\ Neighbour = ClosNeighbour /\ Level = ClosLevel
  /\ AddrSize = Levels /\ LevelAddrBit = ClosLevelAddrBit
  /\ Address = ClosAddress /\ HostAddress = ClosHostAddress /\ Buckets = ClosBuckets

\* A group of a template has one node of each replica below it: a parent has
\* one child per replica.
OneChildPerReplica == \A l \in 1..Levels : Grp[l] = Width(l - 1)

\* Induction for a set of numbers.
LEMMA AllNumbers ==
  ASSUME NEW S \in SUBSET Nat, 0 \in S, \A n \in S : n + 1 \in S
  PROVE  S = Nat
<1> SUFFICES ASSUME Nat \ S # {}  PROVE FALSE
  OBVIOUS
<1>1. PICK n \in Nat \ S : \A m \in Nat \ S : ~(<<m, n>> \in OpToRel(<, Nat))
  BY NatLessThanWellFounded, WFMin
<1>2. \A m \in Nat \ S : ~(m < n)
  BY <1>1 DEF OpToRel
<1>3. n # 0 /\ n - 1 \in Nat /\ n - 1 < n
  OBVIOUS
<1>4. n - 1 \in S
  BY <1>2, <1>3
<1>5. (n - 1) + 1 = n
  OBVIOUS
<1> QED  BY <1>4, <1>5

\* Groups of equal size split the indices below a number among themselves.
LEMMA GroupNumber ==
  ASSUME NEW m \in Nat \ {0}, NEW g \in Nat \ {0}, m % g = 0, NEW i \in 0..(m - 1)
  PROVE  i \div (m \div g) \in 0..(g - 1) /\ m \div g \in Nat \ {0}
<1> DEFINE q == m \div g
<1>1. q \in Nat /\ m = g * q
  OBVIOUS
<1> HIDE DEF q
<1>2. q # 0
  BY <1>1
<1> DEFINE j == i \div q
<1>3. j \in Nat /\ q * j <= i
  BY <1>1, <1>2
<1> HIDE DEF j
<1>4. ASSUME j >= g PROVE FALSE
  <2>1. q * j >= q * g
    BY <1>1, <1>3, <1>4
  <2>2. q * g = g * q
    BY <1>1
  <2> QED  BY <1>1, <1>3, <2>1, <2>2
<1>5. j \in 0..(g - 1)
  BY <1>3, <1>4
<1> QED  BY <1>1, <1>2, <1>5 DEF j, q

\* The widths of the levels.
LEMMA WidthType ==
  ASSUME NEW l \in 0..Levels
  PROVE  Width(l) \in Nat \ {0}
BY ClosAssumption DEF Width

\* One level of GroupFields, from the one below.
FieldsRow(row, l) ==
  [i \in 0..(Width(l) - 1) |->
     IF l = 0 THEN <<>> ELSE Append(row[ParentGroup(l, i)], i % (Num[l] \div Grp[l]))]

\* The recursion that defines GroupFields has a solution.
LEMMA GroupFieldsDef ==
  \A l \in 0..Levels : GroupFields[l] = FieldsRow(GroupFields[l - 1], l)
<1> DEFINE Solves(f, m) == f = [l \in 0..m |-> FieldsRow(f[l - 1], l)]
           S == {m \in Nat : \E f : Solves(f, m)}
<1>1. 0 \in S
  <2> DEFINE f == [l \in 0..0 |-> FieldsRow(<<>>, l)]
  <2>1. \A row, other : FieldsRow(row, 0) = FieldsRow(other, 0)
    BY DEF FieldsRow
  <2>2. f[0] = FieldsRow(f[0 - 1], 0) /\ DOMAIN f = 0..0
    BY <2>1
  <2>3. \A l \in 0..0 : l = 0
    OBVIOUS
  <2>4. f = [l \in 0..0 |-> FieldsRow(f[l - 1], l)]
    <3> DEFINE g == [l \in 0..0 |-> FieldsRow(f[l - 1], l)]
    <3>1. DOMAIN f = 0..0 /\ DOMAIN g = 0..0
      OBVIOUS
    <3>2. \A l \in 0..0 : f[l] = g[l]
      BY <2>2, <2>3
    <3>3. f = [l \in 0..0 |-> f[l]] /\ g = [l \in 0..0 |-> g[l]]
      OBVIOUS
    <3> HIDE DEF f, g
    <3>4. f = g
      BY <3>2, <3>3
    <3> QED  BY <3>4 DEF g
  <2> QED  BY <2>4
<1>2. ASSUME NEW m \in S PROVE m + 1 \in S
  <2>1. m \in Nat
    OBVIOUS
  <2>2. PICK f : Solves(f, m)
    OBVIOUS
  <2> DEFINE g == [l \in 0..(m + 1) |-> IF l = m + 1 THEN FieldsRow(f[m], l) ELSE f[l]]
             h == [l \in 0..(m + 1) |-> FieldsRow(g[l - 1], l)]
  <2>3. \A row, other : FieldsRow(row, 0) = FieldsRow(other, 0)
    BY DEF FieldsRow
  <2>4. ASSUME NEW l \in 0..(m + 1) PROVE g[l] = h[l]
    <3>1. CASE l = m + 1
      <4>1. l - 1 = m /\ m \in 0..(m + 1) /\ m # m + 1
        BY <2>1, <3>1
      <4>2. g[l - 1] = f[m]
        BY <4>1
      <4> QED  BY <3>1, <4>2
    <3>2. CASE l # m + 1
      <4>1. l \in 0..m /\ f[l] = FieldsRow(f[l - 1], l)
        BY <2>1, <2>2, <3>2
      <4>2. FieldsRow(g[l - 1], l) = FieldsRow(f[l - 1], l)
        <5>1. CASE l = 0
          BY <2>3, <5>1
        <5>2. CASE l # 0
          <6>1. l - 1 \in 0..(m + 1) /\ l - 1 # m + 1
            BY <2>1, <5>2
          <6> QED  BY <6>1
        <5> QED  BY <5>1, <5>2
      <4> QED  BY <3>2, <4>1, <4>2
    <3> QED  BY <3>1, <3>2
  <2>5. g = [l \in 0..(m + 1) |-> g[l]] /\ h = [l \in 0..(m + 1) |-> h[l]]
    OBVIOUS
  <2> HIDE DEF g, h
  <2>6. g = h
    BY <2>4, <2>5
  <2>7. Solves(g, m + 1)
    BY <2>6 DEF h
  <2> HIDE DEF Solves
  <2> QED  BY <2>1, <2>7
<1>3. S = Nat
  <2> HIDE DEF S
  <2>1. S \subseteq Nat
    BY DEF S
  <2> QED  BY <1>1, <1>2, <2>1, AllNumbers
<1>4. \E f : Solves(f, Levels)
  <2>1. Levels \in Nat
    BY ClosAssumption
  <2> HIDE DEF Solves
  <2> QED  BY <1>3, <2>1
<1>5. GroupFields = CHOOSE f : Solves(f, Levels)
  BY DEF GroupFields, FieldsRow
<1>6. Solves(GroupFields, Levels)
  <2> HIDE DEF Solves
  <2> QED  BY <1>4, <1>5
<1> HIDE DEF S
<1>7. GroupFields = [l \in 0..Levels |-> FieldsRow(GroupFields[l - 1], l)]
  BY <1>6
<1> QED  BY <1>7

\* The fields below the replica numbers are numbers.
LEMMA GroupFieldsType ==
  ASSUME NEW l \in 0..Levels, NEW i \in 0..(Width(l) - 1)
  PROVE  GroupFields[l][i] \in Seq(Nat)
<1> DEFINE Typed(m) == \A k \in 0..(Width(m) - 1) : GroupFields[m][k] \in Seq(Nat)
           S == {m \in Nat : m <= Levels => Typed(m)}
<1>0. Levels \in Nat
  BY ClosAssumption
<1>1. 0 \in S
  <2>1. 0 \in 0..Levels
    BY <1>0
  <2>2. GroupFields[0] = FieldsRow(GroupFields[0 - 1], 0)
    BY <2>1, GroupFieldsDef
  <2>3. \A k \in 0..(Width(0) - 1) : GroupFields[0][k] = <<>>
    BY <2>2 DEF FieldsRow
  <2> QED  BY <2>3, EmptySeq
<1>2. ASSUME NEW m \in S PROVE m + 1 \in S
  <2> SUFFICES ASSUME m + 1 <= Levels, NEW k \in 0..(Width(m + 1) - 1)
               PROVE  GroupFields[m + 1][k] \in Seq(Nat)
    OBVIOUS
  <2>1. m \in Nat /\ m + 1 \in 1..Levels /\ m + 1 \in 0..Levels /\ (m + 1) - 1 = m /\ m + 1 # 0
    BY <1>0
  <2>2. /\ Width(m + 1) = Num[m + 1] /\ Num[m + 1] \in Nat \ {0} /\ Grp[m + 1] \in Nat \ {0}
        /\ Num[m + 1] % Grp[m + 1] = 0 /\ Width(m) % Grp[m + 1] = 0 /\ Width(m) \in Nat \ {0}
    <3>1. Width(m) % Grp[m + 1] = 0 /\ Num[m + 1] % Grp[m + 1] = 0
      <4>1. Width((m + 1) - 1) % Grp[m + 1] = 0 /\ Num[m + 1] % Grp[m + 1] = 0
        BY <2>1, DivisibilityAssumption
      <4>2. Width((m + 1) - 1) = Width(m)
        BY <2>1
      <4> QED  BY <4>1, <4>2, Zenon
    <3>2. m \in 0..Levels
      BY <1>0, <2>1
    <3>3. Width(m) \in Nat \ {0}
      BY <3>2, WidthType
    <3>4. Width(m + 1) = Num[m + 1]
      BY <2>1 DEF Width
    <3>5. Num[m + 1] \in Nat \ {0} /\ Grp[m + 1] \in Nat \ {0}
      BY <2>1, ClosAssumption
    <3> QED  BY <3>1, <3>3, <3>4, <3>5
  <2> DEFINE pg == ParentGroup(m + 1, k)
             size == Num[m + 1] \div Grp[m + 1]
  <2>3. pg \in 0..(Grp[m + 1] - 1) /\ size \in Nat \ {0}
    BY <2>2, GroupNumber DEF ParentGroup
  <2>4. Grp[m + 1] <= Width(m)
    <3> DEFINE w == Width(m)
               g == Grp[m + 1]
    <3>1. w \in Nat \ {0} /\ g \in Nat \ {0} /\ w % g = 0
      BY <2>2
    <3> HIDE DEF w, g
    <3>2. g <= w
      BY <3>1
    <3> QED  BY <3>2 DEF w, g
  <2>5. pg \in 0..(Width(m) - 1)
    BY <2>2, <2>3, <2>4
  <2>6. GroupFields[m][pg] \in Seq(Nat)
    <3>1. m \in S /\ m <= Levels
      BY <1>0, <2>1
    <3>2. Typed(m)
      BY <3>1
    <3> HIDE DEF pg
    <3> QED  BY <2>5, <3>2
  <2>7. k % size \in Nat
    BY <2>2, <2>3
  <2>8. GroupFields[m + 1][k] = Append(GroupFields[m][pg], k % size)
    <3>1. GroupFields[m + 1] = FieldsRow(GroupFields[m], m + 1)
      BY <2>1, GroupFieldsDef
    <3> QED  BY <2>1, <3>1 DEF FieldsRow
  <2> HIDE DEF pg, size
  <2> QED  BY <2>6, <2>7, <2>8, AppendProperties
<1>3. S = Nat
  <2> HIDE DEF S
  <2>1. S \subseteq Nat
    BY DEF S
  <2> QED  BY <1>1, <1>2, <2>1, AllNumbers
<1>4. l \in S /\ l <= Levels
  BY <1>0, <1>3
<1> QED  BY <1>4

\* A node is its level, its replica numbers and its index.
LEMMA NodeParts ==
  ASSUME NEW n \in ClosNode
  PROVE  /\ n[1] \in 0..Levels /\ n = <<n[1], n[2], n[3]>>
         /\ n[2] \in Seq(Nat) /\ Len(n[2]) = Levels - n[1]
         /\ \A i \in 1..(Levels - n[1]) : n[2][i] \in 1..Sub[Levels + 1 - i]
         /\ n[3] \in 0..(Width(n[1]) - 1)
<1>1. PICK l \in 0..Levels : n \in ClosLevelNodes(l)
  BY DEF ClosNode
<1>2. PICK c \in Copies(l), i \in 0..(Width(l) - 1) : n = <<l, c, i>>
  BY <1>1 DEF ClosLevelNodes
<1>3. n[1] = l /\ n[2] = c /\ n[3] = i
  BY <1>2
<1>4. /\ c \in [1..(Levels - l) -> UNION {1..Sub[k] : k \in 1..Levels}]
      /\ \A j \in 1..(Levels - l) : c[j] \in 1..Sub[Levels + 1 - j]
  BY DEF Copies
<1>5. UNION {1..Sub[k] : k \in 1..Levels} \subseteq Nat
  BY ClosAssumption
<1>6. c \in [1..(Levels - l) -> Nat] /\ Levels - l \in Nat
  BY <1>4, <1>5, ClosAssumption
<1>7. c \in Seq(Nat) /\ Len(c) = Levels - l
  BY <1>6
<1> QED  BY <1>2, <1>3, <1>4, <1>7

\* An address starts with the replica numbers.
LEMMA AddressStart ==
  ASSUME ClosInstance, NEW n \in Node
  PROVE  /\ n \in ClosNode /\ Level[n] = n[1]
         /\ Leading(Address[n], AddrSize - Level[n]) = n[2]
<1>1. n \in ClosNode /\ Level[n] = n[1] /\ AddrSize = Levels
  BY DEF ClosInstance, ClosLevel
<1> DEFINE c == n[2]
           g == GroupFields[n[1]][n[3]]
<1>2. c \in Seq(Nat) /\ Len(c) = Levels - n[1] /\ g \in Seq(Nat)
  BY <1>1, NodeParts, GroupFieldsType
<1>3. Address[n] = c \o g
  BY <1>1 DEF ClosInstance, ClosAddress
<1> HIDE DEF c, g
<1>4. c \o g \in Seq(Nat) /\ IsPrefix(c, c \o g)
  <2>1. /\ c \o g \in Seq(Nat) /\ Len(c \o g) = Len(c) + Len(g)
        /\ \A i \in 1..(Len(c) + Len(g)) : (c \o g)[i] = IF i <= Len(c) THEN c[i]
                                                        ELSE g[i - Len(c)]
    BY <1>2, ConcatProperties
  <2> DEFINE a == c \o g
  <2> HIDE DEF a
  <2>2. /\ a \in Seq(Nat) /\ Len(a) = Len(c) + Len(g)
        /\ \A i \in 1..(Len(c) + Len(g)) : a[i] = IF i <= Len(c) THEN c[i] ELSE g[i - Len(c)]
    BY <2>1 DEF a
  <2>3. Len(c) \in Nat /\ Len(g) \in Nat
    BY <1>2
  <2>4. Len(c) <= Len(a) /\ \A i \in 1..Len(c) : c[i] = a[i]
    BY <2>2, <2>3
  <2>5. IsPrefix(c, a)
    BY <1>2, <2>2, <2>4, PrefixElements
  <2> QED  BY <2>1, <2>5 DEF a
<1>5. Leading(Address[n], Len(c)) = c
  BY <1>2, <1>3, <1>4, LeadingPrefix
<1>6. AddrSize - Level[n] = Len(c)
  BY <1>1, <1>2
<1> QED  BY <1>1, <1>5, <1>6 DEF c

\* The buckets, by what they hold.
LEMMA ClosBucket ==
  ASSUME NEW n \in ClosNode, NEW b \in ClosBuckets[n]
  PROVE  \/ /\ n[1] # 0 /\ b.dir = "down"
            /\ \E k \in 1..Sub[n[1]] :
                 /\ b.key = <<k>>
                 /\ b.ports = {c \in Children(n) : c[2][Levels + 1 - n[1]] = k}
         \/ b.dir = "up" /\ b.key = <<>> /\ b.ports = Parents(n)
<1> DEFINE below(k) == [dir |-> "down", key |-> <<k>>,
                        ports |-> {c \in Children(n) : c[2][Levels + 1 - n[1]] = k}]
           keys == IF n[1] = 0 THEN {} ELSE 1..Sub[n[1]]
           above(p) == [dir |-> "up", key |-> <<>>, ports |-> p]
<1>1. ClosBuckets[n] = {below(k) : k \in keys} \cup {above(p) : p \in {Parents(n)} \ {{}}}
  BY DEF ClosBuckets
<1>2. CASE \E k \in keys : b = below(k)
  BY <1>2
<1>3. CASE \E p \in {Parents(n)} \ {{}} : b = above(p)
  BY <1>3
<1> QED  BY <1>1, <1>2, <1>3

\* The ports up are the parents, each of which has the router as a child.
LEMMA ClosUpPorts ==
  ASSUME ClosInstance, NEW n \in Node, NEW f \in UpPorts(n)
  PROVE  f \in ClosNode /\ Connected(f, n)
<1>1. n \in ClosNode /\ Buckets[n] = ClosBuckets[n]
  BY DEF ClosInstance
<1>2. PICK b \in ClosBuckets[n] : b.dir = "up" /\ f \in b.ports
  BY <1>1 DEF UpPorts, BucketPorts
<1>3. f \in Parents(n)
  BY <1>1, <1>2, ClosBucket
<1> QED  BY <1>3 DEF Parents

\* A downward bucket of a parent with one child per replica holds that child.
LEMMA ClosOneChild ==
  ASSUME OneChildPerReplica, NEW n \in ClosNode, n[1] # 0,
         NEW c \in Children(n), NEW d \in Children(n),
         c[2][Levels + 1 - n[1]] = d[2][Levels + 1 - n[1]]
  PROVE  c = d
<1> DEFINE l == n[1]
<1>0. Levels \in Nat /\ l \in 1..Levels /\ l - 1 \in 0..Levels
  BY NodeParts, ClosAssumption
<1>1. /\ c \in ClosNode /\ c[1] = l - 1 /\ SubSeq(c[2], 1, Levels - l) = n[2]
      /\ ParentGroup(l, n[3]) = ChildGroup(l, c[3])
      /\ d \in ClosNode /\ d[1] = l - 1 /\ SubSeq(d[2], 1, Levels - l) = n[2]
      /\ ParentGroup(l, n[3]) = ChildGroup(l, d[3])
  BY DEF Children, Connected
<1>2. /\ c = <<l - 1, c[2], c[3]>> /\ c[2] \in Seq(Nat) /\ Len(c[2]) = Levels - (l - 1)
      /\ c[3] \in 0..(Width(l - 1) - 1)
      /\ d = <<l - 1, d[2], d[3]>> /\ d[2] \in Seq(Nat) /\ Len(d[2]) = Levels - (l - 1)
      /\ d[3] \in 0..(Width(l - 1) - 1)
  <2>1. /\ c = <<c[1], c[2], c[3]>> /\ c[2] \in Seq(Nat) /\ Len(c[2]) = Levels - c[1]
        /\ c[3] \in 0..(Width(c[1]) - 1)
    BY <1>1, NodeParts
  <2>2. /\ d = <<d[1], d[2], d[3]>> /\ d[2] \in Seq(Nat) /\ Len(d[2]) = Levels - d[1]
        /\ d[3] \in 0..(Width(d[1]) - 1)
    BY <1>1, NodeParts
  <2> QED  BY <1>1, <2>1, <2>2
<1> HIDE DEF l
<1>3. c[3] = d[3]
  <2>1. Grp[l] = Width(l - 1) /\ Width(l - 1) \in Nat \ {0}
    BY <1>0, WidthType DEF OneChildPerReplica
  <2>2. \A w \in Nat \ {0} : w \div w = 1
    OBVIOUS
  <2>3. \A j \in Nat : j \div 1 = j
    OBVIOUS
  <2>4. c[3] \in Nat /\ d[3] \in Nat
    BY <1>2, <2>1
  <2>5. Width(l - 1) \div Grp[l] = 1
    BY <2>1, <2>2
  <2>6. ChildGroup(l, c[3]) = c[3] /\ ChildGroup(l, d[3]) = d[3]
    BY <2>3, <2>4, <2>5 DEF ChildGroup
  <2> QED  BY <1>1, <2>6
<1>4. c[2] = d[2]
  <2> DEFINE s == c[2]
             t == d[2]
             k == Levels - l
  <2>1. k \in Nat /\ Len(s) = k + 1 /\ Len(t) = k + 1 /\ Levels + 1 - l = k + 1
    BY <1>0, <1>2
  <2>2. s \in Seq(Nat) /\ t \in Seq(Nat) /\ s[k + 1] = t[k + 1] /\ Leading(s, k) = Leading(t, k)
    BY <1>1, <1>2, <2>1 DEF Leading, l
  <2> HIDE DEF s, t, k
  <2>3. /\ \A i \in 1..k : Leading(s, k)[i] = s[i]
        /\ \A i \in 1..k : Leading(t, k)[i] = t[i]
    <3>1. k <= Len(s) /\ k <= Len(t)
      BY <2>1
    <3> QED  BY <2>1, <2>2, <3>1, LeadingFields
  <2>4. \A i \in 1..k : s[i] = t[i]
    BY <2>2, <2>3
  <2>5. \A i \in 1..(k + 1) : s[i] = t[i]
    BY <2>1, <2>2, <2>4
  <2>6. s = t
    BY <2>1, <2>2, <2>5, SeqEqual
  <2> QED  BY <2>6 DEF s, t
<1> QED  BY <1>2, <1>3, <1>4

\* The host side: the child of a parent that a host is below is where the
\* parent sends for it.
LEMMA ClosParentOf ==
  ASSUME ClosInstance, NEW p \in Node, NEW f \in UpPorts(p), NEW dst \in HostAddress,
         MatchPrefix(p, dst)
  PROVE  /\ Level[f] > 0 /\ MatchPrefix(f, dst)
         /\ p \in BucketPorts(f, "down", DownwardKey(f, dst))
<1> DEFINE l == f[1]
           k == Levels - l
<1>1. /\ p \in ClosNode /\ f \in ClosNode /\ p[1] = l - 1
      /\ SubSeq(p[2], 1, k) = f[2] /\ f \in Node /\ p \in Children(f)
  BY ClosUpPorts DEF Connected, ClosInstance, Children
<1>2. /\ Levels \in Nat /\ l \in 1..Levels /\ k \in Nat /\ AddrSize = Levels
      /\ Level[f] = l /\ Level[p] = l - 1
  <2>1. Levels \in Nat /\ f[1] \in 0..Levels /\ p[1] \in 0..Levels
    BY <1>1, NodeParts, ClosAssumption
  <2> QED  BY <1>1, <2>1 DEF ClosInstance, ClosLevel
<1>3. p[2] \in Seq(Nat) /\ Len(p[2]) = k + 1 /\ p[2][k + 1] \in 1..Sub[l]
  <2>1. /\ p[2] \in Seq(Nat) /\ Len(p[2]) = Levels - p[1]
        /\ \A i \in 1..(Levels - p[1]) : p[2][i] \in 1..Sub[Levels + 1 - i]
    BY <1>1, NodeParts
  <2>2. Levels - p[1] = k + 1 /\ k + 1 \in 1..(k + 1) /\ Levels + 1 - (k + 1) = l
    BY <1>1, <1>2
  <2> HIDE DEF l, k
  <2> QED  BY <2>1, <2>2
<1>4. /\ dst \in Seq(Nat) /\ Len(dst) = Levels
      /\ \A l2 \in 0..AddrSize : LevelAddrBit[l2] = l2 - 1
  BY <1>2, FabricAssumption DEF ClosInstance, ClosLevelAddrBit
<1> HIDE DEF l, k
<1>5. Leading(dst, k + 1) = p[2]
  <2>1. Leading(Address[p], AddrSize - Level[p]) = p[2] /\ AddrSize - Level[p] = k + 1
    BY <1>2, AddressStart DEF k
  <2>2. AddrSize - (LevelAddrBit[Level[p]] + 1) = k + 1
    <3>1. LevelAddrBit[Level[p]] = Level[p] - 1
      BY <1>2, <1>4
    <3> QED  BY <1>2, <3>1 DEF k
  <2> QED  BY <2>1, <2>2 DEF MatchPrefix
<1>6. k <= Len(dst) /\ k + 1 <= Len(dst) /\ k < Len(dst) /\ k + 1 \in Nat /\ k <= Len(p[2])
  BY <1>2, <1>3, <1>4 DEF k
<1>7. \A i \in 1..(k + 1) : dst[i] = p[2][i]
  <2>1. \A i \in 1..(k + 1) : Leading(dst, k + 1)[i] = dst[i]
    BY <1>4, <1>6, LeadingFields
  <2> QED  BY <1>5, <2>1
<1>8. Leading(dst, k) = f[2]
  <2>1. Leading(p[2], k) = f[2]
    BY <1>1 DEF Leading, k
  <2> DEFINE D == Leading(dst, k)
             P == Leading(p[2], k)
  <2>2. /\ D \in Seq(Nat) /\ Len(D) = k /\ \A i \in 1..k : D[i] = dst[i]
        /\ P \in Seq(Nat) /\ Len(P) = k /\ \A i \in 1..k : P[i] = p[2][i]
    BY <1>2, <1>3, <1>4, <1>6, LeadingFields
  <2> HIDE DEF D, P
  <2>3. \A i \in 1..k : D[i] = P[i]
    BY <1>2, <1>7, <2>2, SMTT(20)
  <2>4. D = P
    BY <2>2, <2>3, SeqEqual
  <2> QED  BY <2>1, <2>4 DEF D, P
<1>9. MatchPrefix(f, dst)
  <2>1. Leading(Address[f], AddrSize - Level[f]) = f[2] /\ AddrSize - Level[f] = k
    BY <1>1, <1>2, AddressStart DEF k
  <2>2. AddrSize - (LevelAddrBit[Level[f]] + 1) = k
    <3>1. LevelAddrBit[Level[f]] = Level[f] - 1
      BY <1>2, <1>4
    <3> QED  BY <1>2, <3>1 DEF k
  <2> QED  BY <1>8, <2>1, <2>2 DEF MatchPrefix
<1> DEFINE v == p[2][k + 1]
<1>10. DownwardKey(f, dst) = <<v>>
  <2>1. CurrentPrefixLen(f) = k
    BY <1>2 DEF CurrentPrefixLen, k
  <2>2. SegmentLen(f) = 1
    <3>1. LevelAddrBit[Level[f]] = l - 1 /\ LevelAddrBit[Level[f] - 1] = l - 2
      BY <1>2, <1>4
    <3> QED  BY <1>2, <3>1 DEF SegmentLen
  <2>3. SubSeq(dst, k + 1, k + 1) = <<dst[k + 1]>>
    BY <1>2, <1>4, <1>6, OneField
  <2>4. dst[k + 1] = v
    BY <1>2, <1>7
  <2> HIDE DEF v
  <2> QED  BY <2>1, <2>2, <2>3, <2>4 DEF DownwardKey
<1>11. p \in BucketPorts(f, "down", <<v>>)
  <2> DEFINE b == [dir |-> "down", key |-> <<v>>,
                   ports |-> {c \in Children(f) : c[2][Levels + 1 - f[1]] = v}]
  <2>1. v \in 1..Sub[f[1]] /\ f[1] # 0 /\ Levels + 1 - f[1] = k + 1
    BY <1>2, <1>3 DEF l, k
  <2>2. p \in b.ports
    BY <1>1, <2>1
  <2>3. b \in ClosBuckets[f]
    BY <1>1, <2>1 DEF ClosBuckets
  <2>4. b \in Buckets[f] /\ b.dir = "down" /\ b.key = <<v>>
    BY <2>3 DEF ClosInstance
  <2> HIDE DEF b
  <2> QED  BY <2>2, <2>4 DEF BucketPorts
<1> QED  BY <1>2, <1>9, <1>10, <1>11

\* A stack of templates with one child per replica has one path down.
LEMMA ClosOnePathDown ==
  ASSUME ClosInstance, OneChildPerReplica
  PROVE  OnePathDown
<1>1. \A l \in 0..AddrSize : LevelAddrBit[l] = l - 1
  BY DEF ClosInstance, ClosLevelAddrBit
<1>2. ASSUME NEW n \in Node, NEW b \in Buckets[n]
      PROVE  /\ b.dir = "down" \/ (b.dir = "up" /\ b.key = <<>>)
             /\ \A c \in Buckets[n] : b.dir = c.dir /\ b.key = c.key => b.ports = c.ports
  <2>1. n \in ClosNode /\ Buckets[n] = ClosBuckets[n]
    BY DEF ClosInstance
  <2>2. b.dir = "down" \/ (b.dir = "up" /\ b.key = <<>>)
    BY <2>1, ClosBucket
  <2>3. ASSUME NEW c \in Buckets[n], b.dir = c.dir, b.key = c.key PROVE b.ports = c.ports
    <3>1. CASE b.dir = "down"
      <4>1. PICK k \in 1..Sub[n[1]] : /\ b.key = <<k>>
                                      /\ b.ports = {x \in Children(n) : x[2][Levels + 1 - n[1]] = k}
        BY <2>1, <3>1, ClosBucket
      <4>2. PICK j \in 1..Sub[n[1]] : /\ c.key = <<j>>
                                      /\ c.ports = {x \in Children(n) : x[2][Levels + 1 - n[1]] = j}
        BY <2>1, <2>3, <3>1, ClosBucket
      <4>3. k = j
        <5>1. <<k>> = <<j>>
          BY <2>3, <4>1, <4>2
        <5>2. <<k>>[1] = k /\ <<j>>[1] = j
          OBVIOUS
        <5> QED  BY <5>1, <5>2
      <4> QED  BY <4>1, <4>2, <4>3
    <3>2. CASE b.dir # "down"
      <4>1. b.ports = Parents(n)
        BY <2>1, <3>2, ClosBucket
      <4>2. c.ports = Parents(n)
        BY <2>1, <2>3, <3>2, ClosBucket
      <4> QED  BY <4>1, <4>2
    <3> QED  BY <3>1, <3>2
  <2> QED  BY <2>2, <2>3
<1>3. ASSUME NEW n \in Node, NEW key \in Seq(Nat),
             NEW c \in BucketPorts(n, "down", key), NEW d \in BucketPorts(n, "down", key)
      PROVE  c = d
  <2>1. n \in ClosNode /\ Buckets[n] = ClosBuckets[n]
    BY DEF ClosInstance
  <2>2. PICK a \in ClosBuckets[n], b \in ClosBuckets[n] :
          /\ a.dir = "down" /\ a.key = key /\ c \in a.ports
          /\ b.dir = "down" /\ b.key = key /\ d \in b.ports
    BY <2>1 DEF BucketPorts
  <2>3. n[1] # 0 /\ \E k \in 1..Sub[n[1]] :
          key = <<k>> /\ a.ports = {x \in Children(n) : x[2][Levels + 1 - n[1]] = k}
    BY <2>1, <2>2, ClosBucket
  <2>4. \E k \in 1..Sub[n[1]] :
          key = <<k>> /\ b.ports = {x \in Children(n) : x[2][Levels + 1 - n[1]] = k}
    BY <2>1, <2>2, ClosBucket
  <2>5. /\ c \in Children(n) /\ d \in Children(n)
        /\ c[2][Levels + 1 - n[1]] = d[2][Levels + 1 - n[1]]
    BY <2>2, <2>3, <2>4
  <2> QED  BY <2>1, <2>3, <2>5, ClosOneChild
<1> QED  BY <1>1, <1>2, <1>3, ClosParentOf DEF OnePathDown

\* In a stack of templates whose racks have one switch a host has one port up.
LEMMA ClosSinglyHomed ==
  ASSUME ClosInstance, Num[1] = 1
  PROVE  SinglyHomed
<1> SUFFICES ASSUME NEW n \in Node, Level[n] = 0, NEW c \in UpPorts(n), NEW d \in UpPorts(n)
             PROVE  c = d
  BY DEF SinglyHomed
<1>1. n \in ClosNode /\ n[1] = 0
  BY DEF ClosInstance, ClosLevel
<1>2. c \in ClosNode /\ d \in ClosNode /\ Connected(c, n) /\ Connected(d, n)
  BY ClosUpPorts
<1>3. /\ c = <<c[1], c[2], c[3]>> /\ c[1] \in 0..Levels /\ c[3] \in 0..(Width(c[1]) - 1)
      /\ d = <<d[1], d[2], d[3]>> /\ d[1] \in 0..Levels /\ d[3] \in 0..(Width(d[1]) - 1)
  BY <1>2, NodeParts
<1>4. c[1] = 1 /\ d[1] = 1 /\ c[2] = d[2]
  <2>1. c[1] = 1 /\ d[1] = 1
    BY <1>1, <1>2, <1>3, ClosAssumption DEF Connected
  <2> QED  BY <1>2, <2>1 DEF Connected
<1>5. Width(1) = 1
  BY DEF Width
<1>6. c[3] = 0 /\ d[3] = 0
  BY <1>3, <1>4, <1>5
<1> QED  BY <1>3, <1>4, <1>6

-----------------------------------------------------------------------------
(* Part 6: the theorems.                                                   *)

\* Between calls exceptions only take interfaces away from the rules: on every
\* stack of templates that gives a parent one child per replica, through any
\* failures and recoveries and in any order of delivery, no packet turns down
\* where it must go up or up again after it went down.
THEOREM NarrowRules ==
  ASSUME ClosInstance, OneChildPerReplica
  PROVE  Spec => []ExceptionsNarrowRules
<1>1. OnePathDown
  BY ClosOnePathDown
<1>2. Init => Inv /\ LinkStates /\ LeadUp
  BY InitInv, InitLinkStates, InitLeadUp
<1>3. Inv /\ LinkStates /\ LeadUp /\ [Next]_vars => (Inv /\ LinkStates /\ LeadUp)'
  BY <1>1, NextInv, NextLinkStates, NextLeadUp
<1>4. Inv /\ LeadUp => ExceptionsNarrowRules
  BY LeadUpNarrows DEF ExceptionsNarrowRules
<1> QED  BY <1>2, <1>3, <1>4, PTL DEF Spec

\* Between calls no router sends a packet to a port that is down, on every such
\* stack whose racks have one switch: entries are restored, cut and overridden
\* by longer ones so that what lookup finds is current, although entries that
\* it does not find may go on naming failed ports.
THEOREM FailedMasked ==
  ASSUME ClosInstance, OneChildPerReplica, Num[1] = 1
  PROVE  Spec => []NoFailedNextHop
<1>1. OnePathDown /\ SinglyHomed
  BY ClosOnePathDown, ClosSinglyHomed
<1>2. Init => Inv /\ LinkStates /\ LeadUp /\ Masked /\ HostsEmpty
  BY InitInv, InitLinkStates, InitLeadUp, InitMasked
<1>3. Inv /\ LinkStates /\ LeadUp /\ Masked /\ HostsEmpty /\ [Next]_vars
        => (Inv /\ LinkStates /\ LeadUp /\ Masked /\ HostsEmpty)'
  <2> SUFFICES ASSUME Inv, LinkStates, LeadUp, Masked, HostsEmpty, [Next]_vars
               PROVE  (Inv /\ LinkStates /\ LeadUp /\ Masked /\ HostsEmpty)'
    OBVIOUS
  <2>1. Inv' /\ LinkStates'
    BY NextInv, NextLinkStates
  <2>2. LeadUp'
    BY <1>1, NextLeadUp
  <2>3. (Masked /\ HostsEmpty)'
    BY <1>1, NextMasked
  <2> QED  BY <2>1, <2>2, <2>3
<1>4. Inv /\ LeadUp /\ Masked /\ HostsEmpty => NoFailedNextHop
  <2> SUFFICES ASSUME Inv, LeadUp, Masked, HostsEmpty, Idle,
                      NEW n \in Node, NEW dst \in HostAddress
               PROVE  NextHops(n, dst) \cap down[n] = {}
    BY DEF NoFailedNextHop
  <2> QED  BY <1>1, MaskedHops
<1> QED  BY <1>2, <1>3, <1>4, PTL DEF Spec
===============================================================================
