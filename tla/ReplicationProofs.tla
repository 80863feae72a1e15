------------------------------- MODULE ReplicationProofs -------------------------------
(***************************************************************************)
(* A replication gives every copy of a node the interface numbers of the   *)
(* original, and every interface is in one bucket.  A replication makes    *)
(* links level by level, dimension by dimension and node by node, and      *)
(* CopyPortSets copies the buckets of a level while links to the levels    *)
(* above are still missing; the numbers are right nevertheless, because    *)
(* the interfaces of every node come in just that order.                   *)
(***************************************************************************)
EXTENDS TopologyProofs

-----------------------------------------------------------------------------
(* Part 1: the calls of a replication come in the order of the links they copy. *)

\* Two sequences one after the other, element by element.
LEMMA ConcatAny ==
  ASSUME NEW s, NEW t, IsSequence(s), IsSequence(t)
  PROVE  /\ IsSequence(s \o t) /\ Len(s \o t) = Len(s) + Len(t)
         /\ \A i \in 1..Len(s) : (s \o t)[i] = s[i]
         /\ \A i \in 1..Len(t) : (s \o t)[Len(s) + i] = t[i]
<1> DEFINE R == {s[k] : k \in DOMAIN s}
           Q == {t[k] : k \in DOMAIN t}
           S == R \cup Q
<1>1. s \in Seq(R) /\ t \in Seq(Q) /\ R \subseteq S /\ Q \subseteq S
  BY DEF IsSequence
<1> HIDE DEF S, R, Q
<1>2. s \in Seq(S) /\ t \in Seq(S)
  BY <1>1, SeqMonotonic
<1>3. s \o t \in Seq(S) /\ Len(s \o t) = Len(s) + Len(t)
      /\ \A i \in 1..(Len(s) + Len(t)) : (s \o t)[i] = IF i <= Len(s) THEN s[i] ELSE t[i - Len(s)]
  BY <1>2, ConcatProperties
<1>4. IsSequence(s \o t) /\ Len(s) \in Nat /\ Len(t) \in Nat
  BY <1>2, <1>3, TypedSequence, SequenceType
<1>5. \A i \in 1..Len(s) : (s \o t)[i] = s[i]
  BY <1>3, <1>4
<1>6. ASSUME NEW i \in 1..Len(t)  PROVE (s \o t)[Len(s) + i] = t[i]
  <2>1. Len(s) + i \in 1..(Len(s) + Len(t)) /\ ~(Len(s) + i <= Len(s)) /\ (Len(s) + i) - Len(s) = i
    BY <1>4
  <2> QED  BY <1>3, <2>1
<1> QED  BY <1>3, <1>4, <1>5, <1>6

\* F tells for each element of w its place in the first n of some sequences, in their order.
Places(F, w, seqs, n) ==
  /\ \A i \in DOMAIN w : /\ F[i][1] \in 1..n /\ F[i][2] \in DOMAIN seqs[F[i][1]]
                         /\ w[i] = seqs[F[i][1]][F[i][2]]
  /\ \A k \in 1..n : \A m \in DOMAIN seqs[k] : \E i \in DOMAIN w : F[i] = <<k, m>>
  /\ \A i, j \in DOMAIN w : i < j =>
       F[i][1] < F[j][1] \/ (F[i][1] = F[j][1] /\ F[i][2] < F[j][2])

\* One more sequence at the end keeps the places of the others.
LEMMA PlacesExtend ==
  ASSUME NEW n \in Nat, NEW w, IsSequence(w), NEW seqs, IsSequence(seqs[n + 1]),
         NEW F, Places(F, w, seqs, n)
  PROVE  \E G : Places(G, w \o seqs[n + 1], seqs, n + 1)
<1>1. PICK s : s = seqs[n + 1]
  OBVIOUS
<1>2. PICK v : v = w \o s
  OBVIOUS
<1>3. /\ IsSequence(w) /\ IsSequence(s) /\ IsSequence(v) /\ Len(v) = Len(w) + Len(s)
      /\ \A i \in 1..Len(w) : v[i] = w[i]
      /\ \A i \in 1..Len(s) : v[Len(w) + i] = s[i]
  BY <1>1, <1>2, ConcatAny
<1>4. PICK a, b : a = Len(w) /\ b = Len(s)
  OBVIOUS
<1>5. a \in Nat /\ b \in Nat /\ DOMAIN w = 1..a /\ DOMAIN s = 1..b /\ DOMAIN v = 1..(a + b)
  BY <1>3, <1>4, SequenceType
<1> DEFINE G == [i \in 1..(a + b) |-> IF i <= a THEN F[i] ELSE <<n + 1, i - a>>]
<1>6. ASSUME NEW i \in 1..(a + b)
      PROVE  \/ i \in 1..a /\ G[i] = F[i] /\ v[i] = w[i]
             \/ i > a /\ i - a \in 1..b /\ G[i][1] = n + 1 /\ G[i][2] = i - a /\ v[i] = s[i - a]
  <2>1. CASE i <= a
    <3>1. i \in 1..a
      BY <1>5, <2>1
    <3> QED  BY <1>3, <1>4, <2>1, <3>1
  <2>2. CASE ~(i <= a)
    <3>1. i - a \in 1..b /\ a + (i - a) = i /\ i > a
      BY <1>5, <2>2
    <3>2. v[a + (i - a)] = s[i - a]
      BY <1>3, <1>4, <3>1
    <3>3. G[i] = <<n + 1, i - a>>
      BY <2>2
    <3> QED  BY <3>1, <3>2, <3>3
  <2> QED  BY <2>1, <2>2
<1> HIDE DEF G
<1>7. ASSUME NEW i \in 1..(a + b)
      PROVE  G[i][1] \in 1..(n + 1) /\ G[i][2] \in DOMAIN seqs[G[i][1]] /\ v[i] = seqs[G[i][1]][G[i][2]]
  <2>1. CASE i \in 1..a /\ G[i] = F[i] /\ v[i] = w[i]
    <3>1. /\ F[i][1] \in 1..n /\ F[i][2] \in DOMAIN seqs[F[i][1]] /\ w[i] = seqs[F[i][1]][F[i][2]]
      BY <1>5, <2>1 DEF Places
    <3>2. F[i][1] \in 1..(n + 1)
      BY <3>1
    <3> QED  BY <2>1, <3>1, <3>2
  <2>2. CASE i - a \in 1..b /\ G[i][1] = n + 1 /\ G[i][2] = i - a /\ v[i] = s[i - a]
    <3>1. n + 1 \in 1..(n + 1)
      OBVIOUS
    <3> QED  BY <1>1, <1>5, <2>2, <3>1
  <2> QED  BY <1>6, <2>1, <2>2
<1>8. ASSUME NEW k \in 1..(n + 1), NEW m \in DOMAIN seqs[k]
      PROVE  \E i \in 1..(a + b) : G[i] = <<k, m>>
  <2>1. CASE k \in 1..n
    <3>1. PICK i \in 1..a : F[i] = <<k, m>>
      BY <1>5, <2>1 DEF Places
    <3>2. i \in 1..(a + b) /\ i <= a
      BY <1>5
    <3>3. G[i] = F[i]
      BY <3>2 DEF G
    <3> QED  BY <3>1, <3>2, <3>3
  <2>2. CASE k = n + 1
    <3>1. m \in 1..b
      BY <1>1, <1>5, <2>2
    <3>2. a + m \in 1..(a + b) /\ ~(a + m <= a) /\ (a + m) - a = m
      BY <1>5, <3>1
    <3>3. G[a + m] = <<n + 1, m>>
      BY <3>2 DEF G
    <3> QED  BY <2>2, <3>2, <3>3
  <2>3. k \in 1..n \/ k = n + 1
    OBVIOUS
  <2> QED  BY <2>1, <2>2, <2>3
<1>9. ASSUME NEW i \in 1..(a + b), NEW j \in 1..(a + b), i < j
      PROVE  G[i][1] < G[j][1] \/ (G[i][1] = G[j][1] /\ G[i][2] < G[j][2])
  <2>1. CASE j \in 1..a /\ G[j] = F[j]
    <3>1. i \in 1..a /\ G[i] = F[i]
      BY <1>5, <1>6, <1>9, <2>1
    <3> QED  BY <1>5, <1>9, <2>1, <3>1 DEF Places
  <2>2. CASE j > a /\ G[j][1] = n + 1 /\ G[j][2] = j - a
    <3>1. CASE i \in 1..a /\ G[i] = F[i]
      <4>1. F[i][1] \in 1..n
        BY <1>5, <3>1 DEF Places
      <4> QED  BY <2>2, <3>1, <4>1
    <3>2. CASE i > a /\ G[i][1] = n + 1 /\ G[i][2] = i - a
      BY <1>5, <1>9, <2>2, <3>2
    <3> QED  BY <1>6, <3>1, <3>2
  <2> QED  BY <1>6, <2>1, <2>2
<1>10. Places(G, v, seqs, n + 1)
  <2>1. DOMAIN v = 1..(a + b)
    BY <1>5
  <2>2. \A i, j \in DOMAIN v : i < j =>
          G[i][1] < G[j][1] \/ (G[i][1] = G[j][1] /\ G[i][2] < G[j][2])
    BY <1>9, <2>1
  <2>3. \A k \in 1..(n + 1) : \A m \in DOMAIN seqs[k] : \E i \in DOMAIN v : G[i] = <<k, m>>
    BY <1>8, <2>1
  <2>4. \A i \in DOMAIN v : G[i][1] \in 1..(n + 1) /\ G[i][2] \in DOMAIN seqs[G[i][1]]
                             /\ v[i] = seqs[G[i][1]][G[i][2]]
    BY <1>7, <2>1
  <2> QED  BY <2>2, <2>3, <2>4, Zenon DEF Places
<1> QED  BY <1>1, <1>2, <1>10

\* The elements of a flattened sequence come in the order of its sequences, each in its order.
LEMMA FlattenPlaces ==
  ASSUME NEW seqs, IsSequence(seqs), \A k \in DOMAIN seqs : IsSequence(seqs[k])
  PROVE  /\ IsSequence(FlattenSeq(seqs))
         /\ \E F : Places(F, FlattenSeq(seqs), seqs, Len(seqs))
<1> DEFINE n == Len(seqs)
           S == UNION {{seqs[k][m] : m \in DOMAIN seqs[k]} : k \in DOMAIN seqs}
           Eq(f) == f = [i \in 1..n |-> IF i = 1 THEN seqs[i] ELSE f[i - 1] \o seqs[i]]
           W == CHOOSE f : Eq(f)
<1>1. n \in Nat /\ DOMAIN seqs = 1..n
  BY SequenceType
<1>2. \A k \in 1..n : seqs[k] \in Seq(S)
  <2> SUFFICES ASSUME NEW k \in 1..n  PROVE seqs[k] \in Seq(S)
    OBVIOUS
  <2> DEFINE R == {seqs[k][m] : m \in DOMAIN seqs[k]}
  <2>1. seqs[k] \in Seq(R) /\ R \subseteq S
    BY <1>1 DEF IsSequence
  <2> HIDE DEF R, S
  <2> QED  BY <2>1, SeqMonotonic
<1>3. ASSUME n # 0  PROVE \E f : Eq(f)
  <2> HIDE DEF S
  <2> DEFINE V == Seq(S)
             step == [k \in 1..(n - 1) |-> [v \in V |-> v \o seqs[k + 1]]]
  <2>1. seqs[1] \in V /\ n - 1 \in Nat
    BY <1>1, <1>2, <1>3
  <2>2. step \in [1..(n - 1) -> [V -> V]]
    <3> SUFFICES ASSUME NEW k \in 1..(n - 1), NEW v \in V  PROVE v \o seqs[k + 1] \in V
      OBVIOUS
    <3>1. seqs[k + 1] \in Seq(S)
      BY <1>1, <1>2
    <3> QED  BY <3>1, ConcatProperties
  <2>3. PICK f \in [0..(n - 1) -> V] : Recursion(f, seqs[1], step, n - 1)
    <3> HIDE DEF V, step, n
    <3> QED  BY <2>1, <2>2, RecursionExists
  <2> DEFINE g == [i \in 1..n |-> f[i - 1]]
  <2>4. ASSUME NEW i \in 1..n  PROVE g[i] = IF i = 1 THEN seqs[i] ELSE g[i - 1] \o seqs[i]
    <3>1. CASE i = 1
      <4>1. g[i] = f[0]
        BY <3>1
      <4> QED  BY <2>3, <3>1, <4>1 DEF Recursion
    <3>2. CASE i # 1
      <4>1. i - 1 \in 1..(n - 1) /\ (i - 1) + 1 = i /\ i - 1 \in 1..n /\ (i - 1) - 1 \in 0..(n - 1)
        BY <1>1, <3>2
      <4>2. g[i] = f[i - 1] /\ g[i - 1] = f[(i - 1) - 1]
        BY <4>1
      <4>3. f[i - 1] = step[i - 1][f[(i - 1) - 1]]
        <5> HIDE DEF step, n
        <5> QED  BY <2>3, <4>1 DEF Recursion
      <4>4. f[(i - 1) - 1] \in V
        <5> HIDE DEF V, n
        <5> QED  BY <2>3, <4>1
      <4>5. step[i - 1][f[(i - 1) - 1]] = f[(i - 1) - 1] \o seqs[i]
        BY <4>1, <4>4
      <4> QED  BY <3>2, <4>2, <4>3, <4>5
    <3> QED  BY <3>1, <3>2
  <2>5. Eq(g)
    BY <2>4
  <2> QED  BY <2>5
<1>4. ASSUME n # 0  PROVE FlattenSeq(seqs) = W[n]
  BY <1>4 DEF FlattenSeq
<1>5. ASSUME n # 0  PROVE IsSequence(W[n]) /\ \E F : Places(F, W[n], seqs, n)
  <2>1. Eq(W)
    <3> HIDE DEF Eq
    <3> QED  BY <1>3, <1>5
  <2> HIDE DEF S, W
  <2> DEFINE placed(m) == IsSequence(W[m]) /\ \E F : Places(F, W[m], seqs, m)
             T == {m \in Nat : m + 1 <= n => placed(m + 1)}
  <2>2. 0 \in T
    <3>1. W[1] = seqs[1]
      BY <1>1, <1>5, <2>1
    <3>2. IsSequence(seqs[1])
      BY <1>1, <1>5
    <3>3. PICK s : s = seqs[1]
      OBVIOUS
    <3> DEFINE F == [i \in DOMAIN s |-> <<1, i>>]
    <3>4. Len(s) \in Nat /\ DOMAIN s = 1..Len(s)
      BY <3>2, <3>3, SequenceType
    <3>5. \A i \in DOMAIN s : F[i] = <<1, i>> /\ F[i][1] = 1 /\ F[i][2] = i
      OBVIOUS
    <3> HIDE DEF F
    <3>6. Places(F, s, seqs, 1)
      <4>1. \A i \in DOMAIN s : /\ F[i][1] \in 1..1 /\ F[i][2] \in DOMAIN seqs[F[i][1]]
                                /\ s[i] = seqs[F[i][1]][F[i][2]]
        BY <3>3, <3>5
      <4>2. \A k \in 1..1 : \A m \in DOMAIN seqs[k] : \E i \in DOMAIN s : F[i] = <<k, m>>
        <5> SUFFICES ASSUME NEW k \in 1..1, NEW m \in DOMAIN seqs[k]
                     PROVE  \E i \in DOMAIN s : F[i] = <<k, m>>
          OBVIOUS
        <5>1. k = 1
          OBVIOUS
        <5>2. m \in DOMAIN s
          BY <3>3, <5>1
        <5> QED  BY <3>5, <5>1, <5>2
      <4>3. \A i, j \in DOMAIN s : i < j =>
              F[i][1] < F[j][1] \/ (F[i][1] = F[j][1] /\ F[i][2] < F[j][2])
        BY <3>5
      <4> QED  BY <4>1, <4>2, <4>3, Zenon DEF Places
    <3>7. placed(1)
      BY <3>1, <3>2, <3>3, <3>6
    <3> HIDE DEF placed
    <3> QED  BY <3>7
  <2>3. ASSUME NEW m \in T  PROVE m + 1 \in T
    <3> SUFFICES ASSUME (m + 1) + 1 <= n  PROVE placed((m + 1) + 1)
      OBVIOUS
    <3>1. m \in Nat /\ m + 1 \in 1..n /\ (m + 1) + 1 \in 1..n /\ (m + 1) + 1 # 1
          /\ ((m + 1) + 1) - 1 = m + 1
      <4> HIDE DEF placed
      <4> QED  BY <1>1
    <3>2. placed(m + 1)
      <4> HIDE DEF placed
      <4> QED  BY <1>1
    <3>3. W[(m + 1) + 1] = W[m + 1] \o seqs[(m + 1) + 1]
      <4> HIDE DEF n
      <4> QED  BY <2>1, <3>1
    <3>4. IsSequence(seqs[(m + 1) + 1])
      <4> HIDE DEF n
      <4> QED  BY <1>1, <3>1
    <3>5. PICK k, w : k = m + 1 /\ w = W[m + 1]
      OBVIOUS
    <3>6. k \in Nat /\ IsSequence(w) /\ IsSequence(seqs[k + 1]) /\ \E F : Places(F, w, seqs, k)
      BY <3>1, <3>2, <3>4, <3>5
    <3>7. \E F : Places(F, w \o seqs[k + 1], seqs, k + 1)
      BY <3>6, PlacesExtend
    <3>8. IsSequence(w \o seqs[k + 1])
      BY <3>6, ConcatAny
    <3> HIDE DEF T, n
    <3> QED  BY <3>3, <3>5, <3>7, <3>8
  <2>4. T = Nat
    <3> HIDE DEF T
    <3>1. T \subseteq Nat  BY DEF T
    <3> QED  BY <2>2, <2>3, <3>1, AllNumbers
  <2>5. n - 1 \in T /\ (n - 1) + 1 = n
    <3> HIDE DEF T
    <3> QED  BY <1>1, <1>5, <2>4
  <2>6. placed((n - 1) + 1)
    <3> HIDE DEF placed
    <3> QED  BY <2>5
  <2> QED  BY <2>5, <2>6
<1> HIDE DEF S, Eq, W
<1>6. CASE n # 0
  BY <1>4, <1>5, <1>6
<1>7. CASE n = 0
  <2>1. FlattenSeq(seqs) = seqs
    BY <1>7 DEF FlattenSeq
  <2>2. seqs = <<>> /\ DOMAIN seqs = {}
    BY <1>1, <1>7, EmptySeq DEF IsSequence
  <2>3. Places(<<>>, FlattenSeq(seqs), seqs, 0)
    BY <2>1, <2>2 DEF Places
  <2> QED  BY <1>7, <2>1, <2>3
<1> QED  BY <1>6, <1>7


\* f tells for each element of w which of the x it is: those of the places in P, in order.
Picks(f, w, P, x) ==
  /\ \A i \in DOMAIN w : f[i] \in P /\ w[i] = x[f[i]]
  /\ \A k \in P : \E i \in DOMAIN w : f[i] = k
  /\ \A i, j \in DOMAIN w : i < j => f[i] < f[j]

\* Making some of the elements and leaving the others out keeps the order of those made.
LEMMA ChosenInOrder ==
  ASSUME NEW n \in Nat, NEW P \in SUBSET (1..n), NEW x, NEW seqs, ChosenAt(seqs, n, P, x)
  PROVE  IsSequence(FlattenSeq(seqs)) /\ \E f : Picks(f, FlattenSeq(seqs), P, x)
<1>1. DOMAIN seqs = 1..n /\ seqs = [k \in 1..n |-> seqs[k]]
  BY DEF ChosenAt
<1>2. IsSequence(seqs) /\ Len(seqs) = n
  BY <1>1, SequenceOf
<1>3. \A k \in 1..n : seqs[k] = IF k \in P THEN <<x[k]>> ELSE <<>>
  BY DEF ChosenAt
<1>4. ASSUME NEW k \in 1..n
      PROVE  /\ IsSequence(seqs[k])
             /\ \A m \in DOMAIN seqs[k] : k \in P /\ seqs[k][m] = x[k] /\ m = 1
             /\ k \in P => 1 \in DOMAIN seqs[k]
  <2>1. CASE k \in P
    <3>1. seqs[k] = <<x[k]>>
      BY <1>3, <2>1
    <3>2. PICK e, y : e = <<y>> /\ y = x[k]
      OBVIOUS
    <3>3. IsSequence(e) /\ (\A m \in DOMAIN e : e[m] = y) /\ DOMAIN e = {1}
      <4>1. DOMAIN <<y>> = {1}
        OBVIOUS
      <4> QED  BY <3>2, <4>1, OneElement
    <3> QED  BY <2>1, <3>1, <3>2, <3>3
  <2>2. CASE k \notin P
    <3>1. seqs[k] = <<>>
      BY <1>3, <2>2
    <3> QED  BY <2>2, <3>1, EmptySequence
  <2> QED  BY <2>1, <2>2
<1>5. PICK s : s = seqs
  OBVIOUS
<1>6. IsSequence(FlattenSeq(s)) /\ \E F : Places(F, FlattenSeq(s), s, n)
  <2>1. IsSequence(s) /\ \A k \in DOMAIN s : IsSequence(s[k])
    BY <1>1, <1>2, <1>4, <1>5
  <2>2. IsSequence(FlattenSeq(s)) /\ \E F : Places(F, FlattenSeq(s), s, Len(s))
    BY <2>1, FlattenPlaces
  <2> QED  BY <1>2, <1>5, <2>2
<1>7. PICK w, F : w = FlattenSeq(s) /\ Places(F, w, s, n)
  BY <1>6
<1> DEFINE f == [i \in DOMAIN w |-> F[i][1]]
<1>8. ASSUME NEW i \in DOMAIN w  PROVE f[i] \in P /\ w[i] = x[f[i]] /\ F[i][2] = 1 /\ f[i] = F[i][1]
  <2>1. F[i][1] \in 1..n /\ F[i][2] \in DOMAIN s[F[i][1]] /\ w[i] = s[F[i][1]][F[i][2]]
    BY <1>7 DEF Places
  <2>2. PICK k, m : k = F[i][1] /\ m = F[i][2]
    OBVIOUS
  <2>3. k \in P /\ s[k][m] = x[k] /\ m = 1
    BY <1>4, <1>5, <2>1, <2>2
  <2> QED  BY <2>1, <2>2, <2>3
<1> HIDE DEF f
<1>9. ASSUME NEW k \in P  PROVE \E i \in DOMAIN w : f[i] = k
  <2>1. k \in 1..n /\ 1 \in DOMAIN s[k]
    BY <1>4, <1>5
  <2>2. PICK i \in DOMAIN w : F[i] = <<k, 1>>
    BY <1>7, <2>1 DEF Places
  <2>3. f[i] = k
    BY <1>8, <2>2
  <2> QED  BY <2>3
<1>10. ASSUME NEW i \in DOMAIN w, NEW j \in DOMAIN w, i < j  PROVE f[i] < f[j]
  <2>1. F[i][1] < F[j][1] \/ (F[i][1] = F[j][1] /\ F[i][2] < F[j][2])
    BY <1>7, <1>10 DEF Places
  <2>2. F[i][2] = 1 /\ F[j][2] = 1 /\ f[i] = F[i][1] /\ f[j] = F[j][1]
    BY <1>8
  <2> QED  BY <2>1, <2>2
<1>11. Picks(f, w, P, x)
  BY <1>8, <1>9, <1>10, Zenon DEF Picks
<1> QED  BY <1>5, <1>6, <1>7, <1>11

\* Places come in the order of their blocks.
LEMMA SlotsInOrder ==
  ASSUME NEW s \in Nat, NEW c \in Nat, NEW d \in Nat, NEW i \in 0..(s - 1), NEW j \in 0..(s - 1)
  PROVE  (c * s) + i < (d * s) + j <=> c < d \/ (c = d /\ i < j)
<1>1. ASSUME NEW e \in Nat, NEW g \in Nat, NEW u \in 0..(s - 1), NEW v \in 0..(s - 1), e < g
      PROVE  (e * s) + u < (g * s) + v
  <2>1. e + 1 \in Nat /\ e + 1 <= g
    BY <1>1
  <2>2. (e + 1) * s <= g * s /\ (e + 1) * s \in Nat /\ g * s \in Nat
    BY <2>1, TimesMonotone
  <2>3. (e + 1) * s = (e * s) + s /\ e * s \in Nat
    OBVIOUS
  <2> QED  BY <2>2, <2>3
<1>2. c * s \in Nat /\ d * s \in Nat /\ (c = d => c * s = d * s)
  OBVIOUS
<1>3. c < d => (c * s) + i < (d * s) + j
  BY <1>1
<1>4. d < c => (d * s) + j < (c * s) + i
  BY <1>1
<1> QED  BY <1>2, <1>3, <1>4

\* T runs through all its places, the first number slowest.
InLoopOrder(T, X, Y, Z) ==
  /\ \A x \in 0..(X - 1), y \in 0..(Y - 1), z \in 0..(Z - 1) :
       \E k \in DOMAIN T : T[k][1] = x /\ T[k][2] = y /\ T[k][3] = z
  /\ \A k, j \in DOMAIN T : k < j =>
       \/ T[k][1] < T[j][1]
       \/ T[k][1] = T[j][1] /\ T[k][2] < T[j][2]
       \/ T[k][1] = T[j][1] /\ T[k][2] = T[j][2] /\ T[k][3] < T[j][3]

\* Three nested loops run through their places in order.
LEMMA LoopsInOrder ==
  ASSUME NEW X \in Nat, NEW Y \in Nat, NEW Z \in Nat
  PROVE  InLoopOrder(Loops(X, Y, Z), X, Y, Z)
<1> DEFINE T == Loops(X, Y, Z)
           N == X * Y * Z
           s == Y * Z
<1>1. N \in Nat /\ s \in Nat /\ N = X * s /\ (Z = 0 => N = 0) /\ (Y = 0 => N = 0)
  OBVIOUS
<1>2. T = [k \in 1..N |-> <<(k - 1) \div s, ((k - 1) \div Z) % Y, (k - 1) % Z>>]
  BY DEF Loops
<1>3. DOMAIN T = 1..N
  BY <1>2
<1> HIDE DEF T, N, s
<1>4. ASSUME NEW k \in 1..N
      PROVE  /\ T[k][1] \in 0..(X - 1) /\ T[k][2] \in 0..(Y - 1) /\ T[k][3] \in 0..(Z - 1)
             /\ k - 1 = (((T[k][1] * Y) + T[k][2]) * Z) + T[k][3]
  <2>1. Y \in Nat \ {0} /\ Z \in Nat \ {0} /\ k - 1 \in Nat
    BY <1>1
  <2>2. PICK a, b, c, e, r : /\ a = (k - 1) \div s /\ e = (k - 1) \div Z /\ c = (k - 1) % Z
                          /\ b = e % Y /\ r = e \div Y
    OBVIOUS
  <2>3. k - 1 = (Z * e) + c /\ c \in 0..(Z - 1) /\ e \in Nat
    BY <2>1, <2>2, DivMod
  <2>4. e = (Y * r) + b /\ b \in 0..(Y - 1) /\ r \in Nat
    BY <2>1, <2>2, <2>3, DivMod
  <2>5. T[k] = <<a, b, c>>
    BY <1>2, <2>2
  <2>6. a \in 0..(X - 1)
    <3>1. InRange(Loops(X, Y, Z), X, Y, Z)
      BY LoopsInRange
    <3>2. T[k][1] \in 0..(X - 1)
      BY <1>3, <3>1 DEF T, InRange
    <3> QED  BY <2>5, <3>2
  <2>7. a = r
    <3>1. e * Z = Z * e /\ r * Y = Y * r
      BY <2>3, <2>4
    <3>2. k - 1 = (Z * ((Y * r) + b)) + c
      BY <2>3, <2>4
    <3>3. (Z * b) + c \in 0..(s - 1)
      <4>1. b \in 0..(Y - 1) /\ c \in 0..(Z - 1)
        BY <2>3, <2>4
      <4>2. (b * Z) + c \in 0..((Y * Z) - 1)
        BY <2>1, <4>1, Slot
      <4> QED  BY <2>1, <4>1, <4>2 DEF s
    <3>4. k - 1 = (r * s) + ((Z * b) + c)
      <4>1. Z * ((Y * r) + b) = (r * s) + (Z * b)
        BY <2>1, <2>4 DEF s
      <4>2. (r * s) \in Nat /\ Z * b \in Nat
        BY <2>1, <2>4, <1>1
      <4> QED  BY <2>3, <3>2, <4>1, <4>2
    <3>5. PICK u : u = (Z * b) + c
      OBVIOUS
    <3>6. s \in Nat \ {0} /\ u \in 0..(s - 1) /\ r \in Nat /\ k - 1 = (r * s) + u
      BY <1>1, <2>4, <3>3, <3>4, <3>5
    <3>7. k - 1 = (s * a) + ((k - 1) % s) /\ (k - 1) % s \in 0..(s - 1) /\ a \in Nat
      BY <2>1, <2>2, <3>6, DivMod
    <3>8. PICK v : v = (k - 1) % s
      OBVIOUS
    <3>9. (a * s) + v = (r * s) + u /\ v \in 0..(s - 1)
      BY <3>6, <3>7, <3>8
    <3>10. CASE a # r
      <4>1. (a * s) + v # (r * s) + u
        <5>1. a \in Nat /\ r \in Nat /\ s \in Nat
          BY <3>6, <3>7
        <5> QED  BY <3>6, <3>9, <3>10, <5>1, SlotsDiffer
      <4> QED  BY <3>9, <4>1
    <3> QED  BY <3>10
  <2>8. k - 1 = (((a * Y) + b) * Z) + c
    <3>1. (a * Y) + b = e /\ e * Z = Z * e
      BY <2>1, <2>3, <2>4, <2>7
    <3> QED  BY <2>3, <3>1
  <2> QED  BY <2>3, <2>4, <2>5, <2>6, <2>8
<1>5. ASSUME NEW x \in 0..(X - 1), NEW y \in 0..(Y - 1), NEW z \in 0..(Z - 1)
      PROVE  \E k \in 1..N : T[k][1] = x /\ T[k][2] = y /\ T[k][3] = z
  <2>1. (x * Y) + y \in 0..((X * Y) - 1)
    BY Slot
  <2>2. PICK u : u = (x * Y) + y
    OBVIOUS
  <2>3. X * Y \in Nat /\ u \in 0..((X * Y) - 1)
    BY <2>1, <2>2
  <2>4. PICK W : W = X * Y
    OBVIOUS
  <2>5. (u * Z) + z \in 0..((W * Z) - 1)
    BY <2>3, <2>4, Slot
  <2>6. PICK v : v = (u * Z) + z
    OBVIOUS
  <2>7. W * Z = N
    BY <2>4 DEF N
  <2>8. v + 1 \in 1..N /\ (v + 1) - 1 = v
    BY <1>1, <2>5, <2>6, <2>7
  <2>9. PICK a, b, c : a = T[v + 1][1] /\ b = T[v + 1][2] /\ c = T[v + 1][3]
    OBVIOUS
  <2>10. a \in 0..(X - 1) /\ b \in 0..(Y - 1) /\ c \in 0..(Z - 1) /\ v = (((a * Y) + b) * Z) + c
    BY <1>4, <2>8, <2>9
  <2>11. PICK e : e = (a * Y) + b
    OBVIOUS
  <2>12. a \in Nat /\ b \in Nat /\ x \in Nat /\ y \in Nat /\ e \in Nat /\ u \in Nat
    BY <2>2, <2>10, <2>11
  <2>13. (e * Z) + c = (u * Z) + z
    BY <2>6, <2>10, <2>11
  <2>14. e = u
    <3> SUFFICES ASSUME e # u  PROVE FALSE
      OBVIOUS
    <3>1. (e * Z) + c # (u * Z) + z
      BY <2>10, <2>12, SlotsDiffer
    <3> QED  BY <2>13, <3>1
  <2>15. c = z
    <3>1. e * Z \in Nat
      BY <2>12
    <3> QED  BY <2>10, <2>13, <2>14, <3>1
  <2>16. a = x
    <3> SUFFICES ASSUME a # x  PROVE FALSE
      OBVIOUS
    <3>1. (a * Y) + b # (x * Y) + y
      BY <2>10, <2>12, SlotsDiffer
    <3> QED  BY <2>2, <2>11, <2>14, <3>1
  <2>17. b = y
    <3>1. a * Y \in Nat
      BY <2>12
    <3> QED  BY <2>2, <2>10, <2>11, <2>14, <2>16, <3>1
  <2> QED  BY <2>8, <2>9, <2>15, <2>16, <2>17
<1>6. ASSUME NEW k \in 1..N, NEW j \in 1..N, k < j
      PROVE  \/ T[k][1] < T[j][1]
             \/ T[k][1] = T[j][1] /\ T[k][2] < T[j][2]
             \/ T[k][1] = T[j][1] /\ T[k][2] = T[j][2] /\ T[k][3] < T[j][3]
  <2>1. PICK a, b, c, e : a = T[k][1] /\ b = T[k][2] /\ c = T[k][3] /\ e = (a * Y) + b
    OBVIOUS
  <2>2. PICK x, y, z, u : x = T[j][1] /\ y = T[j][2] /\ z = T[j][3] /\ u = (x * Y) + y
    OBVIOUS
  <2>3. a \in 0..(X - 1) /\ b \in 0..(Y - 1) /\ c \in 0..(Z - 1) /\ k - 1 = (e * Z) + c
    BY <1>4, <2>1
  <2>4. x \in 0..(X - 1) /\ y \in 0..(Y - 1) /\ z \in 0..(Z - 1) /\ j - 1 = (u * Z) + z
    BY <1>4, <2>2
  <2>5. a \in Nat /\ x \in Nat /\ e \in Nat /\ u \in Nat
    BY <2>1, <2>2, <2>3, <2>4
  <2>6. (e * Z) + c < (u * Z) + z
    <3>1. k - 1 < j - 1
      BY <1>6, <1>1
    <3> QED  BY <2>3, <2>4, <3>1
  <2>7. e < u \/ (e = u /\ c < z)
    BY <2>3, <2>4, <2>5, <2>6, SlotsInOrder
  <2>8. CASE e < u
    <3>1. (a * Y) + b < (x * Y) + y
      BY <2>1, <2>2, <2>8
    <3>2. a < x \/ (a = x /\ b < y)
      BY <2>3, <2>4, <2>5, <3>1, SlotsInOrder
    <3> QED  BY <2>1, <2>2, <3>2
  <2>9. CASE e = u /\ c < z
    <3>1. a = x
      <4> SUFFICES ASSUME a # x  PROVE FALSE
        OBVIOUS
      <4>1. (a * Y) + b # (x * Y) + y
        BY <2>3, <2>4, <2>5, SlotsDiffer
      <4> QED  BY <2>1, <2>2, <2>9, <4>1
    <3>2. b = y
      <4>1. PICK w : w = a * Y
        OBVIOUS
      <4>2. w \in Nat /\ b \in Int /\ y \in Int
        BY <2>3, <2>4, <2>5, <4>1
      <4>3. w + b = w + y
        BY <2>1, <2>2, <2>9, <3>1, <4>1
      <4> QED  BY <4>2, <4>3
    <3> QED  BY <2>1, <2>2, <2>9, <3>1, <3>2
  <2> QED  BY <2>7, <2>8, <2>9
<1>7. T = Loops(X, Y, Z)
  BY DEF T
<1>8. InLoopOrder(T, X, Y, Z)
  <2>1. \A x \in 0..(X - 1), y \in 0..(Y - 1), z \in 0..(Z - 1) :
          \E k \in DOMAIN T : T[k][1] = x /\ T[k][2] = y /\ T[k][3] = z
    <3> SUFFICES ASSUME NEW x \in 0..(X - 1), NEW y \in 0..(Y - 1), NEW z \in 0..(Z - 1)
                 PROVE  \E k \in DOMAIN T : T[k][1] = x /\ T[k][2] = y /\ T[k][3] = z
      OBVIOUS
    <3>1. PICK k \in 1..N : T[k][1] = x /\ T[k][2] = y /\ T[k][3] = z
      BY <1>5
    <3> QED  BY <1>3, <3>1
  <2>2. \A k, j \in DOMAIN T : k < j =>
          \/ T[k][1] < T[j][1]
          \/ T[k][1] = T[j][1] /\ T[k][2] < T[j][2]
          \/ T[k][1] = T[j][1] /\ T[k][2] = T[j][2] /\ T[k][3] < T[j][3]
    BY <1>3, <1>6
  <2> QED  BY <2>1, <2>2, Zenon DEF InLoopOrder
<1> QED  BY <1>7, <1>8

-----------------------------------------------------------------------------
\* A link is known by its level, its dimension, the index of the node it was made from and
\* the number of the interface there.  This is also the order in which all links are made
\* anew in one copy.
Maker(u) == <<u[1], u[3]>>

\* The order in which a replication makes links anew: by level, dimension, node and interface.
Before(u, v) ==
  \/ u[1] < v[1]
  \/ u[1] = v[1] /\ u[2] < v[2]
  \/ u[1] = v[1] /\ u[2] = v[2] /\ u[3] < v[3]
  \/ u[1] = v[1] /\ u[2] = v[2] /\ u[3] = v[3] /\ u[4] < v[4]

\* Such a link exists.
MadeFrom(u) ==
  /\ u[4] \in DOMAIN devices[Maker(u)]
  /\ devices[Maker(u)][u[4]].first /\ devices[Maker(u)][u[4]].dim = u[2]

\* The call c makes link u anew, in copy k.
CopiesLink(c, u, k) ==
  /\ MadeFrom(u)
  /\ c.a = Copy(Maker(u), k) /\ c.b = Copy(devices[Maker(u)][u[4]].peer, k) /\ c.dim = u[2]
  /\ c.bucketA = NoBucket /\ c.bucketB = NoBucket

\* A link and the number of a copy.
Entry(e) == e = <<<<e[1][1], e[1][2], e[1][3], e[1][4]>>, e[2]>>

\* g[i] is the link that the i-th call copies, and the number of the copy.  The calls for
\* one copy come in the order in which the links were made.
CallsCopy(g, links, N) ==
  /\ \A i \in DOMAIN links :
       /\ Entry(g[i]) /\ Maker(g[i][1]) \in N /\ g[i][2] \in 1..(Template.copies - 1)
       /\ CopiesLink(links[i], g[i][1], g[i][2])
  /\ \A i, j \in DOMAIN links : i < j /\ g[i][2] = g[j][2] => Before(g[i][1], g[j][1])

\* The fields of a link.
LEMMA LinkFields ==
  ASSUME NEW a, NEW b, NEW d, NEW p, NEW q
  PROVE  /\ Link(a, b, d, p, q).a = a /\ Link(a, b, d, p, q).b = b /\ Link(a, b, d, p, q).dim = d
         /\ Link(a, b, d, p, q).bucketA = p /\ Link(a, b, d, p, q).bucketB = q
BY DEF Link

\* w makes the links of dimension d that node n made anew in copy c, in their order.
LinksAnew(w, f, n, d, c) ==
  /\ \A i \in DOMAIN w : CopiesLink(w[i], <<n[1], d, n[2], f[i]>>, c)
  /\ \A m \in DOMAIN devices[n] :
       devices[n][m].first /\ devices[n][m].dim = d => \E i \in DOMAIN w : f[i] = m
  /\ \A i, j \in DOMAIN w : i < j => f[i] < f[j]

\* The links made anew for one node come in the order of its interfaces.
LEMMA NodeCopiedInOrder ==
  ASSUME NEW n, n = <<n[1], n[2]>>, NEW d, NEW c, IsSequence(devices[n])
  PROVE  /\ IsSequence(CopiedLinks(n, d, c))
         /\ \E f : LinksAnew(CopiedLinks(n, d, c), f, n, d, c)
<1> DEFINE N == Len(devices[n])
           P == {m \in 1..N : devices[n][m].first /\ devices[n][m].dim = d}
           x == [m \in 1..N |-> Link(Copy(n, c), Copy(devices[n][m].peer, c), d,
                                     NoBucket, NoBucket)]
           seqs == [m \in 1..N |-> IF m \in P THEN <<x[m]>> ELSE <<>>]
<1>1. N \in Nat /\ DOMAIN devices[n] = 1..N
  BY SequenceType
<1>2. CopiedLinks(n, d, c) = FlattenSeq(seqs)
  BY <1>1 DEF CopiedLinks, OnlyIf
<1>3. P \in SUBSET (1..N)
  OBVIOUS
<1>4. \A m \in P : /\ devices[n][m].first /\ m \in DOMAIN devices[n] /\ devices[n][m].dim = d
                   /\ x[m].a = Copy(n, c) /\ x[m].b = Copy(devices[n][m].peer, c) /\ x[m].dim = d
                   /\ x[m].bucketA = NoBucket /\ x[m].bucketB = NoBucket
  BY <1>1, LinkFields
<1>5. \A m \in DOMAIN devices[n] : devices[n][m].first /\ devices[n][m].dim = d => m \in P
  BY <1>1
<1>6. ChosenAt(seqs, N, P, x)
  BY DEF ChosenAt
<1> HIDE DEF P, x, N, seqs
<1>7. PICK s, M, Q, y : s = seqs /\ M = N /\ Q = P /\ y = x
  OBVIOUS
<1>8. IsSequence(FlattenSeq(s)) /\ \E f : Picks(f, FlattenSeq(s), Q, y)
  <2>1. M \in Nat /\ Q \in SUBSET (1..M) /\ ChosenAt(s, M, Q, y)
    BY <1>1, <1>3, <1>6, <1>7
  <2> QED  BY <2>1, ChosenInOrder
<1>9. PICK w, f : w = FlattenSeq(s) /\ Picks(f, w, Q, y)
  BY <1>8
<1>10. \A i \in DOMAIN w : CopiesLink(w[i], <<n[1], d, n[2], f[i]>>, c)
  <2> SUFFICES ASSUME NEW i \in DOMAIN w  PROVE CopiesLink(w[i], <<n[1], d, n[2], f[i]>>, c)
    OBVIOUS
  <2>1. f[i] \in P /\ w[i] = x[f[i]]
    BY <1>7, <1>9 DEF Picks
  <2>2. PICK m, u : m = f[i] /\ u = <<n[1], d, n[2], m>>
    OBVIOUS
  <2>3. Maker(u) = n /\ u[4] = m /\ u[2] = d
    BY <2>2 DEF Maker
  <2>4. CopiesLink(w[i], u, c)
    BY <1>4, <2>1, <2>2, <2>3 DEF CopiesLink, MadeFrom
  <2> QED  BY <2>2, <2>4
<1>11. \A m \in P : \E i \in DOMAIN w : f[i] = m
  BY <1>7, <1>9 DEF Picks
<1>12. \A i, j \in DOMAIN w : i < j => f[i] < f[j]
  BY <1>9 DEF Picks
<1>13. w = CopiedLinks(n, d, c) /\ IsSequence(w)
  BY <1>2, <1>7, <1>8, <1>9
<1>14. LinksAnew(w, f, n, d, c)
  <2>1. \A m \in DOMAIN devices[n] :
          devices[n][m].first /\ devices[n][m].dim = d => \E i \in DOMAIN w : f[i] = m
    BY <1>5, <1>11
  <2> QED  BY <1>10, <1>12, <2>1, Zenon DEF LinksAnew
<1> QED  BY <1>13, <1>14

\* The nodes of the original block of a level.
Places0(l) == {<<l, k>> : k \in 0..(originalSize[l] - 1)}

\* The calls make all links anew that were made from nodes of the original block of level l.
AllCalled(g, w, l) ==
  \A x \in Places0(l), c \in 1..(Template.copies - 1) : \A m \in DOMAIN devices[x] :
    devices[x][m].first /\ devices[x][m].dim \in 0..dims[l] =>
      \E i \in DOMAIN w : g[i] = <<<<l, devices[x][m].dim, x[2], m>>, c>>

\* The calls of ReplicatedLinks, in every copy, come in the order of the links they copy.
LEMMA LevelCopiedInOrder ==
  ASSUME NEW l, dims[l] \in Nat, originalSize[l] \in Nat, Template.copies \in Nat \ {0},
         \A x \in Places0(l) : IsSequence(devices[x])
  PROVE  /\ IsSequence(ReplicatedLinks(l))
         /\ \E g : CallsCopy(g, ReplicatedLinks(l), Places0(l)) /\ AllCalled(g, ReplicatedLinks(l), l)
<1> DEFINE Z == originalSize[l]
           C == Template.copies
           D == dims[l] + 1
           N == D * (C - 1) * Z
           T == Loops(D, C - 1, Z)
           node(k) == <<l, T[k][3]>>
           part(k) == CopiedLinks(node(k), T[k][1], T[k][2] + 1)
           seqs == [k \in DOMAIN T |-> part(k)]
           good(k, h) == LinksAnew(part(k), h, node(k), T[k][1], T[k][2] + 1)
           f == [k \in 1..N |-> CHOOSE h : good(k, h)]
<1>1. ReplicatedLinks(l) = FlattenSeq(seqs)
  BY DEF ReplicatedLinks
<1>2. C - 1 \in Nat /\ D \in Nat /\ Z \in Nat /\ C \in Nat
  OBVIOUS
<1> HIDE DEF Z, C, D
<1>3. /\ N \in Nat /\ DOMAIN T = 1..N
      /\ \A k \in 1..N : T[k][1] \in 0..(D - 1) /\ T[k][2] \in 0..((C - 1) - 1) /\ T[k][3] \in 0..(Z - 1)
  <2>1. PICK Y : Y = C - 1
    OBVIOUS
  <2>2. /\ D * Y * Z \in Nat /\ DOMAIN Loops(D, Y, Z) = 1..(D * Y * Z)
        /\ \A k \in DOMAIN Loops(D, Y, Z) :
             /\ Loops(D, Y, Z)[k][1] \in 0..(D - 1) /\ Loops(D, Y, Z)[k][2] \in 0..(Y - 1)
             /\ Loops(D, Y, Z)[k][3] \in 0..(Z - 1)
    <3>1. Y \in Nat
      BY <1>2, <2>1
    <3> QED  BY <1>2, <3>1, LoopsRange, Zenon
  <2> QED  BY <2>1, <2>2
<1>4. InLoopOrder(T, D, C - 1, Z)
  <2>1. PICK Y : Y = C - 1
    OBVIOUS
  <2>2. InLoopOrder(Loops(D, Y, Z), D, Y, Z)
    BY <1>2, <2>1, LoopsInOrder
  <2> QED  BY <2>1, <2>2
<1> HIDE DEF T, N
<1>5. ASSUME NEW k \in 1..N
      PROVE  /\ node(k) \in Places0(l) /\ T[k][2] + 1 \in 1..(C - 1)
             /\ IsSequence(part(k)) /\ good(k, f[k])
  <2>1. node(k) \in Places0(l)
    BY <1>3 DEF Places0, Z
  <2>2. T[k][2] + 1 \in 1..(C - 1)
    <3>1. PICK m : m = T[k][2]
      OBVIOUS
    <3>2. m \in 0..((C - 1) - 1)
      BY <1>3, <3>1
    <3> QED  BY <1>2, <3>1, <3>2
  <2>3. PICK n, d, c : n = node(k) /\ d = T[k][1] /\ c = T[k][2] + 1
    OBVIOUS
  <2>4. IsSequence(devices[n]) /\ n = <<n[1], n[2]>>
    BY <2>1, <2>3
  <2>5. IsSequence(CopiedLinks(n, d, c)) /\ \E h : LinksAnew(CopiedLinks(n, d, c), h, n, d, c)
    BY <2>4, NodeCopiedInOrder, Zenon
  <2>6. \E h : good(k, h)
    BY <2>3, <2>5
  <2>7. f[k] = CHOOSE h : good(k, h)
    OBVIOUS
  <2>8. good(k, f[k])
    <3> HIDE DEF good, f
    <3> QED  BY <2>6, <2>7
  <2> QED  BY <2>1, <2>2, <2>3, <2>5, <2>8
<1>6. IsSequence(seqs) /\ Len(seqs) = N /\ DOMAIN seqs = 1..N /\ \A k \in 1..N : seqs[k] = part(k) /\ IsSequence(seqs[k])
  <2>1. DOMAIN seqs = 1..N /\ seqs = [k \in 1..N |-> seqs[k]] /\ \A k \in 1..N : seqs[k] = part(k)
    BY <1>3
  <2> HIDE DEF seqs, part, f, good
  <2>2. IsSequence(seqs) /\ Len(seqs) = N
    BY <1>3, <2>1, SequenceOf
  <2> QED  BY <1>5, <2>1, <2>2
<1> HIDE DEF seqs
<1>7. PICK s : s = seqs
  OBVIOUS
<1>8. IsSequence(FlattenSeq(s)) /\ \E F : Places(F, FlattenSeq(s), s, N)
  <2>1. IsSequence(s) /\ (\A k \in DOMAIN s : IsSequence(s[k])) /\ Len(s) = N
    BY <1>6, <1>7
  <2>2. IsSequence(FlattenSeq(s)) /\ \E F : Places(F, FlattenSeq(s), s, Len(s))
    BY <2>1, FlattenPlaces
  <2> QED  BY <2>1, <2>2
<1>9. PICK w, F : w = FlattenSeq(s) /\ Places(F, w, s, N)
  BY <1>8
<1> DEFINE key(k, m) == <<l, T[k][1], T[k][3], m>>
           g == [i \in DOMAIN w |-> <<key(F[i][1], f[F[i][1]][F[i][2]]), T[F[i][1]][2] + 1>>]
<1> HIDE DEF f
<1>10. ASSUME NEW i \in DOMAIN w
       PROVE  \E k \in 1..N : \E m \in DOMAIN part(k) :
                /\ F[i][1] = k /\ F[i][2] = m /\ g[i] = <<key(k, f[k][m]), T[k][2] + 1>>
                /\ CopiesLink(w[i], g[i][1], T[k][2] + 1)
  <2>1. PICK k, m : k = F[i][1] /\ m = F[i][2]
    OBVIOUS
  <2>2. k \in 1..N /\ m \in DOMAIN seqs[k] /\ w[i] = seqs[k][m]
    BY <1>7, <1>9, <2>1 DEF Places
  <2>3. m \in DOMAIN part(k) /\ w[i] = part(k)[m]
    <3> HIDE DEF part
    <3> QED  BY <1>6, <2>2
  <2>4. g[i] = <<key(k, f[k][m]), T[k][2] + 1>>
    BY <2>1
  <2>5. PICK u : u = key(k, f[k][m])
    OBVIOUS
  <2>6. g[i][1] = u
    BY <2>4, <2>5
  <2>7. CopiesLink(part(k)[m], u, T[k][2] + 1)
    <3>1. node(k)[1] = l /\ node(k)[2] = T[k][3]
      OBVIOUS
    <3> HIDE DEF part
    <3> QED  BY <1>5, <2>2, <2>3, <2>5, <3>1 DEF LinksAnew
  <2> HIDE DEF g, part, node, key
  <2> QED  BY <2>1, <2>2, <2>3, <2>4, <2>6, <2>7
<1> HIDE DEF g
<1>11. ASSUME NEW i \in DOMAIN w
       PROVE  /\ Entry(g[i]) /\ Maker(g[i][1]) \in Places0(l) /\ g[i][2] \in 1..(C - 1)
              /\ CopiesLink(w[i], g[i][1], g[i][2])
  <2>1. PICK k \in 1..N : \E m \in DOMAIN part(k) :
          g[i] = <<key(k, f[k][m]), T[k][2] + 1>> /\ CopiesLink(w[i], g[i][1], T[k][2] + 1)
    <3> HIDE DEF part, node, key
    <3> QED  BY <1>10
  <2>2. PICK m : g[i] = <<key(k, f[k][m]), T[k][2] + 1>> /\ CopiesLink(w[i], g[i][1], T[k][2] + 1)
    BY <2>1
  <2>3. g[i][1] = key(k, f[k][m]) /\ g[i][2] = T[k][2] + 1
    <3> HIDE DEF key
    <3> QED  BY <2>2
  <2>4. node(k) \in Places0(l) /\ T[k][2] + 1 \in 1..(C - 1)
    BY <1>5
  <2>5. Maker(g[i][1]) = node(k)
    BY <2>3 DEF Maker
  <2>6. Entry(g[i])
    BY <2>2 DEF Entry
  <2> HIDE DEF node, key
  <2> QED  BY <2>2, <2>3, <2>4, <2>5, <2>6
<1>12. ASSUME NEW i \in DOMAIN w, NEW j \in DOMAIN w, i < j, g[i][2] = g[j][2]
       PROVE  Before(g[i][1], g[j][1])
  <2>1. PICK k \in 1..N : \E m \in DOMAIN part(k) :
          F[i][1] = k /\ F[i][2] = m /\ g[i] = <<key(k, f[k][m]), T[k][2] + 1>>
    <3> HIDE DEF part, node, key
    <3> QED  BY <1>10
  <2>2. PICK m \in DOMAIN part(k) :
          F[i][1] = k /\ F[i][2] = m /\ g[i] = <<key(k, f[k][m]), T[k][2] + 1>>
    BY <2>1
  <2>3. PICK h \in 1..N : \E r \in DOMAIN part(h) :
          F[j][1] = h /\ F[j][2] = r /\ g[j] = <<key(h, f[h][r]), T[h][2] + 1>>
    <3> HIDE DEF part, node, key
    <3> QED  BY <1>10
  <2>4. PICK r \in DOMAIN part(h) :
          F[j][1] = h /\ F[j][2] = r /\ g[j] = <<key(h, f[h][r]), T[h][2] + 1>>
    BY <2>3
  <2>5. PICK u, v : u = g[i][1] /\ v = g[j][1]
    OBVIOUS
  <2>6. /\ u[1] = l /\ u[2] = T[k][1] /\ u[3] = T[k][3] /\ u[4] = f[k][m]
        /\ g[i][2] = T[k][2] + 1
    BY <2>2, <2>5
  <2>7. /\ v[1] = l /\ v[2] = T[h][1] /\ v[3] = T[h][3] /\ v[4] = f[h][r]
        /\ g[j][2] = T[h][2] + 1
    BY <2>4, <2>5
  <2>8. k < h \/ (k = h /\ m < r)
    BY <1>9, <1>12, <2>2, <2>4 DEF Places
  <2>9. CASE k < h
    <3>1. T[k][2] = T[h][2]
      <4>1. T[k][2] \in Int /\ T[h][2] \in Int
        BY <1>2, <1>3
      <4>2. T[k][2] + 1 = T[h][2] + 1
        BY <1>12, <2>6, <2>7
      <4> QED  BY <4>1, <4>2
    <3>2. T[k][1] < T[h][1] \/ (T[k][1] = T[h][1] /\ T[k][3] < T[h][3])
      <4>1. T[k][2] \in Int
        BY <1>2, <1>3
      <4>2. k \in DOMAIN T /\ h \in DOMAIN T
        BY <1>3
      <4> QED  BY <1>4, <2>9, <3>1, <4>1, <4>2 DEF InLoopOrder
    <3>3. Before(u, v)
      BY <2>6, <2>7, <3>2 DEF Before
    <3> QED  BY <2>5, <3>3
  <2>10. CASE k = h /\ m < r
    <3>1. f[k][m] < f[k][r]
      <4>1. good(k, f[k]) /\ r \in DOMAIN part(k)
        BY <1>5, <2>10
      <4>2. m \in DOMAIN part(k)
        BY <2>2
      <4> HIDE DEF part, node
      <4> QED  BY <2>10, <4>1, <4>2 DEF LinksAnew
    <3>2. Before(u, v)
      BY <2>6, <2>7, <2>10, <3>1 DEF Before
    <3> QED  BY <2>5, <3>2
  <2> QED  BY <2>8, <2>9, <2>10
<1>13. ASSUME NEW x \in Places0(l), NEW c \in 1..(C - 1), NEW m \in DOMAIN devices[x],
              devices[x][m].first, devices[x][m].dim \in 0..dims[l]
       PROVE  \E i \in DOMAIN w : g[i] = <<<<l, devices[x][m].dim, x[2], m>>, c>>
  <2>1. PICK z \in 0..(Z - 1) : x = <<l, z>>
    BY DEF Places0, Z
  <2>2. devices[x][m].dim \in 0..(D - 1) /\ c - 1 \in 0..((C - 1) - 1) /\ (c - 1) + 1 = c
    BY <1>2, <1>13 DEF D
  <2>3. PICK k \in 1..N : T[k][1] = devices[x][m].dim /\ T[k][2] = c - 1 /\ T[k][3] = z
    <3>1. PICK y : y = c - 1
      OBVIOUS
    <3>2. \E k \in DOMAIN T : T[k][1] = devices[x][m].dim /\ T[k][2] = y /\ T[k][3] = z
      BY <1>4, <2>2, <3>1 DEF InLoopOrder
    <3> QED  BY <1>3, <3>1, <3>2
  <2>4. node(k) = x
    BY <2>1, <2>3
  <2>5. \E i \in DOMAIN part(k) : f[k][i] = m
    <3>1. good(k, f[k])
      BY <1>5
    <3> HIDE DEF part, node
    <3> QED  BY <1>13, <2>3, <2>4, <3>1 DEF LinksAnew
  <2>6. PICK r \in DOMAIN part(k) : f[k][r] = m
    BY <2>5
  <2>7. r \in DOMAIN seqs[k]
    <3> HIDE DEF part
    <3> QED  BY <1>6, <2>6
  <2>8. PICK i \in DOMAIN w : F[i] = <<k, r>>
    BY <1>7, <1>9, <2>7 DEF Places
  <2>9. F[i][1] = k /\ F[i][2] = r
    BY <2>8
  <2>10. g[i] = <<key(k, f[k][r]), T[k][2] + 1>>
    BY <2>9 DEF g
  <2>11. g[i] = <<<<l, devices[x][m].dim, x[2], m>>, c>>
    <3>1. x[2] = z
      BY <2>1
    <3> QED  BY <2>2, <2>3, <2>6, <2>10, <3>1
  <2> QED  BY <2>11
<1>14. CallsCopy(g, w, Places0(l))
  BY <1>11, <1>12 DEF CallsCopy, C
<1>15. w = ReplicatedLinks(l) /\ IsSequence(w)
  BY <1>1, <1>7, <1>8, <1>9
<1>16. AllCalled(g, w, l)
  BY <1>13 DEF AllCalled, C
<1> QED  BY <1>14, <1>15, <1>16

-----------------------------------------------------------------------------
(* Part 2: the links of a template come in the order of the nodes they are made from. *)

\* Links made from nodes of level l, in the dimension d and with buckets at both ends.
TopLink(c, l, d) ==
  c.a[1] = l /\ c.dim = d /\ c.bucketA # NoBucket /\ c.bucketB # NoBucket

\* Such links, in the order of the nodes they are made from.
FromTop(links, l, d) ==
  /\ \A i \in DOMAIN links : TopLink(links[i], l, d)
  /\ \A i, j \in DOMAIN links : i < j => links[i].a[2] <= links[j].a[2]

\* The buckets that templates name are buckets.
LEMMA Buckets ==
  /\ Up # NoBucket /\ \A key : Down(key) # NoBucket
  /\ \A d, key : Same(d, key) # NoBucket
BY DEF Up, Down, Same, NoBucket

\* A link written down by a template is a TopLink.
LEMMA TopLinkOf ==
  ASSUME NEW l, NEW i, NEW b, NEW d, NEW p, NEW q, p # NoBucket, q # NoBucket
  PROVE  /\ TopLink(Link(<<l, i>>, b, d, p, q), l, d)
         /\ Link(<<l, i>>, b, d, p, q).a[2] = i
<1>1. PICK a : a = <<l, i>>
  OBVIOUS
<1>2. a[1] = l /\ a[2] = i
  BY <1>1
<1>3. /\ Link(a, b, d, p, q).a = a /\ Link(a, b, d, p, q).dim = d
      /\ Link(a, b, d, p, q).bucketA = p /\ Link(a, b, d, p, q).bucketB = q
  BY LinkFields
<1> QED  BY <1>1, <1>2, <1>3 DEF TopLink

\* Leaving links out keeps the order.
LEMMA ChosenFromTop ==
  ASSUME NEW n \in Nat, NEW P \in SUBSET (1..n), NEW y, NEW seqs, ChosenAt(seqs, n, P, y),
         NEW l, NEW d, \A k \in P : TopLink(y[k], l, d),
         \A k, j \in P : k < j => y[k].a[2] <= y[j].a[2]
  PROVE  FromTop(FlattenSeq(seqs), l, d)
<1>1. PICK w : w = FlattenSeq(seqs)
  OBVIOUS
<1>2. PICK f : Picks(f, w, P, y)
  BY <1>1, ChosenInOrder
<1>3. \A i \in DOMAIN w : f[i] \in P /\ w[i] = y[f[i]]
  BY <1>2 DEF Picks
<1>4. \A i, j \in DOMAIN w : i < j => f[i] < f[j]
  BY <1>2 DEF Picks
<1>5. FromTop(w, l, d)
  BY <1>3, <1>4 DEF FromTop
<1> QED  BY <1>1, <1>5

\* Nested loops run through the nodes in order when the outer two numbers make the node.
LEMMA LoopsRising ==
  ASSUME NEW X \in Nat, NEW Y \in Nat, NEW Z \in Nat,
         NEW k \in DOMAIN Loops(X, Y, Z), NEW j \in DOMAIN Loops(X, Y, Z), k < j
  PROVE  /\ Loops(X, Y, Z)[k][1] <= Loops(X, Y, Z)[j][1]
         /\ (Loops(X, Y, Z)[k][1] * Y) + Loops(X, Y, Z)[k][2]
              <= (Loops(X, Y, Z)[j][1] * Y) + Loops(X, Y, Z)[j][2]
<1>1. PICK T : T = Loops(X, Y, Z)
  OBVIOUS
<1>2. /\ T[k][1] \in 0..(X - 1) /\ T[k][2] \in 0..(Y - 1)
      /\ T[j][1] \in 0..(X - 1) /\ T[j][2] \in 0..(Y - 1)
  BY <1>1, LoopsRange
<1>3. InLoopOrder(T, X, Y, Z)
  BY <1>1, LoopsInOrder
<1>4. PICK a, b, c, d : a = T[k][1] /\ b = T[k][2] /\ c = T[j][1] /\ d = T[j][2]
  OBVIOUS
<1>5. a \in 0..(X - 1) /\ c \in 0..(X - 1) /\ b \in 0..(Y - 1) /\ d \in 0..(Y - 1)
  BY <1>2, <1>4
<1>6. a < c \/ (a = c /\ b < d) \/ (a = c /\ b = d)
  BY <1>1, <1>3, <1>4 DEF InLoopOrder
<1>7. a \in Nat /\ c \in Nat
  BY <1>5
<1>8. (a * Y) + b < (c * Y) + d <=> a < c \/ (a = c /\ b < d)
  BY <1>5, <1>7, SlotsInOrder
<1>9. (a * Y) + b <= (c * Y) + d
  <2>1. a * Y \in Nat /\ c * Y \in Nat /\ (a = c => a * Y = c * Y)
    BY <1>7
  <2> QED  BY <1>5, <1>6, <1>8, <2>1
<1>10. a <= c
  BY <1>6, <1>7
<1> QED  BY <1>1, <1>4, <1>9, <1>10

\* The links of one template each: made from the top level, in the order of the nodes.
LEMMA SameRankFromTop ==
  ASSUME NEW t, NEW l, NEW d, NEW B \in Nat \ {0}, t.copies \in Nat \ {0}, size[l] = t.copies * B
  PROVE  FromTop(SameRankLinks(t, l, d), l, d)
<1> DEFINE C == t.copies
           N == C * B * C
           T == Loops(C, B, C)
           P == {k \in 1..N : T[k][1] < T[k][3]}
           y == [k \in 1..N |-> Link(<<l, (T[k][1] * B) + T[k][2]>>, <<l, (T[k][3] * B) + T[k][2]>>, d,
                                     Same(d, T[k][3] + 1), Same(d, T[k][1] + 1))]
           seqs == [k \in 1..N |-> IF k \in P THEN <<y[k]>> ELSE <<>>]
<1>1. size[l] \div t.copies = B
  BY DivExact
<1>2. C \in Nat /\ B \in Nat /\ N \in Nat /\ DOMAIN T = 1..N
  <2>1. C \in Nat /\ B \in Nat
    OBVIOUS
  <2> HIDE DEF C
  <2>2. InRange(Loops(C, B, C), C, B, C)
    BY <2>1, LoopsInRange
  <2> QED  BY <2>1, <2>2 DEF InRange
<1>3. SameRankLinks(t, l, d) = FlattenSeq(seqs)
  BY <1>1, <1>2 DEF SameRankLinks, OnlyIf
<1>4. ChosenAt(seqs, N, P, y) /\ P \in SUBSET (1..N)
  BY DEF ChosenAt
<1>5. ASSUME NEW k \in 1..N
      PROVE  TopLink(y[k], l, d) /\ y[k].a[2] = (T[k][1] * B) + T[k][2]
  BY Buckets, TopLinkOf
<1>6. ASSUME NEW k \in 1..N, NEW j \in 1..N, k < j  PROVE y[k].a[2] <= y[j].a[2]
  <2>1. (T[k][1] * B) + T[k][2] <= (T[j][1] * B) + T[j][2]
    <3> HIDE DEF C, N
    <3> QED  BY <1>2, <1>6, LoopsRising
  <2> HIDE DEF y, T
  <2> QED  BY <1>5, <2>1
<1> HIDE DEF y, seqs, N
<1>7. \A k \in P : k \in 1..N
  OBVIOUS
<1> HIDE DEF P
<1>8. (\A k \in P : TopLink(y[k], l, d)) /\ \A k, j \in P : k < j => y[k].a[2] <= y[j].a[2]
  BY <1>5, <1>6, <1>7
<1>9. FromTop(FlattenSeq(seqs), l, d)
  BY <1>2, <1>4, <1>8, ChosenFromTop
<1> QED  BY <1>3, <1>9

LEMMA AbsoluteFromTop ==
  ASSUME NEW t, NEW l, NEW d, NEW B \in Nat \ {0}, t.copies \in Nat \ {0}, size[l] = t.copies * B,
         t.outLinks \in Nat \ {0}
  PROVE  FromTop(AbsoluteLinks(t, l, d), l, d)
<1> DEFINE C == t.copies
           h == t.outLinks
           N == C * B * h
           T == Loops(C, B, h)
           other(k) == h * T[k][2] + T[k][3] + 1
           P == {k \in 1..N : T[k][1] < other(k)}
           y == [k \in 1..N |-> Link(<<l, T[k][1] * B + T[k][2]>>,
                                     <<l, other(k) * B + (T[k][1] \div h)>>, d,
                                     Same(d, other(k) + 1), Same(d, T[k][1] + 1))]
           seqs == [k \in 1..N |-> IF k \in P THEN <<y[k]>> ELSE <<>>]
<1>1. size[l] \div t.copies = B
  BY DivExact
<1>2. C \in Nat /\ B \in Nat /\ h \in Nat /\ N \in Nat /\ DOMAIN T = 1..N
  <2>1. C \in Nat /\ B \in Nat /\ h \in Nat
    OBVIOUS
  <2> HIDE DEF C, h
  <2>2. C * B * h \in Nat /\ DOMAIN Loops(C, B, h) = 1..(C * B * h)
    BY <2>1, LoopsRange
  <2> QED  BY <2>1, <2>2
<1>3. AbsoluteLinks(t, l, d) = FlattenSeq(seqs)
  BY <1>1, <1>2 DEF AbsoluteLinks, OnlyIf
<1>4. ChosenAt(seqs, N, P, y) /\ P \in SUBSET (1..N)
  BY DEF ChosenAt
<1>5. ASSUME NEW k \in 1..N
      PROVE  TopLink(y[k], l, d) /\ y[k].a[2] = (T[k][1] * B) + T[k][2]
  BY Buckets, TopLinkOf
<1>6. ASSUME NEW k \in 1..N, NEW j \in 1..N, k < j  PROVE y[k].a[2] <= y[j].a[2]
  <2>1. (T[k][1] * B) + T[k][2] <= (T[j][1] * B) + T[j][2]
    <3> HIDE DEF C, N, h
    <3> QED  BY <1>2, <1>6, LoopsRising
  <2> HIDE DEF y, T
  <2> QED  BY <1>5, <2>1
<1> HIDE DEF y, seqs, N
<1>7. \A k \in P : k \in 1..N
  OBVIOUS
<1> HIDE DEF P
<1>8. (\A k \in P : TopLink(y[k], l, d)) /\ \A k, j \in P : k < j => y[k].a[2] <= y[j].a[2]
  BY <1>5, <1>6, <1>7
<1>9. FromTop(FlattenSeq(seqs), l, d)
  BY <1>2, <1>4, <1>8, ChosenFromTop
<1> QED  BY <1>3, <1>9

LEMMA TorusFromTop ==
  ASSUME NEW t, NEW l, NEW d, NEW B \in Nat \ {0}, t.copies \in Nat \ {0}, size[l] = t.copies * B
  PROVE  FromTop(TorusLinks(t, l, d), l, d)
<1> DEFINE C == t.copies
           N == C * B * 1
           T == Loops(C, B, 1)
           links == [k \in 1..N |-> Link(<<l, T[k][1] * B + T[k][2]>>,
                                         <<l, ((T[k][1] + 1) % C) * B + T[k][2]>>, d,
                                         Same(d, 1), Same(d, -1))]
<1>1. size[l] \div t.copies = B
  BY DivExact
<1>2. C \in Nat /\ B \in Nat /\ 1 \in Nat /\ DOMAIN T = 1..N
  <2>1. C \in Nat /\ B \in Nat /\ 1 \in Nat
    OBVIOUS
  <2> HIDE DEF C
  <2> QED  BY <2>1, LoopsRange
<1>3. TorusLinks(t, l, d) = links /\ DOMAIN links = 1..N
  BY <1>1, <1>2 DEF TorusLinks
<1>4. ASSUME NEW k \in 1..N
      PROVE  TopLink(links[k], l, d) /\ links[k].a[2] = (T[k][1] * B) + T[k][2]
  BY Buckets, TopLinkOf
<1>5. ASSUME NEW k \in 1..N, NEW j \in 1..N, k < j  PROVE links[k].a[2] <= links[j].a[2]
  <2>1. (T[k][1] * B) + T[k][2] <= (T[j][1] * B) + T[j][2]
    <3> HIDE DEF C, N
    <3> QED  BY <1>2, <1>5, LoopsRising
  <2> HIDE DEF links, T
  <2> QED  BY <1>4, <2>1
<1> HIDE DEF links, N
<1> QED  BY <1>3, <1>4, <1>5 DEF FromTop

LEMMA ServerFromTop ==
  ASSUME NEW t, NEW d, size[0] \in Nat \ {0}, t.perServer \in Nat \ {0}
  PROVE  FromTop(ServerLinks(t, d), 0, d)
<1> DEFINE E == t.perServer
           M == size[0] \div E
           N == M * E * E
           T == Loops(M, E, E)
           P == {k \in 1..N : T[k][2] < T[k][3]}
           y == [k \in 1..N |-> Link(<<0, T[k][1] * E + T[k][2]>>, <<0, T[k][1] * E + T[k][3]>>, d,
                                     Same(d, T[k][3] + 1), Same(d, T[k][2] + 1))]
           seqs == [k \in 1..N |-> IF k \in P THEN <<y[k]>> ELSE <<>>]
<1>1. M \in Nat /\ E \in Nat
  <2>1. size[0] \div E \in Nat
    BY DivMod
  <2> QED  BY <2>1
<1>2. N \in Nat /\ DOMAIN T = 1..N
  <2> HIDE DEF E, M
  <2> QED  BY <1>1, LoopsRange
<1>3. ServerLinks(t, d) = FlattenSeq(seqs)
  BY <1>2 DEF ServerLinks, OnlyIf
<1>4. ChosenAt(seqs, N, P, y) /\ P \in SUBSET (1..N)
  BY DEF ChosenAt
<1>5. ASSUME NEW k \in 1..N
      PROVE  TopLink(y[k], 0, d) /\ y[k].a[2] = (T[k][1] * E) + T[k][2]
  BY Buckets, TopLinkOf
<1>6. ASSUME NEW k \in 1..N, NEW j \in 1..N, k < j  PROVE y[k].a[2] <= y[j].a[2]
  <2>1. (T[k][1] * E) + T[k][2] <= (T[j][1] * E) + T[j][2]
    <3> HIDE DEF E, M, N
    <3> QED  BY <1>1, <1>2, <1>6, LoopsRising
  <2> HIDE DEF y, T
  <2> QED  BY <1>5, <2>1
<1> HIDE DEF y, seqs, N
<1>7. \A k \in P : k \in 1..N
  OBVIOUS
<1> HIDE DEF P
<1>8. (\A k \in P : TopLink(y[k], 0, d)) /\ \A k, j \in P : k < j => y[k].a[2] <= y[j].a[2]
  BY <1>5, <1>6, <1>7
<1>9. FromTop(FlattenSeq(seqs), 0, d)
  BY <1>2, <1>4, <1>8, ChosenFromTop
<1> QED  BY <1>3, <1>9

LEMMA RailFromTop ==
  ASSUME NEW t, size[0] \in Nat, size[1] \in Nat
  PROVE  FromTop(RailLinks(t), 1, 0)
<1> DEFINE N == size[1] * size[0] * 1
           T == Loops(size[1], size[0], 1)
           P == {k \in 1..N : RailSwitch(t, T[k][2]) = T[k][1]}
           key(host) == Fields(RailAddresses(t)[<<0, host>>], startBit[0] + 1, startBit[1])
           y == [k \in 1..N |-> Link(<<1, T[k][1]>>, <<0, T[k][2]>>, 0, Down(key(T[k][2])), Up)]
           seqs == [k \in 1..N |-> IF k \in P THEN <<y[k]>> ELSE <<>>]
<1>1. size[0] \in Nat /\ size[1] \in Nat /\ 1 \in Nat
  OBVIOUS
<1>2. N \in Nat /\ DOMAIN T = 1..N
  BY <1>1, LoopsRange
<1>3. RailLinks(t) = FlattenSeq(seqs)
  BY <1>2 DEF RailLinks, OnlyIf
<1>4. ChosenAt(seqs, N, P, y) /\ P \in SUBSET (1..N)
  BY DEF ChosenAt
<1> HIDE DEF key
<1>5. ASSUME NEW k \in 1..N
      PROVE  TopLink(y[k], 1, 0) /\ y[k].a[2] = T[k][1]
  BY Buckets, TopLinkOf
<1>6. ASSUME NEW k \in 1..N, NEW j \in 1..N, k < j  PROVE y[k].a[2] <= y[j].a[2]
  <2>1. T[k][1] <= T[j][1]
    <3> HIDE DEF N
    <3> QED  BY <1>1, <1>2, <1>6, LoopsRising
  <2> HIDE DEF y, T
  <2> QED  BY <1>5, <2>1
<1> HIDE DEF y, seqs, N
<1>7. \A k \in P : k \in 1..N
  OBVIOUS
<1> HIDE DEF P
<1>8. (\A k \in P : TopLink(y[k], 1, 0)) /\ \A k, j \in P : k < j => y[k].a[2] <= y[j].a[2]
  BY <1>5, <1>6, <1>7
<1>9. FromTop(FlattenSeq(seqs), 1, 0)
  BY <1>2, <1>4, <1>8, ChosenFromTop
<1> QED  BY <1>3, <1>9

LEMMA ClosFromTop ==
  ASSUME NEW t, NEW l, NEW B \in Nat \ {0}, t.copies \in Nat \ {0}, size[l - 1] = t.copies * B,
         t.nodes \in Nat \ {0}, t.groups \in Nat \ {0}
  PROVE  FromTop(ClosLinks(t, l), l, 0)
<1> DEFINE C == t.copies
           Z == B \div t.groups
           N == t.nodes * C * Z
           T == Loops(t.nodes, C, Z)
           child(x) == <<l - 1, x[2] * B + ParentsGroup(t, x[1]) * Z + x[3]>>
           key(n) == Fields(addr[n], startBit[l - 1] + 1, startBit[l])
           links == [k \in 1..N |-> Link(<<l, T[k][1]>>, child(T[k]), 0, Down(key(child(T[k]))), Up)]
<1>1. size[l - 1] \div t.copies = B
  BY DivExact
<1>2. t.nodes \in Nat /\ C \in Nat /\ Z \in Nat
  <2>1. B \div t.groups \in Nat
    BY DivMod
  <2> QED  BY <2>1
<1>3. DOMAIN T = 1..N
  <2> HIDE DEF C, Z
  <2> QED  BY <1>2, LoopsRange
<1>4. ClosLinks(t, l) = links /\ DOMAIN links = 1..N
  BY <1>1, <1>3 DEF ClosLinks
<1> HIDE DEF key, child
<1>5. ASSUME NEW k \in 1..N  PROVE TopLink(links[k], l, 0) /\ links[k].a[2] = T[k][1]
  BY Buckets, TopLinkOf
<1>6. ASSUME NEW k \in 1..N, NEW j \in 1..N, k < j  PROVE links[k].a[2] <= links[j].a[2]
  <2>1. T[k][1] <= T[j][1]
    <3> HIDE DEF C, Z, N
    <3> QED  BY <1>2, <1>3, <1>6, LoopsRising
  <2> HIDE DEF links, T
  <2> QED  BY <1>5, <2>1
<1> HIDE DEF links, N
<1> QED  BY <1>4, <1>5, <1>6 DEF FromTop

\* The links of every template.
LEMMA TemplateFromTop ==
  ASSUME SizeInv, stage = "create", Template.nodes > 0 => dims[Top] = 0
  PROVE  FromTop(TemplateLinks(Template, Top, dims[Top]), Top, dims[Top])
<1> DEFINE t == Template
           B == TopSizes(recipe)[built]
           links == TemplateLinks(t, Top, dims[Top])
<1>1. /\ B \in Nat \ {0} /\ t.copies \in Nat \ {0} /\ size[Top] \in Nat \ {0}
      /\ t.kind \in {"Clos", "Rail"} =>
           size[Top - 1] = t.copies * B /\ size[Top - 1] \in Nat \ {0} /\ t.nodes \in Nat \ {0}
      /\ t.kind = "Clos" => t.groups \in Nat \ {0}
      /\ t.kind = "Rail" => Top = 1
      /\ t.kind = "Server" => t.perServer \in Nat \ {0} /\ Top = 0
      /\ t.kind \in {"Full", "Torus"} => size[Top] = t.copies * B
      /\ t.kind = "Full" => t.arrangement \in {"Absolute", "SameRank"}
      /\ t.kind = "Full" /\ t.arrangement = "Absolute" => t.outLinks \in Nat \ {0}
  BY ConnectReads
<1>2. Top \in Nat /\ t.kind \in {"Clos", "Rail", "Server", "Full", "Torus"}
  BY TemplateRead DEF SizeInv
<1>3. t.kind \in {"Clos", "Rail"} => dims[Top] = 0
  BY <1>1
<1> HIDE DEF t, B
<1>4. CASE t.kind = "Clos"
  <2>1. links = ClosLinks(t, Top)
    BY <1>4 DEF TemplateLinks
  <2>2. FromTop(ClosLinks(t, Top), Top, 0)
    BY <1>1, <1>4, ClosFromTop
  <2> HIDE DEF links
  <2> QED  BY <1>3, <1>4, <2>1, <2>2 DEF links, t
<1>5. CASE t.kind = "Rail"
  <2>1. links = RailLinks(t)
    BY <1>5 DEF TemplateLinks
  <2>2. size[0] \in Nat /\ size[1] \in Nat /\ Top = 1
    BY <1>1, <1>5
  <2>3. FromTop(RailLinks(t), 1, 0)
    BY <2>2, RailFromTop
  <2> HIDE DEF links
  <2> QED  BY <1>3, <1>5, <2>1, <2>2, <2>3 DEF links, t
<1>6. CASE t.kind = "Server"
  <2>1. links = ServerLinks(t, dims[Top])
    BY <1>6 DEF TemplateLinks
  <2>2. size[0] \in Nat \ {0} /\ t.perServer \in Nat \ {0} /\ Top = 0
    BY <1>1, <1>6
  <2>3. FromTop(ServerLinks(t, dims[Top]), 0, dims[Top])
    BY <2>2, ServerFromTop
  <2> HIDE DEF links
  <2> QED  BY <2>1, <2>2, <2>3 DEF links, t
<1>7. CASE t.kind = "Full" /\ t.arrangement = "Absolute"
  <2>1. links = AbsoluteLinks(t, Top, dims[Top])
    BY <1>7 DEF TemplateLinks
  <2>2. FromTop(AbsoluteLinks(t, Top, dims[Top]), Top, dims[Top])
    BY <1>1, <1>7, AbsoluteFromTop
  <2> HIDE DEF links
  <2> QED  BY <2>1, <2>2 DEF links, t
<1>8. CASE t.kind = "Full" /\ t.arrangement = "SameRank"
  <2>1. links = SameRankLinks(t, Top, dims[Top])
    BY <1>8 DEF TemplateLinks
  <2>2. FromTop(SameRankLinks(t, Top, dims[Top]), Top, dims[Top])
    BY <1>1, <1>8, SameRankFromTop
  <2> HIDE DEF links
  <2> QED  BY <2>1, <2>2 DEF links, t
<1>9. CASE t.kind = "Torus"
  <2>1. links = TorusLinks(t, Top, dims[Top])
    BY <1>9 DEF TemplateLinks
  <2>2. FromTop(TorusLinks(t, Top, dims[Top]), Top, dims[Top])
    BY <1>1, <1>9, TorusFromTop
  <2> HIDE DEF links
  <2> QED  BY <2>1, <2>2 DEF links, t
<1> QED  BY <1>1, <1>2, <1>4, <1>5, <1>6, <1>7, <1>8, <1>9

-----------------------------------------------------------------------------
(* Part 3: copies and originals. *)

\* The nodes of the block that the replication copies.
Block == {n \in TopoNode : n[2] < originalSize[n[1]]}

\* A template that has copied a level makes copies.
LEMMA CopiesCount ==
  ASSUME SizeInv, Replicating, NEW l \in Nat, Copied(l)
  PROVE  Template.copies \in Nat /\ Template.copies > 1 /\ built < Len(recipe)
<1>1. level \in Int /\ recipe \in Recipes /\ built \in 0..Len(recipe)
  BY DEF SizeInv
<1>2. stage = "wire" \/ level > 0
  BY <1>1 DEF Copied
<1>3. built < Len(recipe) /\ Template.copies > 1
  BY <1>2 DEF SizeInv
<1> QED  BY <1>1, <1>3, TemplateRead

\* The nodes of the topology and of the block are those of their sizes.
LEMMA BlockNodes ==
  ASSUME TopologyInv
  PROVE  /\ Top \in Nat /\ DOMAIN size = 0..Top /\ AreNodes(TopoNode, size, Top)
         /\ \A l \in 0..Top : originalSize[l] \in Nat \ {0} /\ dims[l] \in Nat
                              /\ originalSize[l] <= size[l] /\ size[l] \in Nat
         /\ AreNodes(Block, originalSize, Top)
<1>1. /\ Top \in Nat /\ DOMAIN size = 0..Top
      /\ \A l \in 0..Top : /\ originalSize[l] \in Nat \ {0} /\ dims[l] \in Nat
                           /\ size[l] = IF Replicating /\ Copied(l)
                                        THEN Template.copies * originalSize[l] ELSE originalSize[l]
  BY DEF TopologyInv, SizeInv
<1>2. AreNodes(TopoNode, size, Top)
  BY <1>1, TopologyNodes DEF TopologyInv, LinkInv
<1>3. Replicating /\ (\E l \in 0..Top : Copied(l)) => Template.copies \in Nat \ {0}
  <2> SUFFICES ASSUME Replicating, NEW l \in 0..Top, Copied(l)  PROVE Template.copies \in Nat \ {0}
    OBVIOUS
  <2>1. l \in Nat
    BY <1>1
  <2>2. Template.copies \in Nat /\ Template.copies > 1
    BY <2>1, CopiesCount DEF TopologyInv
  <2> QED  BY <2>2
<1>4. ASSUME NEW l \in 0..Top
      PROVE  originalSize[l] \in Nat \ {0} /\ originalSize[l] <= size[l] /\ size[l] \in Nat
  <2>1. CASE Replicating /\ Copied(l)
    <3>1. PICK C, s : C = Template.copies /\ s = originalSize[l]
      OBVIOUS
    <3>2. C \in Nat /\ s \in Nat /\ 1 \in Nat /\ 1 <= C /\ size[l] = C * s
      BY <1>1, <1>3, <2>1, <3>1
    <3>3. 1 * s <= C * s /\ C * s \in Nat /\ 1 * s = s
      BY <3>2, TimesMonotone
    <3> QED  BY <1>1, <3>1, <3>2, <3>3
  <2>2. CASE ~(Replicating /\ Copied(l))
    BY <1>1, <2>2
  <2> QED  BY <2>1, <2>2
<1>5. AreNodes(Block, originalSize, Top)
  <2>1. ASSUME NEW n \in Block
        PROVE  n = <<n[1], n[2]>> /\ n[1] \in 0..Top /\ n[2] \in 0..(originalSize[n[1]] - 1)
    <3>1. n \in TopoNode /\ n[2] < originalSize[n[1]]
      BY DEF Block
    <3>2. n = <<n[1], n[2]>> /\ n[1] \in 0..Top /\ n[2] \in 0..(size[n[1]] - 1)
      BY <1>2, <3>1 DEF AreNodes
    <3> QED  BY <1>4, <3>1, <3>2
  <2>2. ASSUME NEW l \in 0..Top, NEW k \in 0..(originalSize[l] - 1)  PROVE <<l, k>> \in Block
    <3>1. k \in 0..(size[l] - 1) /\ k < originalSize[l]
      BY <1>4
    <3>2. <<l, k>> \in TopoNode
      BY <1>2, <3>1 DEF AreNodes
    <3>3. PICK n : n = <<l, k>>
      OBVIOUS
    <3>4. n[1] = l /\ n[2] = k
      BY <3>3
    <3> QED  BY <3>1, <3>2, <3>3, <3>4 DEF Block
  <2> QED  BY <2>1, <2>2 DEF AreNodes
<1> QED  BY <1>1, <1>2, <1>4, <1>5

\* While nothing is replicated all nodes are in the block.
LEMMA WholeBlock ==
  ASSUME TopologyInv, ~Replicating \/ (stage = "replicate" /\ level = 0)
  PROVE  Block = TopoNode
<1>1. ASSUME NEW n \in TopoNode  PROVE n[2] < originalSize[n[1]]
  <2>1. n[1] \in 0..Top /\ n[2] \in 0..(size[n[1]] - 1) /\ originalSize[n[1]] \in Nat
    BY BlockNodes DEF AreNodes
  <2>2. ~(Replicating /\ Copied(n[1]))
    BY <2>1 DEF Copied
  <2>3. size[n[1]] = originalSize[n[1]]
    BY <2>1, <2>2 DEF TopologyInv, SizeInv
  <2> QED  BY <2>1, <2>3
<1> QED  BY <1>1 DEF Block

\* The copies of the nodes of the block are nodes outside it, all different.
LEMMA CopyNodes ==
  ASSUME TopologyInv, Replicating, NEW o \in Block, Copied(o[1]), NEW c \in 1..(Template.copies - 1)
  PROVE  /\ Copy(o, c) \in TopoNode \ Block /\ Copy(o, c)[1] = o[1]
         /\ Template.copies \in Nat /\ o = <<o[1], o[2]>> /\ o[1] \in 0..Top
<1>1. /\ o = <<o[1], o[2]>> /\ o[1] \in 0..Top /\ o[2] \in 0..(originalSize[o[1]] - 1)
      /\ originalSize[o[1]] \in Nat \ {0}
  BY BlockNodes DEF AreNodes
<1>2. o[1] \in Nat
  BY <1>1, BlockNodes
<1>4. Template.copies \in Nat
  BY <1>2, CopiesCount DEF TopologyInv
<1>5. size[o[1]] = Template.copies * originalSize[o[1]]
  BY <1>1 DEF TopologyInv, SizeInv
<1>6. PICK C, n : C = Template.copies /\ n = Copy(o, c)
  OBVIOUS
<1>7. /\ n = <<o[1], n[2]>> /\ n[1] = o[1] /\ n[2] \in 0..((C * originalSize[o[1]]) - 1)
      /\ n[2] >= originalSize[o[1]]
  BY <1>1, <1>4, <1>6, CopyPlaced
<1>8. n[2] \in 0..(size[o[1]] - 1) /\ ~(n[2] < originalSize[o[1]])
  BY <1>1, <1>5, <1>6, <1>7
<1>9. n \in TopoNode
  BY <1>1, <1>7, <1>8, BlockNodes DEF AreNodes
<1>10. n \notin Block
  BY <1>7, <1>8 DEF Block
<1> QED  BY <1>1, <1>4, <1>6, <1>7, <1>9, <1>10

\* A node is a copy of one node only.
LEMMA CopiesDiffer ==
  ASSUME TopologyInv, NEW o \in Block, NEW r \in Block, NEW c \in Nat, NEW d \in Nat,
         Copy(o, c) = Copy(r, d)
  PROVE  o = r /\ c = d
<1>1. /\ o = <<o[1], o[2]>> /\ o[1] \in 0..Top /\ o[2] \in 0..(originalSize[o[1]] - 1)
      /\ r = <<r[1], r[2]>> /\ r[1] \in 0..Top /\ r[2] \in 0..(originalSize[r[1]] - 1)
      /\ originalSize[o[1]] \in Nat
  BY BlockNodes DEF AreNodes
<1>2. /\ o[1] = r[1]
      /\ c * originalSize[o[1]] + o[2] = d * originalSize[r[1]] + r[2]
  BY DEF Copy
<1>3. PICK s, i, j : s = originalSize[o[1]] /\ i = o[2] /\ j = r[2]
  OBVIOUS
<1>4. s \in Nat /\ i \in 0..(s - 1) /\ j \in 0..(s - 1)
  BY <1>1, <1>2, <1>3
<1>5. (c * s) + i = (d * s) + j
  BY <1>2, <1>3
<1>6. c = d
  BY <1>4, <1>5, SlotsDiffer
<1>7. i = j
  <2>1. c * s \in Nat /\ d * s = c * s
    BY <1>4, <1>6
  <2> QED  BY <1>4, <1>5, <2>1
<1> QED  BY <1>1, <1>2, <1>3, <1>6, <1>7

\* Every node outside the block is a copy, of its original.
LEMMA NodeIsCopy ==
  ASSUME TopologyInv, NEW n \in TopoNode
  PROVE  /\ n[2] \div originalSize[n[1]] \in Nat /\ Original(n) \in Block
         /\ n = Copy(Original(n), n[2] \div originalSize[n[1]]) /\ Original(n)[1] = n[1]
         /\ n \in Block => Original(n) = n /\ n[2] \div originalSize[n[1]] = 0
         /\ n \notin Block =>
              Replicating /\ Copied(n[1]) /\ n[2] \div originalSize[n[1]] \in 1..(Template.copies - 1)
<1>1. /\ n = <<n[1], n[2]>> /\ n[1] \in 0..Top /\ n[2] \in 0..(size[n[1]] - 1) /\ n[2] \in Nat
      /\ originalSize[n[1]] \in Nat \ {0} /\ size[n[1]] \in Nat
  BY BlockNodes DEF AreNodes
<1>2. PICK s, k, q, i : s = originalSize[n[1]] /\ k = n[2] /\ q = k \div s /\ i = k % s
  OBVIOUS
<1>3. s \in Nat \ {0} /\ k \in Nat
  BY <1>1, <1>2
<1>4. k = (s * q) + i /\ i \in 0..(s - 1) /\ q \in Nat
  BY <1>2, <1>3, DivMod
<1>5. s * q = q * s /\ q * s \in Nat
  BY <1>3, <1>4
<1>6. PICK o : o = Original(n)
  OBVIOUS
<1>7. o = <<n[1], i>> /\ o[1] = n[1] /\ o[2] = i
  BY <1>2, <1>6 DEF Original
<1>8. o \in Block
  BY <1>1, <1>2, <1>4, <1>7, BlockNodes DEF AreNodes
<1>9. n = Copy(o, q)
  <2>1. Copy(o, q) = <<n[1], q * s + i>>
    BY <1>2, <1>7 DEF Copy
  <2>2. (q * s) + i = k
    BY <1>4, <1>5
  <2> QED  BY <1>1, <1>2, <2>1, <2>2
<1>10. n \in Block => q = 0 /\ o = n
  <2> SUFFICES ASSUME n \in Block  PROVE q = 0 /\ o = n
    OBVIOUS
  <2>1. k < s
    BY <1>2 DEF Block
  <2>2. q > 0 => 1 * s <= q * s /\ 1 * s = s
    <3> SUFFICES ASSUME q > 0  PROVE 1 * s <= q * s /\ 1 * s = s
      OBVIOUS
    <3>1. 1 \in Nat /\ 1 <= q /\ q \in Nat /\ s \in Nat
      BY <1>3, <1>4
    <3> QED  BY <3>1, TimesMonotone
  <2>3. q = 0
    BY <1>3, <1>4, <1>5, <2>1, <2>2
  <2>4. i = k
    BY <1>3, <1>4, <1>5, <2>3
  <2> QED  BY <1>1, <1>2, <1>7, <2>3, <2>4
<1>11. n \notin Block => Replicating /\ Copied(n[1]) /\ q \in 1..(Template.copies - 1)
  <2> SUFFICES ASSUME n \notin Block
               PROVE  Replicating /\ Copied(n[1]) /\ q \in 1..(Template.copies - 1)
    OBVIOUS
  <2>1. k >= s
    BY <1>2, <1>3 DEF Block
  <2>2. Replicating /\ Copied(n[1]) /\ size[n[1]] = Template.copies * s
    <3>1. size[n[1]] # s
      BY <1>1, <1>2, <2>1
    <3> QED  BY <1>1, <1>2, <3>1 DEF TopologyInv, SizeInv
  <2>3. Template.copies \in Nat
    <3>1. n[1] \in Nat
      BY <1>1, BlockNodes
    <3> QED  BY <2>2, <3>1, CopiesCount DEF TopologyInv
  <2>4. PICK C : C = Template.copies
    OBVIOUS
  <2>5. k < C * s /\ C \in Nat /\ C * s \in Nat
    <3>1. C \in Nat
      BY <2>3, <2>4
    <3>2. C * s \in Nat
      BY <1>3, <3>1
    <3> QED  BY <1>1, <1>2, <2>2, <2>4, <3>1, <3>2
  <2>6. q \in 0..(C - 1)
    BY <1>2, <1>3, <2>5, DivBelow
  <2>7. q # 0
    <3> SUFFICES ASSUME q = 0  PROVE FALSE
      OBVIOUS
    <3>1. q * s = 0
      BY <1>3
    <3> QED  BY <1>3, <1>4, <1>5, <2>1, <3>1
  <2> QED  BY <2>2, <2>4, <2>5, <2>6, <2>7
<1> QED  BY <1>2, <1>4, <1>6, <1>7, <1>8, <1>9, <1>10, <1>11

-----------------------------------------------------------------------------
(* Part 4: the invariant of the interfaces. *)

\* u names the link at interface p of node n, which is one of the nodes B.  M names all links, by
\* node and interface.
Names(M, u, n, p, B) ==
  /\ u \in Nat \X Nat \X Nat \X Nat /\ Maker(u) \in B /\ MadeFrom(u)
  /\ u[2] <= dims[u[1]] /\ devices[n][p].dim = u[2]
  /\ devices[n][p].first =>
       /\ u = <<n[1], u[2], n[2], p>>
       /\ \E q \in DOMAIN devices[devices[n][p].peer] : M[devices[n][p].peer][q] = u
  /\ ~devices[n][p].first => devices[n][p].peer = Maker(u) /\ devices[Maker(u)][u[4]].peer = n

\* The interfaces of a node come in the order in which a replication makes their links anew.
LinksNamed(M, n, B) ==
  /\ \A p \in DOMAIN devices[n] : Names(M, M[n][p], n, p, B)
  /\ \A p, q \in DOMAIN devices[n] : p < q => Before(M[n][p], M[n][q])

\* Link u is still to be made anew in copy c.
Pending(g, u, c) == \E k \in DOMAIN calls : g[k] = <<u, c>>

\* Copy c of o has at interface p the copy of what o has there.
AsOriginal(o, c, p) ==
  /\ devices[Copy(o, c)][p].peer = Copy(devices[o][p].peer, c)
  /\ devices[Copy(o, c)][p].dim = devices[o][p].dim
  /\ devices[Copy(o, c)][p].first <=> devices[o][p].first

\* Copy c of o has the first interfaces of o: all but those whose links are above the levels
\* copied, or still to be made.
ReplicaOf(M, g, o, c) ==
  /\ \A p \in DOMAIN devices[Copy(o, c)] : p \in DOMAIN devices[o] /\ AsOriginal(o, c, p)
  /\ \A p \in DOMAIN devices[o] :
       p \in DOMAIN devices[Copy(o, c)] <=> Copied(M[o][p][1]) /\ ~Pending(g, M[o][p], c)

\* All copies made so far, of all nodes.
Replicas(M, g) ==
  \A o \in Block : Copied(o[1]) =>
    \A c \in 1..(Template.copies - 1) : ReplicaOf(M, g, o, c)

\* A template links nodes of the top level in a dimension that is new there, in their order.
TopOrder ==
  /\ stage = "create" => /\ Template.nodes > 0 => dims[Top] = 0
                         /\ \A n \in TopoNode : \A p \in DOMAIN devices[n] :
                              n[1] = Top /\ devices[n][p].first => devices[n][p].dim < dims[Top]
  /\ stage = "connect" => /\ FromTop(calls, Top, dims[Top])
                          /\ \A n \in TopoNode : \A p \in DOMAIN devices[n] : \A k \in DOMAIN calls :
                               n[1] = Top /\ devices[n][p].first /\ devices[n][p].dim = dims[Top] =>
                                 n[2] <= calls[k].a[2]

\* Links have names, and the copies made so far have the first interfaces of their originals.
Ordered(M) ==
  /\ \A n \in Block : LinksNamed(M, n, Block)
  /\ Replicating => \E g : Replicas(M, g) /\ (stage = "wire" => CallsCopy(g, calls, Places0(level)))

\* The inductive invariant of the interfaces.
OrderInv == TopOrder /\ \E M : Ordered(M)

\* The order is strict.
LEMMA BeforeStrict ==
  ASSUME NEW u \in Nat \X Nat \X Nat \X Nat, NEW v \in Nat \X Nat \X Nat \X Nat
  PROVE  ~(Before(u, v) /\ Before(v, u)) /\ ~Before(u, u)
BY DEF Before

\* The peers of the nodes of the block are in it.
LEMMA BlockPeers ==
  ASSUME TopologyInv, NEW o \in Block, NEW p \in DOMAIN devices[o]
  PROVE  /\ devices[o][p].peer \in Block /\ IsSequence(devices[o])
         /\ devices[o][p].first => devices[o][p].peer[1] <= o[1]
<1>1. o \in TopoNode /\ o[2] < originalSize[o[1]]
  BY DEF Block
<1>2. IsSequence(devices[o]) /\ DeviceOK(o, devices[o][p])
  BY <1>1 DEF TopologyInv, LinkInv, DevicesOK
<1>3. devices[o][p].peer \in Block
  <2>1. CASE Replicating
    BY <1>1, <1>2, <2>1 DEF DeviceOK, Block
  <2>2. CASE ~Replicating
    BY <1>2, <2>2, WholeBlock DEF DeviceOK
  <2> QED  BY <2>1, <2>2
<1> QED  BY <1>2, <1>3 DEF DeviceOK

\* What the name of a link tells.
LEMMA NameFacts ==
  ASSUME TopologyInv, NEW M, NEW o \in Block, LinksNamed(M, o, Block),
         NEW p \in DOMAIN devices[o], NEW u, u = M[o][p]
  PROVE  /\ u \in Nat \X Nat \X Nat \X Nat /\ Maker(u) \in Block /\ MadeFrom(u) /\ u[2] <= dims[u[1]]
         /\ Maker(u)[1] = u[1] /\ Maker(u)[2] = u[3] /\ u[1] \in 0..Top /\ o[1] <= u[1]
         /\ devices[o][p].first => Maker(u) = o /\ u[4] = p
         /\ ~devices[o][p].first => devices[o][p].peer = Maker(u) /\ devices[Maker(u)][u[4]].peer = o
         /\ o = Maker(u) \/ o = devices[Maker(u)][u[4]].peer
<1>1. /\ u \in Nat \X Nat \X Nat \X Nat /\ Maker(u) \in Block /\ MadeFrom(u) /\ u[2] <= dims[u[1]]
      /\ devices[o][p].first => u = <<o[1], u[2], o[2], p>>
      /\ ~devices[o][p].first => devices[o][p].peer = Maker(u) /\ devices[Maker(u)][u[4]].peer = o
  BY DEF LinksNamed, Names
<1>2. Maker(u)[1] = u[1] /\ Maker(u)[2] = u[3]
  BY DEF Maker
<1>3. u[1] \in 0..Top
  BY <1>1, <1>2, BlockNodes DEF AreNodes
<1>4. o = <<o[1], o[2]>>
  BY BlockNodes DEF AreNodes
<1>5. devices[o][p].first => Maker(u) = o /\ u[4] = p
  <2> SUFFICES ASSUME devices[o][p].first  PROVE Maker(u) = o /\ u[4] = p
    OBVIOUS
  <2>1. u[1] = o[1] /\ u[3] = o[2] /\ u[4] = p
    BY <1>1
  <2> QED  BY <1>4, <2>1 DEF Maker
<1>6. o[1] <= u[1]
  <2>1. CASE devices[o][p].first
    BY <1>2, <1>3, <1>5, <2>1
  <2>2. CASE ~devices[o][p].first
    <3>1. u[4] \in DOMAIN devices[Maker(u)] /\ devices[Maker(u)][u[4]].first
      BY <1>1 DEF MadeFrom
    <3>2. devices[Maker(u)][u[4]].peer[1] <= Maker(u)[1]
      BY <1>1, <3>1, BlockPeers
    <3> QED  BY <1>1, <1>2, <2>2, <3>2
  <2> QED  BY <2>1, <2>2
<1> QED  BY <1>1, <1>2, <1>3, <1>5, <1>6

\* The names stay good when the interfaces of the block stay as they are.
LEMMA NamedKept ==
  ASSUME NEW M, NEW B, NEW n, LinksNamed(M, n, B), devices'[n] = devices[n],
         \A p \in DOMAIN devices[n] : devices[n][p].peer \in B,
         \A x \in B : /\ devices'[x] = devices[x] /\ x \in Block'
                      /\ dims[x[1]] \in Nat /\ dims'[x[1]] \in Nat /\ dims[x[1]] <= dims'[x[1]]
  PROVE  LinksNamed(M, n, Block)'
<1>1. ASSUME NEW p \in DOMAIN devices[n], NEW u, u = M[n][p]
      PROVE  Names(M, u, n, p, Block)'
  <2>1. Names(M, u, n, p, B)
    BY <1>1 DEF LinksNamed
  <2>2. u \in Nat \X Nat \X Nat \X Nat /\ Maker(u) \in B /\ MadeFrom(u) /\ u[2] <= dims[u[1]]
    BY <2>1 DEF Names
  <2>3. devices'[Maker(u)] = devices[Maker(u)]
        /\ devices'[devices[n][p].peer] = devices[devices[n][p].peer] /\ Maker(u) \in Block'
    BY <2>2
  <2>4. MadeFrom(u)'
    BY <2>2, <2>3 DEF MadeFrom, Maker
  <2>5. u[2] <= dims'[u[1]]
    <3>1. Maker(u)[1] = u[1]
      BY DEF Maker
    <3>2. dims[u[1]] \in Nat /\ dims'[u[1]] \in Nat /\ dims[u[1]] <= dims'[u[1]]
      BY <2>2, <3>1
    <3>3. u[2] \in Nat
      BY <2>2
    <3> QED  BY <2>2, <3>2, <3>3
  <2> QED  BY <2>1, <2>2, <2>3, <2>4, <2>5 DEF Names, Maker
<1>2. \A p, q \in DOMAIN devices[n] : p < q => Before(M[n][p], M[n][q])
  BY DEF LinksNamed
<1>3. \A p \in DOMAIN devices[n] : Names(M, M[n][p], n, p, Block)'
  BY <1>1
<1> QED  BY <1>2, <1>3 DEF LinksNamed

-----------------------------------------------------------------------------
(* Part 5: steps without a link. *)

\* The topology of one endpoint has no links.
LEMMA OrderStart ==
  ASSUME InitTopology, TopologyInv
  PROVE  OrderInv
<1>1. /\ stage = "replicate" /\ level = 0 /\ devices = [n \in {<<0, 0>>} |-> <<>>]
      /\ addr = [n \in {<<0, 0>>} |-> <<>>]
  BY DEF InitTopology
<1>2. TopoNode = {<<0, 0>>}
  BY <1>1 DEF TopoNode
<1>3. \A n \in Block : devices[n] = <<>> /\ n[1] = 0
  BY <1>1, <1>2 DEF Block
<1>4. PICK M : M = 0
  OBVIOUS
<1>5. \A n \in Block : LinksNamed(M, n, Block)
  BY <1>3, EmptySequence DEF LinksNamed
<1>6. ~Copied(0)
  BY <1>1 DEF Copied
<1>7. Replicas(M, M)
  BY <1>3, <1>6 DEF Replicas
<1>8. Ordered(M)
  BY <1>1, <1>5, <1>7 DEF Ordered
<1>9. TopOrder
  BY <1>1 DEF TopOrder
<1> QED  BY <1>8, <1>9 DEF OrderInv

\* The block stays the same while the original sizes do.
LEMMA BlockKept ==
  ASSUME TopologyInv, TopologyInv', Top' = Top, originalSize' = originalSize
  PROVE  Block' = Block
<1>1. AreNodes(Block, originalSize, Top) /\ AreNodes(Block', originalSize, Top)
  <2>1. AreNodes(Block, originalSize, Top)
    BY BlockNodes
  <2>2. AreNodes(Block, originalSize, Top)'
    <3>1. (TopologyInv => AreNodes(Block, originalSize, Top))'
      BY BlockNodes, PTL
    <3> QED  BY <3>1
  <2> QED  BY <2>1, <2>2 DEF AreNodes
<1> QED  BY <1>1 DEF AreNodes

\* The names of the links of the block, when nothing there changes.
LEMMA BlockNamesKept ==
  ASSUME TopologyInv, TopologyInv', NEW M, \A n \in Block : LinksNamed(M, n, Block),
         Block' = Block, dims' = dims, \A n \in Block : devices'[n] = devices[n]
  PROVE  \A n \in Block' : LinksNamed(M, n, Block)'
<1>1. ASSUME NEW n \in Block  PROVE LinksNamed(M, n, Block)'
  <2>1. \A p \in DOMAIN devices[n] : devices[n][p].peer \in Block
    BY BlockPeers
  <2>2. \A x \in Block : dims[x[1]] \in Nat
    BY BlockNodes DEF AreNodes
  <2>3. PICK B : B = Block
    OBVIOUS
  <2>4. /\ LinksNamed(M, n, B) /\ devices'[n] = devices[n]
        /\ \A p \in DOMAIN devices[n] : devices[n][p].peer \in B
        /\ \A x \in B : /\ devices'[x] = devices[x] /\ x \in Block'
                        /\ dims[x[1]] \in Nat /\ dims'[x[1]] \in Nat /\ dims[x[1]] <= dims'[x[1]]
    BY <2>1, <2>2, <2>3
  <2> QED  BY <2>4, NamedKept
<1> QED  BY <1>1

\* Steps that make no link: the invariant stays.
LEMMA OrderCopyPortSets ==
  ASSUME TopologyInv, TopologyInv', OrderInv, CopyPortSets
  PROVE  OrderInv'
<1>1. /\ stage = "wire" /\ stage' = "replicate" /\ calls = <<>> /\ calls' = calls
      /\ level' = level + 1 /\ devices' = devices /\ dims' = dims /\ size' = size
      /\ originalSize' = originalSize /\ recipe' = recipe /\ built' = built /\ addr' = addr
  BY DEF CopyPortSets
<1>2. PICK M : Ordered(M)
  BY DEF OrderInv
<1>3. Block' = Block
  BY <1>1 DEF Block, TopoNode
<1>4. \A n \in Block' : LinksNamed(M, n, Block)'
  BY <1>1, <1>2, <1>3, BlockNamesKept DEF Ordered
<1>5. PICK g : Replicas(M, g)
  BY <1>1, <1>2 DEF Ordered, Replicating
<1>6. level \in Int
  BY DEF TopologyInv, SizeInv
<1>7. \A l \in Nat : Copied(l)' <=> Copied(l)
  BY <1>1, <1>6 DEF Copied
<1>8. ASSUME NEW o \in Block, Copied(o[1])', NEW c \in 1..(Template.copies - 1)
      PROVE  ReplicaOf(M, g, o, c)'
  <2>1. o[1] \in Nat
    BY BlockNodes DEF AreNodes
  <2>2. Copied(o[1])
    BY <1>7, <1>8, <2>1
  <2>3. ReplicaOf(M, g, o, c)
    BY <1>5, <2>2 DEF Replicas
  <2>4. ASSUME NEW p \in DOMAIN devices[o], NEW u, u = M[o][p]
        PROVE  u[1] \in Nat /\ Pending(g, u, c)' = Pending(g, u, c)
    <3>1. u[1] \in 0..Top /\ Top \in Nat
      <4>1. LinksNamed(M, o, Block)
        BY <1>2 DEF Ordered
      <4> QED  BY <2>4, <4>1, NameFacts, BlockNodes
    <3> QED  BY <1>1, <3>1 DEF Pending
  <2>5. \A p \in DOMAIN devices[o] :
          p \in DOMAIN devices[Copy(o, c)] <=> Copied(M[o][p][1])' /\ ~Pending(g, M[o][p], c)'
    BY <1>7, <2>3, <2>4 DEF ReplicaOf
  <2>6. \A p \in DOMAIN devices[Copy(o, c)] : p \in DOMAIN devices[o] /\ AsOriginal(o, c, p)'
    BY <1>1, <2>3 DEF ReplicaOf, AsOriginal, Copy
  <2>7. devices' = devices /\ Copy(o, c)' = Copy(o, c)
    BY <1>1 DEF Copy
  <2> QED  BY <2>5, <2>6, <2>7 DEF ReplicaOf
<1>9. Replicas(M, g)'
  BY <1>1, <1>3, <1>8 DEF Replicas, Template
<1>10. Ordered(M)'
  BY <1>1, <1>4, <1>9 DEF Ordered
<1>11. TopOrder'
  BY <1>1 DEF TopOrder
<1> QED  BY <1>10, <1>11 DEF OrderInv

LEMMA OrderGenerate ==
  ASSUME TopologyInv, TopologyInv', OrderInv, GenerateRoutingRules
  PROVE  OrderInv'
<1>1. /\ stage = "connect" /\ stage' = "replicate" /\ level' = 0 /\ devices' = devices /\ dims' = dims
      /\ addr' = addr /\ size' = size /\ originalSize' = originalSize
  BY DEF GenerateRoutingRules
<1>2. PICK M : Ordered(M)
  BY DEF OrderInv
<1>3. Block' = Block
  BY <1>1 DEF Block, TopoNode
<1>4. \A n \in Block' : LinksNamed(M, n, Block)'
  BY <1>1, <1>2, <1>3, BlockNamesKept DEF Ordered
<1>5. \A l \in Nat : ~Copied(l)'
  BY <1>1 DEF Copied
<1>6. \A o \in Block : o[1] \in Nat
  BY BlockNodes DEF AreNodes
<1>7. Replicas(M, M)'
  BY <1>3, <1>5, <1>6 DEF Replicas
<1>8. Ordered(M)'
  BY <1>1, <1>4, <1>7 DEF Ordered
<1>9. TopOrder'
  BY <1>1 DEF TopOrder
<1> QED  BY <1>8, <1>9 DEF OrderInv

LEMMA OrderConnect ==
  ASSUME TopologyInv, TopologyInv', OrderInv, Connect
  PROVE  OrderInv'
<1>1. /\ stage = "create" /\ stage' = "connect" /\ devices' = devices /\ dims' = dims
      /\ calls' = TemplateLinks(Template, Top, dims[Top])
      /\ size' = size /\ originalSize' = originalSize
  BY DEF Connect
<1>2. PICK M : Ordered(M)
  BY DEF OrderInv
<1>3. TopoNode' = TopoNode /\ Top' = Top
  <2>1. DOMAIN devices = TopoNode /\ (DOMAIN devices = TopoNode)'
    BY DEF TopologyInv, LinkInv
  <2> QED  BY <1>1, <2>1 DEF Top
<1>4. Block' = Block
  BY <1>1, <1>3 DEF Block
<1>5. \A n \in Block' : LinksNamed(M, n, Block)'
  BY <1>1, <1>2, <1>4, BlockNamesKept DEF Ordered
<1>6. Ordered(M)'
  BY <1>1, <1>5 DEF Ordered, Replicating
<1>7. FromTop(calls', Top, dims[Top])
  <2>1. Template.nodes > 0 => dims[Top] = 0
    BY <1>1 DEF OrderInv, TopOrder
  <2>2. FromTop(TemplateLinks(Template, Top, dims[Top]), Top, dims[Top])
    BY <1>1, <2>1, TemplateFromTop DEF TopologyInv
  <2> QED  BY <1>1, <2>2
<1>8. \A n \in TopoNode : \A p \in DOMAIN devices[n] :
        n[1] = Top /\ devices[n][p].first => devices[n][p].dim # dims[Top]
  <2> SUFFICES ASSUME NEW n \in TopoNode, NEW p \in DOMAIN devices[n], n[1] = Top,
                      devices[n][p].first
               PROVE  devices[n][p].dim # dims[Top]
    OBVIOUS
  <2>1. devices[n][p].dim < dims[Top]
    BY <1>1 DEF OrderInv, TopOrder
  <2>2. dims[Top] \in Nat
    BY BlockNodes
  <2> QED  BY <2>1, <2>2
<1>9. TopOrder'
  <2>1. FromTop(calls, Top, dims[Top])'
    BY <1>1, <1>3, <1>7 DEF FromTop, TopLink
  <2> QED  BY <1>1, <1>3, <1>8, <2>1 DEF TopOrder
<1> QED  BY <1>6, <1>9 DEF OrderInv

\* CopyNodes, for all nodes.
LEMMA CopiesOutside ==
  ASSUME TopologyInv
  PROVE  \A x \in Block, d \in 1..(Template.copies - 1) :
           Replicating /\ Copied(x[1]) => Copy(x, d) \in TopoNode \ Block
BY CopyNodes

\* A level is replicated: its copies have no interfaces yet, and all its links are to be made.
LEMMA OrderReplicateLevel ==
  ASSUME TopologyInv, TopologyInv', OrderInv, ReplicateLevel
  PROVE  OrderInv'
<1> DEFINE new == {<<level, k>> : k \in 0..(Template.copies * originalSize[level] - 1)}
<1>1. /\ stage = "replicate" /\ stage' = "wire" /\ calls' = ReplicatedLinks(level)
      /\ level' = level /\ dims' = dims /\ originalSize' = originalSize
      /\ recipe' = recipe /\ built' = built
      /\ devices' = [n \in TopoNode \cup new |-> IF n \in TopoNode THEN devices[n] ELSE <<>>]
      /\ built < Len(recipe) /\ level <= Top
  BY DEF ReplicateLevel
<1> HIDE DEF new
<1>2. PICK M : Ordered(M)
  BY DEF OrderInv
<1>3. level \in 0..Top /\ Top \in Nat /\ Template.copies \in Nat \ {0} /\ calls = <<>> /\ Top' = Top
  <2>1. Template.copies \in Nat \ {0}
    BY <1>1, TemplateRead DEF TopologyInv, SizeInv
  <2>2. size' = [size EXCEPT ![level] = Template.copies * originalSize[level]]
    BY DEF ReplicateLevel
  <2>3. DOMAIN size' = DOMAIN size
    BY <2>2
  <2> QED  BY <1>1, <2>1, <2>3 DEF TopologyInv, SizeInv, LinkInv, Top
<1>4. Block' = Block
  BY <1>1, <1>3, BlockKept
<1>5. \A n \in TopoNode : devices'[n] = devices[n]
  BY <1>1
<1>6. \A n \in Block : n \in TopoNode /\ devices'[n] = devices[n]
  BY <1>5 DEF Block
<1>7. \A n \in Block' : LinksNamed(M, n, Block)'
  BY <1>1, <1>2, <1>4, <1>6, BlockNamesKept DEF Ordered
<1>8. Replicas(M, M) \/ \E h : Replicas(M, h)
  BY <1>1, <1>2 DEF Ordered, Replicating
<1>9. PICK h : Replicas(M, h)
  BY <1>8
<1>10. \A x \in Places0(level) : x \in Block /\ x[1] = level
  BY <1>3, BlockNodes DEF AreNodes, Places0
<1>11. PICK g : CallsCopy(g, calls', Places0(level)) /\ AllCalled(g, calls', level)
  <2>1. dims[level] \in Nat /\ originalSize[level] \in Nat
    BY <1>3, BlockNodes
  <2>2. \A x \in Places0(level) : IsSequence(devices[x])
    BY <1>6, <1>10 DEF TopologyInv, LinkInv, DevicesOK
  <2>3. \E g : CallsCopy(g, ReplicatedLinks(level), Places0(level))
               /\ AllCalled(g, ReplicatedLinks(level), level)
    BY <1>3, <2>1, <2>2, LevelCopiedInOrder
  <2> QED  BY <1>1, <2>3
<1>12. ASSUME NEW k \in DOMAIN calls'
       PROVE  /\ g[k][1][1] = level /\ Maker(g[k][1]) \in Block /\ g[k][2] \in 1..(Template.copies - 1)
              /\ CopiesLink(calls'[k], g[k][1], g[k][2])
  <2>1. Maker(g[k][1]) \in Places0(level) /\ g[k][2] \in 1..(Template.copies - 1)
        /\ CopiesLink(calls'[k], g[k][1], g[k][2])
    BY <1>11 DEF CallsCopy
  <2>2. Maker(g[k][1])[1] = g[k][1][1]
    BY DEF Maker
  <2> QED  BY <1>10, <2>1, <2>2
<1>13. CallsCopy(g, calls, Places0(level))'
  <2>1. ASSUME NEW k \in DOMAIN calls'
        PROVE  CopiesLink(calls[k], g[k][1], g[k][2])'
    <3>1. PICK u, c, x, call : u = g[k][1] /\ c = g[k][2] /\ x = Maker(u) /\ call = calls'[k]
      OBVIOUS
    <3>2. x \in Block /\ CopiesLink(call, u, c)
      BY <1>12, <3>1
    <3>3. devices'[x] = devices[x]
      BY <1>6, <3>2
    <3>4. CopiesLink(call, u, c)'
      BY <1>1, <3>1, <3>2, <3>3 DEF CopiesLink, MadeFrom, Copy, Maker
    <3> QED  BY <3>1, <3>4 DEF CopiesLink, MadeFrom, Copy, Maker
  <2>2. Places0(level)' = Places0(level) /\ Template' = Template
    BY <1>1 DEF Places0, Template
  <2> QED  BY <1>11, <2>1, <2>2 DEF CallsCopy
<1>14. \A l \in Nat : (Copied(l) <=> l < level) /\ (Copied(l)' <=> l <= level)
  BY <1>1, <1>3 DEF Copied
<1>15. ASSUME NEW o \in Block, NEW p \in DOMAIN devices[o], NEW c \in 1..(Template.copies - 1),
              NEW u, u = M[o][p]
       PROVE  /\ ~Pending(g, u, c) /\ u \in Nat \X Nat \X Nat \X Nat /\ o[1] <= u[1] /\ u[1] \in Nat
              /\ u[1] = level => Pending(g, u, c)'
              /\ u[1] # level => ~Pending(g, u, c)'
  <2>1. LinksNamed(M, o, Block)
    BY <1>2 DEF Ordered
  <2>2. /\ u \in Nat \X Nat \X Nat \X Nat /\ Maker(u) \in Block /\ MadeFrom(u) /\ u[2] <= dims[u[1]]
        /\ Maker(u)[1] = u[1] /\ Maker(u)[2] = u[3] /\ u[1] \in 0..Top /\ o[1] <= u[1]
    BY <1>15, <2>1, NameFacts
  <2>3. ~Pending(g, u, c)
    BY <1>3, EmptySequence DEF Pending
  <2>4. u[1] # level => ~Pending(g, u, c)'
    <3> SUFFICES ASSUME NEW k \in DOMAIN calls', g[k] = <<u, c>>  PROVE u[1] = level
      BY DEF Pending
    <3>1. g[k][1] = u
      OBVIOUS
    <3> QED  BY <1>12, <3>1
  <2>5. u[1] = level => Pending(g, u, c)'
    <3> SUFFICES ASSUME u[1] = level  PROVE \E k \in DOMAIN calls' : g[k] = <<u, c>>
      BY DEF Pending
    <3>1. PICK x, m : x = Maker(u) /\ m = u[4]
      OBVIOUS
    <3>2. m \in DOMAIN devices[x] /\ devices[x][m].first /\ devices[x][m].dim = u[2]
      BY <2>2, <3>1 DEF MadeFrom
    <3>3. x \in Places0(level)
      <4>1. x = <<x[1], x[2]>> /\ x[1] = level /\ x[2] \in 0..(originalSize[x[1]] - 1)
        BY <2>2, <3>1, BlockNodes DEF AreNodes
      <4> QED  BY <4>1 DEF Places0
    <3>4. u[2] \in 0..dims[level]
      <4>1. u[2] \in Nat /\ dims[level] \in Nat
        BY <1>3, <2>2, BlockNodes
      <4> QED  BY <2>2, <4>1
    <3>5. \E k \in DOMAIN calls' : g[k] = <<<<level, devices[x][m].dim, x[2], m>>, c>>
      BY <1>11, <3>2, <3>3, <3>4 DEF AllCalled
    <3>6. <<level, devices[x][m].dim, x[2], m>> = u
      BY <2>2, <3>1, <3>2
    <3> QED  BY <3>5, <3>6
  <2> QED  BY <1>3, <2>2, <2>3, <2>4, <2>5
<1>16. ASSUME NEW o \in Block, Copied(o[1])', NEW c \in 1..(Template.copies - 1)
       PROVE  ReplicaOf(M, g, o, c)'
  <2>1. o[1] \in Nat /\ o[1] <= level /\ o = <<o[1], o[2]>> /\ o[1] \in 0..Top
    BY <1>14, <1>16, BlockNodes DEF AreNodes
  <2>2. PICK n : n = Copy(o, c)
    OBVIOUS
  <2>3. Copy(o, c)' = n /\ devices'[o] = devices[o]
    BY <1>1, <1>6, <2>2 DEF Copy
  <2>4. CASE o[1] < level
    <3>1. Copied(o[1])
      BY <1>14, <2>1, <2>4
    <3>2. ReplicaOf(M, h, o, c)
      BY <1>9, <3>1 DEF Replicas
    <3>3. n \in TopoNode
      BY <1>1, <2>2, <3>1, CopyNodes DEF Replicating
    <3>4. devices'[n] = devices[n]
      BY <1>5, <3>3, SMTT(20)
    <3>5. \A p \in DOMAIN devices[n] : p \in DOMAIN devices[o] /\ AsOriginal(o, c, p)'
      BY <1>1, <2>2, <2>3, <3>2, <3>4 DEF ReplicaOf, AsOriginal, Copy
    <3>6. ASSUME NEW p \in DOMAIN devices[o]
          PROVE  p \in DOMAIN devices[n] <=> Copied(M[o][p][1])' /\ ~Pending(g, M[o][p], c)'
      <4>1. PICK u : u = M[o][p]
        OBVIOUS
      <4>2. /\ u[1] \in Nat /\ (u[1] = level => Pending(g, u, c)')
            /\ (u[1] # level => ~Pending(g, u, c)')
        BY <1>15, <4>1
      <4>3. ~Pending(h, u, c)
        BY <1>3, EmptySequence DEF Pending
      <4>4. p \in DOMAIN devices[n] <=> Copied(u[1])
        BY <2>2, <3>2, <4>1, <4>3 DEF ReplicaOf
      <4>5. Copied(u[1]) <=> Copied(u[1])' /\ u[1] # level
        BY <1>3, <1>14, <4>2
      <4> QED  BY <4>1, <4>2, <4>4, <4>5
    <3> QED  BY <2>3, <3>4, <3>5, <3>6 DEF ReplicaOf
  <2>5. CASE o[1] = level
    <3>1. n \in TopoNode' \ Block' /\ n[1] = level
      <4>1. ((Replicating /\ o \in Block /\ Copied(o[1]) /\ c \in 1..(Template.copies - 1)
               => Copy(o, c) \in TopoNode \ Block))'
        <5>1. TopologyInv' /\ Replicating' /\ o \in Block' /\ Copied(o[1])'
              /\ c \in (1..(Template.copies - 1))'
          BY <1>1, <1>4, <1>16 DEF Replicating, Template
        <5>2. (TopologyInv => \A x \in Block, d \in 1..(Template.copies - 1) :
                 Replicating /\ Copied(x[1]) => Copy(x, d) \in TopoNode \ Block)'
          BY CopiesOutside, PTL
        <5> QED  BY <5>1, <5>2
      <4> QED  BY <1>1, <1>4, <1>16, <2>2, <2>3, <2>5, <4>1 DEF Replicating, Template, Copy
    <3>2. n \notin TopoNode
      <4>1. ~Copied(level)
        BY <1>3, <1>14
      <4>2. n \in TopoNode => n \in Block
        BY <3>1, <4>1, NodeIsCopy
      <4> QED  BY <1>4, <3>1, <4>2
    <3>3. devices'[n] = <<>>
      <4>1. n \in DOMAIN devices'
        BY <3>1 DEF TopologyInv, LinkInv
      <4> QED  BY <1>1, <3>2, <4>1
    <3>4. DOMAIN devices'[n] = {}
      BY <3>3, EmptySequence
    <3>5. ASSUME NEW p \in DOMAIN devices[o]
          PROVE  ~(Copied(M[o][p][1])' /\ ~Pending(g, M[o][p], c)')
      <4>1. PICK u : u = M[o][p]
        OBVIOUS
      <4>2. u[1] \in Nat /\ o[1] <= u[1] /\ (u[1] = level => Pending(g, u, c)')
        BY <1>15, <4>1
      <4>3. Copied(u[1])' => u[1] = level
        BY <1>3, <1>14, <2>5, <4>2
      <4> QED  BY <4>1, <4>2, <4>3
    <3> QED  BY <2>3, <3>4, <3>5 DEF ReplicaOf
  <2> QED  BY <1>3, <2>1, <2>4, <2>5
<1>17. Replicas(M, g)'
  BY <1>1, <1>4, <1>16 DEF Replicas, Template
<1>18. Ordered(M)'
  BY <1>7, <1>13, <1>17 DEF Ordered
<1>19. TopOrder'
  BY <1>1 DEF TopOrder
<1> QED  BY <1>18, <1>19 DEF OrderInv

-----------------------------------------------------------------------------
(* Part 6: when all levels are replicated. *)

\* When all levels are replicated every node is wired as its original is.
LEMMA CopiesWhole ==
  ASSUME TopologyInv, Replicated, NEW M, NEW g, Replicas(M, g),
         \A n \in Block : LinksNamed(M, n, Block), NEW n \in TopoNode,
         NEW o, o = Original(n), NEW c, c = n[2] \div originalSize[n[1]]
  PROVE  /\ o \in Block /\ c \in Nat /\ n = Copy(o, c) /\ DOMAIN devices[n] = DOMAIN devices[o]
         /\ \A p \in DOMAIN devices[o] : AsOriginal(o, c, p)
<1>1. /\ o \in Block /\ c \in Nat /\ n = Copy(o, c) /\ o[1] = n[1]
      /\ n \in Block => o = n /\ c = 0
      /\ n \notin Block => Replicating /\ Copied(n[1]) /\ c \in 1..(Template.copies - 1)
  BY NodeIsCopy
<1>2. /\ calls = <<>> /\ Top \in Nat /\ level \in Int /\ built < Len(recipe) /\ stage = "replicate"
      /\ Template.copies = 1 \/ level > Top
  BY BlockNodes DEF Replicated, TopologyInv, SizeInv, LinkInv
<1>3. CASE n \in Block
  <2>1. ASSUME NEW p \in DOMAIN devices[o]  PROVE AsOriginal(o, 0, p)
    <3>1. PICK x : x = devices[o][p].peer
      OBVIOUS
    <3>2. x = <<x[1], x[2]>> /\ x[2] \in Nat /\ originalSize[x[1]] \in Nat
      <4>1. x \in Block
        BY <1>1, <2>1, <3>1, BlockPeers
      <4> QED  BY <4>1, BlockNodes DEF AreNodes
    <3>3. 0 * originalSize[x[1]] + x[2] = x[2]
      BY <3>2
    <3>4. Copy(x, 0) = x
      BY <3>2, <3>3 DEF Copy
    <3>5. Copy(o, 0) = o
      BY <1>1, <1>3
    <3> QED  BY <3>1, <3>4, <3>5 DEF AsOriginal
  <2> QED  BY <1>1, <1>3, <2>1
<1>4. CASE n \notin Block
  <2>1. Copied(o[1]) /\ c \in 1..(Template.copies - 1) /\ o[1] \in 0..Top
    BY <1>1, <1>4, BlockNodes DEF AreNodes
  <2>2. level > Top
    <3>1. Template.copies > 1 /\ Template.copies \in Nat
      <4>1. PICK l : l = o[1]
        OBVIOUS
      <4>2. l \in Nat /\ Replicating /\ SizeInv /\ Copied(l)
        <5>1. SizeInv
          BY DEF TopologyInv
        <5>2. l \in Nat
          BY <1>2, <2>1, <4>1
        <5> QED  BY <1>1, <1>4, <2>1, <4>1, <5>1, <5>2
      <4> QED  BY <4>2, CopiesCount
    <3> QED  BY <1>2, <3>1
  <2>3. ReplicaOf(M, g, o, c)
    BY <1>1, <2>1 DEF Replicas
  <2>4. ASSUME NEW p \in DOMAIN devices[o]  PROVE p \in DOMAIN devices[n]
    <3>1. PICK u : u = M[o][p]
      OBVIOUS
    <3>2. u[1] \in 0..Top
      BY <1>1, <3>1, NameFacts
    <3>3. Copied(u[1])
      BY <1>2, <2>2, <3>2 DEF Copied
    <3>4. ~Pending(g, u, c)
      BY <1>2, EmptySequence DEF Pending
    <3> QED  BY <1>1, <2>3, <3>1, <3>3, <3>4 DEF ReplicaOf
  <2>5. \A p \in DOMAIN devices[n] : p \in DOMAIN devices[o] /\ AsOriginal(o, c, p)
    BY <1>1, <2>3 DEF ReplicaOf
  <2> QED  BY <1>1, <2>4, <2>5
<1> QED  BY <1>3, <1>4

\* The name of copy c of the link u.
Lift(u, c) == <<u[1], u[2], (c * originalSize[u[1]]) + u[3], u[4]>>

\* The fields of the name of a copy.
LEMMA LiftFacts ==
  ASSUME NEW u \in Nat \X Nat \X Nat \X Nat, NEW c \in Nat, originalSize[u[1]] \in Nat
  PROVE  /\ Lift(u, c) \in Nat \X Nat \X Nat \X Nat /\ Maker(Lift(u, c)) = Copy(Maker(u), c)
         /\ Lift(u, c)[1] = u[1] /\ Lift(u, c)[2] = u[2] /\ Lift(u, c)[4] = u[4]
         /\ Lift(u, c)[3] = (c * originalSize[u[1]]) + u[3]
<1>1. c * originalSize[u[1]] \in Nat
  OBVIOUS
<1>2. PICK k : k = (c * originalSize[u[1]]) + u[3]
  OBVIOUS
<1>3. k \in Nat
  BY <1>1, <1>2
<1>4. Lift(u, c) = <<u[1], u[2], k, u[4]>>
  BY <1>2 DEF Lift
<1>5. Copy(Maker(u), c) = <<u[1], k>>
  BY <1>2 DEF Copy, Maker
<1> QED  BY <1>2, <1>3, <1>4, <1>5 DEF Maker

\* The names of copies are in the order of those of the originals.
LEMMA LiftBefore ==
  ASSUME NEW u \in Nat \X Nat \X Nat \X Nat, NEW v \in Nat \X Nat \X Nat \X Nat, NEW c \in Nat,
         originalSize[u[1]] \in Nat, originalSize[v[1]] \in Nat, Before(u, v)
  PROVE  Before(Lift(u, c), Lift(v, c))
<1>1. CASE u[1] = v[1]
  <2>1. PICK k : k = c * originalSize[u[1]]
    OBVIOUS
  <2>2. k \in Nat
    BY <2>1
  <2>3. /\ Lift(u, c)[1] = u[1] /\ Lift(u, c)[2] = u[2] /\ Lift(u, c)[4] = u[4]
        /\ Lift(u, c)[3] = k + u[3]
    BY <2>1, LiftFacts
  <2>4. /\ Lift(v, c)[1] = v[1] /\ Lift(v, c)[2] = v[2] /\ Lift(v, c)[4] = v[4]
        /\ Lift(v, c)[3] = k + v[3]
    <3>1. k = c * originalSize[v[1]]
      BY <1>1, <2>1
    <3> QED  BY <3>1, LiftFacts
  <2>5. Lift(u, c)[3] < Lift(v, c)[3] <=> u[3] < v[3]
    BY <2>2, <2>3, <2>4
  <2>6. Lift(u, c)[3] = Lift(v, c)[3] <=> u[3] = v[3]
    BY <2>2, <2>3, <2>4
  <2> QED  BY <2>3, <2>4, <2>5, <2>6 DEF Before
<1>2. CASE u[1] # v[1]
  <2>1. u[1] < v[1]
    BY <1>2 DEF Before
  <2>2. Lift(u, c)[1] = u[1] /\ Lift(v, c)[1] = v[1]
    BY LiftFacts
  <2> QED  BY <2>1, <2>2 DEF Before
<1> QED  BY <1>1, <1>2

\* When all levels are replicated the links of all nodes have names.
LEMMA AllNamed ==
  ASSUME TopologyInv, Replicated, NEW M, Ordered(M)
  PROVE  \E N : \A n \in TopoNode : LinksNamed(N, n, TopoNode)
<1> DEFINE cop(n) == n[2] \div originalSize[n[1]]
<1> HIDE DEF cop
<1>1. PICK g : Replicas(M, g)
  BY DEF Ordered, Replicated, Replicating
<1>2. \A n \in Block : LinksNamed(M, n, Block)
  BY DEF Ordered
<1>3. PICK N : N = [n \in TopoNode |-> [p \in DOMAIN devices[n] |->
                      Lift(M[Original(n)][p], cop(n))]]
  OBVIOUS
<1>4. ASSUME NEW n \in TopoNode, NEW o, o = Original(n), NEW c, c = cop(n)
      PROVE  /\ o \in Block /\ c \in Nat /\ n = Copy(o, c) /\ DOMAIN devices[n] = DOMAIN devices[o]
             /\ \A p \in DOMAIN devices[o] : AsOriginal(o, c, p)
             /\ \A p \in DOMAIN devices[o] : N[n][p] = Lift(M[o][p], c)
  <2>1. /\ o \in Block /\ c \in Nat /\ n = Copy(o, c) /\ DOMAIN devices[n] = DOMAIN devices[o]
        /\ \A p \in DOMAIN devices[o] : AsOriginal(o, c, p)
    BY <1>1, <1>2, <1>4, CopiesWhole DEF cop
  <2> QED  BY <1>3, <1>4, <2>1
<1>5. ASSUME NEW o \in Block, NEW c \in Nat, Copy(o, c) \in TopoNode
      PROVE  /\ Original(Copy(o, c)) = o /\ cop(Copy(o, c)) = c
             /\ DOMAIN devices[Copy(o, c)] = DOMAIN devices[o]
             /\ \A p \in DOMAIN devices[o] : AsOriginal(o, c, p)
             /\ \A p \in DOMAIN devices[o] : N[Copy(o, c)][p] = Lift(M[o][p], c)
  <2>1. PICK n, r, d : n = Copy(o, c) /\ r = Original(n) /\ d = cop(n)
    OBVIOUS
  <2>2. r \in Block /\ d \in Nat /\ n = Copy(r, d)
    BY <1>4, <1>5, <2>1
  <2>3. o = r /\ c = d
    <3>1. Copy(o, c) = Copy(r, d)
      BY <2>1, <2>2
    <3> QED  BY <2>2, <3>1, CopiesDiffer
  <2>4. /\ DOMAIN devices[n] = DOMAIN devices[o]
        /\ \A p \in DOMAIN devices[o] : AsOriginal(o, c, p)
        /\ \A p \in DOMAIN devices[o] : N[n][p] = Lift(M[o][p], c)
    BY <1>4, <1>5, <2>1, <2>3
  <2> QED  BY <2>1, <2>3, <2>4
<1>6. ASSUME NEW n \in TopoNode, NEW x \in Block  PROVE Copy(x, cop(n)) \in TopoNode
  <2>1. /\ n[1] \in 0..Top /\ n[2] \in 0..(size[n[1]] - 1) /\ originalSize[n[1]] \in Nat \ {0}
        /\ x[1] \in 0..Top /\ x[2] \in 0..(originalSize[x[1]] - 1)
        /\ originalSize[x[1]] \in Nat \ {0}
    BY BlockNodes DEF AreNodes
  <2>2. /\ size[n[1]] = Template.copies * originalSize[n[1]] /\ size[n[1]] \in Nat
        /\ size[x[1]] = Template.copies * originalSize[x[1]] /\ size[x[1]] \in Nat
    BY <2>1, AllCopied DEF TopologyInv
  <2>3. Template.copies \in Nat
    BY TemplateRead DEF Replicated, TopologyInv, SizeInv
  <2>4. PICK C, s, k, t, c : /\ C = Template.copies /\ s = originalSize[n[1]] /\ k = n[2]
                             /\ t = originalSize[x[1]] /\ c = cop(n)
    OBVIOUS
  <2>5. k \in Nat /\ k < C * s /\ C \in Nat /\ s \in Nat \ {0}
    BY <2>1, <2>2, <2>3, <2>4
  <2>6. k \div s \in 0..(C - 1)
    BY <2>5, DivBelow
  <2>7. c \in 0..(C - 1)
    BY <2>4, <2>6 DEF cop
  <2>8. (c * t) + x[2] \in 0..((C * t) - 1)
    <3>1. PICK i : i = x[2]
      OBVIOUS
    <3>2. i \in 0..(t - 1) /\ t \in Nat
      BY <2>1, <2>4, <3>1
    <3>3. (c * t) + i \in 0..((C * t) - 1)
      BY <2>5, <2>7, <3>2, Slot
    <3> QED  BY <3>1, <3>3
  <2>9. <<x[1], (c * t) + x[2]>> \in TopoNode
    BY <2>1, <2>2, <2>4, <2>8, BlockNodes DEF AreNodes
  <2>10. Copy(x, c) = <<x[1], (c * t) + x[2]>>
    BY <2>4 DEF Copy
  <2> QED  BY <2>4, <2>9, <2>10
<1>7. ASSUME NEW n \in TopoNode, NEW p \in DOMAIN devices[n], NEW o, o = Original(n), NEW c, c = cop(n)
      PROVE  Names(N, N[n][p], n, p, TopoNode)
  <2>1. PICK u, v, m, w, x, y :
          /\ u = M[o][p] /\ v = Lift(u, c) /\ m = Maker(u) /\ w = Copy(m, c)
          /\ x = devices[o][p].peer /\ y = Copy(x, c)
    OBVIOUS
  <2>2. /\ o \in Block /\ c \in Nat /\ n = Copy(o, c) /\ p \in DOMAIN devices[o]
        /\ AsOriginal(o, c, p) /\ N[n][p] = v
    BY <1>4, <1>7, <2>1
  <2>3. Names(M, u, o, p, Block)
    BY <1>2, <2>1, <2>2 DEF LinksNamed
  <2>4. /\ u \in Nat \X Nat \X Nat \X Nat /\ m \in Block /\ MadeFrom(u)
        /\ u[2] <= dims[u[1]] /\ devices[o][p].dim = u[2]
    BY <2>1, <2>3 DEF Names
  <2>5. originalSize[u[1]] \in Nat /\ x \in Block
    <3>1. m[1] = u[1]
      BY <2>1 DEF Maker
    <3>2. originalSize[m[1]] \in Nat
      BY <2>4, BlockNodes DEF AreNodes
    <3> QED  BY <2>1, <2>2, <3>1, <3>2, BlockPeers
  <2>6. /\ v \in Nat \X Nat \X Nat \X Nat /\ Maker(v) = w
        /\ v[1] = u[1] /\ v[2] = u[2] /\ v[4] = u[4] /\ v[3] = (c * originalSize[u[1]]) + u[3]
    <3>1. u \in Nat \X Nat \X Nat \X Nat /\ c \in Nat /\ originalSize[u[1]] \in Nat
      BY <2>2, <2>4, <2>5
    <3>2. /\ Lift(u, c) \in Nat \X Nat \X Nat \X Nat /\ Maker(Lift(u, c)) = Copy(Maker(u), c)
          /\ Lift(u, c)[1] = u[1] /\ Lift(u, c)[2] = u[2] /\ Lift(u, c)[4] = u[4]
          /\ Lift(u, c)[3] = (c * originalSize[u[1]]) + u[3]
      BY <3>1, LiftFacts
    <3> QED  BY <2>1, <3>2, Zenon
  <2>7. w \in TopoNode /\ y \in TopoNode
    BY <1>6, <1>7, <2>1, <2>4, <2>5
  <2>8. /\ DOMAIN devices[w] = DOMAIN devices[m] /\ \A q \in DOMAIN devices[m] : AsOriginal(m, c, q)
    BY <1>5, <2>1, <2>2, <2>4, <2>7
  <2>9. u[4] \in DOMAIN devices[m] /\ devices[m][u[4]].first /\ devices[m][u[4]].dim = u[2]
    BY <2>1, <2>4 DEF MadeFrom
  <2>10. /\ devices[w][u[4]].dim = u[2] /\ devices[w][u[4]].first
         /\ devices[w][u[4]].peer = Copy(devices[m][u[4]].peer, c)
    BY <2>1, <2>8, <2>9 DEF AsOriginal
  <2>11. MadeFrom(v)
    BY <2>6, <2>8, <2>9, <2>10 DEF MadeFrom
  <2>12. /\ devices[n][p].peer = y /\ devices[n][p].dim = u[2]
         /\ devices[n][p].first <=> devices[o][p].first
    BY <2>1, <2>2, <2>4 DEF AsOriginal
  <2>13. ASSUME devices[n][p].first
         PROVE  v = <<n[1], v[2], n[2], p>> /\ \E q \in DOMAIN devices[y] : N[y][q] = v
    <3>1. u = <<o[1], u[2], o[2], p>> /\ \E q \in DOMAIN devices[x] : M[x][q] = u
      BY <2>1, <2>3, <2>12, <2>13 DEF Names
    <3>2. n[1] = o[1] /\ n[2] = c * originalSize[o[1]] + o[2]
      BY <2>2 DEF Copy
    <3>3. u[1] = o[1] /\ u[3] = o[2] /\ u[4] = p
      BY <3>1
    <3>4. v = <<v[1], v[2], v[3], v[4]>>
      BY <2>6
    <3>5. v[1] = n[1] /\ v[3] = n[2] /\ v[4] = p
      BY <2>6, <3>2, <3>3
    <3>6. PICK q \in DOMAIN devices[x] : M[x][q] = u
      BY <3>1
    <3>7. q \in DOMAIN devices[y] /\ N[y][q] = Lift(M[x][q], c)
      BY <1>5, <2>1, <2>2, <2>5, <2>7
    <3> QED  BY <2>1, <3>4, <3>5, <3>6, <3>7
  <2>14. ASSUME ~devices[n][p].first
         PROVE  y = Maker(v) /\ devices[Maker(v)][v[4]].peer = n
    <3>1. x = m /\ devices[m][u[4]].peer = o
      BY <2>1, <2>3, <2>12, <2>14 DEF Names
    <3> QED  BY <2>1, <2>2, <2>6, <2>10, <3>1
  <2>15. Maker(v) \in TopoNode /\ v[2] <= dims[v[1]] /\ devices[n][p].dim = v[2]
    BY <2>4, <2>6, <2>7, <2>12
  <2> QED  BY <2>2, <2>6, <2>11, <2>12, <2>13, <2>14, <2>15 DEF Names
<1>8. ASSUME NEW n \in TopoNode, NEW p \in DOMAIN devices[n], NEW q \in DOMAIN devices[n], p < q
      PROVE  Before(N[n][p], N[n][q])
  <2>1. PICK o, c, u, v : o = Original(n) /\ c = cop(n) /\ u = M[o][p] /\ v = M[o][q]
    OBVIOUS
  <2>2. /\ o \in Block /\ c \in Nat /\ p \in DOMAIN devices[o] /\ q \in DOMAIN devices[o]
        /\ N[n][p] = Lift(u, c) /\ N[n][q] = Lift(v, c)
    BY <1>4, <1>8, <2>1
  <2>3. u \in Nat \X Nat \X Nat \X Nat /\ u[1] \in 0..Top
    BY <1>2, <2>1, <2>2, NameFacts
  <2>4. v \in Nat \X Nat \X Nat \X Nat /\ v[1] \in 0..Top
    BY <1>2, <2>1, <2>2, NameFacts
  <2>5. Before(u, v)
    BY <1>2, <1>8, <2>1, <2>2 DEF LinksNamed
  <2>6. originalSize[u[1]] \in Nat /\ originalSize[v[1]] \in Nat
    BY <2>3, <2>4, BlockNodes
  <2> QED  BY <2>2, <2>3, <2>4, <2>5, <2>6, LiftBefore
<1>9. \A n \in TopoNode : LinksNamed(N, n, TopoNode)
  BY <1>7, <1>8 DEF LinksNamed
<1> QED  BY <1>9

\* While no replication runs, all nodes are in the block.
LEMMA WholeBlockNow ==
  ASSUME TopologyInv
  PROVE  ~Replicating => Block = TopoNode
BY WholeBlock

\* The names of all links, when all nodes stay as they are and others without links are added.
LEMMA NamesExtended ==
  ASSUME TopologyInv, TopologyInv', NEW N, \A n \in TopoNode : LinksNamed(N, n, TopoNode),
         ~Replicating', TopoNode \subseteq TopoNode',
         \A n \in TopoNode : devices'[n] = devices[n],
         \A n \in TopoNode' : n \in TopoNode \/ devices'[n] = <<>>,
         \A l \in 0..Top : dims'[l] \in Nat /\ dims[l] <= dims'[l]
  PROVE  Ordered(N)'
<1>1. Block' = TopoNode'
  <2>1. (TopologyInv => (~Replicating => Block = TopoNode))'
    BY WholeBlockNow, PTL
  <2> QED  BY <2>1
<1>2. ASSUME NEW n \in TopoNode  PROVE LinksNamed(N, n, Block)'
  <2>1. PICK B : B = TopoNode
    OBVIOUS
  <2>2. \A p \in DOMAIN devices[n] : devices[n][p].peer \in B
    BY <2>1 DEF TopologyInv, LinkInv, DevicesOK, DeviceOK
  <2>3. \A x \in B : /\ devices'[x] = devices[x] /\ x \in Block'
                     /\ dims[x[1]] \in Nat /\ dims'[x[1]] \in Nat /\ dims[x[1]] <= dims'[x[1]]
    BY <1>1, <2>1, BlockNodes DEF AreNodes
  <2>4. LinksNamed(N, n, B) /\ devices'[n] = devices[n]
    BY <2>1
  <2> QED  BY <2>2, <2>3, <2>4, NamedKept
<1>3. ASSUME NEW n \in TopoNode', devices'[n] = <<>>  PROVE LinksNamed(N, n, Block)'
  <2>1. DOMAIN devices'[n] = {}
    BY <1>3, EmptySequence
  <2> QED  BY <2>1 DEF LinksNamed
<1> QED  BY <1>1, <1>2, <1>3 DEF Ordered

\* When a level or a dimension is created, the copies become part of the next block.
LEMMA OrderCreateLevel ==
  ASSUME TopologyInv, TopologyInv', OrderInv, CreateLevel
  PROVE  OrderInv'
<1> DEFINE l == Top + 1
           new == {<<l, k>> : k \in 0..(Template.nodes - 1)}
<1>1. /\ Replicated /\ stage' = "create"
      /\ dims' = [x \in DOMAIN dims \cup {l} |-> IF x = l THEN 0 ELSE dims[x]]
      /\ size' = [x \in DOMAIN size \cup {l} |-> IF x = l THEN Template.nodes ELSE size[x]]
      /\ addr' = [n \in TopoNode \cup new |-> IF n \in new THEN <<>> ELSE addr[n]]
      /\ devices' = [n \in TopoNode \cup new |-> IF n \in new THEN <<>> ELSE devices[n]]
  BY DEF CreateLevel
<1>2. DOMAIN size = 0..Top /\ DOMAIN dims = 0..Top /\ Top \in Nat
  BY DEF TopologyInv, SizeInv
<1>3. \A n \in new : n[1] = l
  OBVIOUS
<1>4. \A n \in TopoNode : n[1] \in 0..Top /\ n \notin new
  BY <1>2, <1>3, BlockNodes DEF AreNodes
<1>5. Top' = l
  <2>1. DOMAIN size' = 0..l
    BY <1>1, <1>2
  <2>2. l \in Nat
    BY <1>2
  <2> HIDE DEF l
  <2> QED  BY <2>1, <2>2, CountLevels DEF Top
<1> HIDE DEF new
<1>6. TopoNode' = TopoNode \cup new
  BY <1>1 DEF TopoNode
<1>7. \A n \in TopoNode : devices'[n] = devices[n]
  BY <1>1, <1>4
<1>8. \A n \in new : devices'[n] = <<>>
  BY <1>1
<1>9. dims'[l] = 0 /\ \A x \in 0..Top : dims'[x] = dims[x] /\ dims'[x] \in Nat /\ dims[x] <= dims'[x]
  <2>1. \A x \in 0..Top : dims'[x] = dims[x]
    BY <1>1, <1>2
  <2>2. dims'[l] = 0
    BY <1>1
  <2> QED  BY <2>1, <2>2, BlockNodes
<1>10. PICK M : Ordered(M)
  BY DEF OrderInv
<1>11. PICK N : \A n \in TopoNode : LinksNamed(N, n, TopoNode)
  BY <1>1, <1>10, AllNamed
<1>12. Ordered(N)'
  <2>1. ~Replicating'
    BY <1>1 DEF Replicating
  <2>2. TopoNode \subseteq TopoNode' /\ \A n \in TopoNode' : n \in TopoNode \/ devices'[n] = <<>>
    BY <1>6, <1>8
  <2>3. \A x \in 0..Top : dims'[x] \in Nat /\ dims[x] <= dims'[x]
    BY <1>9
  <2> QED  BY <1>7, <1>11, <2>1, <2>2, <2>3, NamesExtended
<1>13. TopOrder'
  <2>1. ASSUME NEW n \in TopoNode', NEW p \in DOMAIN devices'[n], n[1] = l  PROVE FALSE
    <3>1. n \in new
      BY <1>2, <1>4, <1>6, <2>1
    <3> QED  BY <1>8, <2>1, <3>1, EmptySequence
  <2>2. dims'[Top'] = 0
    BY <1>5, <1>9
  <2> QED  BY <1>1, <1>5, <2>1, <2>2 DEF TopOrder
<1> QED  BY <1>12, <1>13 DEF OrderInv

LEMMA OrderCreateDimension ==
  ASSUME TopologyInv, TopologyInv', OrderInv, CreateDimension
  PROVE  OrderInv'
<1>1. /\ Replicated /\ stage' = "create" /\ Template.nodes = 0 /\ recipe' = recipe /\ built' = built
      /\ dims' = [dims EXCEPT ![Top] = @ + 1] /\ size' = size /\ addr' = addr /\ devices' = devices
  BY DEF CreateDimension
<1>2. DOMAIN dims = 0..Top /\ Top \in Nat /\ dims[Top] \in Nat
  BY DEF TopologyInv, SizeInv
<1>3. TopoNode' = TopoNode /\ Top' = Top
  BY <1>1 DEF TopoNode, Top
<1>4. dims'[Top] = dims[Top] + 1
  BY <1>1, <1>2
<1>5. \A x \in 0..Top : dims'[x] \in Nat /\ dims[x] <= dims'[x]
  <2>1. \A x \in 0..Top : dims[x] \in Nat
    BY BlockNodes
  <2>2. \A x \in 0..Top : x # Top => dims'[x] = dims[x]
    BY <1>1, <1>2
  <2> QED  BY <1>2, <1>4, <2>1, <2>2
<1>6. PICK M : Ordered(M)
  BY DEF OrderInv
<1>7. PICK N : \A n \in TopoNode : LinksNamed(N, n, TopoNode)
  BY <1>1, <1>6, AllNamed
<1>8. Ordered(N)'
  <2>1. ~Replicating'
    BY <1>1 DEF Replicating
  <2>2. \A n \in TopoNode : devices'[n] = devices[n]
    BY <1>1
  <2> QED  BY <1>3, <1>5, <1>7, <2>1, <2>2, NamesExtended
<1>9. ASSUME NEW n \in TopoNode, NEW p \in DOMAIN devices[n], n[1] = Top, devices[n][p].first
      PROVE  devices[n][p].dim < dims'[Top]
  <2>1. PICK u : u = N[n][p]
    OBVIOUS
  <2>2. Names(N, u, n, p, TopoNode)
    BY <1>7, <2>1 DEF LinksNamed
  <2>3. u \in Nat \X Nat \X Nat \X Nat /\ u[2] <= dims[u[1]] /\ devices[n][p].dim = u[2]
        /\ u = <<n[1], u[2], n[2], p>>
    BY <1>9, <2>2 DEF Names
  <2>4. u[1] = Top /\ u[2] \in Nat
    BY <1>9, <2>3
  <2> QED  BY <1>2, <1>4, <2>3, <2>4
<1>10. TopOrder'
  <2>1. Template'.nodes = 0
    BY <1>1 DEF Template
  <2> QED  BY <1>1, <1>3, <1>9, <2>1 DEF TopOrder
<1> QED  BY <1>8, <1>10 DEF OrderInv

-----------------------------------------------------------------------------
(* Part 7: one call of ConnectNodes, interface by interface. *)

\* What a node has at the interfaces of a new link.
LEMMA LinkRecords ==
  ASSUME NEW q, NEW d
  PROVE  /\ Here(q, d).peer = q /\ Here(q, d).dim = d /\ Here(q, d).first
         /\ There(q, d).peer = q /\ There(q, d).dim = d /\ ~There(q, d).first
BY Zenon DEF Here, There

\* A sequence with one element more, place by place.
LEMMA AppendAt ==
  ASSUME NEW s, IsSequence(s), NEW x
  PROVE  /\ DOMAIN Append(s, x) = 1..(Len(s) + 1) /\ Append(s, x)[Len(s) + 1] = x
         /\ \A k \in DOMAIN s : Append(s, x)[k] = s[k]
         /\ Len(s) \in Nat /\ DOMAIN s = 1..Len(s)
<1>1. Len(s) \in Nat /\ DOMAIN s = 1..Len(s)
  BY SequenceType
<1>2. PICK S : S = {s[k] : k \in DOMAIN s} \cup {x}
  OBVIOUS
<1>3. s \in Seq(S) /\ x \in S
  BY <1>2, SeqMonotonic DEF IsSequence
<1>4. Append(s, x) \in Seq(S) /\ Len(Append(s, x)) = Len(s) + 1
      /\ \A i \in 1..Len(s) : Append(s, x)[i] = s[i]
      /\ Append(s, x)[Len(s) + 1] = x
  BY <1>3, AppendProperties
<1>5. IsSequence(Append(s, x))
  BY AppendAny
<1>6. DOMAIN Append(s, x) = 1..Len(Append(s, x))
  BY <1>5, SequenceType
<1> QED  BY <1>1, <1>4, <1>6

\* A sequence without its first element, place by place.
LEMMA TailAt ==
  ASSUME NEW s, IsSequence(s), s # <<>>
  PROVE  /\ 1 \in DOMAIN s /\ Head(s) = s[1] /\ DOMAIN s \subseteq Nat \ {0}
         /\ \A k \in DOMAIN Tail(s) : k + 1 \in DOMAIN s /\ Tail(s)[k] = s[k + 1] /\ k \in Nat \ {0}
         /\ \A k \in DOMAIN s : k # 1 => k - 1 \in DOMAIN Tail(s)
<1>1. /\ IsSequence(Tail(s)) /\ 1 \in DOMAIN s /\ Head(s) = s[1]
      /\ \A k \in DOMAIN Tail(s) : k + 1 \in DOMAIN s /\ Tail(s)[k] = s[k + 1]
  BY TailAny
<1>2. /\ Len(s) \in Nat /\ DOMAIN s = 1..Len(s)
      /\ Len(Tail(s)) \in Nat /\ DOMAIN Tail(s) = 1..Len(Tail(s))
  BY <1>1, SequenceType
<1>3. Len(Tail(s)) = Len(s) - 1
  <2>1. PICK S : s \in Seq(S)
    BY DEF IsSequence
  <2> QED  BY <2>1, HeadTailProperties
<1> QED  BY <1>1, <1>2, <1>3

\* What ConnectNodes does, interface by interface: the call c adds interface i at a and j at b.
LinkMade(c, a, b, i, j) ==
  /\ a \in TopoNode /\ b \in TopoNode /\ a # b /\ 1 \in DOMAIN calls
  /\ TopoNode' = TopoNode /\ \A n \in TopoNode : n # a /\ n # b => devices'[n] = devices[n]
  /\ i \in Nat \ {0} /\ DOMAIN devices[a] = 1..(i - 1) /\ DOMAIN devices'[a] = 1..i
  /\ \A p \in DOMAIN devices[a] : devices'[a][p] = devices[a][p]
  /\ devices'[a][i].peer = b /\ devices'[a][i].dim = c.dim /\ devices'[a][i].first
  /\ j \in Nat \ {0} /\ DOMAIN devices[b] = 1..(j - 1) /\ DOMAIN devices'[b] = 1..j
  /\ \A p \in DOMAIN devices[b] : devices'[b][p] = devices[b][p]
  /\ devices'[b][j].peer = a /\ devices'[b][j].dim = c.dim /\ ~devices'[b][j].first
  /\ DOMAIN calls \subseteq Nat \ {0} /\ IsSequence(calls)
  /\ \A k \in DOMAIN calls' : k + 1 \in DOMAIN calls /\ calls'[k] = calls[k + 1]
                              /\ k \in Nat \ {0}
  /\ \A k \in DOMAIN calls : k # 1 => k - 1 \in DOMAIN calls'

\* ConnectNodes does that.
LEMMA OneLinkMore ==
  ASSUME TopologyInv, ConnectNodes, NEW c, c = calls[1], NEW a, a = c.a, NEW b, b = c.b,
         NEW i, i = Len(devices[a]) + 1, NEW j, j = Len(devices[b]) + 1
  PROVE  LinkMade(c, a, b, i, j)
<1>1. calls # <<>> /\ calls' = Tail(calls) /\ IsSequence(calls) /\ addr' = addr
  BY DEF ConnectNodes, TopologyInv, LinkInv
<1>2. /\ 1 \in DOMAIN calls /\ Head(calls) = c /\ DOMAIN calls \subseteq Nat \ {0}
      /\ \A k \in DOMAIN calls' : k + 1 \in DOMAIN calls /\ calls'[k] = calls[k + 1]
                                  /\ k \in Nat \ {0}
      /\ \A k \in DOMAIN calls : k # 1 => k - 1 \in DOMAIN calls'
  <2>1. PICK s : s = calls
    OBVIOUS
  <2>2. IsSequence(s) /\ s # <<>>
    BY <1>1, <2>1
  <2>3. /\ 1 \in DOMAIN s /\ Head(s) = s[1] /\ DOMAIN s \subseteq Nat \ {0}
        /\ \A k \in DOMAIN Tail(s) : k + 1 \in DOMAIN s /\ Tail(s)[k] = s[k + 1]
                                     /\ k \in Nat \ {0}
        /\ \A k \in DOMAIN s : k # 1 => k - 1 \in DOMAIN Tail(s)
    BY <2>2, TailAt
  <2> QED  BY <1>1, <2>1, <2>3
<1>3. a \in TopoNode /\ b \in TopoNode /\ a # b
  BY <1>2 DEF TopologyInv, LinkInv, CallOK
<1>4. devices' = [devices EXCEPT ![a] = Append(@, Here(b, c.dim)),
                                 ![b] = Append(@, There(a, c.dim))]
  BY <1>2, Zenon DEF ConnectNodes, Here, There
<1>5. DOMAIN devices = TopoNode /\ \A n \in TopoNode : IsSequence(devices[n])
  BY DEF TopologyInv, LinkInv, DevicesOK
<1>6. PICK s, t, x, y : s = devices[a] /\ t = devices[b] /\ x = Here(b, c.dim) /\ y = There(a, c.dim)
  OBVIOUS
<1>7. /\ devices'[a] = Append(s, x) /\ devices'[b] = Append(t, y)
      /\ \A n \in TopoNode : n # a /\ n # b => devices'[n] = devices[n]
  BY <1>3, <1>4, <1>5, <1>6
<1>8. IsSequence(s) /\ IsSequence(t)
  BY <1>3, <1>5, <1>6
<1>9. /\ DOMAIN Append(s, x) = 1..(Len(s) + 1) /\ Append(s, x)[Len(s) + 1] = x
      /\ \A k \in DOMAIN s : Append(s, x)[k] = s[k]
      /\ Len(s) \in Nat /\ DOMAIN s = 1..Len(s)
  BY <1>8, AppendAt
<1>10. /\ DOMAIN Append(t, y) = 1..(Len(t) + 1) /\ Append(t, y)[Len(t) + 1] = y
       /\ \A k \in DOMAIN t : Append(t, y)[k] = t[k]
       /\ Len(t) \in Nat /\ DOMAIN t = 1..Len(t)
  BY <1>8, AppendAt
<1>11. /\ x.peer = b /\ x.dim = c.dim /\ x.first
       /\ y.peer = a /\ y.dim = c.dim /\ ~y.first
  BY <1>6, LinkRecords
<1>12. /\ i \in Nat \ {0} /\ DOMAIN devices[a] = 1..(i - 1) /\ DOMAIN devices'[a] = 1..i
       /\ \A p \in DOMAIN devices[a] : devices'[a][p] = devices[a][p]
       /\ devices'[a][i] = x
  BY <1>6, <1>7, <1>9
<1>13. /\ j \in Nat \ {0} /\ DOMAIN devices[b] = 1..(j - 1) /\ DOMAIN devices'[b] = 1..j
       /\ \A p \in DOMAIN devices[b] : devices'[b][p] = devices[b][p]
       /\ devices'[b][j] = y
  BY <1>6, <1>7, <1>10
<1>14. TopoNode' = TopoNode
  BY <1>1 DEF TopoNode
<1>15. /\ devices'[a][i].peer = b /\ devices'[a][i].dim = c.dim /\ devices'[a][i].first
       /\ devices'[b][j].peer = a /\ devices'[b][j].dim = c.dim /\ ~devices'[b][j].first
  BY <1>11, <1>12, <1>13, Zenon
<1> QED  BY <1>1, <1>2, <1>3, <1>7, <1>12, <1>13, <1>14, <1>15, Zenon DEF LinkMade

-----------------------------------------------------------------------------
(* Part 8: links of a replication. *)

\* The levels below a replicated one are replicated.
LEMMA CopiedBelow ==
  ASSUME SizeInv, NEW l \in Nat, Copied(l), NEW k \in Nat, k <= l
  PROVE  Copied(k)
<1>1. level \in Int
  BY DEF SizeInv
<1> QED  BY <1>1 DEF Copied

\* The next call makes link u anew in copy c, and the later ones for the copy make later links.
IsNext(g, u, c) ==
  /\ 1 \in DOMAIN calls /\ g[1] = <<u, c>>
  /\ \A k \in DOMAIN calls : k # 1 /\ g[k][2] = c => Before(u, g[k][1])

\* The link that is made next gets at the copy the number it has at the original.
LEMMA NextInterface ==
  ASSUME TopologyInv, NEW M, NEW g, NEW o \in Block, LinksNamed(M, o, Block),
         NEW c, ReplicaOf(M, g, o, c), IsSequence(devices[Copy(o, c)]),
         NEW q \in DOMAIN devices[o], NEW u, u = M[o][q], Copied(u[1]),
         IsNext(g, u, c)
  PROVE  Len(devices[Copy(o, c)]) + 1 = q
<1>1. PICK L, K : L = Len(devices[Copy(o, c)]) /\ K = Len(devices[o])
  OBVIOUS
<1>2. /\ L \in Nat /\ DOMAIN devices[Copy(o, c)] = 1..L
      /\ K \in Nat /\ DOMAIN devices[o] = 1..K
  BY <1>1, BlockPeers, SequenceType
<1>3. q \notin 1..L
  <2>1. Pending(g, u, c)
    BY DEF Pending, IsNext
  <2> QED  BY <1>2, <2>1 DEF ReplicaOf
<1>4. ASSUME NEW p \in 1..K, p < q  PROVE p \in 1..L
  <2>1. PICK v : v = M[o][p]
    OBVIOUS
  <2>2. Before(v, u) /\ v \in Nat \X Nat \X Nat \X Nat /\ u \in Nat \X Nat \X Nat \X Nat
    BY <1>2, <1>4, <2>1 DEF LinksNamed, Names
  <2>3. ~Before(u, v) /\ u # v
    BY <2>2, BeforeStrict
  <2>4. v[1] <= u[1] /\ v[1] \in Nat /\ u[1] \in Nat
    BY <2>2 DEF Before
  <2>5. Copied(v[1])
    BY <2>4, CopiedBelow DEF TopologyInv
  <2>6. ~Pending(g, v, c)
    <3> SUFFICES ASSUME NEW k \in DOMAIN calls, g[k] = <<v, c>>  PROVE FALSE
      BY DEF Pending
    <3>1. g[k][1] = v /\ g[k][2] = c
      OBVIOUS
    <3>2. k # 1
      <4>1. g[1][1] = u
        BY DEF IsNext
      <4> QED  BY <2>3, <3>1, <4>1
    <3> QED  BY <2>3, <3>1, <3>2 DEF IsNext
  <2> QED  BY <1>2, <2>1, <2>5, <2>6 DEF ReplicaOf
<1>5. q \in 1..K
  BY <1>2
<1>6. q - 1 \in 1..L \/ q = 1
  BY <1>2, <1>4, <1>5
<1> QED  BY <1>1, <1>2, <1>3, <1>5, <1>6

\* A call of ConnectNodes of a replication gives the copies the interface numbers of the originals.
LEMMA OrderWire ==
  ASSUME TopologyInv, TopologyInv', OrderInv, ConnectNodes, stage = "wire"
  PROVE  OrderInv'
<1>1. /\ stage' = stage /\ level' = level /\ dims' = dims /\ size' = size
      /\ originalSize' = originalSize /\ recipe' = recipe /\ built' = built
  BY DEF ConnectNodes
<1>2. PICK M : Ordered(M)
  BY DEF OrderInv
<1>3. PICK g : Replicas(M, g) /\ CallsCopy(g, calls, Places0(level))
  BY <1>2 DEF Ordered, Replicating
<1>4. \A n \in Block : LinksNamed(M, n, Block)
  BY <1>2 DEF Ordered
<1>5. PICK call, a, b, i, j :
        /\ call = calls[1] /\ a = call.a /\ b = call.b
        /\ i = Len(devices[a]) + 1 /\ j = Len(devices[b]) + 1
  OBVIOUS
<1>6. /\ a \in TopoNode /\ b \in TopoNode /\ a # b /\ 1 \in DOMAIN calls
      /\ TopoNode' = TopoNode /\ \A n \in TopoNode : n # a /\ n # b => devices'[n] = devices[n]
      /\ i \in Nat \ {0} /\ DOMAIN devices[a] = 1..(i - 1) /\ DOMAIN devices'[a] = 1..i
      /\ \A p \in DOMAIN devices[a] : devices'[a][p] = devices[a][p]
      /\ devices'[a][i].peer = b /\ devices'[a][i].dim = call.dim /\ devices'[a][i].first
      /\ j \in Nat \ {0} /\ DOMAIN devices[b] = 1..(j - 1) /\ DOMAIN devices'[b] = 1..j
      /\ \A p \in DOMAIN devices[b] : devices'[b][p] = devices[b][p]
      /\ devices'[b][j].peer = a /\ devices'[b][j].dim = call.dim /\ ~devices'[b][j].first
      /\ DOMAIN calls \subseteq Nat \ {0} /\ IsSequence(calls)
      /\ \A k \in DOMAIN calls' : k + 1 \in DOMAIN calls /\ calls'[k] = calls[k + 1]
                                  /\ k \in Nat \ {0}
      /\ \A k \in DOMAIN calls : k # 1 => k - 1 \in DOMAIN calls'
  <2>1. LinkMade(call, a, b, i, j)
    BY <1>5, OneLinkMore, Zenon
  <2> QED  BY <2>1 DEF LinkMade
<1>7. PICK u, c, x, y : /\ u = g[1][1] /\ c = g[1][2] /\ x = Maker(u)
                        /\ y = devices[x][u[4]].peer
  OBVIOUS
<1>8. /\ x \in Places0(level) /\ c \in 1..(Template.copies - 1) /\ CopiesLink(call, u, c)
      /\ g[1] = <<u, c>> /\ u = <<u[1], u[2], u[3], u[4]>>
  <2>1. /\ Maker(g[1][1]) \in Places0(level) /\ g[1][2] \in 1..(Template.copies - 1)
        /\ CopiesLink(calls[1], g[1][1], g[1][2]) /\ Entry(g[1])
    BY <1>3, <1>6 DEF CallsCopy
  <2>2. g[1] = <<<<u[1], u[2], u[3], u[4]>>, c>>
    BY <1>7, <2>1 DEF Entry
  <2> QED  BY <1>5, <1>7, <2>1, <2>2
<1>9. level \in 0..Top /\ Top \in Nat
  BY BlockNodes DEF TopologyInv, SizeInv
<1>10. x \in Block /\ x[1] = level /\ u[1] = level /\ u[3] = x[2]
  <2>1. x \in Block /\ x[1] = level
    BY <1>8, <1>9, BlockNodes DEF AreNodes, Places0
  <2> QED  BY <1>7, <2>1 DEF Maker
<1>11. /\ u[4] \in DOMAIN devices[x] /\ devices[x][u[4]].first /\ devices[x][u[4]].dim = u[2]
       /\ a = Copy(x, c) /\ b = Copy(y, c) /\ call.dim = u[2]
  BY <1>5, <1>7, <1>8 DEF CopiesLink, MadeFrom
<1>12. M[x][u[4]] = u /\ u \in Nat \X Nat \X Nat \X Nat
       /\ \E q \in DOMAIN devices[y] : M[y][q] = u
  <2>1. PICK v : v = M[x][u[4]]
    OBVIOUS
  <2>2. Names(M, v, x, u[4], Block)
    BY <1>4, <1>10, <1>11, <2>1 DEF LinksNamed
  <2>3. /\ v \in Nat \X Nat \X Nat \X Nat /\ v = <<x[1], v[2], x[2], u[4]>> /\ v[2] = u[2]
        /\ \E q \in DOMAIN devices[y] : M[y][q] = v
    BY <1>7, <1>11, <2>2 DEF Names
  <2>4. u = v
    BY <1>8, <1>10, <2>3
  <2> QED  BY <2>1, <2>3, <2>4
<1>13. y \in Block /\ y[1] <= level /\ x # y /\ y[1] \in Nat
  <2>1. y \in Block /\ y[1] <= x[1]
    BY <1>7, <1>10, <1>11, BlockPeers
  <2>2. x # y
    BY <1>6, <1>11
  <2>3. y[1] \in Nat
    BY <2>1, BlockNodes DEF AreNodes
  <2> QED  BY <1>10, <2>1, <2>2, <2>3
<1>14. Copied(x[1]) /\ Copied(y[1]) /\ Copied(u[1])
  <2>1. Copied(level)
    BY DEF Copied
  <2>2. Copied(y[1])
    BY <1>9, <1>13, <2>1, CopiedBelow DEF TopologyInv
  <2> QED  BY <1>10, <2>1, <2>2
<1>15. PICK q \in DOMAIN devices[y] : M[y][q] = u
  BY <1>12
<1>16. \A k \in DOMAIN calls : k # 1 /\ g[k][2] = c => Before(u, g[k][1])
  <2> SUFFICES ASSUME NEW k \in DOMAIN calls, k # 1, g[k][2] = c  PROVE Before(u, g[k][1])
    OBVIOUS
  <2>1. 1 < k
    BY <1>6
  <2>2. g[1][2] = g[k][2] /\ g[1][1] = u
    BY <1>7
  <2> QED  BY <1>3, <1>6, <2>1, <2>2 DEF CallsCopy
<1>17. i = u[4] /\ j = q
  <2>1. ReplicaOf(M, g, x, c) /\ ReplicaOf(M, g, y, c)
    BY <1>3, <1>8, <1>10, <1>13, <1>14 DEF Replicas
  <2>2. IsSequence(devices[a]) /\ IsSequence(devices[b])
    BY <1>6 DEF TopologyInv, LinkInv, DevicesOK
  <2>3. PICK r : r = u[4]
    OBVIOUS
  <2>4. /\ r \in DOMAIN devices[x] /\ u = M[x][r] /\ LinksNamed(M, x, Block)
        /\ IsSequence(devices[Copy(x, c)])
    BY <1>4, <1>10, <1>11, <1>12, <2>2, <2>3
  <2>8. IsNext(g, u, c)
    BY <1>6, <1>8, <1>16 DEF IsNext
  <2>5. Len(devices[Copy(x, c)]) + 1 = r
    BY <1>10, <1>14, <2>1, <2>4, <2>8, NextInterface
  <2>6. LinksNamed(M, y, Block) /\ IsSequence(devices[Copy(y, c)]) /\ u = M[y][q]
    BY <1>4, <1>11, <1>13, <1>15, <2>2
  <2>7. Len(devices[Copy(y, c)]) + 1 = q
    BY <1>13, <1>14, <2>1, <2>6, <2>8, NextInterface
  <2> QED  BY <1>5, <1>11, <2>3, <2>5, <2>7
<1>18. ~devices[y][q].first /\ devices[y][q].dim = u[2] /\ devices[y][q].peer = x
  <2>1. Names(M, u, y, q, Block)
    BY <1>4, <1>13, <1>15 DEF LinksNamed
  <2>2. y = <<y[1], y[2]>>
    BY <1>13, BlockNodes DEF AreNodes
  <2>3. ASSUME devices[y][q].first  PROVE FALSE
    <3>1. u = <<y[1], u[2], y[2], q>>
      BY <2>1, <2>3 DEF Names
    <3>2. u[1] = y[1] /\ u[3] = y[2]
      BY <3>1
    <3>3. x = y
      BY <1>7, <2>2, <3>2 DEF Maker
    <3> QED  BY <1>13, <3>3
  <2> QED  BY <1>7, <2>1, <2>3 DEF Names
<1>19. Block' = Block /\ \A n \in Block : devices'[n] = devices[n]
  <2>1. Block' = Block
    BY <1>1, <1>6 DEF Block
  <2>2. a \notin Block /\ b \notin Block
    BY <1>8, <1>10, <1>11, <1>13, <1>14, CopyNodes DEF Replicating
  <2>3. \A n \in Block : n \in TopoNode
    BY DEF Block
  <2> QED  BY <1>6, <2>1, <2>2, <2>3
<1>20. PICK h : h = [k \in DOMAIN calls' |-> g[k + 1]]
  OBVIOUS
<1>21. CallsCopy(h, calls, Places0(level))'
  <2>1. ASSUME NEW k \in DOMAIN calls'
        PROVE  /\ Entry(h[k]) /\ Maker(h[k][1]) \in Places0(level)
               /\ h[k][2] \in 1..(Template.copies - 1)
               /\ CopiesLink(calls[k], h[k][1], h[k][2])'
    <3>1. PICK v, d, m, z : v = h[k][1] /\ d = h[k][2] /\ m = Maker(v) /\ z = calls'[k]
      OBVIOUS
    <3>2. h[k] = g[k + 1] /\ k + 1 \in DOMAIN calls /\ z = calls[k + 1]
      BY <1>6, <1>20, <3>1
    <3>3. /\ Entry(h[k]) /\ m \in Places0(level) /\ d \in 1..(Template.copies - 1)
          /\ CopiesLink(z, v, d)
      BY <1>3, <3>1, <3>2 DEF CallsCopy
    <3>4. m \in Block
      BY <1>9, <3>3, BlockNodes DEF AreNodes, Places0
    <3>5. devices'[m] = devices[m]
      BY <1>19, <3>4
    <3>6. CopiesLink(z, v, d)'
      BY <1>1, <3>1, <3>3, <3>5 DEF CopiesLink, MadeFrom, Copy, Maker
    <3> QED  BY <3>1, <3>3, <3>6 DEF CopiesLink, MadeFrom, Copy, Maker
  <2>2. ASSUME NEW k \in DOMAIN calls', NEW r \in DOMAIN calls', k < r, h[k][2] = h[r][2]
        PROVE  Before(h[k][1], h[r][1])
    <3>1. /\ h[k] = g[k + 1] /\ k + 1 \in DOMAIN calls /\ h[r] = g[r + 1] /\ r + 1 \in DOMAIN calls
          /\ k + 1 < r + 1
      BY <1>6, <1>20, <2>2
    <3> QED  BY <1>3, <2>2, <3>1 DEF CallsCopy
  <2>3. Places0(level)' = Places0(level) /\ Template' = Template
    BY <1>1 DEF Places0, Template
  <2> QED  BY <2>1, <2>2, <2>3 DEF CallsCopy
<1>22. ASSUME NEW v, NEW d  PROVE Pending(g, v, d) <=> Pending(h, v, d)' \/ <<v, d>> = <<u, c>>
  <2>1. ASSUME NEW k \in DOMAIN calls, g[k] = <<v, d>>
        PROVE  Pending(h, v, d)' \/ <<v, d>> = <<u, c>>
    <3>1. CASE k = 1
      BY <1>8, <2>1, <3>1
    <3>2. CASE k # 1
      <4>1. k - 1 \in DOMAIN calls' /\ (k - 1) + 1 = k
        BY <1>6, <3>2
      <4>2. h[k - 1] = <<v, d>>
        BY <1>20, <2>1, <4>1
      <4> QED  BY <4>1, <4>2 DEF Pending
    <3> QED  BY <3>1, <3>2
  <2>2. ASSUME NEW k \in DOMAIN calls', h[k] = <<v, d>>  PROVE Pending(g, v, d)
    <3>1. k + 1 \in DOMAIN calls /\ g[k + 1] = <<v, d>>
      BY <1>6, <1>20, <2>2
    <3> QED  BY <3>1 DEF Pending
  <2>3. <<v, d>> = <<u, c>> => Pending(g, v, d)
    BY <1>6, <1>8 DEF Pending
  <2> QED  BY <2>1, <2>2, <2>3 DEF Pending
<1>23. ~Pending(h, u, c)'
  <2> SUFFICES ASSUME NEW k \in DOMAIN calls', h[k] = <<u, c>>  PROVE FALSE
    BY DEF Pending
  <2>1. k + 1 \in DOMAIN calls /\ k + 1 # 1 /\ g[k + 1] = <<u, c>>
    BY <1>6, <1>20
  <2>2. g[k + 1][1] = u /\ g[k + 1][2] = c
    BY <2>1
  <2>3. Before(u, u)
    BY <1>16, <2>1, <2>2
  <2> QED  BY <1>12, <2>3, BeforeStrict
<1>24. ASSUME NEW o \in Block, Copied(o[1]), NEW d \in 1..(Template.copies - 1)
       PROVE  ReplicaOf(M, h, o, d)'
  <2>1. PICK n : n = Copy(o, d)
    OBVIOUS
  <2>2. /\ n \in TopoNode /\ Copy(o, d)' = n /\ devices'[o] = devices[o]
        /\ \A v : Copy(v, d)' = Copy(v, d)
    BY <1>1, <1>19, <1>24, <2>1, CopyNodes DEF Replicating, Copy
  <2>3. ReplicaOf(M, g, o, d)
    BY <1>3, <1>24 DEF Replicas
  <2>4. \A l : Copied(l)' <=> Copied(l)
    BY <1>1 DEF Copied
  <2>5. ASSUME NEW p \in DOMAIN devices[n], devices'[n][p] = devices[n][p]
        PROVE  p \in DOMAIN devices[o] /\ AsOriginal(o, d, p)'
    <3>1. p \in DOMAIN devices[o] /\ AsOriginal(o, d, p)
      BY <2>1, <2>3 DEF ReplicaOf
    <3> QED  BY <2>1, <2>2, <2>5, <3>1 DEF AsOriginal
  <2>6. \A p \in DOMAIN devices[o] :
          p \in DOMAIN devices[n] <=> Copied(M[o][p][1]) /\ ~Pending(g, M[o][p], d)
    BY <2>1, <2>3 DEF ReplicaOf
  <2>7. CASE (o = x \/ o = y) /\ d = c
    <3>1. PICK r : r \in Nat \ {0} /\ DOMAIN devices[n] = 1..(r - 1) /\ DOMAIN devices'[n] = 1..r
                   /\ (\A p \in DOMAIN devices[n] : devices'[n][p] = devices[n][p])
                   /\ r \in DOMAIN devices[o] /\ M[o][r] = u /\ AsOriginal(o, d, r)'
      <4>1. CASE o = x
        <5>1. AsOriginal(x, c, i)'
          <6>1. /\ devices'[a][i].peer = Copy(y, c) /\ devices'[a][i].dim = u[2]
                /\ devices'[a][i].first
            BY <1>6, <1>11
          <6>2. devices'[x] = devices[x] /\ devices[x][i].peer = y /\ devices[x][i].dim = u[2]
                /\ devices[x][i].first
            BY <1>7, <1>10, <1>11, <1>17, <1>19
          <6>3. a = Copy(x, c) /\ originalSize' = originalSize
            BY <1>1, <1>11
          <6> QED  BY <6>1, <6>2, <6>3 DEF AsOriginal, Copy
        <5>2. n = a /\ M[o][i] = u /\ i \in DOMAIN devices[o]
          BY <1>11, <1>12, <1>17, <2>1, <2>7, <4>1
        <5>3. AsOriginal(o, d, i)'
          BY <2>7, <4>1, <5>1
        <5> QED  BY <1>6, <5>2, <5>3
      <4>2. CASE o = y
        <5>1. AsOriginal(y, c, j)'
          <6>1. /\ devices'[b][j].peer = Copy(x, c) /\ devices'[b][j].dim = u[2]
                /\ ~devices'[b][j].first
            BY <1>6, <1>11
          <6>2. devices'[y] = devices[y] /\ devices[y][j].peer = x /\ devices[y][j].dim = u[2]
                /\ ~devices[y][j].first
            BY <1>13, <1>17, <1>18, <1>19
          <6>3. b = Copy(y, c) /\ originalSize' = originalSize
            BY <1>1, <1>11
          <6> QED  BY <6>1, <6>2, <6>3 DEF AsOriginal, Copy
        <5>2. n = b /\ M[o][j] = u /\ j \in DOMAIN devices[o]
          BY <1>11, <1>15, <1>17, <2>1, <2>7, <4>2
        <5>3. AsOriginal(o, d, j)'
          BY <2>7, <4>2, <5>1
        <5> QED  BY <1>6, <5>2, <5>3
      <4> QED  BY <2>7, <4>1, <4>2
    <3>2. \A p \in DOMAIN devices'[n] : p \in DOMAIN devices[o] /\ AsOriginal(o, d, p)'
      <4>1. ASSUME NEW p \in DOMAIN devices'[n], p # r  PROVE p \in DOMAIN devices[n]
        BY <3>1, <4>1
      <4> QED  BY <2>5, <3>1, <4>1
    <3>3. ASSUME NEW p \in DOMAIN devices[o]
          PROVE  p \in DOMAIN devices'[n] <=> Copied(M[o][p][1]) /\ ~Pending(h, M[o][p], d)'
      <4>1. CASE p = r
        BY <1>14, <1>23, <2>7, <3>1, <4>1
      <4>2. CASE p # r
        <5>1. M[o][p] # u
          <6>1. PICK v : v = M[o][p]
            OBVIOUS
          <6>2. \A s \in DOMAIN devices[o] : s \in Nat
            BY BlockPeers, SequenceType
          <6>3. Before(v, u) \/ Before(u, v)
            <7>1. p < r \/ r < p
              BY <3>1, <4>2, <6>2
            <7> QED  BY <1>4, <3>1, <6>1, <7>1 DEF LinksNamed
          <6> QED  BY <1>12, <6>1, <6>3, BeforeStrict
        <5>2. Pending(g, M[o][p], d) <=> Pending(h, M[o][p], d)'
          BY <1>22, <5>1
        <5>3. p \in DOMAIN devices[n] <=> p \in DOMAIN devices'[n]
          <6>1. p \in Nat
            BY BlockPeers, SequenceType
          <6> QED  BY <3>1, <4>2, <6>1
        <5> QED  BY <2>6, <5>2, <5>3
      <4> QED  BY <4>1, <4>2
    <3> QED  BY <2>2, <2>4, <3>2, <3>3 DEF ReplicaOf
  <2>8. CASE ~((o = x \/ o = y) /\ d = c)
    <3>1. n # a /\ n # b
      <4>1. c \in Nat /\ d \in Nat
        BY <1>8
      <4> QED  BY <1>10, <1>11, <1>13, <2>1, <2>8, <4>1, CopiesDiffer
    <3>2. devices'[n] = devices[n]
      BY <1>6, <2>2, <3>1
    <3>3. ASSUME NEW p \in DOMAIN devices[o]
          PROVE  Pending(g, M[o][p], d) <=> Pending(h, M[o][p], d)'
      <4>1. PICK v : v = M[o][p]
        OBVIOUS
      <4>2. o = Maker(v) \/ o = devices[Maker(v)][v[4]].peer
        BY <1>4, <4>1, NameFacts
      <4>3. <<v, d>> # <<u, c>>
        <5>1. v = u => o = x \/ o = y
          BY <1>7, <4>2
        <5> QED  BY <2>8, <5>1
      <4> QED  BY <1>22, <4>1, <4>3
    <3>4. \A p \in DOMAIN devices[o] :
            p \in DOMAIN devices'[n] <=> Copied(M[o][p][1])' /\ ~Pending(h, M[o][p], d)'
      BY <2>4, <2>6, <3>2, <3>3
    <3>5. \A p \in DOMAIN devices'[n] : p \in DOMAIN devices[o] /\ AsOriginal(o, d, p)'
      BY <2>5, <3>2
    <3> QED  BY <2>2, <3>4, <3>5 DEF ReplicaOf
  <2> QED  BY <2>7, <2>8
<1>25. Replicas(M, h)'
  BY <1>1, <1>19, <1>24 DEF Replicas, Template, Copied
<1>26. \A n \in Block' : LinksNamed(M, n, Block)'
  BY <1>1, <1>4, <1>19, BlockNamesKept
<1>27. Ordered(M)'
  BY <1>21, <1>25, <1>26 DEF Ordered
<1>28. TopOrder'
  BY <1>1 DEF TopOrder
<1> QED  BY <1>27, <1>28 DEF OrderInv

-----------------------------------------------------------------------------
(* Part 9: links of a template, and all steps. *)

\* A link that a template makes comes after all links there are.
LEMMA NewestLink ==
  ASSUME TopologyInv, OrderInv, stage = "connect", 1 \in DOMAIN calls, NEW a, a = calls[1].a,
         NEW i \in Nat, Len(devices[a]) < i,
         NEW u, u = <<Top, dims[Top], a[2], i>>, NEW v \in Nat \X Nat \X Nat \X Nat,
         Maker(v) \in TopoNode, MadeFrom(v), v[2] <= dims[v[1]]
  PROVE  Before(v, u)
<1>1. PICK m : m = Maker(v)
  OBVIOUS
<1>2. m[1] = v[1] /\ m[2] = v[3] /\ v[1] \in 0..Top /\ Top \in Nat /\ dims[Top] \in Nat
  <2>1. m[1] = v[1] /\ m[2] = v[3]
    BY <1>1 DEF Maker
  <2> QED  BY <1>1, <2>1, BlockNodes DEF AreNodes
<1>3. v[4] \in DOMAIN devices[m] /\ devices[m][v[4]].first /\ devices[m][v[4]].dim = v[2]
  BY <1>1 DEF MadeFrom
<1>4. a \in TopoNode /\ a[1] = Top
  <2>1. \A k \in DOMAIN calls : CallOK(calls[k])
    BY DEF TopologyInv, LinkInv
  <2>2. a \in TopoNode
    BY <2>1 DEF CallOK
  <2>3. a[1] = Top
    BY DEF OrderInv, TopOrder, FromTop, TopLink
  <2> QED  BY <2>2, <2>3
<1>5. a = <<a[1], a[2]>> /\ a[2] \in Nat
  <2>1. AreNodes(TopoNode, size, Top)
    BY BlockNodes
  <2>2. a = <<a[1], a[2]>> /\ a[2] \in 0..(size[a[1]] - 1)
    BY <1>4, <2>1 DEF AreNodes
  <2> QED  BY <2>2
<1>6. u[1] = Top /\ u[2] = dims[Top] /\ u[3] = a[2] /\ u[4] = i
  OBVIOUS
<1>7. CASE v[1] # Top
  BY <1>2, <1>6, <1>7 DEF Before
<1>8. CASE v[1] = Top /\ v[2] # dims[Top]
  BY <1>2, <1>6, <1>8 DEF Before
<1>9. CASE v[1] = Top /\ v[2] = dims[Top]
  <2>1. v[3] <= a[2]
    <3>1. m[2] <= calls[1].a[2]
      BY <1>1, <1>2, <1>3, <1>9 DEF OrderInv, TopOrder
    <3> QED  BY <1>2, <3>1
  <2>2. CASE v[3] = a[2]
    <3>1. m = a
      BY <1>1, <1>4, <1>5, <1>9, <2>2 DEF Maker
    <3>2. v[4] < i
      <4>1. Len(devices[a]) \in Nat /\ DOMAIN devices[a] = 1..Len(devices[a])
        BY <1>4, SequenceType DEF TopologyInv, LinkInv, DevicesOK
      <4> QED  BY <1>3, <3>1, <4>1
    <3> QED  BY <1>6, <1>9, <2>2, <3>2 DEF Before
  <2>3. CASE v[3] # a[2]
    <3>1. v[3] < a[2]
      BY <1>5, <2>1, <2>3
    <3> QED  BY <1>6, <1>9, <3>1 DEF Before
  <2> QED  BY <2>2, <2>3
<1> QED  BY <1>7, <1>8, <1>9

\* A call of ConnectNodes of a template makes a link that has the last name so far.
LEMMA OrderNewLink ==
  ASSUME TopologyInv, TopologyInv', OrderInv, ConnectNodes, stage = "connect"
  PROVE  OrderInv'
<1>1. /\ stage' = stage /\ level' = level /\ dims' = dims /\ size' = size
      /\ originalSize' = originalSize /\ recipe' = recipe /\ built' = built
  BY DEF ConnectNodes
<1>2. PICK M : Ordered(M)
  BY DEF OrderInv
<1>3. Block = TopoNode /\ ~Replicating
  BY WholeBlockNow DEF Replicating
<1>4. \A n \in TopoNode : LinksNamed(M, n, TopoNode)
  BY <1>2, <1>3 DEF Ordered
<1>5. PICK call, a, b, i, j :
        /\ call = calls[1] /\ a = call.a /\ b = call.b
        /\ i = Len(devices[a]) + 1 /\ j = Len(devices[b]) + 1
  OBVIOUS
<1>6. LinkMade(call, a, b, i, j)
  BY <1>5, OneLinkMore, Zenon
<1>7. /\ a \in TopoNode /\ b \in TopoNode /\ a # b /\ 1 \in DOMAIN calls
      /\ TopoNode' = TopoNode /\ \A n \in TopoNode : n # a /\ n # b => devices'[n] = devices[n]
      /\ i \in Nat \ {0} /\ DOMAIN devices[a] = 1..(i - 1) /\ DOMAIN devices'[a] = 1..i
      /\ \A p \in DOMAIN devices[a] : devices'[a][p] = devices[a][p]
      /\ devices'[a][i].peer = b /\ devices'[a][i].dim = call.dim /\ devices'[a][i].first
      /\ j \in Nat \ {0} /\ DOMAIN devices[b] = 1..(j - 1) /\ DOMAIN devices'[b] = 1..j
      /\ \A p \in DOMAIN devices[b] : devices'[b][p] = devices[b][p]
      /\ devices'[b][j].peer = a /\ devices'[b][j].dim = call.dim /\ ~devices'[b][j].first
      /\ DOMAIN calls \subseteq Nat \ {0} /\ IsSequence(calls)
      /\ \A k \in DOMAIN calls' : k + 1 \in DOMAIN calls /\ calls'[k] = calls[k + 1]
                                  /\ k \in Nat \ {0}
  BY <1>6 DEF LinkMade
<1>8. a[1] = Top /\ call.dim = dims[Top] /\ Top \in Nat /\ dims[Top] \in Nat /\ a = <<a[1], a[2]>>
      /\ a[2] \in Nat
  <2>1. a[1] = Top /\ call.dim = dims[Top]
    BY <1>5, <1>7 DEF OrderInv, TopOrder, FromTop, TopLink
  <2> QED  BY <1>7, <2>1, BlockNodes DEF AreNodes
<1>9. PICK u : u = <<Top, dims[Top], a[2], i>>
  OBVIOUS
<1>10. u \in Nat \X Nat \X Nat \X Nat /\ u[1] = Top /\ u[2] = dims[Top] /\ u[3] = a[2] /\ u[4] = i
       /\ Maker(u) = a
  BY <1>7, <1>8, <1>9 DEF Maker
<1>11. PICK N : N = [n \in TopoNode |-> [p \in DOMAIN devices'[n] |->
                       IF p \in DOMAIN devices[n] THEN M[n][p] ELSE u]]
  OBVIOUS
<1>12. ASSUME NEW n \in TopoNode
       PROVE  /\ DOMAIN devices[n] \subseteq DOMAIN devices'[n]
              /\ \A p \in DOMAIN devices[n] : devices'[n][p] = devices[n][p] /\ N[n][p] = M[n][p]
              /\ \A p \in DOMAIN devices'[n] : p \in Nat
              /\ \A p \in DOMAIN devices'[n] : p \notin DOMAIN devices[n] =>
                   /\ N[n][p] = u
                   /\ (n = a /\ p = i) \/ (n = b /\ p = j)
                   /\ \A q \in DOMAIN devices[n] : q < p
                   /\ \A q \in DOMAIN devices'[n] : q = p \/ q \in DOMAIN devices[n]
  <2>1. CASE n = a
    <3>1. /\ \A p \in DOMAIN devices[n] : p \in DOMAIN devices'[n] /\ devices'[n][p] = devices[n][p]
          /\ \A p \in DOMAIN devices'[n] : p \in Nat /\ (p \in DOMAIN devices[n] \/ p = i)
          /\ \A q \in DOMAIN devices[n] : q < i
      BY <1>7, <2>1
    <3>2. /\ \A p \in DOMAIN devices'[n] : p \in DOMAIN devices[n] => N[n][p] = M[n][p]
          /\ \A p \in DOMAIN devices'[n] : p \notin DOMAIN devices[n] => N[n][p] = u
      BY <1>11, Zenon
    <3> QED  BY <2>1, <3>1, <3>2
  <2>2. CASE n = b
    <3>1. /\ \A p \in DOMAIN devices[n] : p \in DOMAIN devices'[n] /\ devices'[n][p] = devices[n][p]
          /\ \A p \in DOMAIN devices'[n] : p \in Nat /\ (p \in DOMAIN devices[n] \/ p = j)
          /\ \A q \in DOMAIN devices[n] : q < j
      BY <1>7, <2>2
    <3>2. /\ \A p \in DOMAIN devices'[n] : p \in DOMAIN devices[n] => N[n][p] = M[n][p]
          /\ \A p \in DOMAIN devices'[n] : p \notin DOMAIN devices[n] => N[n][p] = u
      BY <1>11, Zenon
    <3> QED  BY <2>2, <3>1, <3>2
  <2>3. CASE n # a /\ n # b
    <3>1. devices'[n] = devices[n]
      BY <1>7, <2>3
    <3>2. \A p \in DOMAIN devices[n] : p \in Nat
      BY SequenceType DEF TopologyInv, LinkInv, DevicesOK
    <3> QED  BY <1>11, <3>1, <3>2
  <2> QED  BY <2>1, <2>2, <2>3
<1>13. ASSUME NEW n \in TopoNode, NEW p \in DOMAIN devices[n]
       PROVE  Names(N, M[n][p], n, p, TopoNode)'
  <2>1. PICK v, m, x : v = M[n][p] /\ m = Maker(v) /\ x = devices[n][p].peer
    OBVIOUS
  <2>2. Names(M, v, n, p, TopoNode)
    BY <1>4, <2>1 DEF LinksNamed
  <2>3. v \in Nat \X Nat \X Nat \X Nat /\ m \in TopoNode /\ MadeFrom(v)
        /\ v[2] <= dims[v[1]] /\ devices[n][p].dim = v[2]
    BY <2>1, <2>2 DEF Names
  <2>4. v[4] \in DOMAIN devices[m] /\ devices[m][v[4]].first /\ devices[m][v[4]].dim = v[2]
    BY <2>1, <2>3 DEF MadeFrom
  <2>5. v[4] \in DOMAIN devices'[m] /\ devices'[m][v[4]] = devices[m][v[4]]
        /\ devices'[n][p] = devices[n][p]
    BY <1>12, <2>3, <2>4
  <2>6. MadeFrom(v)'
    BY <2>1, <2>4, <2>5 DEF MadeFrom, Maker
  <2>7. ASSUME devices[n][p].first
        PROVE  v = <<n[1], v[2], n[2], p>> /\ \E q \in DOMAIN devices'[x] : N[x][q] = v
    <3>1. v = <<n[1], v[2], n[2], p>> /\ \E q \in DOMAIN devices[x] : M[x][q] = v
      BY <2>1, <2>2, <2>7 DEF Names
    <3>2. x \in TopoNode
      BY <2>1 DEF TopologyInv, LinkInv, DevicesOK, DeviceOK
    <3> QED  BY <1>12, <3>1, <3>2
  <2>8. ASSUME ~devices[n][p].first  PROVE x = m /\ devices'[m][v[4]].peer = n
    BY <2>1, <2>2, <2>5, <2>8 DEF Names
  <2>9. v[2] <= dims'[v[1]] /\ devices'[n][p].dim = v[2] /\ devices'[n][p].peer = x
        /\ m \in TopoNode'
    BY <1>1, <1>7, <2>1, <2>3, <2>5
  <2>10. devices'[n][p].first <=> devices[n][p].first
    BY <2>5
  <2>11. devices'[n][p].first =>
           v = <<n[1], v[2], n[2], p>> /\ \E q \in DOMAIN devices'[x] : N[x][q] = v
    BY <2>7, <2>10
  <2>12. ~devices'[n][p].first => x = m /\ devices'[m][v[4]].peer = n
    BY <2>8, <2>10
  <2>13. Names(N, v, n, p, TopoNode)'
    BY <2>1, <2>3, <2>6, <2>9, <2>11, <2>12 DEF Names
  <2> QED  BY <2>1, <2>13
<1>14. MadeFrom(u)'
  <2>1. u[4] \in DOMAIN devices'[a] /\ devices'[a][u[4]].first /\ devices'[a][u[4]].dim = u[2]
    BY <1>7, <1>8, <1>10
  <2> QED  BY <1>10, <2>1 DEF MadeFrom, Maker
<1>15. Names(N, u, a, i, TopoNode)'
  <2>1. j \in DOMAIN devices'[b] /\ j \notin DOMAIN devices[b] /\ i \in DOMAIN devices'[a]
    BY <1>7
  <2>2. \E q \in DOMAIN devices'[b] : N[b][q] = u
    BY <1>7, <1>12, <2>1
  <2>3. u = <<a[1], u[2], a[2], i>>
    BY <1>8, <1>9, <1>10
  <2>4. u[2] <= dims'[u[1]] /\ devices'[a][i].dim = u[2]
    BY <1>1, <1>7, <1>8, <1>10
  <2>5. devices'[a][i].first /\ devices'[a][i].peer = b /\ Maker(u) \in TopoNode'
    BY <1>7, <1>10
  <2> QED  BY <1>10, <1>14, <2>2, <2>3, <2>4, <2>5 DEF Names, Maker
<1>16. Names(N, u, b, j, TopoNode)'
  <2>1. u[2] <= dims'[u[1]] /\ devices'[b][j].dim = u[2]
    BY <1>1, <1>7, <1>8, <1>10
  <2>2. ~devices'[b][j].first /\ devices'[b][j].peer = Maker(u) /\ Maker(u) \in TopoNode'
        /\ devices'[Maker(u)][u[4]].peer = b
    BY <1>7, <1>10
  <2> QED  BY <1>10, <1>14, <2>1, <2>2 DEF Names, Maker
<1>17. ASSUME NEW n \in TopoNode  PROVE LinksNamed(N, n, TopoNode)'
  <2>1. ASSUME NEW p \in DOMAIN devices'[n]  PROVE Names(N, N[n][p], n, p, TopoNode)'
    <3>1. CASE p \in DOMAIN devices[n]
      <4>1. N[n][p] = M[n][p]
        BY <1>12, <3>1
      <4> QED  BY <1>13, <3>1, <4>1
    <3>2. CASE p \notin DOMAIN devices[n]
      <4>1. N[n][p] = u /\ ((n = a /\ p = i) \/ (n = b /\ p = j))
        BY <1>12, <2>1, <3>2
      <4> QED  BY <1>15, <1>16, <4>1
    <3> QED  BY <3>1, <3>2
  <2>2. ASSUME NEW p \in DOMAIN devices'[n], NEW q \in DOMAIN devices'[n], p < q
        PROVE  Before(N[n][p], N[n][q])
    <3>1. p \in DOMAIN devices[n]
      <4> SUFFICES ASSUME p \notin DOMAIN devices[n]  PROVE FALSE
        OBVIOUS
      <4>1. q = p \/ q < p
        BY <1>12, <2>2
      <4>2. p \in Nat /\ q \in Nat
        BY <1>12
      <4> QED  BY <2>2, <4>1, <4>2
    <3>2. CASE q \in DOMAIN devices[n]
      BY <1>4, <1>12, <2>2, <3>1, <3>2 DEF LinksNamed
    <3>3. CASE q \notin DOMAIN devices[n]
      <4>1. PICK v : v = M[n][p]
        OBVIOUS
      <4>2. N[n][p] = v /\ N[n][q] = u
        BY <1>12, <2>2, <3>1, <3>3, <4>1
      <4>3. Names(M, v, n, p, TopoNode)
        BY <1>4, <3>1, <4>1 DEF LinksNamed
      <4>4. v \in Nat \X Nat \X Nat \X Nat /\ Maker(v) \in TopoNode /\ MadeFrom(v)
            /\ v[2] <= dims[v[1]]
        BY <4>3 DEF Names
      <4>5. a = calls[1].a /\ i \in Nat /\ Len(devices[a]) < i
        <5>1. Len(devices[a]) \in Nat
          BY <1>7, SequenceType DEF TopologyInv, LinkInv, DevicesOK
        <5> QED  BY <1>5, <1>7, <5>1
      <4>6. Before(v, u)
        BY <1>7, <1>9, <4>4, <4>5, NewestLink
      <4> QED  BY <4>2, <4>6
    <3> QED  BY <3>2, <3>3
  <2>3. /\ \A p \in DOMAIN devices'[n] : Names(N, N[n][p], n, p, TopoNode)'
        /\ \A p, q \in DOMAIN devices'[n] : p < q => Before(N[n][p], N[n][q])
    BY <2>1, <2>2
  <2> QED  BY <2>3 DEF LinksNamed
<1>18. Block' = TopoNode'
  BY <1>1, <1>3, <1>7 DEF Block
<1>19. Ordered(N)'
  <2>1. ~Replicating'
    BY <1>1, <1>3 DEF Replicating
  <2>2. ASSUME NEW n \in Block'  PROVE LinksNamed(N, n, Block)'
    <3>1. n \in TopoNode
      BY <1>7, <1>18
    <3>2. LinksNamed(N, n, TopoNode)'
      BY <1>17, <3>1
    <3> QED  BY <1>18, <3>2 DEF LinksNamed, Names
  <2> QED  BY <2>1, <2>2 DEF Ordered
<1>20. Top' = Top
  BY <1>1 DEF Top
<1>21. FromTop(calls, Top, dims[Top])
  BY DEF OrderInv, TopOrder
<1>22. FromTop(calls', Top, dims[Top])
  <2>1. \A k \in DOMAIN calls' : TopLink(calls'[k], Top, dims[Top])
    BY <1>7, <1>21 DEF FromTop
  <2>2. ASSUME NEW k \in DOMAIN calls', NEW r \in DOMAIN calls', k < r
        PROVE  calls'[k].a[2] <= calls'[r].a[2]
    <3>1. k + 1 < r + 1 /\ k + 1 \in DOMAIN calls /\ r + 1 \in DOMAIN calls
      BY <1>7, <2>2
    <3> QED  BY <1>7, <1>21, <3>1 DEF FromTop
  <2> QED  BY <2>1, <2>2 DEF FromTop
<1>23. ASSUME NEW n \in TopoNode, NEW p \in DOMAIN devices'[n], NEW k \in DOMAIN calls',
              n[1] = Top, devices'[n][p].first, devices'[n][p].dim = dims[Top]
       PROVE  n[2] <= calls'[k].a[2]
  <2>1. k + 1 \in DOMAIN calls /\ calls'[k] = calls[k + 1] /\ 1 < k + 1
    BY <1>7
  <2>2. CASE p \in DOMAIN devices[n]
    <3>1. devices'[n][p] = devices[n][p]
      BY <1>12, <2>2
    <3> QED  BY <1>23, <2>1, <2>2, <3>1 DEF OrderInv, TopOrder
  <2>3. CASE p \notin DOMAIN devices[n]
    <3>1. n = a
      BY <1>7, <1>12, <1>23, <2>3
    <3>2. calls[1].a[2] <= calls[k + 1].a[2]
      BY <1>7, <1>21, <2>1 DEF FromTop
    <3> QED  BY <1>5, <2>1, <3>1, <3>2
  <2> QED  BY <2>2, <2>3
<1>24. TopOrder'
  <2>1. FromTop(calls, Top, dims[Top])'
    BY <1>1, <1>20, <1>22 DEF FromTop, TopLink
  <2> QED  BY <1>1, <1>7, <1>20, <1>23, <2>1 DEF TopOrder
<1> QED  BY <1>19, <1>24 DEF OrderInv

\* Nothing changes.
LEMMA OrderKept ==
  ASSUME TopologyInv, TopologyInv', OrderInv, UNCHANGED topoVars
  PROVE  OrderInv'
<1>1. /\ stage' = stage /\ level' = level /\ dims' = dims /\ size' = size
      /\ originalSize' = originalSize /\ recipe' = recipe /\ built' = built /\ addr' = addr
      /\ devices' = devices /\ calls' = calls
  BY DEF topoVars, topology
<1>2. PICK M : Ordered(M)
  BY DEF OrderInv
<1>3. Block' = Block /\ Template' = Template
  BY <1>1 DEF Block, TopoNode, Template
<1>4. \A n \in Block' : LinksNamed(M, n, Block)'
  BY <1>1, <1>2, <1>3, BlockNamesKept DEF Ordered
<1>5. ASSUME NEW g, Replicas(M, g)  PROVE Replicas(M, g)'
  <2>1. ASSUME NEW o \in Block, Copied(o[1])', NEW c \in 1..(Template.copies - 1)
        PROVE  ReplicaOf(M, g, o, c)'
    <3>1. ReplicaOf(M, g, o, c)
      BY <1>1, <1>5, <2>1 DEF Replicas, Copied
    <3>2. \A p : AsOriginal(o, c, p)' <=> AsOriginal(o, c, p)
      BY <1>1 DEF AsOriginal, Copy
    <3>3. \A v : Pending(g, v, c)' <=> Pending(g, v, c)
      BY <1>1 DEF Pending
    <3>4. \A l : Copied(l)' <=> Copied(l)
      BY <1>1 DEF Copied
    <3>5. Copy(o, c)' = Copy(o, c)
      BY <1>1 DEF Copy
    <3> QED  BY <1>1, <3>1, <3>2, <3>3, <3>4, <3>5 DEF ReplicaOf
  <2> QED  BY <1>3, <2>1 DEF Replicas
<1>6. ASSUME NEW g, CallsCopy(g, calls, Places0(level))  PROVE CallsCopy(g, calls, Places0(level))'
  <2>1. Template' = Template /\ Places0(level)' = Places0(level) /\ calls' = calls
    BY <1>1, <1>3 DEF Places0
  <2>2. PICK ls, B : ls = calls /\ B = Places0(level)
    OBVIOUS
  <2>3. ASSUME NEW c, NEW u, NEW k, CopiesLink(c, u, k)  PROVE CopiesLink(c, u, k)'
    BY <1>1, <2>3 DEF CopiesLink, Copy, MadeFrom, Maker
  <2>4. CallsCopy(g, ls, B)
    BY <1>6, <2>2
  <2>5. CallsCopy(g, ls, B)'
    BY <2>1, <2>3, <2>4 DEF CallsCopy
  <2> QED  BY <2>1, <2>2, <2>5 DEF CallsCopy
<1>7. Replicating' <=> Replicating
  BY <1>1 DEF Replicating
<1>8. Ordered(M)'
  BY <1>1, <1>2, <1>4, <1>5, <1>6, <1>7 DEF Ordered
<1>9. TopOrder'
  BY <1>1, <1>3 DEF OrderInv, TopOrder, FromTop, TopLink, Top, TopoNode
<1> QED  BY <1>8, <1>9 DEF OrderInv

\* Every step of the builder keeps the invariant of the interfaces.
LEMMA OrderStep ==
  ASSUME TopologyInv, TopologyInv', OrderInv, [BuildStep]_topoVars
  PROVE  OrderInv'
<1>1. ConnectNodes => stage \in {"wire", "connect"}
  BY DEF ConnectNodes
<1> QED
  BY <1>1, OrderReplicateLevel, OrderCopyPortSets, OrderCreateLevel, OrderCreateDimension,
     OrderConnect, OrderWire, OrderNewLink, OrderGenerate, OrderKept DEF BuildStep

-----------------------------------------------------------------------------
(* Part 10: the buckets. *)

\* In the PortSet P every interface of D is in one bucket, once, and there is no other.
FilledOnce(P, D) ==
  /\ \A b \in DOMAIN P : P[b] \in Seq(Nat) /\ \A i \in DOMAIN P[b] : P[b][i] \in D
  /\ \A p \in D : \E b \in DOMAIN P : \E i \in DOMAIN P[b] : P[b][i] = p
  /\ \A b, r \in DOMAIN P : \A i \in DOMAIN P[b], j \in DOMAIN P[r] :
       P[b][i] = P[r][j] => b = r /\ i = j

\* The buckets of the nodes that the replication copies are in order, and those of the copies
\* are the same on the levels that are finished.
BucketInv ==
  /\ \A n \in Block : FilledOnce(ports[n], DOMAIN devices[n])
  /\ Replicating => \A o \in Block : o[1] < level =>
                      \A c \in 1..(Template.copies - 1) : ports[Copy(o, c)] = ports[o]

\* A new interface is added to one bucket.
LEMMA AddPortFills ==
  ASSUME NEW P, NEW D, FilledOnce(P, D), NEW b, b # NoBucket, NEW x \in Nat, x \notin D
  PROVE  FilledOnce(AddPort(P, b, x), D \cup {x})
<1>1. PICK s : s = IF b \in DOMAIN P THEN P[b] ELSE <<>>
  OBVIOUS
<1>2. s \in Seq(Nat) /\ \A i \in DOMAIN s : s[i] \in D /\ b \in DOMAIN P /\ s = P[b]
  <2>1. CASE b \in DOMAIN P
    BY <1>1, <2>1 DEF FilledOnce
  <2>2. CASE b \notin DOMAIN P
    BY <1>1, <2>2, EmptySequence
  <2> QED  BY <2>1, <2>2
<1>3. PICK t : t = Append(s, x)
  OBVIOUS
<1>4. PICK L : L = Len(s)
  OBVIOUS
<1>5. /\ t \in Seq(Nat) /\ L \in Nat /\ DOMAIN s = 1..L /\ DOMAIN t = 1..(L + 1) /\ t[L + 1] = x
      /\ \A i \in DOMAIN s : t[i] = s[i]
  BY <1>2, <1>3, <1>4
<1>6. PICK Q : Q = AddPort(P, b, x)
  OBVIOUS
<1>7. Q = [k \in DOMAIN P \cup {b} |->
             IF k # b THEN P[k] ELSE IF k \in DOMAIN P THEN Append(P[k], x) ELSE <<x>>]
  BY <1>6, Zenon DEF AddPort
<1>8. Q[b] = t
  <2>1. CASE b \in DOMAIN P
    BY <1>1, <1>3, <1>7, <2>1
  <2>2. CASE b \notin DOMAIN P
    <3>1. s = <<>>
      BY <1>1, <2>2
    <3>2. t = <<x>>
      BY <1>3, <3>1
    <3> QED  BY <1>7, <2>2, <3>2
  <2> QED  BY <2>1, <2>2
<1>9. DOMAIN Q = DOMAIN P \cup {b} /\ \A k \in DOMAIN P : k # b => Q[k] = P[k]
  BY <1>7
<1>10. \A k \in DOMAIN Q : k = b \/ (k # b /\ k \in DOMAIN P /\ Q[k] = P[k])
  BY <1>9
<1>11. ASSUME NEW k \in DOMAIN Q
       PROVE  Q[k] \in Seq(Nat) /\ \A i \in DOMAIN Q[k] : Q[k][i] \in D \cup {x}
  <2>1. CASE k = b
    BY <1>2, <1>5, <1>8, <2>1
  <2>2. CASE k # b
    BY <1>10, <2>2 DEF FilledOnce
  <2> QED  BY <2>1, <2>2
<1>12. ASSUME NEW p \in D \cup {x}
       PROVE  \E k \in DOMAIN Q : \E i \in DOMAIN Q[k] : Q[k][i] = p
  <2>1. CASE p = x
    <3>1. b \in DOMAIN Q /\ L + 1 \in DOMAIN Q[b] /\ Q[b][L + 1] = p
      BY <1>5, <1>8, <1>9, <2>1
    <3> QED  BY <3>1
  <2>2. CASE p # x
    <3>1. PICK k \in DOMAIN P : \E i \in DOMAIN P[k] : P[k][i] = p
      BY <2>2 DEF FilledOnce
    <3>2. PICK i \in DOMAIN P[k] : P[k][i] = p
      BY <3>1
    <3>3. CASE k = b
      <4>1. s = P[b]
        BY <1>1, <3>1, <3>3
      <4>2. i \in DOMAIN t /\ t[i] = p
        BY <1>5, <3>2, <3>3, <4>1
      <4> QED  BY <1>8, <1>9, <4>2
    <3>4. CASE k # b
      BY <1>9, <3>1, <3>2, <3>4
    <3> QED  BY <3>3, <3>4
  <2> QED  BY <2>1, <2>2
\* Where an interface of D is in Q it is in P.
<1>13. ASSUME NEW k \in DOMAIN Q, NEW i \in DOMAIN Q[k], Q[k][i] # x
       PROVE  k \in DOMAIN P /\ i \in DOMAIN P[k] /\ P[k][i] = Q[k][i]
  <2>1. CASE k = b
    <3>1. i \in 1..L
      BY <1>5, <1>8, <1>13, <2>1
    <3> QED  BY <1>2, <1>5, <1>8, <2>1, <3>1
  <2>2. CASE k # b
    BY <1>10, <2>2
  <2> QED  BY <2>1, <2>2
<1>14. ASSUME NEW k \in DOMAIN Q, NEW i \in DOMAIN Q[k], Q[k][i] = x
       PROVE  k = b /\ i = L + 1
  <2>1. k = b
    <3> SUFFICES ASSUME k # b  PROVE FALSE
      OBVIOUS
    <3>1. k \in DOMAIN P /\ Q[k] = P[k]
      BY <1>10
    <3>2. P[k][i] \in D
      BY <3>1 DEF FilledOnce
    <3> QED  BY <1>14, <3>1, <3>2
  <2>2. i \in 1..(L + 1)
    BY <1>5, <1>8, <2>1
  <2>3. i \notin 1..L
    <3> SUFFICES ASSUME i \in 1..L  PROVE FALSE
      OBVIOUS
    <3>1. s[i] = x /\ s[i] \in D
      BY <1>2, <1>5, <1>8, <1>14, <2>1
    <3> QED  BY <3>1
  <2> QED  BY <1>5, <2>1, <2>2, <2>3
<1>15. ASSUME NEW k \in DOMAIN Q, NEW r \in DOMAIN Q, NEW i \in DOMAIN Q[k], NEW j \in DOMAIN Q[r],
              Q[k][i] = Q[r][j]
       PROVE  k = r /\ i = j
  <2>1. CASE Q[k][i] = x
    <3>1. k = b /\ i = L + 1
      BY <1>14, <2>1
    <3>2. r = b /\ j = L + 1
      BY <1>14, <1>15, <2>1
    <3> QED  BY <3>1, <3>2
  <2>2. CASE Q[k][i] # x
    <3>1. k \in DOMAIN P /\ i \in DOMAIN P[k] /\ P[k][i] = Q[k][i]
      BY <1>13, <2>2
    <3>2. r \in DOMAIN P /\ j \in DOMAIN P[r] /\ P[r][j] = Q[r][j]
      BY <1>13, <1>15, <2>2
    <3>3. P[k][i] = P[r][j]
      BY <1>15, <3>1, <3>2
    <3> QED  BY <3>1, <3>2, <3>3 DEF FilledOnce
  <2> QED  BY <2>1, <2>2
<1>16. FilledOnce(Q, D \cup {x})
  BY <1>11, <1>12, <1>15 DEF FilledOnce
<1> QED  BY <1>6, <1>16

\* A node without interfaces.
LEMMA NoPortsFilled == FilledOnce(NoPorts, {})
<1>1. DOMAIN NoPorts = {}
  BY EmptySequence DEF NoPorts
<1> QED  BY <1>1 DEF FilledOnce

\* The buckets and interfaces of the block stay as they are.
LEMMA BucketsKept ==
  ASSUME BucketInv, Block' = Block, \A n \in Block : ports'[n] = ports[n] /\ devices'[n] = devices[n]
  PROVE  \A n \in Block' : FilledOnce(ports'[n], DOMAIN devices'[n])
BY DEF BucketInv

\* The one endpoint has neither interfaces nor buckets.
LEMMA BucketStart ==
  ASSUME InitTopology, TopologyInv
  PROVE  BucketInv
<1>1. /\ stage = "replicate" /\ level = 0 /\ devices = [n \in {<<0, 0>>} |-> <<>>]
      /\ addr = [n \in {<<0, 0>>} |-> <<>>] /\ ports = [n \in {<<0, 0>>} |-> NoPorts]
  BY DEF InitTopology
<1>2. \A n \in Block : n = <<0, 0>>
  BY <1>1 DEF TopoNode, Block
<1>3. \A n \in Block : ports[n] = NoPorts /\ DOMAIN devices[n] = {} /\ n[1] = 0
  BY <1>1, <1>2, EmptySequence
<1>4. \A n \in Block : FilledOnce(ports[n], DOMAIN devices[n])
  BY <1>3, NoPortsFilled
<1>5. \A o \in Block : ~(o[1] < level)
  BY <1>1, <1>3
<1> QED  BY <1>4, <1>5 DEF BucketInv

\* The nodes a replication adds have no buckets yet.
LEMMA BucketReplicateLevel ==
  ASSUME TopologyInv, TopologyInv', BucketInv, ReplicateLevel
  PROVE  BucketInv'
<1> DEFINE new == {<<level, k>> : k \in 0..(Template.copies * originalSize[level] - 1)}
<1>1. /\ stage = "replicate" /\ stage' = "wire" /\ level' = level /\ originalSize' = originalSize
      /\ recipe' = recipe /\ built' = built /\ level <= Top
      /\ devices' = [n \in TopoNode \cup new |-> IF n \in TopoNode THEN devices[n] ELSE <<>>]
      /\ ports' = [n \in TopoNode \cup new |-> IF n \in TopoNode THEN ports[n] ELSE NoPorts]
      /\ size' = [size EXCEPT ![level] = Template.copies * originalSize[level]]
  BY DEF ReplicateLevel
<1> HIDE DEF new
<1>2. Top' = Top
  <2>1. DOMAIN size' = DOMAIN size
    BY <1>1
  <2> QED  BY <2>1 DEF Top
<1>3. Block' = Block
  BY <1>1, <1>2, BlockKept
<1>4. \A n \in TopoNode : ports'[n] = ports[n] /\ devices'[n] = devices[n]
  BY <1>1
<1>5. \A n \in Block' : FilledOnce(ports'[n], DOMAIN devices'[n])
  BY <1>3, <1>4, BucketsKept DEF Block
<1>6. ASSUME NEW o \in Block, o[1] < level, NEW c \in 1..(Template.copies - 1)
      PROVE  ports'[Copy(o, c)'] = ports'[o]
  <2>1. ports[Copy(o, c)] = ports[o]
    BY <1>1, <1>6 DEF BucketInv, Replicating
  <2>2. Copy(o, c) \in TopoNode
    BY <1>1, <1>6, CopiesOutside DEF Replicating, Copied
  <2>3. Copy(o, c)' = Copy(o, c)
    BY <1>1 DEF Copy
  <2>4. o \in TopoNode
    BY DEF Block
  <2> QED  BY <1>4, <2>1, <2>2, <2>3, <2>4
<1>7. Template' = Template
  BY <1>1 DEF Template
<1> QED  BY <1>1, <1>3, <1>5, <1>6, <1>7 DEF BucketInv

\* The copies of the level get the buckets of their originals.
LEMMA BucketCopyPortSets ==
  ASSUME TopologyInv, TopologyInv', BucketInv, CopyPortSets
  PROVE  BucketInv'
<1>1. /\ stage = "wire" /\ level' = level + 1 /\ devices' = devices /\ size' = size
      /\ originalSize' = originalSize /\ recipe' = recipe /\ built' = built /\ addr' = addr
      /\ ports' = [n \in TopoNode |-> IF n[1] = level THEN ports[Original(n)] ELSE ports[n]]
  BY DEF CopyPortSets
<1>2. Block' = Block /\ Template' = Template
  BY <1>1 DEF Block, TopoNode, Template
<1>3. ASSUME NEW n \in Block  PROVE ports'[n] = ports[n] /\ n \in TopoNode
  <2>1. n \in TopoNode
    BY DEF Block
  <2>2. Original(n) = n
    BY <2>1, NodeIsCopy
  <2> QED  BY <1>1, <2>1, <2>2
<1>4. \A n \in Block' : FilledOnce(ports'[n], DOMAIN devices'[n])
  BY <1>1, <1>2, <1>3, BucketsKept
<1>5. level \in Int /\ \A o \in Block : o[1] \in Int
  BY BlockNodes DEF AreNodes, TopologyInv, SizeInv
<1>6. ASSUME NEW o \in Block, o[1] < level + 1, NEW c \in 1..(Template.copies - 1)
      PROVE  ports'[Copy(o, c)'] = ports'[o]
  <2>1. PICK n : n = Copy(o, c)
    OBVIOUS
  <2>2. Replicating /\ Copied(o[1])
    BY <1>1, <1>5, <1>6 DEF Replicating, Copied
  <2>3. n \in TopoNode /\ n[1] = o[1]
    BY <2>1, <2>2, CopyNodes
  <2>4. Copy(o, c)' = n
    BY <1>1, <2>1 DEF Copy
  <2>5. CASE o[1] = level
    <3>1. PICK r, d : r = Original(n) /\ d = n[2] \div originalSize[n[1]]
      OBVIOUS
    <3>2. r \in Block /\ d \in Nat /\ n = Copy(r, d)
      BY <2>3, <3>1, NodeIsCopy
    <3>3. c \in Nat /\ Copy(r, d) = Copy(o, c)
      BY <2>1, <3>2
    <3>4. r = o
      BY <3>2, <3>3, CopiesDiffer
    <3> QED  BY <1>1, <1>3, <2>3, <2>4, <2>5, <3>1, <3>4
  <2>6. CASE o[1] # level
    <3>1. o[1] < level
      BY <1>5, <1>6, <2>6
    <3>2. ports[n] = ports[o]
      BY <2>1, <2>2, <3>1 DEF BucketInv
    <3> QED  BY <1>1, <1>3, <2>3, <2>4, <2>6, <3>2
  <2> QED  BY <2>5, <2>6
<1> QED  BY <1>1, <1>2, <1>4, <1>6 DEF BucketInv

\* The ports after one call of ConnectNodes, node by node.
LEMMA PortsOfLink ==
  ASSUME TopologyInv, ConnectNodes, NEW c, c = calls[1], NEW a, a = c.a, NEW b, b = c.b,
         NEW i, i = Len(devices[a]) + 1, NEW j, j = Len(devices[b]) + 1
  PROVE  /\ ports'[a] = AddPort(ports[a], c.bucketA, i)
         /\ ports'[b] = AddPort(ports[b], c.bucketB, j)
         /\ \A n \in TopoNode : n # a /\ n # b => ports'[n] = ports[n]
<1>1. calls # <<>> /\ IsSequence(calls) /\ ports' = PortsAfter(Head(calls))
  BY DEF ConnectNodes, TopologyInv, LinkInv
<1>2. 1 \in DOMAIN calls /\ Head(calls) = c
  <2>1. PICK s : s = calls
    OBVIOUS
  <2>2. 1 \in DOMAIN s /\ Head(s) = s[1]
    BY <1>1, <2>1, TailAt
  <2> QED  BY <2>1, <2>2
<1>3. a \in TopoNode /\ b \in TopoNode /\ a # b /\ DOMAIN ports = TopoNode
  BY <1>2 DEF TopologyInv, LinkInv, CallOK
<1>4. ports' = [ports EXCEPT ![a] = AddPort(@, c.bucketA, i), ![b] = AddPort(@, c.bucketB, j)]
  BY <1>1, <1>2 DEF PortsAfter
<1> QED  BY <1>3, <1>4

\* The calls of a replication fill no bucket.
LEMMA BucketWire ==
  ASSUME TopologyInv, TopologyInv', OrderInv, BucketInv, ConnectNodes, stage = "wire"
  PROVE  BucketInv'
<1>1. /\ stage' = stage /\ level' = level /\ size' = size /\ addr' = addr
      /\ originalSize' = originalSize /\ recipe' = recipe /\ built' = built
  BY DEF ConnectNodes
<1>2. Block' = Block /\ Template' = Template
  BY <1>1 DEF Block, TopoNode, Template
<1>3. PICK c, a, b, i, j :
        /\ c = calls[1] /\ a = c.a /\ b = c.b
        /\ i = Len(devices[a]) + 1 /\ j = Len(devices[b]) + 1
  OBVIOUS
<1>4. LinkMade(c, a, b, i, j)
  BY <1>3, OneLinkMore, Zenon
<1>5. /\ a \in TopoNode /\ b \in TopoNode /\ a # b /\ 1 \in DOMAIN calls
      /\ \A n \in TopoNode : n # a /\ n # b => devices'[n] = devices[n]
  BY <1>4 DEF LinkMade
<1>6. /\ ports'[a] = AddPort(ports[a], c.bucketA, i) /\ ports'[b] = AddPort(ports[b], c.bucketB, j)
      /\ \A n \in TopoNode : n # a /\ n # b => ports'[n] = ports[n]
  BY <1>3, PortsOfLink
<1>7. c.bucketA = NoBucket /\ c.bucketB = NoBucket
  <2>1. PICK g : CallsCopy(g, calls, Places0(level))
    BY DEF OrderInv, Ordered, Replicating
  <2> QED  BY <1>3, <1>5, <2>1 DEF CallsCopy, CopiesLink
<1>8. \A n \in TopoNode : ports'[n] = ports[n]
  BY <1>6, <1>7 DEF AddPort
<1>9. a \notin Block /\ b \notin Block
  <2>1. /\ a[2] \in Int /\ b[2] \in Int /\ originalSize[a[1]] \in Nat /\ originalSize[b[1]] \in Nat
    BY <1>5, BlockNodes DEF AreNodes
  <2>2. a[2] >= originalSize[a[1]] /\ b[2] >= originalSize[b[1]]
    BY <1>3, <1>5 DEF TopologyInv, LinkInv, CallOK
  <2> QED  BY <2>1, <2>2 DEF Block
<1>10. \A n \in Block : n \in TopoNode /\ n # a /\ n # b
  BY <1>9 DEF Block
<1>11. \A n \in Block' : FilledOnce(ports'[n], DOMAIN devices'[n])
  BY <1>2, <1>5, <1>8, <1>10, BucketsKept
<1>12. ASSUME NEW o \in Block, o[1] < level, NEW k \in 1..(Template.copies - 1)
      PROVE  ports'[Copy(o, k)'] = ports'[o]
  <2>1. ports[Copy(o, k)] = ports[o]
    BY <1>12 DEF BucketInv, Replicating
  <2>2. Copy(o, k) \in TopoNode
    BY <1>12, CopiesOutside DEF Replicating, Copied
  <2>3. Copy(o, k)' = Copy(o, k)
    BY <1>1 DEF Copy
  <2> QED  BY <1>8, <1>10, <2>1, <2>2, <2>3
<1> QED  BY <1>1, <1>2, <1>11, <1>12 DEF BucketInv

\* The calls of a template fill one bucket at both ends.
LEMMA BucketNewLink ==
  ASSUME TopologyInv, TopologyInv', OrderInv, BucketInv, ConnectNodes, stage = "connect"
  PROVE  BucketInv'
<1>1. /\ stage' = stage /\ addr' = addr /\ originalSize' = originalSize
  BY DEF ConnectNodes
<1>2. Block' = Block /\ Block = TopoNode /\ ~Replicating'
  BY <1>1, WholeBlockNow DEF Block, TopoNode, Replicating
<1>3. PICK c, a, b, i, j :
        /\ c = calls[1] /\ a = c.a /\ b = c.b
        /\ i = Len(devices[a]) + 1 /\ j = Len(devices[b]) + 1
  OBVIOUS
<1>4. LinkMade(c, a, b, i, j)
  BY <1>3, OneLinkMore, Zenon
<1>5. /\ a \in TopoNode /\ b \in TopoNode /\ a # b /\ 1 \in DOMAIN calls
      /\ \A n \in TopoNode : n # a /\ n # b => devices'[n] = devices[n]
      /\ i \in Nat \ {0} /\ DOMAIN devices[a] = 1..(i - 1) /\ DOMAIN devices'[a] = 1..i
      /\ j \in Nat \ {0} /\ DOMAIN devices[b] = 1..(j - 1) /\ DOMAIN devices'[b] = 1..j
  BY <1>4 DEF LinkMade
<1>6. /\ ports'[a] = AddPort(ports[a], c.bucketA, i) /\ ports'[b] = AddPort(ports[b], c.bucketB, j)
      /\ \A n \in TopoNode : n # a /\ n # b => ports'[n] = ports[n]
  BY <1>3, PortsOfLink
<1>7. c.bucketA # NoBucket /\ c.bucketB # NoBucket
  BY <1>3, <1>5 DEF OrderInv, TopOrder, FromTop, TopLink
<1>8. \A n \in TopoNode : FilledOnce(ports[n], DOMAIN devices[n])
  BY <1>2 DEF BucketInv
<1>9. FilledOnce(ports'[a], DOMAIN devices'[a])
  <2>1. i \in Nat /\ i \notin DOMAIN devices[a] /\ DOMAIN devices'[a] = DOMAIN devices[a] \cup {i}
    BY <1>5
  <2>2. FilledOnce(AddPort(ports[a], c.bucketA, i), DOMAIN devices[a] \cup {i})
    BY <1>5, <1>7, <1>8, <2>1, AddPortFills
  <2> QED  BY <1>6, <2>1, <2>2
<1>10. FilledOnce(ports'[b], DOMAIN devices'[b])
  <2>1. j \in Nat /\ j \notin DOMAIN devices[b] /\ DOMAIN devices'[b] = DOMAIN devices[b] \cup {j}
    BY <1>5
  <2>2. FilledOnce(AddPort(ports[b], c.bucketB, j), DOMAIN devices[b] \cup {j})
    BY <1>5, <1>7, <1>8, <2>1, AddPortFills
  <2> QED  BY <1>6, <2>1, <2>2
<1>11. ASSUME NEW n \in TopoNode  PROVE FilledOnce(ports'[n], DOMAIN devices'[n])
  <2>1. CASE n = a
    BY <1>9, <2>1
  <2>2. CASE n = b
    BY <1>10, <2>2
  <2>3. CASE n # a /\ n # b
    BY <1>5, <1>6, <1>8, <2>3
  <2> QED  BY <2>1, <2>2, <2>3
<1> QED  BY <1>2, <1>11 DEF BucketInv

\* When all levels are replicated the buckets of all nodes are in order.
LEMMA AllFilled ==
  ASSUME TopologyInv, OrderInv, BucketInv, Replicated
  PROVE  \A n \in TopoNode : /\ FilledOnce(ports[n], DOMAIN devices[n])
                             /\ ports[n] = ports[Original(n)]
<1> SUFFICES ASSUME NEW n \in TopoNode
             PROVE  /\ FilledOnce(ports[n], DOMAIN devices[n]) /\ ports[n] = ports[Original(n)]
  OBVIOUS
<1>1. PICK o, c : o = Original(n) /\ c = n[2] \div originalSize[n[1]]
  OBVIOUS
<1>2. Replicating
  BY DEF Replicated, Replicating
<1>3. PICK M : Ordered(M)
  BY DEF OrderInv
<1>4. PICK g : Replicas(M, g)
  BY <1>2, <1>3 DEF Ordered
<1>5. o \in Block /\ c \in Nat /\ n = Copy(o, c) /\ DOMAIN devices[n] = DOMAIN devices[o]
  BY <1>1, <1>3, <1>4, CopiesWhole DEF Ordered
<1>6. ports[n] = ports[o]
  <2>1. CASE n \in Block
    BY <1>1, <2>1, NodeIsCopy
  <2>2. CASE n \notin Block
    <3>1. Copied(n[1]) /\ c \in 1..(Template.copies - 1) /\ o[1] = n[1]
      BY <1>1, <2>2, NodeIsCopy
    <3>2. stage = "replicate"
      BY DEF Replicated
    <3>3. o[1] < level
      BY <3>1, <3>2 DEF Copied
    <3> QED  BY <1>2, <1>5, <3>1, <3>3 DEF BucketInv
  <2> QED  BY <2>1, <2>2
<1> QED  BY <1>1, <1>5, <1>6 DEF BucketInv

\* When a level or a dimension is created, the copies become part of the next block.
LEMMA BucketCreate ==
  ASSUME TopologyInv, TopologyInv', OrderInv, BucketInv, CreateLevel \/ CreateDimension
  PROVE  BucketInv'
<1>1. Replicated /\ stage' = "create"
  BY DEF CreateLevel, CreateDimension
<1>2. \A n \in TopoNode : FilledOnce(ports[n], DOMAIN devices[n])
  BY <1>1, AllFilled
<1>3. ~Replicating'
  BY <1>1 DEF Replicating
<1>4. ASSUME NEW n \in TopoNode'  PROVE FilledOnce(ports'[n], DOMAIN devices'[n])
  <2>1. CASE CreateDimension
    BY <1>2, <2>1 DEF CreateDimension, TopoNode
  <2>2. CASE CreateLevel
    <3> DEFINE new == {<<Top + 1, k>> : k \in 0..(Template.nodes - 1)}
    <3>1. /\ addr' = [x \in TopoNode \cup new |-> IF x \in new THEN <<>> ELSE addr[x]]
          /\ devices' = [x \in TopoNode \cup new |-> IF x \in new THEN <<>> ELSE devices[x]]
          /\ ports' = [x \in TopoNode \cup new |-> IF x \in new THEN NoPorts ELSE ports[x]]
      BY <2>2, Zenon DEF CreateLevel
    <3> HIDE DEF new
    <3>2. n \in TopoNode \cup new
      BY <3>1 DEF TopoNode
    <3>3. CASE n \in new
      <4>1. ports'[n] = NoPorts /\ devices'[n] = <<>>
        BY <3>1, <3>2, <3>3
      <4>2. DOMAIN devices'[n] = {}
        BY <4>1, EmptySequence
      <4> QED  BY <4>1, <4>2, NoPortsFilled
    <3>4. CASE n \notin new
      BY <1>2, <3>1, <3>2, <3>4
    <3> QED  BY <3>3, <3>4
  <2> QED  BY <2>1, <2>2
<1>5. \A n \in Block' : n \in TopoNode'
  BY DEF Block
<1> QED  BY <1>3, <1>4, <1>5 DEF BucketInv

\* Every step of the builder keeps the invariant of the buckets.
LEMMA BucketStep ==
  ASSUME TopologyInv, TopologyInv', OrderInv, BucketInv, [BuildStep]_topoVars
  PROVE  BucketInv'
<1>1. CASE Connect
  <2>1. /\ stage' = "connect" /\ stage = "create" /\ devices' = devices /\ ports' = ports
        /\ originalSize' = originalSize
    BY <1>1 DEF Connect
  <2>2. Block = TopoNode /\ ~Replicating'
    BY <2>1, WholeBlockNow DEF Replicating
  <2>3. TopoNode' = TopoNode
    BY <2>1 DEF TopologyInv, LinkInv
  <2>4. \A n \in Block' : n \in TopoNode
    BY <2>3 DEF Block
  <2> QED  BY <2>1, <2>2, <2>4 DEF BucketInv
<1>2. CASE GenerateRoutingRules
  <2>1. /\ level' = 0 /\ devices' = devices /\ ports' = ports /\ addr' = addr
        /\ originalSize' = originalSize
    BY <1>2 DEF GenerateRoutingRules
  <2>2. Block' = Block
    BY <2>1 DEF Block, TopoNode
  <2>3. \A o \in Block : ~(o[1] < level')
    BY <2>1, BlockNodes DEF AreNodes
  <2> QED  BY <2>1, <2>2, <2>3 DEF BucketInv
<1>3. CASE UNCHANGED topoVars
  <2>1. /\ level' = level /\ stage' = stage /\ devices' = devices /\ ports' = ports
        /\ addr' = addr /\ originalSize' = originalSize /\ recipe' = recipe /\ built' = built
    BY <1>3 DEF topoVars, topology
  <2>2. Block' = Block /\ (Replicating' <=> Replicating) /\ Template' = Template
    BY <2>1 DEF Block, TopoNode, Replicating, Template
  <2>3. \A o, c : Copy(o, c)' = Copy(o, c)
    BY <2>1 DEF Copy
  <2> QED  BY <2>1, <2>2, <2>3 DEF BucketInv
<1>4. ConnectNodes => stage \in {"wire", "connect"}
  BY DEF ConnectNodes
<1> QED
  BY <1>1, <1>2, <1>3, <1>4, BucketReplicateLevel, BucketCopyPortSets, BucketWire, BucketNewLink,
     BucketCreate DEF BuildStep
-----------------------------------------------------------------------------
(* Part 11: the whole invariant. *)

\* The topology is sound, copies are wired as their originals, and interfaces are in buckets.
WiringInv == TopologyInv /\ OrderInv /\ BucketInv

LEMMA WiringStart == InitTopology => WiringInv
BY TopologyStart, OrderStart, BucketStart DEF WiringInv

LEMMA WiringStep == WiringInv /\ [BuildStep]_topoVars => WiringInv'
<1> SUFFICES ASSUME WiringInv, [BuildStep]_topoVars  PROVE WiringInv'
  OBVIOUS
<1>1. TopologyInv'
  BY TopologyStep DEF WiringInv
<1>2. OrderInv'
  BY <1>1, OrderStep DEF WiringInv
<1>3. BucketInv'
  BY <1>1, BucketStep DEF WiringInv
<1> QED  BY <1>1, <1>2, <1>3 DEF WiringInv
=================================================================================
