------------------------------ MODULE TopologyProofs ------------------------------
(***************************************************************************)
(* What holds of the topology while TopologyBuilder builds it, for every   *)
(* list of templates: the levels have the sizes the templates multiply,    *)
(* and every link is between existing nodes.                               *)
(***************************************************************************)
EXTENDS StructuredTopology, FiniteSetTheorems, SequenceTheorems, WellFoundedInduction, TLAPS

-----------------------------------------------------------------------------
(* Part 1: numbers. *)

LEMMA DivMod ==
  ASSUME NEW s \in Nat \ {0}, NEW k \in Nat
  PROVE  /\ k = (s * (k \div s)) + (k % s)
         /\ k % s \in 0..(s - 1) /\ k \div s \in Nat /\ (k \div s) + 1 \in Nat
OBVIOUS

LEMMA TimesMonotone ==
  ASSUME NEW a \in Nat, NEW b \in Nat, NEW s \in Nat, a <= b
  PROVE  a * s <= b * s /\ a * s \in Nat /\ b * s \in Nat
OBVIOUS

\* Place i of block c, of C blocks of size s.
LEMMA Slot ==
  ASSUME NEW C \in Nat, NEW s \in Nat, NEW c \in 0..(C - 1), NEW i \in 0..(s - 1)
  PROVE  (c * s) + i \in 0..((C * s) - 1) /\ (c > 0 => (c * s) + i >= s)
<1>1. c \in Nat /\ c + 1 \in Nat /\ c + 1 <= C /\ i \in Nat
  OBVIOUS
<1>2. (c + 1) * s <= C * s /\ (c + 1) * s \in Nat /\ C * s \in Nat
  BY <1>1, TimesMonotone
<1>3. (c + 1) * s = (c * s) + s /\ c * s \in Nat
  BY <1>1
<1>4. c > 0 => c * s >= s
  BY <1>1, TimesMonotone
<1> QED  BY <1>1, <1>2, <1>3, <1>4

\* Places of different blocks differ.
LEMMA SlotsDiffer ==
  ASSUME NEW s \in Nat, NEW c \in Nat, NEW d \in Nat, c # d,
         NEW i \in 0..(s - 1), NEW j \in 0..(s - 1)
  PROVE  (c * s) + i # (d * s) + j
<1>1. c < d => (c * s) + i < (d * s) + j
  <2> SUFFICES ASSUME c < d  PROVE (c * s) + i < (d * s) + j
    OBVIOUS
  <2>1. c + 1 \in Nat /\ c + 1 <= d
    OBVIOUS
  <2>2. (c + 1) * s <= d * s /\ (c + 1) * s \in Nat /\ d * s \in Nat
    BY <2>1, TimesMonotone
  <2>3. (c + 1) * s = (c * s) + s /\ c * s \in Nat
    OBVIOUS
  <2> QED  BY <2>2, <2>3
<1>2. d < c => (d * s) + j < (c * s) + i
  <2> SUFFICES ASSUME d < c  PROVE (d * s) + j < (c * s) + i
    OBVIOUS
  <2>1. d + 1 \in Nat /\ d + 1 <= c
    OBVIOUS
  <2>2. (d + 1) * s <= c * s /\ (d + 1) * s \in Nat /\ c * s \in Nat
    BY <2>1, TimesMonotone
  <2>3. (d + 1) * s = (d * s) + s /\ d * s \in Nat
    OBVIOUS
  <2> QED  BY <2>2, <2>3
<1>3. (c * s) + i \in Int /\ (d * s) + j \in Int
  <2>1. c * s \in Int /\ d * s \in Int
    OBVIOUS
  <2> QED  BY <2>1
<1> QED  BY <1>1, <1>2, <1>3

\* The next block on a ring.
LEMMA NextBlock ==
  ASSUME NEW C \in Nat, C > 1, NEW c \in 0..(C - 1)
  PROVE  (c + 1) % C \in 0..(C - 1) /\ (c + 1) % C # c
<1>1. CASE c + 1 < C
  <2>1. (c + 1) % C = c + 1
    BY <1>1
  <2> QED  BY <1>1, <2>1
<1>2. CASE ~(c + 1 < C)
  <2>1. c + 1 = C /\ C % C = 0
    BY <1>2
  <2> QED  BY <2>1
<1> QED  BY <1>1, <1>2

\* n is below X times s: it is in one of X blocks.
LEMMA DivBelow ==
  ASSUME NEW s \in Nat \ {0}, NEW X \in Nat, NEW n \in Nat, n < X * s
  PROVE  n \div s \in 0..(X - 1)
<1> DEFINE q == n \div s
<1>1. q \in Nat /\ n = (s * q) + (n % s) /\ n % s \in 0..(s - 1)
  BY DivMod
<1> HIDE DEF q
<1>2. n % s >= 0
  BY <1>1
<1>3. q >= X => X * s <= q * s /\ X * s \in Nat /\ q * s \in Nat
  BY <1>1, TimesMonotone
<1>4. q * s = s * q
  BY <1>1
<1>5. ~(q >= X)
  BY <1>1, <1>2, <1>3, <1>4
<1>6. q \in 0..(X - 1)
  BY <1>1, <1>5
<1> QED  BY <1>6 DEF q

LEMMA DivExact ==
  ASSUME NEW s \in Nat \ {0}, NEW b \in Nat
  PROVE  (s * b) \div s = b /\ (b * s) \div s = b
OBVIOUS

\* Induction for a set of numbers.
LEMMA AllNumbers ==
  ASSUME NEW S \in SUBSET Nat, 0 \in S, \A n \in S : n + 1 \in S
  PROVE  S = Nat
<1> SUFFICES ASSUME Nat \ S # {}  PROVE FALSE
  OBVIOUS
<1>1. PICK n \in Nat \ S : \A m \in Nat \ S : ~(<<m, n>> \in OpToRel(<, Nat))
  BY NatLessThanWellFounded, WFMin
<1>2. \A m \in Nat \ S : ~(m < n)
  BY <1>1 DEF OpToRel
<1>3. n # 0 /\ n - 1 \in Nat /\ n - 1 < n
  OBVIOUS
<1>4. n - 1 \in S
  BY <1>2, <1>3
<1>5. (n - 1) + 1 = n
  OBVIOUS
<1> QED  BY <1>4, <1>5

\* The values f of a recursion over 0..n that takes step[k][v] from v at k - 1.
Recursion(f, base, step, n) ==
  f[0] = base /\ \A k \in 1..n : f[k] = step[k][f[k - 1]]

LEMMA RecursionExists ==
  ASSUME NEW V, NEW base \in V, NEW n \in Nat, NEW step \in [1..n -> [V -> V]]
  PROVE  \E f \in [0..n -> V] : Recursion(f, base, step, n)
<1> DEFINE S == {m \in Nat : m <= n => \E f \in [0..m -> V] : Recursion(f, base, step, m)}
<1>1. 0 \in S
  <2> DEFINE f == [k \in 0..0 |-> base]
  <2>1. f \in [0..0 -> V] /\ Recursion(f, base, step, 0)
    BY DEF Recursion
  <2> QED  BY <2>1
<1>2. ASSUME NEW m \in S  PROVE m + 1 \in S
  <2> SUFFICES ASSUME m + 1 <= n
               PROVE  \E f \in [0..(m + 1) -> V] : Recursion(f, base, step, m + 1)
    OBVIOUS
  <2>1. m \in Nat /\ m + 1 \in 1..n
    OBVIOUS
  <2>2. PICK f \in [0..m -> V] : Recursion(f, base, step, m)
    BY <2>1
  <2> DEFINE g == [k \in 0..(m + 1) |-> IF k = m + 1 THEN step[m + 1][f[m]] ELSE f[k]]
  <2>3. f[m] \in V /\ step[m + 1] \in [V -> V]
    BY <2>1, <2>2
  <2>4. g \in [0..(m + 1) -> V]
    BY <2>1, <2>2, <2>3
  <2>5. ASSUME NEW k \in 1..(m + 1)  PROVE g[k] = step[k][g[k - 1]]
    <3>1. CASE k # m + 1
      <4>1. k \in 1..m /\ k \in 0..(m + 1) /\ k - 1 \in 0..(m + 1) /\ k - 1 # m + 1
        BY <2>1, <3>1
      <4>2. g[k] = f[k] /\ g[k - 1] = f[k - 1] /\ f[k] = step[k][f[k - 1]]
        BY <2>2, <3>1, <4>1 DEF Recursion
      <4> QED  BY <4>2
    <3>2. CASE k = m + 1
      <4>1. g[k] = step[k][f[m]] /\ g[k - 1] = f[m]
        BY <2>1, <3>2
      <4> QED  BY <4>1
    <3> QED  BY <3>1, <3>2
  <2>6. Recursion(g, base, step, m + 1)
    BY <2>1, <2>2, <2>5 DEF Recursion
  <2> QED  BY <2>4, <2>6
<1>3. S = Nat
  <2> HIDE DEF S
  <2>1. S \subseteq Nat  BY DEF S
  <2> QED  BY <1>1, <1>2, <2>1, AllNumbers
<1> QED  BY <1>3

-----------------------------------------------------------------------------
(* Part 2: sequences, whatever their elements. *)

IsSequence(s) == s \in Seq({s[k] : k \in DOMAIN s})

LEMMA SequenceOf ==
  ASSUME NEW n \in Nat, NEW s, DOMAIN s = 1..n, s = [k \in 1..n |-> s[k]]
  PROVE  IsSequence(s) /\ Len(s) = n
<1>1. s \in [1..n -> {s[k] : k \in DOMAIN s}]
  OBVIOUS
<1> QED  BY <1>1 DEF IsSequence

LEMMA TypedSequence ==
  ASSUME NEW S, NEW s \in Seq(S)
  PROVE  IsSequence(s) /\ \A k \in DOMAIN s : s[k] \in S
<1>1. Len(s) \in Nat /\ DOMAIN s = 1..Len(s) /\ s \in [1..Len(s) -> S]
  BY LenProperties
<1>2. s = [k \in 1..Len(s) |-> s[k]]
  BY <1>1
<1>3. IsSequence(s)
  BY <1>1, <1>2, SequenceOf
<1> QED  BY <1>1, <1>3

LEMMA SequenceType ==
  ASSUME NEW s, IsSequence(s)
  PROVE  Len(s) \in Nat /\ DOMAIN s = 1..Len(s)
BY LenProperties DEF IsSequence

LEMMA EmptySequence == IsSequence(<<>>) /\ DOMAIN <<>> = {}
<1> DEFINE e == <<>>
<1>1. e \in Seq({}) /\ DOMAIN e = {}
  OBVIOUS
<1> HIDE DEF e
<1>2. IsSequence(e)
  BY <1>1, TypedSequence
<1> QED  BY <1>1, <1>2 DEF e

LEMMA OneElement ==
  ASSUME NEW x
  PROVE  IsSequence(<<x>>) /\ \A k \in DOMAIN <<x>> : <<x>>[k] = x
<1> DEFINE e == <<x>>
<1>1. e \in Seq({x})
  OBVIOUS
<1> HIDE DEF e
<1>2. IsSequence(e) /\ \A k \in DOMAIN e : e[k] = x
  BY <1>1, TypedSequence
<1> QED  BY <1>2 DEF e

LEMMA AppendAny ==
  ASSUME NEW s, IsSequence(s), NEW x
  PROVE  /\ IsSequence(Append(s, x))
         /\ \A k \in DOMAIN Append(s, x) :
              (k \in DOMAIN s /\ Append(s, x)[k] = s[k]) \/ (k \notin DOMAIN s /\ Append(s, x)[k] = x)
         /\ DOMAIN s \subseteq DOMAIN Append(s, x)
<1> DEFINE S == {s[k] : k \in DOMAIN s} \cup {x}
<1>1. s \in Seq(S)
  BY SeqMonotonic DEF IsSequence
<1>2. x \in S
  OBVIOUS
<1> HIDE DEF S
<1>3. Append(s, x) \in Seq(S)
  BY <1>1, <1>2, AppendProperties
<1>4. Len(s) \in Nat /\ DOMAIN s = 1..Len(s)
  BY SequenceType
<1>5. /\ Len(Append(s, x)) = Len(s) + 1 /\ Append(s, x)[Len(s) + 1] = x
      /\ \A i \in 1..Len(s) : Append(s, x)[i] = s[i]
  BY <1>1, <1>2, AppendProperties
<1>6. DOMAIN Append(s, x) = 1..(Len(s) + 1)
  BY <1>3, <1>5, LenProperties
<1>7. IsSequence(Append(s, x))
  BY <1>3, TypedSequence
<1> QED  BY <1>4, <1>5, <1>6, <1>7

LEMMA TailAny ==
  ASSUME NEW s, IsSequence(s), s # <<>>
  PROVE  /\ IsSequence(Tail(s)) /\ 1 \in DOMAIN s /\ Head(s) = s[1]
         /\ \A k \in DOMAIN Tail(s) : k + 1 \in DOMAIN s /\ Tail(s)[k] = s[k + 1]
<1> DEFINE S == {s[k] : k \in DOMAIN s}
<1>1. s \in Seq(S)
  BY DEF IsSequence
<1> HIDE DEF S
<1>2. Tail(s) \in Seq(S) /\ Len(Tail(s)) = Len(s) - 1
      /\ \A i \in 1..Len(Tail(s)) : Tail(s)[i] = s[i + 1]
  BY <1>1, HeadTailProperties
<1>3. Len(s) \in Nat /\ DOMAIN s = 1..Len(s) /\ Len(s) # 0
  BY <1>1, SequenceType, EmptySeq
<1>4. DOMAIN Tail(s) = 1..(Len(s) - 1)
  BY <1>2, LenProperties
<1>5. IsSequence(Tail(s))
  BY <1>2, TypedSequence
<1>6. Head(s) = s[1]
  BY <1>1
<1> QED  BY <1>2, <1>3, <1>4, <1>5, <1>6

\* Every element of a flattened sequence is an element of one of its sequences.
LEMMA FlattenAny ==
  ASSUME NEW seqs, IsSequence(seqs), \A k \in DOMAIN seqs : IsSequence(seqs[k])
  PROVE  /\ IsSequence(FlattenSeq(seqs))
         /\ \A i \in DOMAIN FlattenSeq(seqs) :
              \E k \in DOMAIN seqs : \E m \in DOMAIN seqs[k] : FlattenSeq(seqs)[i] = seqs[k][m]
<1> DEFINE n == Len(seqs)
           S == UNION {{seqs[k][m] : m \in DOMAIN seqs[k]} : k \in DOMAIN seqs}
           Eq(f) == f = [i \in 1..n |-> IF i = 1 THEN seqs[i] ELSE f[i - 1] \o seqs[i]]
           W == CHOOSE f : Eq(f)
<1>1. n \in Nat /\ DOMAIN seqs = 1..n
  BY SequenceType
<1>2. \A k \in 1..n : seqs[k] \in Seq(S)
  <2> SUFFICES ASSUME NEW k \in 1..n  PROVE seqs[k] \in Seq(S)
    OBVIOUS
  <2> DEFINE R == {seqs[k][m] : m \in DOMAIN seqs[k]}
  <2>1. seqs[k] \in Seq(R) /\ R \subseteq S
    BY <1>1 DEF IsSequence
  <2> HIDE DEF R, S
  <2> QED  BY <2>1, SeqMonotonic
<1>3. ASSUME n # 0  PROVE \E f : Eq(f)
  <2> HIDE DEF S
  <2> DEFINE V == Seq(S)
             step == [k \in 1..(n - 1) |-> [v \in V |-> v \o seqs[k + 1]]]
  <2>1. seqs[1] \in V /\ n - 1 \in Nat
    BY <1>1, <1>2, <1>3
  <2>2. step \in [1..(n - 1) -> [V -> V]]
    <3> SUFFICES ASSUME NEW k \in 1..(n - 1), NEW v \in V  PROVE v \o seqs[k + 1] \in V
      OBVIOUS
    <3>1. seqs[k + 1] \in Seq(S)
      BY <1>1, <1>2
    <3> QED  BY <3>1, ConcatProperties
  <2>3. PICK f \in [0..(n - 1) -> V] : Recursion(f, seqs[1], step, n - 1)
    <3> HIDE DEF V, step, n
    <3> QED  BY <2>1, <2>2, RecursionExists
  <2> DEFINE g == [i \in 1..n |-> f[i - 1]]
  <2>4. ASSUME NEW i \in 1..n  PROVE g[i] = IF i = 1 THEN seqs[i] ELSE g[i - 1] \o seqs[i]
    <3>1. CASE i = 1
      <4>1. g[i] = f[0]
        BY <3>1
      <4> QED  BY <2>3, <3>1, <4>1 DEF Recursion
    <3>2. CASE i # 1
      <4>1. i - 1 \in 1..(n - 1) /\ (i - 1) + 1 = i /\ i - 1 \in 1..n /\ (i - 1) - 1 \in 0..(n - 1)
        BY <1>1, <3>2
      <4>2. g[i] = f[i - 1] /\ g[i - 1] = f[(i - 1) - 1]
        BY <4>1
      <4>3. f[i - 1] = step[i - 1][f[(i - 1) - 1]]
        <5> HIDE DEF step, n
        <5> QED  BY <2>3, <4>1 DEF Recursion
      <4>4. f[(i - 1) - 1] \in V
        <5> HIDE DEF V, n
        <5> QED  BY <2>3, <4>1
      <4>5. step[i - 1][f[(i - 1) - 1]] = f[(i - 1) - 1] \o seqs[i]
        BY <4>1, <4>4
      <4> QED  BY <3>2, <4>2, <4>3, <4>5
    <3> QED  BY <3>1, <3>2
  <2>5. Eq(g)
    BY <2>4
  <2> QED  BY <2>5
<1>4. ASSUME n # 0  PROVE FlattenSeq(seqs) = W[n]
  BY <1>4 DEF FlattenSeq
<1>5. ASSUME n # 0  PROVE W[n] \in Seq(S)
  <2>1. Eq(W)
    <3> HIDE DEF Eq
    <3> QED  BY <1>3, <1>5
  <2> HIDE DEF S, W
  <2> DEFINE T == {m \in Nat : m + 1 <= n => W[m + 1] \in Seq(S)}
  <2>2. 0 \in T
    <3>1. W[1] = seqs[1]
      BY <1>1, <1>5, <2>1
    <3> QED  BY <1>1, <1>2, <1>5, <3>1
  <2>3. ASSUME NEW m \in T  PROVE m + 1 \in T
    <3> SUFFICES ASSUME (m + 1) + 1 <= n  PROVE W[(m + 1) + 1] \in Seq(S)
      OBVIOUS
    <3>1. m \in Nat /\ m + 1 \in 1..n /\ (m + 1) + 1 \in 1..n /\ (m + 1) + 1 # 1
          /\ ((m + 1) + 1) - 1 = m + 1
      BY <1>1
    <3>2. W[m + 1] \in Seq(S)
      BY <1>1
    <3>3. W[(m + 1) + 1] = W[m + 1] \o seqs[(m + 1) + 1]
      <4> HIDE DEF n
      <4> QED  BY <2>1, <3>1
    <3>4. seqs[(m + 1) + 1] \in Seq(S)
      <4> HIDE DEF n
      <4> QED  BY <1>2, <3>1
    <3> HIDE DEF T, n
    <3> QED  BY <3>2, <3>3, <3>4, ConcatProperties
  <2>4. T = Nat
    <3> HIDE DEF T
    <3>1. T \subseteq Nat  BY DEF T
    <3> QED  BY <2>2, <2>3, <3>1, AllNumbers
  <2>5. n - 1 \in T /\ (n - 1) + 1 = n
    <3> HIDE DEF T
    <3> QED  BY <1>1, <1>5, <2>4
  <2> QED  BY <2>5
<1>6. FlattenSeq(seqs) \in Seq(S)
  <2>1. CASE n # 0
    BY <1>4, <1>5, <2>1
  <2>2. CASE n = 0
    <3>1. FlattenSeq(seqs) = seqs
      BY <2>2 DEF FlattenSeq
    <3>2. seqs = <<>>
      BY <2>2, EmptySeq DEF IsSequence
    <3> HIDE DEF S
    <3> QED  BY <3>1, <3>2, EmptySeq
  <2> QED  BY <2>1, <2>2
<1>7. IsSequence(FlattenSeq(seqs)) /\ \A i \in DOMAIN FlattenSeq(seqs) : FlattenSeq(seqs)[i] \in S
  <2> HIDE DEF S
  <2> QED  BY <1>6, TypedSequence
<1> QED  BY <1>7

\* Links that are made only under a condition: those of the places in P, x[k] at place k.
ChosenAt(seqs, n, P, x) == seqs = [k \in 1..n |-> IF k \in P THEN <<x[k]>> ELSE <<>>]

LEMMA Chosen ==
  ASSUME NEW n \in Nat, NEW P \in SUBSET (1..n), NEW x, NEW seqs, ChosenAt(seqs, n, P, x)
  PROVE  /\ IsSequence(FlattenSeq(seqs))
         /\ \A i \in DOMAIN FlattenSeq(seqs) : \E k \in P : FlattenSeq(seqs)[i] = x[k]
<1>1. DOMAIN seqs = 1..n /\ seqs = [k \in 1..n |-> seqs[k]]
  BY DEF ChosenAt
<1>2. IsSequence(seqs)
  BY <1>1, SequenceOf
<1>3. \A k \in 1..n : seqs[k] = IF k \in P THEN <<x[k]>> ELSE <<>>
  BY DEF ChosenAt
<1>4. ASSUME NEW k \in 1..n
      PROVE  IsSequence(seqs[k]) /\ \A m \in DOMAIN seqs[k] : k \in P /\ seqs[k][m] = x[k]
  <2>1. CASE k \in P
    BY <1>3, <2>1, OneElement
  <2>2. CASE k \notin P
    <3>1. seqs[k] = <<>>
      BY <1>3, <2>2
    <3> QED  BY <3>1, EmptySequence
  <2> QED  BY <2>1, <2>2
<1>5. /\ IsSequence(FlattenSeq(seqs))
      /\ \A i \in DOMAIN FlattenSeq(seqs) :
           \E k \in DOMAIN seqs : \E m \in DOMAIN seqs[k] : FlattenSeq(seqs)[i] = seqs[k][m]
  <2>1. PICK s : s = seqs
    OBVIOUS
  <2>2. IsSequence(s) /\ \A k \in DOMAIN s : IsSequence(s[k])
    BY <1>1, <1>2, <1>4, <2>1
  <2>3. /\ IsSequence(FlattenSeq(s))
        /\ \A i \in DOMAIN FlattenSeq(s) :
             \E k \in DOMAIN s : \E m \in DOMAIN s[k] : FlattenSeq(s)[i] = s[k][m]
    BY <2>2, FlattenAny
  <2> QED  BY <2>1, <2>3
<1>6. ASSUME NEW i \in DOMAIN FlattenSeq(seqs)
      PROVE  \E k \in P : FlattenSeq(seqs)[i] = x[k]
  <2>1. PICK k \in DOMAIN seqs : \E m \in DOMAIN seqs[k] : FlattenSeq(seqs)[i] = seqs[k][m]
    BY <1>5
  <2>2. PICK m \in DOMAIN seqs[k] : FlattenSeq(seqs)[i] = seqs[k][m]
    BY <2>1
  <2>3. k \in P /\ seqs[k][m] = x[k]
    BY <1>1, <1>4, Zenon
  <2> QED  BY <2>2, <2>3, Zenon
<1> QED  BY <1>5, <1>6, Zenon

\* The triples of three nested loops.
InRange(T, X, Y, Z) ==
  /\ X * Y * Z \in Nat /\ DOMAIN T = 1..(X * Y * Z)
  /\ \A k \in DOMAIN T : T[k][1] \in 0..(X - 1) /\ T[k][2] \in 0..(Y - 1) /\ T[k][3] \in 0..(Z - 1)

LEMMA LoopsInRange ==
  ASSUME NEW X \in Nat, NEW Y \in Nat, NEW Z \in Nat
  PROVE  InRange(Loops(X, Y, Z), X, Y, Z)
<1> DEFINE N == X * Y * Z
           s == Y * Z
<1>1. N \in Nat /\ s \in Nat /\ N = X * s /\ (Z = 0 => N = 0) /\ (Y = 0 => N = 0)
  OBVIOUS
<1>2. Loops(X, Y, Z) =
        [k \in 1..N |-> <<(k - 1) \div s, ((k - 1) \div Z) % Y, (k - 1) % Z>>]
  BY DEF Loops
<1>3. ASSUME NEW k \in 1..N
      PROVE  /\ (k - 1) \div s \in 0..(X - 1)
             /\ ((k - 1) \div Z) % Y \in 0..(Y - 1) /\ (k - 1) % Z \in 0..(Z - 1)
  <2>1. k - 1 \in Nat /\ k - 1 < N /\ Y \in Nat \ {0} /\ Z \in Nat \ {0}
    <3> HIDE DEF N
    <3> QED  BY <1>1
  <2>2. s \in Nat \ {0}
    BY <1>1, <2>1
  <2>3. (k - 1) \div s \in 0..(X - 1)
    <3> HIDE DEF N, s
    <3> QED  BY <1>1, <2>1, <2>2, DivBelow
  <2>4. (k - 1) % Z \in 0..(Z - 1) /\ (k - 1) \div Z \in Nat
    BY <2>1, DivMod
  <2>5. ((k - 1) \div Z) % Y \in 0..(Y - 1)
    BY <2>1, <2>4, DivMod
  <2> QED  BY <2>3, <2>4, <2>5
<1> HIDE DEF N, s
<1>4. DOMAIN Loops(X, Y, Z) = 1..N
  BY <1>2
<1>5. ASSUME NEW k \in 1..N
      PROVE  /\ Loops(X, Y, Z)[k][1] \in 0..(X - 1) /\ Loops(X, Y, Z)[k][2] \in 0..(Y - 1)
             /\ Loops(X, Y, Z)[k][3] \in 0..(Z - 1)
  <2> DEFINE a == (k - 1) \div s
             b == ((k - 1) \div Z) % Y
             c == (k - 1) % Z
  <2>1. Loops(X, Y, Z)[k] = <<a, b, c>>
    BY <1>2
  <2>2. a \in 0..(X - 1) /\ b \in 0..(Y - 1) /\ c \in 0..(Z - 1)
    BY <1>3
  <2> HIDE DEF a, b, c
  <2> QED  BY <2>1, <2>2
<1> QED  BY <1>1, <1>4, <1>5 DEF N, InRange

LEMMA LoopsRange ==
  ASSUME NEW X \in Nat, NEW Y \in Nat, NEW Z \in Nat
  PROVE  /\ X * Y * Z \in Nat /\ DOMAIN Loops(X, Y, Z) = 1..(X * Y * Z)
         /\ \A k \in DOMAIN Loops(X, Y, Z) :
              /\ Loops(X, Y, Z)[k][1] \in 0..(X - 1) /\ Loops(X, Y, Z)[k][2] \in 0..(Y - 1)
              /\ Loops(X, Y, Z)[k][3] \in 0..(Z - 1)
<1>1. InRange(Loops(X, Y, Z), X, Y, Z)
  BY LoopsInRange
<1> QED  BY <1>1, Zenon DEF InRange

\* The recursion of TopSizes has the values it is written for.
LEMMA TopSizesValues ==
  ASSUME NEW r \in Recipes
  PROVE  /\ TopSizes(r)[0] = 1
         /\ \A k \in 0..Len(r) : TopSizes(r)[k] \in Nat \ {0}
         /\ \A k \in 1..Len(r) : TopSizes(r)[k] =
              IF r[k].nodes > 0 THEN r[k].nodes ELSE r[k].copies * TopSizes(r)[k - 1]
<1> DEFINE n == Len(r)
           V == Nat \ {0}
           step == [k \in 1..n |-> [v \in V |->
                      IF r[k].nodes > 0 THEN r[k].nodes ELSE r[k].copies * v]]
           Eq(f) == f = [k \in 0..n |-> IF k = 0 THEN 1 ELSE
                           IF r[k].nodes > 0 THEN r[k].nodes ELSE r[k].copies * f[k - 1]]
           W == CHOOSE f : Eq(f)
<1>1. n \in Nat /\ \A k \in 1..n : r[k].nodes \in Nat /\ r[k].copies \in Nat \ {0}
  BY RecipesAssumption
<1>2. step \in [1..n -> [V -> V]]
  <2> SUFFICES ASSUME NEW k \in 1..n, NEW v \in V
               PROVE  (IF r[k].nodes > 0 THEN r[k].nodes ELSE r[k].copies * v) \in V
    OBVIOUS
  <2>1. r[k].nodes \in Nat /\ r[k].copies \in Nat \ {0}
    BY <1>1
  <2>2. PICK c : c = r[k].copies
    OBVIOUS
  <2>3. c \in Nat \ {0} /\ v \in Nat \ {0}
    BY <2>1, <2>2
  <2>4. 1 * v <= c * v /\ c * v \in Nat /\ 1 * v = v
    BY <2>3, TimesMonotone
  <2>5. c * v \in V
    BY <2>3, <2>4
  <2> QED  BY <2>1, <2>2, <2>5
<1>3. PICK f \in [0..n -> V] : Recursion(f, 1, step, n)
  <2>1. 1 \in V
    OBVIOUS
  <2> HIDE DEF V, step, n
  <2> QED  BY <1>1, <1>2, <2>1, RecursionExists
<1>4. ASSUME NEW k \in 1..n
      PROVE  f[k] = IF r[k].nodes > 0 THEN r[k].nodes ELSE r[k].copies * f[k - 1]
  <2>1. k - 1 \in 0..n
    BY <1>1
  <2>2. f[k] = step[k][f[k - 1]]
    <3> HIDE DEF step
    <3> QED  BY <1>3 DEF Recursion
  <2>3. f[k - 1] \in V
    BY <1>3, <2>1
  <2> QED  BY <2>2, <2>3
<1>5. Eq(f)
  <2>1. f[0] = 1
    BY <1>3 DEF Recursion
  <2>2. ASSUME NEW k \in 0..n
        PROVE  f[k] = IF k = 0 THEN 1 ELSE
                        IF r[k].nodes > 0 THEN r[k].nodes ELSE r[k].copies * f[k - 1]
    <3>1. CASE k = 0
      BY <2>1, <3>1
    <3>2. CASE k # 0
      <4>1. k \in 1..n
        BY <1>1, <3>2
      <4> HIDE DEF n
      <4> QED  BY <1>4, <3>2, <4>1
    <3> QED  BY <3>1, <3>2
  <2> HIDE DEF n
  <2> QED  BY <1>3, <2>2
<1>6. Eq(W)
  <2> HIDE DEF Eq
  <2> QED  BY <1>5
<1>7. TopSizes(r) = W
  BY DEF TopSizes
<1> HIDE DEF W
<1>8. W[0] = 1
  BY <1>1, <1>6
<1>9. ASSUME NEW k \in 1..n
      PROVE  W[k] = IF r[k].nodes > 0 THEN r[k].nodes ELSE r[k].copies * W[k - 1]
  <2>1. k \in 0..n /\ k # 0
    BY <1>1
  <2> HIDE DEF n
  <2> QED  BY <1>6, <2>1
<1>10. \A k \in 0..n : W[k] \in V
  <2> DEFINE T == {m \in Nat : m <= n => W[m] \in V}
  <2>1. 0 \in T
    BY <1>8
  <2>2. ASSUME NEW m \in T  PROVE m + 1 \in T
    <3> SUFFICES ASSUME m + 1 <= n  PROVE W[m + 1] \in V
      OBVIOUS
    <3>1. m \in Nat /\ m + 1 \in 1..n /\ (m + 1) - 1 = m /\ W[m] \in V
      BY <1>1
    <3>2. step[m + 1][W[m]] \in V
      <4> HIDE DEF step, V, n
      <4> QED  BY <1>2, <3>1
    <3>3. step[m + 1][W[m]] = W[m + 1]
      BY <1>9, <3>1
    <3> QED  BY <3>2, <3>3
  <2>3. T = Nat
    <3> HIDE DEF T
    <3>1. T \subseteq Nat  BY DEF T
    <3> QED  BY <2>1, <2>2, <3>1, AllNumbers
  <2> QED  BY <1>1, <2>3
<1> QED  BY <1>7, <1>8, <1>9, <1>10

-----------------------------------------------------------------------------
(* Part 3: the inductive invariants. *)

Replicating == stage \in {"replicate", "wire"}

\* The replication that runs has made the copies of level l.
Copied(l) == l < level \/ (stage = "wire" /\ l = level)

\* The templates whose level or dimension has been created.
Created == IF Replicating THEN built ELSE built + 1

\* The sizes of the levels are the products the templates ask for.  All levels are copied the
\* same number of times, and the top level is as large as the asserts of Connect expect it.
SizeInv ==
  /\ recipe \in Recipes /\ built \in 0..Len(recipe)
  /\ stage \in {"replicate", "wire", "create", "connect"}
  /\ stage # "replicate" \/ level > 0 => built < Len(recipe)
  /\ Replicating /\ (stage = "wire" \/ level > 0) => Template.copies > 1
  /\ Top \in Nat /\ level \in 0..(Top + 1) /\ (stage = "wire" => level <= Top)
  /\ DOMAIN size = 0..Top /\ DOMAIN originalSize = 0..Top
  /\ DOMAIN startBit = 0..Top /\ DOMAIN dims = 0..Top /\ totalAddrBits \in Nat \ {0}
  /\ \A l \in 0..Top :
       /\ originalSize[l] \in Nat \ {0} /\ dims[l] \in Nat
       /\ startBit[l] \in Int /\ startBit[l] >= -1 /\ (l > 0 => startBit[l] >= 0)
       /\ size[l] = IF Replicating /\ Copied(l) THEN Template.copies * originalSize[l]
                    ELSE originalSize[l]
  /\ originalSize[Top] = TopSizes(recipe)[Created]
  /\ ~Replicating /\ Template.nodes > 0 =>
       Top > 0 /\ size[Top - 1] = Template.copies * TopSizes(recipe)[built]
  /\ Top = 0 <=> \A k \in 1..Created : recipe[k].nodes = 0
  /\ ~Replicating /\ (\A k \in 1..built : recipe[k].nodes = 0) => Top <= 1

\* The first template puts a level above the hosts: then no template links hosts.
HostsBelow == Len(recipe) > 0 /\ recipe[1].nodes > 0

\* The interfaces of a node: they lead to other nodes, those the node made links from not upwards,
\* and those of the original block stay in it while copies are made.
DeviceOK(n, dev) ==
  /\ dev.peer \in TopoNode /\ dev.peer # n /\ (dev.first => dev.peer[1] <= n[1])
  /\ Replicating /\ n[2] < originalSize[n[1]] => dev.peer[2] < originalSize[dev.peer[1]]
  /\ HostsBelow => n[1] > 0 \/ dev.peer[1] > 0

DevicesOK(n) ==
  IsSequence(devices[n]) /\ \A p \in DOMAIN devices[n] : DeviceOK(n, devices[n][p])

\* A link to be made: between two nodes, from the upper to the lower level, and between copies
\* while copies are made.
CallOK(c) ==
  /\ c.a \in TopoNode /\ c.b \in TopoNode /\ c.a # c.b /\ c.b[1] <= c.a[1]
  /\ stage = "wire" => c.a[2] >= originalSize[c.a[1]] /\ c.b[2] >= originalSize[c.b[1]]
  /\ HostsBelow => c.a[1] > 0

LinkInv ==
  /\ TopoNode = UNION {LevelNodes(l) : l \in DOMAIN size}
  /\ DOMAIN devices = TopoNode /\ DOMAIN ports = TopoNode
  /\ \A n \in TopoNode :
       /\ addr[n] \in Seq(Nat) /\ DevicesOK(n)
       /\ \A b \in DOMAIN ports[n] : ports[n][b] \in Seq(Nat)
  /\ IsSequence(calls) /\ \A k \in DOMAIN calls : CallOK(calls[k])
  /\ stage \in {"replicate", "create"} => calls = <<>>

TopologyInv == SizeInv /\ LinkInv

-----------------------------------------------------------------------------
(* Part 4: the sizes. *)

LEMMA CountLevels ==
  ASSUME NEW S, NEW t \in Nat, S = 0..t
  PROVE  Cardinality(S) - 1 = t /\ IsFiniteSet(S)
BY FS_Interval

\* While a template is built it is the next of the list.
LEMMA TemplateRead ==
  ASSUME recipe \in Recipes, built \in 0..Len(recipe), built < Len(recipe)
  PROVE  /\ built + 1 \in DOMAIN recipe /\ built \in Nat /\ built + 1 \in 1..Len(recipe)
         /\ Template.kind \in {"Clos", "Rail", "Server", "Full", "Torus"}
         /\ Template.nodes \in Nat /\ Template.copies \in Nat \ {0}
         /\ Template.kind \in {"Clos", "Rail"} <=> Template.nodes > 0
         /\ Template.kind \in {"Server", "Rail"} => Template.perServer \in Nat \ {0}
         /\ Template.kind = "Rail" => Template.perSwitch \in Nat \ {0}
         /\ Template.kind = "Full" => Template.arrangement \in {"Absolute", "SameRank"}
         /\ TopSizes(recipe)[built] \in Nat \ {0}
         /\ TopSizes(recipe)[built + 1] =
              IF Template.nodes > 0 THEN Template.nodes
              ELSE Template.copies * TopSizes(recipe)[built]
<1>1. built + 1 \in DOMAIN recipe /\ built \in Nat /\ Len(recipe) \in Nat
  BY RecipesAssumption
<1>2. built \in 0..Len(recipe) /\ built + 1 \in 1..Len(recipe) /\ (built + 1) - 1 = built
  BY <1>1
<1>3. /\ TopSizes(recipe)[built] \in Nat \ {0}
      /\ TopSizes(recipe)[built + 1] =
           IF recipe[built + 1].nodes > 0 THEN recipe[built + 1].nodes
           ELSE recipe[built + 1].copies * TopSizes(recipe)[built]
  <2>1. /\ \A k \in 0..Len(recipe) : TopSizes(recipe)[k] \in Nat \ {0}
        /\ \A k \in 1..Len(recipe) : TopSizes(recipe)[k] =
             IF recipe[k].nodes > 0 THEN recipe[k].nodes
             ELSE recipe[k].copies * TopSizes(recipe)[k - 1]
    BY TopSizesValues
  <2> QED  BY <1>2, <2>1
<1> QED  BY <1>1, <1>2, <1>3, RecipesAssumption DEF Template

LEMMA SizesStart ==
  ASSUME InitTopology
  PROVE  SizeInv
<1>1. /\ recipe \in Recipes /\ built = 0 /\ stage = "replicate" /\ level = 0
      /\ size = [l \in {0} |-> 1] /\ originalSize = size
      /\ startBit = [l \in {0} |-> -1] /\ totalAddrBits = 1 /\ dims = [l \in {0} |-> 0]
  BY DEF InitTopology
<1>2. {0} = 0..0 /\ DOMAIN size = 0..0
  BY <1>1
<1>3. Top = 0
  BY <1>2, CountLevels DEF Top
<1>4. Len(recipe) \in Nat
  BY <1>1, RecipesAssumption
<1>5. TopSizes(recipe)[0] = 1
  BY <1>1, TopSizesValues
<1>6. Created = 0 /\ Replicating /\ \A l : ~Copied(l) \/ l < 0
  BY <1>1 DEF Created, Replicating, Copied
<1>7. \A l \in 0..Top : l = 0 /\ ~Copied(l)
  BY <1>3, <1>6
<1> QED  BY <1>1, <1>2, <1>3, <1>4, <1>5, <1>6, <1>7 DEF SizeInv

LEMMA SizesReplicateLevel ==
  ASSUME SizeInv, ReplicateLevel
  PROVE  SizeInv'
<1>1. /\ built < Len(recipe) /\ stage = "replicate" /\ Template.copies > 1 /\ level <= Top
      /\ size' = [size EXCEPT ![level] = Template.copies * originalSize[level]]
      /\ stage' = "wire" /\ recipe' = recipe /\ built' = built /\ level' = level
      /\ originalSize' = originalSize /\ startBit' = startBit
      /\ totalAddrBits' = totalAddrBits /\ dims' = dims
  BY DEF ReplicateLevel
<1>2. DOMAIN size' = DOMAIN size /\ Top' = Top /\ Template' = Template /\ Top \in Nat
      /\ level \in 0..Top /\ DOMAIN size = 0..Top
  BY <1>1 DEF Top, Template, SizeInv
<1>3. Replicating /\ Replicating' /\ Created' = Created
  BY <1>1 DEF Replicating, Created
<1>4. ASSUME NEW l \in 0..Top
      PROVE  size'[l] = IF Copied(l)' THEN Template.copies * originalSize[l] ELSE originalSize[l]
  <2>1. size[l] = IF Copied(l) THEN Template.copies * originalSize[l] ELSE originalSize[l]
    BY <1>3 DEF SizeInv
  <2>2. CASE l = level
    BY <1>1, <1>2, <2>2 DEF Copied
  <2>3. CASE l # level
    BY <1>1, <1>2, <2>1, <2>3 DEF Copied
  <2> QED  BY <2>2, <2>3
<1> QED  BY <1>1, <1>2, <1>3, <1>4 DEF SizeInv

LEMMA SizesCopyPortSets ==
  ASSUME SizeInv, CopyPortSets
  PROVE  SizeInv'
<1>1. /\ stage = "wire" /\ stage' = "replicate" /\ level' = level + 1
      /\ size' = size /\ recipe' = recipe /\ built' = built
      /\ originalSize' = originalSize /\ startBit' = startBit
      /\ totalAddrBits' = totalAddrBits /\ dims' = dims
  BY DEF CopyPortSets
<1>2. Top' = Top /\ Template' = Template /\ Top \in Nat /\ level \in 0..Top
  BY <1>1 DEF Top, Template, SizeInv
<1>3. Replicating /\ Replicating' /\ Created' = Created
  BY <1>1 DEF Replicating, Created
<1>4. \A l \in 0..Top : Copied(l)' <=> Copied(l)
  BY <1>1, <1>2 DEF Copied
<1> QED  BY <1>1, <1>2, <1>3, <1>4 DEF SizeInv

\* When all levels are replicated each is as many times its original size.
LEMMA AllCopied ==
  ASSUME SizeInv, Replicated
  PROVE  \A l \in 0..Top : size[l] = Template.copies * originalSize[l] /\ size[l] \in Nat \ {0}
<1>1. built < Len(recipe) /\ stage = "replicate" /\ (Template.copies = 1 \/ level > Top)
  BY DEF Replicated
<1>2. Template.copies \in Nat \ {0} /\ Replicating /\ Top \in Nat /\ level \in 0..(Top + 1)
  BY <1>1, TemplateRead DEF SizeInv, Replicating
<1>3. SUFFICES ASSUME NEW l \in 0..Top
               PROVE  size[l] = Template.copies * originalSize[l] /\ size[l] \in Nat \ {0}
  OBVIOUS
<1>4. /\ originalSize[l] \in Nat \ {0}
      /\ size[l] = IF Copied(l) THEN Template.copies * originalSize[l] ELSE originalSize[l]
  BY <1>2 DEF SizeInv
<1>5. Copied(l) \/ (level = 0 /\ Template.copies = 1)
  BY <1>1, <1>2 DEF SizeInv, Copied
<1>6. size[l] = Template.copies * originalSize[l]
  BY <1>4, <1>5
<1>7. Template.copies * originalSize[l] >= 1 * originalSize[l]
      /\ Template.copies * originalSize[l] \in Nat
  BY <1>2, <1>4, TimesMonotone
<1> QED  BY <1>4, <1>6, <1>7

LEMMA SizesCreateLevel ==
  ASSUME SizeInv, CreateLevel
  PROVE  SizeInv'
<1> DEFINE t == Top + 1
           N == Template.nodes
<1>1. /\ Replicated /\ N > 0 /\ stage' = "create" /\ recipe' = recipe /\ built' = built
      /\ level' = level /\ totalAddrBits' = totalAddrBits + 1
      /\ size' = [x \in DOMAIN size \cup {t} |-> IF x = t THEN N ELSE size[x]]
      /\ originalSize' = [x \in DOMAIN size \cup {t} |-> IF x = t THEN N ELSE size[x]]
      /\ startBit' = [x \in DOMAIN startBit \cup {t} |->
                        IF x = t THEN totalAddrBits - 1 ELSE startBit[x]]
      /\ dims' = [x \in DOMAIN dims \cup {t} |-> IF x = t THEN 0 ELSE dims[x]]
  BY DEF CreateLevel
<1>2. Top \in Nat /\ DOMAIN size = 0..Top /\ DOMAIN startBit = 0..Top /\ DOMAIN dims = 0..Top
      /\ built < Len(recipe) /\ stage = "replicate" /\ recipe \in Recipes
      /\ built \in 0..Len(recipe) /\ level \in 0..(Top + 1) /\ totalAddrBits \in Nat \ {0}
  BY <1>1 DEF SizeInv, Replicated
<1>3. (0..Top) \cup {t} = 0..t /\ t \in Nat
  BY <1>2
<1>4. DOMAIN size' = 0..t /\ DOMAIN originalSize' = 0..t /\ DOMAIN startBit' = 0..t
      /\ DOMAIN dims' = 0..t
  BY <1>1, <1>2, <1>3
<1>5. Top' = t
  BY <1>3, <1>4, CountLevels DEF Top
<1>6. Template' = Template /\ N \in Nat \ {0} /\ Template.copies \in Nat \ {0}
      /\ TopSizes(recipe)[built + 1] = N /\ built + 1 \in 1..Len(recipe) /\ built \in Nat
      /\ recipe[built + 1].nodes > 0
  BY <1>1, <1>2, TemplateRead DEF Template
<1>7. ~Replicating' /\ Created' = built + 1 /\ Replicating /\ Created = built
  BY <1>1, <1>2 DEF Replicating, Created
<1>8. ASSUME NEW l \in 0..t
      PROVE  /\ originalSize'[l] \in Nat \ {0} /\ dims'[l] \in Nat
             /\ startBit'[l] \in Int /\ startBit'[l] >= -1 /\ (l > 0 => startBit'[l] >= 0)
             /\ size'[l] = originalSize'[l]
  <2>1. CASE l = t
    BY <1>1, <1>2, <1>3, <1>6, <2>1
  <2>2. CASE l # t
    <3>1. l \in 0..Top
      BY <1>3, <2>2
    <3>2. size[l] \in Nat \ {0}
      BY <1>1, <3>1, AllCopied
    <3>3. dims[l] \in Nat /\ startBit[l] \in Int /\ startBit[l] >= -1
          /\ (l > 0 => startBit[l] >= 0)
      BY <3>1 DEF SizeInv
    <3> HIDE DEF t
    <3> QED  BY <1>1, <1>2, <1>3, <2>2, <3>1, <3>2, <3>3
  <2> QED  BY <2>1, <2>2
<1>9. originalSize'[t] = TopSizes(recipe)[built + 1]
  BY <1>1, <1>6
<1>10. size'[t - 1] = Template.copies * TopSizes(recipe)[built]
  <2>1. t - 1 = Top /\ Top \in 0..Top /\ Top # t
    BY <1>2
  <2>2. size[Top] = Template.copies * originalSize[Top]
    BY <1>1, <2>1, AllCopied
  <2>3. originalSize[Top] = TopSizes(recipe)[built]
    BY <1>7 DEF SizeInv
  <2> QED  BY <1>1, <1>2, <2>1, <2>2, <2>3
<1>11. t = 0 <=> \A k \in 1..(built + 1) : recipe[k].nodes = 0
  <2>1. built + 1 \in 1..(built + 1)
    BY <1>6
  <2> QED  BY <1>2, <1>6, <2>1
<1>12. (\A k \in 1..built : recipe[k].nodes = 0) => t <= 1
  BY <1>2, <1>7 DEF SizeInv
<1>13. t > 0 /\ level \in 0..(t + 1) /\ totalAddrBits + 1 \in Nat \ {0}
  BY <1>2
<1> HIDE DEF t, N
<1> QED  BY <1>1, <1>2, <1>3, <1>4, <1>5, <1>6, <1>7, <1>8, <1>9, <1>10, <1>11, <1>12, <1>13
            DEF SizeInv

LEMMA SizesCreateDimension ==
  ASSUME SizeInv, CreateDimension
  PROVE  SizeInv'
<1>1. /\ Replicated /\ Template.nodes = 0 /\ stage' = "create" /\ recipe' = recipe
      /\ built' = built /\ level' = level /\ totalAddrBits' = totalAddrBits + 1
      /\ size' = size /\ originalSize' = size /\ startBit' = startBit
      /\ dims' = [dims EXCEPT ![Top] = @ + 1]
  BY DEF CreateDimension
<1>2. Top \in Nat /\ DOMAIN size = 0..Top /\ DOMAIN dims = 0..Top
      /\ built < Len(recipe) /\ stage = "replicate" /\ recipe \in Recipes
      /\ built \in 0..Len(recipe) /\ totalAddrBits \in Nat \ {0} /\ Top \in 0..Top
  BY <1>1 DEF SizeInv, Replicated
<1>3. Top' = Top /\ Template' = Template
  BY <1>1 DEF Top, Template
<1>4. TopSizes(recipe)[built + 1] = Template.copies * TopSizes(recipe)[built] /\ built \in Nat
      /\ recipe[built + 1].nodes = 0
  BY <1>1, <1>2, TemplateRead DEF Template
<1>5. ~Replicating' /\ Created' = built + 1 /\ Replicating /\ Created = built
  BY <1>1, <1>2 DEF Replicating, Created
<1>6. ASSUME NEW l \in 0..Top  PROVE dims'[l] \in Nat /\ size[l] \in Nat \ {0}
  <2>1. dims[l] \in Nat
    BY DEF SizeInv
  <2>2. size[l] \in Nat \ {0}
    BY <1>1, AllCopied
  <2> QED  BY <1>1, <1>2, <2>1, <2>2
<1>7. size[Top] = TopSizes(recipe)[built + 1]
  <2>1. originalSize[Top] = TopSizes(recipe)[built]
    BY <1>5 DEF SizeInv
  <2>2. size[Top] = Template.copies * originalSize[Top]
    BY <1>1, <1>2, AllCopied
  <2> QED  BY <1>4, <2>1, <2>2
<1>8. Top = 0 <=> \A k \in 1..(built + 1) : recipe[k].nodes = 0
  <2>1. \A k : k \in 1..(built + 1) <=> k \in 1..built \/ k = built + 1
    BY <1>4
  <2>2. Top = 0 <=> \A k \in 1..built : recipe[k].nodes = 0
    BY <1>5 DEF SizeInv
  <2> QED  BY <1>4, <2>1, <2>2
<1>9. (\A k \in 1..built : recipe[k].nodes = 0) => Top <= 1
  BY <1>2, <1>5 DEF SizeInv
<1>10. totalAddrBits + 1 \in Nat \ {0}
  BY <1>2
<1>11. DOMAIN dims' = 0..Top /\ DOMAIN startBit' = 0..Top
  BY <1>1, <1>2 DEF SizeInv
<1>12. ASSUME NEW l \in 0..Top
       PROVE  /\ originalSize'[l] \in Nat \ {0} /\ dims'[l] \in Nat
              /\ startBit'[l] \in Int /\ startBit'[l] >= -1 /\ (l > 0 => startBit'[l] >= 0)
              /\ size'[l] = originalSize'[l]
  BY <1>1, <1>6 DEF SizeInv
<1>13. /\ recipe' \in Recipes /\ built' \in 0..Len(recipe') /\ built' < Len(recipe')
       /\ level' \in 0..(Top' + 1)
  BY <1>1, <1>2, <1>3 DEF SizeInv
<1>14. /\ stage' = "create" /\ recipe' = recipe /\ built' = built /\ DOMAIN size' = 0..Top
       /\ DOMAIN originalSize' = 0..Top /\ Template'.nodes = 0 /\ Top \in Nat
       /\ originalSize'[Top] = TopSizes(recipe)[built + 1] /\ totalAddrBits' \in Nat \ {0}
  BY <1>1, <1>2, <1>3, <1>7, <1>10
<1> QED  BY <1>3, <1>5, <1>8, <1>9, <1>11, <1>12, <1>13, <1>14 DEF SizeInv

LEMMA SizesConnect ==
  ASSUME SizeInv, Connect
  PROVE  SizeInv'
<1>1. /\ stage = "create" /\ stage' = "connect" /\ level' = level
      /\ size' = size /\ recipe' = recipe /\ built' = built
      /\ originalSize' = originalSize /\ startBit' = startBit
      /\ totalAddrBits' = totalAddrBits /\ dims' = dims
  BY DEF Connect
<1>2. Top' = Top /\ Template' = Template
  BY <1>1 DEF Top, Template
<1>3. ~Replicating /\ ~Replicating' /\ Created' = Created
  BY <1>1 DEF Replicating, Created
<1> QED  BY <1>1, <1>2, <1>3 DEF SizeInv

LEMMA SizesKept ==
  ASSUME SizeInv,
         stage' = stage /\ level' = level /\ size' = size /\ recipe' = recipe /\ built' = built
           /\ originalSize' = originalSize /\ startBit' = startBit
           /\ totalAddrBits' = totalAddrBits /\ dims' = dims
  PROVE  SizeInv'
<1>1. Top' = Top /\ Template' = Template /\ Replicating' = Replicating /\ Created' = Created
  BY DEF Top, Template, Replicating, Created
<1>2. \A l : Copied(l)' <=> Copied(l)
  BY DEF Copied
<1> QED  BY <1>1, <1>2 DEF SizeInv

LEMMA SizesGenerate ==
  ASSUME SizeInv, GenerateRoutingRules
  PROVE  SizeInv'
<1>1. /\ stage = "connect" /\ stage' = "replicate" /\ level' = 0
      /\ size' = size /\ recipe' = recipe /\ built' = built + 1
      /\ originalSize' = originalSize /\ startBit' = startBit
      /\ totalAddrBits' = totalAddrBits /\ dims' = dims
  BY DEF GenerateRoutingRules
<1>2. Top' = Top /\ Top \in Nat
  BY <1>1 DEF Top, SizeInv
<1>3. ~Replicating /\ Replicating' /\ Created = built + 1 /\ Created' = built + 1
  BY <1>1 DEF Replicating, Created
<1>4. built + 1 \in 0..Len(recipe)
  <2>1. built \in 0..Len(recipe) /\ built < Len(recipe) /\ recipe \in Recipes
    BY <1>1 DEF SizeInv
  <2> QED  BY <2>1, TemplateRead
<1>5. \A l \in 0..Top : ~Copied(l)'
  BY <1>1 DEF Copied
<1> QED  BY <1>1, <1>2, <1>3, <1>4, <1>5 DEF SizeInv

-----------------------------------------------------------------------------
(* Part 5: nodes and links. *)

\* What the nodes are, element by element.
AreNodes(N, s, t) ==
  /\ \A n \in N : n = <<n[1], n[2]>> /\ n[1] \in 0..t /\ n[2] \in 0..(s[n[1]] - 1)
  /\ \A l \in 0..t : \A k \in 0..(s[l] - 1) : <<l, k>> \in N

LEMMA NodesOf ==
  ASSUME NEW s, NEW t \in Nat, DOMAIN s = 0..t, NEW N
  PROVE  N = UNION {{<<l, k>> : k \in 0..(s[l] - 1)} : l \in DOMAIN s} <=> AreNodes(N, s, t)
<1> DEFINE U == UNION {{<<l, k>> : k \in 0..(s[l] - 1)} : l \in DOMAIN s}
<1>1. \A n : n \in U <=> \E l \in 0..t : \E k \in 0..(s[l] - 1) : n = <<l, k>>
  OBVIOUS
<1> HIDE DEF U
<1>2. ASSUME N = U  PROVE AreNodes(N, s, t)
  <2>1. ASSUME NEW n \in N
        PROVE  n = <<n[1], n[2]>> /\ n[1] \in 0..t /\ n[2] \in 0..(s[n[1]] - 1)
    <3>1. PICK l \in 0..t : \E k \in 0..(s[l] - 1) : n = <<l, k>>
      BY <1>1, <1>2
    <3> QED  BY <3>1
  <2>2. \A l \in 0..t : \A k \in 0..(s[l] - 1) : <<l, k>> \in N
    BY <1>1, <1>2
  <2> QED  BY <2>1, <2>2 DEF AreNodes
<1>3. ASSUME AreNodes(N, s, t)  PROVE N = U
  <2>1. ASSUME NEW n \in N  PROVE n \in U
    BY <1>1, <1>3 DEF AreNodes
  <2>2. ASSUME NEW n \in U  PROVE n \in N
    BY <1>1, <1>3 DEF AreNodes
  <2> QED  BY <2>1, <2>2
<1> QED  BY <1>2, <1>3 DEF U

LEMMA TopologyNodes ==
  ASSUME DOMAIN size = 0..Top, Top \in Nat
  PROVE  TopoNode = UNION {LevelNodes(l) : l \in DOMAIN size} <=> AreNodes(TopoNode, size, Top)
<1>1. TopoNode = UNION {{<<l, k>> : k \in 0..(size[l] - 1)} : l \in DOMAIN size}
        <=> AreNodes(TopoNode, size, Top)
  BY NodesOf
<1> QED  BY <1>1 DEF LevelNodes

LEMMA LinkEnds ==
  ASSUME NEW a, NEW b, NEW d, NEW p, NEW q
  PROVE  Link(a, b, d, p, q).a = a /\ Link(a, b, d, p, q).b = b
BY DEF Link

LEMMA LinksStart ==
  ASSUME InitTopology, SizeInv
  PROVE  LinkInv
<1>1. /\ stage = "replicate" /\ calls = <<>> /\ size = [l \in {0} |-> 1]
      /\ addr = [n \in {<<0, 0>>} |-> <<>>]
      /\ devices = [n \in {<<0, 0>>} |-> <<>>]
      /\ ports = [n \in {<<0, 0>>} |-> NoPorts]
  BY DEF InitTopology
<1>2. TopoNode = {<<0, 0>>} /\ DOMAIN devices = TopoNode /\ DOMAIN ports = TopoNode
  BY <1>1 DEF TopoNode
<1>3. TopoNode = UNION {LevelNodes(l) : l \in DOMAIN size}
  <2>1. 0..(1 - 1) = {0}
    OBVIOUS
  <2>2. LevelNodes(0) = {<<0, 0>>}
    BY <1>1, <2>1 DEF LevelNodes
  <2>3. DOMAIN size = {0}
    BY <1>1
  <2> QED  BY <1>2, <2>2, <2>3
<1>4. ASSUME NEW n \in TopoNode
      PROVE  /\ addr[n] \in Seq(Nat) /\ DevicesOK(n)
             /\ \A b \in DOMAIN ports[n] : ports[n][b] \in Seq(Nat)
  <2>1. addr[n] = <<>> /\ devices[n] = <<>> /\ ports[n] = <<>>
    BY <1>1, <1>2 DEF NoPorts
  <2>2. <<>> \in Seq(Nat)
    OBVIOUS
  <2> QED  BY <2>1, <2>2, EmptySequence DEF DevicesOK, DeviceOK
<1>5. IsSequence(calls) /\ \A k \in DOMAIN calls : CallOK(calls[k])
  BY <1>1, EmptySequence
<1> QED  BY <1>1, <1>2, <1>3, <1>4, <1>5 DEF LinkInv

\* The links copied from one node.
LEMMA CopiesOfNode ==
  ASSUME NEW n, NEW d, NEW c, IsSequence(devices[n])
  PROVE  /\ IsSequence(CopiedLinks(n, d, c))
         /\ \A i \in DOMAIN CopiedLinks(n, d, c) :
              \E m \in DOMAIN devices[n] :
                /\ devices[n][m].first
                /\ CopiedLinks(n, d, c)[i].a = Copy(n, c)
                /\ CopiedLinks(n, d, c)[i].b = Copy(devices[n][m].peer, c)
<1> DEFINE N == Len(devices[n])
           P == {m \in 1..N : devices[n][m].first /\ devices[n][m].dim = d}
           x == [m \in 1..N |-> Link(Copy(n, c), Copy(devices[n][m].peer, c), d,
                                     NoBucket, NoBucket)]
           seqs == [m \in 1..N |-> IF m \in P THEN <<x[m]>> ELSE <<>>]
<1>1. N \in Nat /\ DOMAIN devices[n] = 1..N
  BY SequenceType
<1>2. CopiedLinks(n, d, c) = FlattenSeq(seqs)
  BY <1>1 DEF CopiedLinks, OnlyIf
<1>3. P \in SUBSET (1..N)
  OBVIOUS
<1>4. \A m \in P : /\ devices[n][m].first /\ m \in DOMAIN devices[n]
                   /\ x[m].a = Copy(n, c) /\ x[m].b = Copy(devices[n][m].peer, c)
  BY <1>1, LinkEnds
<1>6. ChosenAt(seqs, N, P, x)
  BY DEF ChosenAt
<1> HIDE DEF P, x, N, seqs
<1>5. /\ IsSequence(FlattenSeq(seqs))
      /\ \A i \in DOMAIN FlattenSeq(seqs) : \E m \in P : FlattenSeq(seqs)[i] = x[m]
  <2>1. PICK s, M, Q, y : s = seqs /\ M = N /\ Q = P /\ y = x
    OBVIOUS
  <2>2. M \in Nat /\ Q \in SUBSET (1..M) /\ ChosenAt(s, M, Q, y)
    BY <1>1, <1>3, <1>6, <2>1
  <2>3. /\ IsSequence(FlattenSeq(s))
        /\ \A i \in DOMAIN FlattenSeq(s) : \E m \in Q : FlattenSeq(s)[i] = y[m]
    BY <2>2, Chosen
  <2> QED  BY <2>1, <2>3
<1> QED  BY <1>2, <1>4, <1>5

\* The links of a level that a replication makes: from a copy of a node to the copy of a peer.
LEMMA LinksOfCopies ==
  ASSUME NEW l, dims[l] \in Nat, originalSize[l] \in Nat, Template.copies \in Nat \ {0},
         \A k \in 0..(originalSize[l] - 1) : IsSequence(devices[<<l, k>>])
  PROVE  /\ IsSequence(ReplicatedLinks(l))
         /\ \A i \in DOMAIN ReplicatedLinks(l) :
              \E k \in 0..(originalSize[l] - 1), c \in 1..(Template.copies - 1) :
                \E m \in DOMAIN devices[<<l, k>>] :
                  /\ devices[<<l, k>>][m].first
                  /\ ReplicatedLinks(l)[i].a = Copy(<<l, k>>, c)
                  /\ ReplicatedLinks(l)[i].b = Copy(devices[<<l, k>>][m].peer, c)
<1> DEFINE Z == originalSize[l]
           C == Template.copies
           N == (dims[l] + 1) * (C - 1) * Z
           T == Loops(dims[l] + 1, C - 1, Z)
           part(k) == CopiedLinks(<<l, T[k][3]>>, T[k][1], T[k][2] + 1)
           seqs == [k \in DOMAIN T |-> part(k)]
<1>1. ReplicatedLinks(l) = FlattenSeq(seqs)
  BY DEF ReplicatedLinks
<1>2. /\ N \in Nat /\ DOMAIN T = 1..N
      /\ \A k \in 1..N : T[k][2] \in 0..(C - 2) /\ T[k][3] \in 0..(Z - 1)
  <2>1. dims[l] + 1 \in Nat /\ C - 1 \in Nat /\ Z \in Nat /\ (C - 1) - 1 = C - 2
    OBVIOUS
  <2> HIDE DEF C, Z
  <2>2. PICK X, Y, W : X = dims[l] + 1 /\ Y = C - 1 /\ W = Z
    OBVIOUS
  <2>3. /\ X * Y * W \in Nat /\ DOMAIN Loops(X, Y, W) = 1..(X * Y * W)
        /\ \A k \in DOMAIN Loops(X, Y, W) :
             Loops(X, Y, W)[k][2] \in 0..(Y - 1) /\ Loops(X, Y, W)[k][3] \in 0..(W - 1)
    <3>1. X \in Nat /\ Y \in Nat /\ W \in Nat
      BY <2>1, <2>2
    <3>2. /\ X * Y * W \in Nat /\ DOMAIN Loops(X, Y, W) = 1..(X * Y * W)
          /\ \A k \in DOMAIN Loops(X, Y, W) :
               /\ Loops(X, Y, W)[k][1] \in 0..(X - 1) /\ Loops(X, Y, W)[k][2] \in 0..(Y - 1)
               /\ Loops(X, Y, W)[k][3] \in 0..(W - 1)
      BY <3>1, LoopsRange, Zenon
    <3> QED  BY <3>2
  <2>4. T = Loops(X, Y, W) /\ N = X * Y * W /\ Y - 1 = C - 2
    BY <2>1, <2>2
  <2> HIDE DEF T, N
  <2> QED  BY <2>2, <2>3, <2>4
<1>3. ASSUME NEW k \in 1..N  PROVE T[k][2] + 1 \in 1..(C - 1)
  <2>1. C \in Nat \ {0}
    OBVIOUS
  <2> HIDE DEF T, N, C
  <2>2. PICK m : m = T[k][2]
    OBVIOUS
  <2>3. m \in 0..(C - 2)
    BY <1>2, <2>2
  <2> QED  BY <2>1, <2>2, <2>3
<1>4. ASSUME NEW k \in 1..N
      PROVE  /\ IsSequence(part(k))
             /\ \A i \in DOMAIN part(k) :
                  \E m \in DOMAIN devices[<<l, T[k][3]>>] :
                    /\ devices[<<l, T[k][3]>>][m].first
                    /\ part(k)[i].a = Copy(<<l, T[k][3]>>, T[k][2] + 1)
                    /\ part(k)[i].b = Copy(devices[<<l, T[k][3]>>][m].peer, T[k][2] + 1)
  <2>1. IsSequence(devices[<<l, T[k][3]>>])
    <3> HIDE DEF T
    <3> QED  BY <1>2
  <2> HIDE DEF T
  <2> QED  BY <2>1, CopiesOfNode
<1>5. IsSequence(seqs) /\ DOMAIN seqs = 1..N /\ \A k \in 1..N : seqs[k] = part(k)
  <2>1. DOMAIN seqs = 1..N /\ seqs = [k \in 1..N |-> seqs[k]] /\ \A k \in 1..N : seqs[k] = part(k)
    BY <1>2
  <2> HIDE DEF seqs, N, part
  <2>2. IsSequence(seqs)
    BY <1>2, <2>1, SequenceOf
  <2> QED  BY <2>1, <2>2
<1> HIDE DEF seqs, T, N
<1>6. /\ IsSequence(FlattenSeq(seqs))
      /\ \A i \in DOMAIN FlattenSeq(seqs) :
           \E k \in DOMAIN seqs : \E m \in DOMAIN seqs[k] : FlattenSeq(seqs)[i] = seqs[k][m]
  <2>1. PICK s : s = seqs
    OBVIOUS
  <2> HIDE DEF part
  <2>2. IsSequence(s) /\ \A k \in DOMAIN s : IsSequence(s[k])
    BY <1>4, <1>5, <2>1
  <2>3. /\ IsSequence(FlattenSeq(s))
        /\ \A i \in DOMAIN FlattenSeq(s) :
             \E k \in DOMAIN s : \E m \in DOMAIN s[k] : FlattenSeq(s)[i] = s[k][m]
    BY <2>2, FlattenAny
  <2> QED  BY <2>1, <2>3
<1>7. ASSUME NEW i \in DOMAIN ReplicatedLinks(l)
      PROVE  \E k \in 0..(Z - 1), c \in 1..(C - 1) : \E m \in DOMAIN devices[<<l, k>>] :
               /\ devices[<<l, k>>][m].first
               /\ ReplicatedLinks(l)[i].a = Copy(<<l, k>>, c)
               /\ ReplicatedLinks(l)[i].b = Copy(devices[<<l, k>>][m].peer, c)
  <2> HIDE DEF part, Z, C
  <2>1. PICK j \in 1..N : \E m \in DOMAIN part(j) : ReplicatedLinks(l)[i] = part(j)[m]
    BY <1>1, <1>5, <1>6
  <2>2. PICK q \in DOMAIN part(j) : ReplicatedLinks(l)[i] = part(j)[q]
    BY <2>1
  <2>3. PICK m \in DOMAIN devices[<<l, T[j][3]>>] :
          /\ devices[<<l, T[j][3]>>][m].first
          /\ part(j)[q].a = Copy(<<l, T[j][3]>>, T[j][2] + 1)
          /\ part(j)[q].b = Copy(devices[<<l, T[j][3]>>][m].peer, T[j][2] + 1)
    BY <1>4
  <2>4. T[j][3] \in 0..(Z - 1) /\ T[j][2] + 1 \in 1..(C - 1)
    BY <1>2, <1>3
  <2> QED  BY <2>2, <2>3, <2>4, Zenon
<1> QED  BY <1>1, <1>6, <1>7

\* A copy is another node of the replicated level.
LEMMA CopyPlaced ==
  ASSUME NEW n, NEW C \in Nat, NEW c \in 1..(C - 1), originalSize[n[1]] \in Nat,
         n[2] \in 0..(originalSize[n[1]] - 1)
  PROVE  /\ Copy(n, c) = <<n[1], Copy(n, c)[2]>> /\ Copy(n, c)[1] = n[1]
         /\ Copy(n, c)[2] \in 0..((C * originalSize[n[1]]) - 1)
         /\ Copy(n, c)[2] >= originalSize[n[1]]
<1> DEFINE s == originalSize[n[1]]
           i == n[2]
<1>1. c \in 0..(C - 1) /\ c > 0 /\ s \in Nat /\ i \in 0..(s - 1)
  OBVIOUS
<1>2. Copy(n, c) = <<n[1], (c * s) + i>>
  BY DEF Copy
<1> HIDE DEF s, i
<1>3. (c * s) + i \in 0..((C * s) - 1) /\ (c * s) + i >= s
  BY <1>1, Slot
<1> QED  BY <1>2, <1>3 DEF s

LEMMA LinksReplicateLevel ==
  ASSUME TopologyInv, SizeInv', ReplicateLevel
  PROVE  LinkInv'
<1> DEFINE C == Template.copies
           s == originalSize[level]
           new == {<<level, k>> : k \in 0..(C * s - 1)}
<1>1. /\ built < Len(recipe) /\ stage = "replicate" /\ C > 1 /\ level <= Top
      /\ size' = [size EXCEPT ![level] = C * s]
      /\ addr' = [n \in TopoNode \cup new |->
                    IF n \in new THEN Append(addr[Original(n)], CopyNumber(n)) ELSE addr[n]]
      /\ devices' = [n \in TopoNode \cup new |-> IF n \in TopoNode THEN devices[n] ELSE <<>>]
      /\ ports' = [n \in TopoNode \cup new |-> IF n \in TopoNode THEN ports[n] ELSE NoPorts]
      /\ calls' = ReplicatedLinks(level)
      /\ stage' = "wire" /\ recipe' = recipe /\ level' = level /\ originalSize' = originalSize
  BY DEF ReplicateLevel
<1>2. /\ C \in Nat /\ s \in Nat \ {0} /\ Top \in Nat /\ level \in 0..Top /\ DOMAIN size = 0..Top
      /\ \A l \in 0..Top : originalSize[l] \in Nat \ {0} /\ dims[l] \in Nat
                           /\ (l <= level => size'[l] = C * originalSize[l])
                           /\ (l # level => size'[l] = size[l])
      /\ size[level] = s /\ size'[level] = C * s /\ s <= C * s /\ C * s \in Nat
      /\ Top' = Top /\ DOMAIN size' = 0..Top /\ HostsBelow' = HostsBelow
      /\ Replicating /\ Replicating'
  <2>1. Template.copies \in Nat /\ Top \in Nat /\ level \in 0..Top /\ DOMAIN size = 0..Top
    <3>1. level <= Top /\ built < Len(recipe)
      BY <1>1
    <3>2. /\ recipe \in Recipes /\ built \in 0..Len(recipe) /\ Top \in Nat
          /\ level \in 0..(Top + 1) /\ DOMAIN size = 0..Top
      BY DEF TopologyInv, SizeInv
    <3>3. Template.copies \in Nat \ {0}
      BY <3>1, <3>2, TemplateRead
    <3> QED  BY <3>1, <3>2, <3>3
  <2>2. Replicating /\ Replicating' /\ ~Copied(level) /\ \A l \in 0..Top : l < level => Copied(l)
    BY <1>1, <2>1 DEF Replicating, Copied
  <2>3. /\ \A l \in 0..Top : originalSize[l] \in Nat \ {0} /\ dims[l] \in Nat
                             /\ (l < level => size[l] = C * originalSize[l])
        /\ size[level] = s
    BY <2>1, <2>2 DEF TopologyInv, SizeInv
  <2> HIDE DEF C
  <2>4. /\ \A l \in 0..Top : /\ (l <= level => size'[l] = C * originalSize[l])
                             /\ (l # level => size'[l] = size[l])
        /\ size'[level] = C * s /\ DOMAIN size' = 0..Top
    BY <1>1, <2>1, <2>3
  <2>5. C \in Nat /\ 1 <= C /\ s \in Nat
    BY <1>1, <2>1, <2>3 DEF C
  <2>6. 1 * s <= C * s /\ C * s \in Nat /\ 1 * s = s
    BY <2>5, TimesMonotone
  <2>7. Top' = Top /\ HostsBelow' = HostsBelow
    BY <1>1, <2>1, <2>4 DEF Top, HostsBelow
  <2> QED  BY <2>1, <2>2, <2>3, <2>4, <2>5, <2>6, <2>7
<1> HIDE DEF C
<1>3. TopoNode' = TopoNode \cup new /\ DOMAIN devices' = TopoNode' /\ DOMAIN ports' = TopoNode'
  BY <1>1 DEF TopoNode
<1>4. AreNodes(TopoNode, size, Top)
  BY <1>2, TopologyNodes DEF TopologyInv, LinkInv
<1>5. \A n \in new : n = <<n[1], n[2]>> /\ n[1] = level /\ n[2] \in 0..(C * s - 1)
  OBVIOUS
<1>6. \A k \in 0..(C * s - 1) : <<level, k>> \in new
  OBVIOUS
<1> HIDE DEF new
<1>7. AreNodes(TopoNode', size', Top)
  <2>1. ASSUME NEW n \in TopoNode'
        PROVE  n = <<n[1], n[2]>> /\ n[1] \in 0..Top /\ n[2] \in 0..(size'[n[1]] - 1)
    <3>1. CASE n \in new
      BY <1>2, <1>5, <3>1
    <3>2. CASE n \in TopoNode
      <4>1. n = <<n[1], n[2]>> /\ n[1] \in 0..Top /\ n[2] \in 0..(size[n[1]] - 1)
        BY <1>4, <3>2 DEF AreNodes
      <4>2. CASE n[1] = level
        BY <1>2, <4>1, <4>2
      <4>3. CASE n[1] # level
        BY <1>2, <4>1, <4>3
      <4> QED  BY <4>2, <4>3
    <3> QED  BY <1>3, <3>1, <3>2
  <2>2. ASSUME NEW l \in 0..Top, NEW k \in 0..(size'[l] - 1)  PROVE <<l, k>> \in TopoNode'
    <3>1. CASE l = level
      BY <1>2, <1>3, <1>6, <3>1
    <3>2. CASE l # level
      <4>1. k \in 0..(size[l] - 1)
        BY <1>2, <3>2
      <4> QED  BY <1>3, <1>4, <4>1 DEF AreNodes
    <3> QED  BY <3>1, <3>2
  <2> QED  BY <2>1, <2>2 DEF AreNodes
<1>8. (TopoNode = UNION {LevelNodes(l) : l \in DOMAIN size})'
  <2>1. (DOMAIN size = 0..Top /\ Top \in Nat)' /\ AreNodes(TopoNode, size, Top)'
    BY <1>2, <1>7 DEF AreNodes
  <2>2. (DOMAIN size = 0..Top /\ Top \in Nat =>
          (TopoNode = UNION {LevelNodes(l) : l \in DOMAIN size} <=> AreNodes(TopoNode, size, Top)))'
    BY TopologyNodes, PTL
  <2> QED  BY <2>1, <2>2
<1>9. ASSUME NEW n \in TopoNode  PROVE DevicesOK(n)'
  <2>1. n \in TopoNode' /\ devices'[n] = devices[n]
    BY <1>1, <1>3
  <2>2. DevicesOK(n)
    BY DEF TopologyInv, LinkInv
  <2>3. TopoNode \subseteq TopoNode' /\ originalSize' = originalSize
    BY <1>1, <1>3
  <2> QED  BY <1>2, <2>1, <2>2, <2>3 DEF DevicesOK, DeviceOK
<1>10. ASSUME NEW n \in TopoNode', n \notin TopoNode  PROVE DevicesOK(n)'
  <2>1. devices'[n] = <<>>
    BY <1>1, <1>3, <1>10
  <2> QED  BY <2>1, EmptySequence DEF DevicesOK, DeviceOK
<1>11. ASSUME NEW n \in TopoNode'  PROVE addr'[n] \in Seq(Nat)
  <2>1. CASE n \in new
    <3>1. n[1] = level /\ n[2] \in Nat
      BY <1>2, <1>5, <2>1
    <3>2. n[2] % s \in 0..(s - 1) /\ (n[2] \div s) + 1 \in Nat
      BY <1>2, <3>1, DivMod
    <3>3. Original(n) = <<level, n[2] % s>> /\ CopyNumber(n) \in Nat
      BY <3>1, <3>2 DEF Original, CopyNumber
    <3>4. Original(n) \in TopoNode
      BY <1>2, <1>4, <3>2, <3>3 DEF AreNodes
    <3>5. addr[Original(n)] \in Seq(Nat)
      BY <3>4 DEF TopologyInv, LinkInv
    <3>6. Append(addr[Original(n)], CopyNumber(n)) \in Seq(Nat)
      BY <3>3, <3>5, AppendProperties
    <3>7. addr'[n] = Append(addr[Original(n)], CopyNumber(n))
      BY <1>1, <1>3, <2>1
    <3> QED  BY <3>6, <3>7
  <2>2. CASE n \notin new
    <3>1. n \in TopoNode /\ addr'[n] = addr[n]
      BY <1>1, <1>3, <2>2
    <3> QED  BY <3>1 DEF TopologyInv, LinkInv
  <2> QED  BY <2>1, <2>2
<1>12. ASSUME NEW n \in TopoNode', NEW b \in DOMAIN ports'[n]  PROVE ports'[n][b] \in Seq(Nat)
  <2>1. CASE n \in TopoNode
    <3>1. ports'[n] = ports[n]
      BY <1>1, <1>3, <2>1
    <3> QED  BY <2>1, <3>1 DEF TopologyInv, LinkInv
  <2>2. CASE n \notin TopoNode
    <3>1. ports'[n] = <<>>
      BY <1>1, <1>3, <2>2 DEF NoPorts
    <3> QED  BY <3>1, EmptySequence
  <2> QED  BY <2>1, <2>2
<1>13. /\ IsSequence(ReplicatedLinks(level))
       /\ \A i \in DOMAIN ReplicatedLinks(level) :
            \E k \in 0..(s - 1), c \in 1..(C - 1) :
              \E m \in DOMAIN devices[<<level, k>>] :
                /\ devices[<<level, k>>][m].first
                /\ ReplicatedLinks(level)[i].a = Copy(<<level, k>>, c)
                /\ ReplicatedLinks(level)[i].b = Copy(devices[<<level, k>>][m].peer, c)
  <2>1. \A k \in 0..(s - 1) : IsSequence(devices[<<level, k>>])
    <3>1. \A k \in 0..(s - 1) : <<level, k>> \in TopoNode
      BY <1>2, <1>4 DEF AreNodes
    <3>2. \A n \in TopoNode : IsSequence(devices[n])
      BY DEF TopologyInv, LinkInv, DevicesOK
    <3> QED  BY <3>1, <3>2
  <2>2. Template.copies \in Nat \ {0}
    BY <1>1, <1>2 DEF C
  <2>3. dims[level] \in Nat /\ originalSize[level] \in Nat
    BY <1>2
  <2> QED  BY <2>1, <2>2, <2>3, LinksOfCopies DEF C
<1>14. ASSUME NEW i \in DOMAIN ReplicatedLinks(level), NEW call, call = ReplicatedLinks(level)[i]
       PROVE  CallOK(call)'
  <2>1. PICK k \in 0..(s - 1), c \in 1..(C - 1) :
              \E m \in DOMAIN devices[<<level, k>>] :
                /\ devices[<<level, k>>][m].first
                /\ ReplicatedLinks(level)[i].a = Copy(<<level, k>>, c)
                /\ ReplicatedLinks(level)[i].b = Copy(devices[<<level, k>>][m].peer, c)
    BY <1>13
  <2>2. PICK m \in DOMAIN devices[<<level, k>>] :
                /\ devices[<<level, k>>][m].first
                /\ ReplicatedLinks(level)[i].a = Copy(<<level, k>>, c)
                /\ ReplicatedLinks(level)[i].b = Copy(devices[<<level, k>>][m].peer, c)
    BY <2>1
  <2> DEFINE n == <<level, k>>
             peer == devices[n][m].peer
  <2>3. n \in TopoNode /\ n[1] = level /\ n[2] = k
    BY <1>2, <1>4 DEF AreNodes
  <2>4. /\ peer \in TopoNode /\ peer # n /\ peer[1] <= level /\ peer[2] < originalSize[peer[1]]
        /\ (HostsBelow => level > 0)
    <3>1. DevicesOK(n)
      BY <2>3 DEF TopologyInv, LinkInv
    <3>2. k < s
      BY <1>2
    <3>3. /\ peer \in TopoNode /\ peer # n /\ peer[1] <= level /\ peer[2] < originalSize[peer[1]]
          /\ (HostsBelow => level > 0 \/ peer[1] > 0)
      BY <1>2, <2>2, <2>3, <3>1, <3>2 DEF DevicesOK, DeviceOK
    <3>4. peer[1] \in 0..Top
      BY <1>4, <3>3 DEF AreNodes
    <3> HIDE DEF peer
    <3> QED  BY <1>2, <3>3, <3>4
  <2>5. peer[1] \in 0..Top /\ peer[2] \in 0..(originalSize[peer[1]] - 1)
        /\ originalSize[peer[1]] \in Nat /\ size'[peer[1]] = C * originalSize[peer[1]]
    <3>1. peer[1] \in 0..Top /\ peer[2] \in 0..(size[peer[1]] - 1)
      BY <1>4, <2>4 DEF AreNodes
    <3>2. originalSize[peer[1]] \in Nat /\ size'[peer[1]] = C * originalSize[peer[1]]
      BY <1>2, <2>4, <3>1
    <3> HIDE DEF peer
    <3> QED  BY <2>4, <3>1, <3>2
  <2> HIDE DEF n, peer
  <2>6. /\ Copy(n, c) = <<level, Copy(n, c)[2]>> /\ Copy(n, c)[1] = level
        /\ Copy(n, c)[2] \in 0..((C * s) - 1)
        /\ Copy(n, c)[2] >= originalSize[level]
    <3>1. /\ C \in Nat /\ c \in 1..(C - 1) /\ originalSize[n[1]] \in Nat
          /\ n[2] \in 0..(originalSize[n[1]] - 1)
      BY <1>2, <2>3
    <3>2. /\ Copy(n, c) = <<n[1], Copy(n, c)[2]>> /\ Copy(n, c)[1] = n[1]
          /\ Copy(n, c)[2] \in 0..((C * originalSize[n[1]]) - 1)
          /\ Copy(n, c)[2] >= originalSize[n[1]]
      BY <3>1, CopyPlaced
    <3> QED  BY <2>3, <3>2
  <2>7. /\ Copy(peer, c) = <<peer[1], Copy(peer, c)[2]>> /\ Copy(peer, c)[1] = peer[1]
        /\ Copy(peer, c)[2] \in 0..((C * originalSize[peer[1]]) - 1)
        /\ Copy(peer, c)[2] >= originalSize[peer[1]]
    BY <1>2, <2>5, CopyPlaced
  <2>8. Copy(n, c) \in TopoNode'
    BY <1>2, <1>7, <2>6 DEF AreNodes
  <2>9. Copy(peer, c) \in TopoNode'
    BY <1>2, <1>7, <2>5, <2>7 DEF AreNodes
  <2>10. call.a = Copy(n, c) /\ call.b = Copy(peer, c)
    BY <1>14, <2>2 DEF n, peer
  <2>11. originalSize' = originalSize
    BY <1>1
  <2>12. call.a \in TopoNode' /\ call.b \in TopoNode' /\ call.a[1] = level /\ call.b[1] = peer[1]
    BY <2>6, <2>7, <2>8, <2>9, <2>10
  <2>13. call.a[2] >= originalSize'[call.a[1]] /\ call.b[2] >= originalSize'[call.b[1]]
    BY <2>6, <2>7, <2>10, <2>11, <2>12
  <2>14. call.a # call.b
    <3> SUFFICES ASSUME Copy(n, c) = Copy(peer, c)  PROVE FALSE
      BY <2>10
    <3>1. peer[1] = level
      BY <2>6, <2>7
    <3>2. (c * s) + k = (c * s) + peer[2]
      BY <2>3, <3>1 DEF Copy
    <3>3. peer[2] \in Nat /\ k \in Nat /\ c * s \in Nat
      BY <1>2, <2>5, <3>1
    <3>4. peer[2] = k
      BY <3>2, <3>3
    <3>5. peer = <<level, k>>
      BY <1>4, <2>4, <3>1, <3>4 DEF AreNodes
    <3> QED  BY <2>4, <3>5 DEF n
  <2> QED  BY <1>2, <2>4, <2>12, <2>13, <2>14 DEF CallOK
<1> QED
  <2>1. calls' = ReplicatedLinks(level) /\ stage' = "wire"
    BY <1>1
  <2>2. IsSequence(calls') /\ \A i \in DOMAIN calls' : CallOK(calls[i])'
    <3>1. IsSequence(calls')
      BY <1>13, <2>1
    <3>2. ASSUME NEW i \in DOMAIN calls'  PROVE CallOK(calls[i])'
      <4>1. PICK call : call = calls'[i]
        OBVIOUS
      <4>2. CallOK(call)'
        BY <1>14, <2>1, <4>1
      <4> QED  BY <4>1, <4>2 DEF CallOK
    <3> QED  BY <3>1, <3>2
  <2> QED  BY <1>3, <1>8, <1>9, <1>10, <1>11, <1>12, <2>1, <2>2 DEF LinkInv

LEMMA LinksCopyPortSets ==
  ASSUME TopologyInv, SizeInv', CopyPortSets
  PROVE  LinkInv'
<1>1. /\ stage = "wire" /\ calls = <<>> /\ stage' = "replicate" /\ calls' = calls
      /\ ports' = [n \in TopoNode |-> IF n[1] = level THEN ports[Original(n)] ELSE ports[n]]
      /\ recipe' = recipe /\ size' = size /\ originalSize' = originalSize /\ addr' = addr
      /\ devices' = devices
  BY DEF CopyPortSets
<1>2. /\ Top \in Nat /\ DOMAIN size = 0..Top
      /\ \A l \in 0..Top : originalSize[l] \in Nat \ {0} /\ size[l] >= originalSize[l]
                           /\ size[l] \in Nat
  <2>1. /\ Top \in Nat /\ DOMAIN size = 0..Top /\ Template.copies \in Nat \ {0}
    BY <1>1, TemplateRead DEF TopologyInv, SizeInv
  <2>2. ASSUME NEW l \in 0..Top
        PROVE  originalSize[l] \in Nat \ {0} /\ size[l] >= originalSize[l] /\ size[l] \in Nat
    <3>1. /\ originalSize[l] \in Nat \ {0}
          /\ size[l] = Template.copies * originalSize[l] \/ size[l] = originalSize[l]
      BY DEF TopologyInv, SizeInv
    <3>2. Template.copies * originalSize[l] >= 1 * originalSize[l]
          /\ Template.copies * originalSize[l] \in Nat
      BY <2>1, <3>1, TimesMonotone
    <3> QED  BY <3>1, <3>2
  <2> QED  BY <2>1, <2>2
<1>3. AreNodes(TopoNode, size, Top)
  BY <1>2, TopologyNodes DEF TopologyInv, LinkInv
<1>4. TopoNode' = TopoNode /\ Replicating /\ Replicating' /\ (HostsBelow' <=> HostsBelow)
      /\ \A l : LevelNodes(l)' = LevelNodes(l)
  BY <1>1 DEF TopoNode, Replicating, HostsBelow, LevelNodes
<1>5. ASSUME NEW n \in TopoNode, NEW b \in DOMAIN ports'[n]  PROVE ports'[n][b] \in Seq(Nat)
  <2>1. n[1] \in 0..Top /\ n[2] \in 0..(size[n[1]] - 1)
    BY <1>3 DEF AreNodes
  <2> DEFINE s == originalSize[n[1]]
             i == n[2] % s
  <2>2. s \in Nat \ {0} /\ n[2] \in Nat /\ s <= size[n[1]]
    BY <1>2, <2>1
  <2>3. i \in 0..(s - 1)
    <3> HIDE DEF s
    <3> QED  BY <2>2, DivMod
  <2>4. i \in 0..(size[n[1]] - 1)
    <3> HIDE DEF i, s
    <3> QED  BY <1>2, <2>1, <2>2, <2>3
  <2>5. Original(n) \in TopoNode
    BY <1>3, <2>1, <2>4 DEF AreNodes, Original
  <2>6. ports'[n] = ports[Original(n)] \/ ports'[n] = ports[n]
    BY <1>1
  <2> QED  BY <2>5, <2>6 DEF TopologyInv, LinkInv
<1>6. ASSUME NEW n \in TopoNode  PROVE DevicesOK(n)'
  <2>1. DevicesOK(n) /\ \A dev : DeviceOK(n, dev) => DeviceOK(n, dev)'
    BY <1>1, <1>4 DEF TopologyInv, LinkInv, DeviceOK
  <2> QED  BY <1>1, <2>1 DEF DevicesOK
<1>7. IsSequence(calls') /\ DOMAIN calls' = {}
  BY <1>1, EmptySequence
<1>8. DOMAIN devices' = TopoNode /\ DOMAIN ports' = TopoNode
  BY <1>1 DEF TopologyInv, LinkInv
<1>9. TopoNode' = UNION {LevelNodes(l)' : l \in DOMAIN size'}
  <2>1. TopoNode = UNION {LevelNodes(l) : l \in DOMAIN size}
    BY DEF TopologyInv, LinkInv
  <2> QED  BY <1>1, <1>4, <2>1
<1>10. \A n \in TopoNode : addr'[n] \in Seq(Nat)
  BY <1>1 DEF TopologyInv, LinkInv
<1> QED  BY <1>1, <1>4, <1>5, <1>6, <1>7, <1>8, <1>9, <1>10 DEF LinkInv

\* The rules of a template change nothing; the next replication starts with all sizes original.
LEMMA LinksGenerate ==
  ASSUME TopologyInv, GenerateRoutingRules
  PROVE  LinkInv'
<1>1. /\ stage = "connect" /\ calls = <<>> /\ stage' = "replicate" /\ calls' = calls
      /\ recipe' = recipe /\ size' = size /\ originalSize' = originalSize /\ addr' = addr
      /\ devices' = devices /\ ports' = ports
  BY DEF GenerateRoutingRules
<1>2. /\ Top \in Nat /\ DOMAIN size = 0..Top /\ \A l \in 0..Top : size[l] = originalSize[l]
      /\ ~Replicating
  BY <1>1 DEF TopologyInv, SizeInv, Replicating
<1>3. AreNodes(TopoNode, size, Top)
  BY <1>2, TopologyNodes DEF TopologyInv, LinkInv
<1>4. TopoNode' = TopoNode /\ (HostsBelow' <=> HostsBelow)
      /\ \A l : LevelNodes(l)' = LevelNodes(l)
  BY <1>1 DEF TopoNode, HostsBelow, LevelNodes
<1>5. ASSUME NEW n \in TopoNode, NEW dev, DeviceOK(n, dev)  PROVE DeviceOK(n, dev)'
  <2>1. dev.peer \in TopoNode
    BY <1>5 DEF DeviceOK
  <2>2. dev.peer[1] \in 0..Top /\ dev.peer[2] \in 0..(size[dev.peer[1]] - 1)
    BY <1>3, <2>1 DEF AreNodes
  <2>3. size[dev.peer[1]] \in Nat
    BY <1>2, <2>2 DEF TopologyInv, SizeInv
  <2>4. dev.peer[2] < originalSize[dev.peer[1]]
    BY <1>2, <2>2, <2>3
  <2> QED  BY <1>1, <1>4, <1>5, <2>4 DEF DeviceOK
<1>6. ASSUME NEW n \in TopoNode  PROVE DevicesOK(n)'
  <2>1. DevicesOK(n)
    BY DEF TopologyInv, LinkInv
  <2> QED  BY <1>1, <1>5, <2>1 DEF DevicesOK
<1>7. IsSequence(calls') /\ DOMAIN calls' = {}
  BY <1>1, EmptySequence
<1>8. TopoNode' = UNION {LevelNodes(l)' : l \in DOMAIN size'}
  <2>1. TopoNode = UNION {LevelNodes(l) : l \in DOMAIN size}
    BY DEF TopologyInv, LinkInv
  <2> QED  BY <1>1, <1>4, <2>1
<1> QED  BY <1>1, <1>4, <1>6, <1>7, <1>8 DEF TopologyInv, LinkInv

\* The interface of node q at one end of a link of dimension d, made from the first end.
Here(q, d) == [peer |-> q, dim |-> d, first |-> TRUE]
There(q, d) == [peer |-> q, dim |-> d, first |-> FALSE]

LEMMA EndsOfLink ==
  ASSUME NEW q, NEW d
  PROVE  Here(q, d).peer = q /\ There(q, d).peer = q /\ ~There(q, d).first
BY Zenon DEF Here, There

LEMMA AddPortTyped ==
  ASSUME NEW p, \A b \in DOMAIN p : p[b] \in Seq(Nat), NEW bucket, NEW port \in Nat
  PROVE  \A b \in DOMAIN AddPort(p, bucket, port) : AddPort(p, bucket, port)[b] \in Seq(Nat)
<1>1. CASE bucket = NoBucket
  <2>1. AddPort(p, bucket, port) = p
    BY <1>1 DEF AddPort
  <2> QED  BY <2>1
<1>2. CASE bucket # NoBucket
  <2>1. AddPort(p, bucket, port) =
          [k \in DOMAIN p \cup {bucket} |->
             IF k # bucket THEN p[k] ELSE IF k \in DOMAIN p THEN Append(p[k], port) ELSE <<port>>]
    BY <1>2 DEF AddPort
  <2>2. ASSUME NEW b \in DOMAIN p \cup {bucket}
        PROVE  AddPort(p, bucket, port)[b] \in Seq(Nat)
    <3>1. CASE b # bucket
      BY <2>1, <3>1
    <3>2. CASE b = bucket /\ b \in DOMAIN p
      <4>1. AddPort(p, bucket, port)[b] = Append(p[b], port)
        BY <2>1, <3>2
      <4>2. p[b] \in Seq(Nat)
        BY <3>2
      <4> QED  BY <4>1, <4>2, AppendProperties
    <3>3. CASE b = bucket /\ b \notin DOMAIN p
      <4>1. AddPort(p, bucket, port)[b] = <<port>>
        BY <2>1, <3>3
      <4> QED  BY <4>1
    <3> QED  BY <3>1, <3>2, <3>3
  <2>3. DOMAIN AddPort(p, bucket, port) = DOMAIN p \cup {bucket}
    BY <2>1
  <2> QED  BY <2>2, <2>3
<1> QED  BY <1>1, <1>2

LEMMA LinksConnectNodes ==
  ASSUME TopologyInv, ConnectNodes
  PROVE  LinkInv'
<1>1. PICK c : c = Head(calls)
  OBVIOUS
<1>2. /\ stage \in {"wire", "connect"} /\ calls # <<>> /\ calls' = Tail(calls)
      /\ recipe' = recipe /\ size' = size /\ originalSize' = originalSize /\ addr' = addr
      /\ stage' = stage
  BY DEF ConnectNodes
<1>3. devices' = [devices EXCEPT ![c.a] = Append(@, Here(c.b, c.dim)),
                                 ![c.b] = Append(@, There(c.a, c.dim))]
  BY <1>1, Zenon DEF ConnectNodes, Here, There
<1>4. ports' = [ports EXCEPT ![c.a] = AddPort(@, c.bucketA, Len(devices[c.a]) + 1),
                             ![c.b] = AddPort(@, c.bucketB, Len(devices[c.b]) + 1)]
  BY <1>1 DEF ConnectNodes, PortsAfter
<1>5. /\ IsSequence(calls) /\ \A k \in DOMAIN calls : CallOK(calls[k])
      /\ DOMAIN devices = TopoNode /\ DOMAIN ports = TopoNode
      /\ \A n \in TopoNode : /\ DevicesOK(n) /\ addr[n] \in Seq(Nat)
                             /\ \A b \in DOMAIN ports[n] : ports[n][b] \in Seq(Nat)
  BY DEF TopologyInv, LinkInv
<1>6. TopoNode' = TopoNode /\ (HostsBelow' <=> HostsBelow) /\ (Replicating' <=> Replicating)
      /\ \A l : LevelNodes(l)' = LevelNodes(l)
  BY <1>2 DEF TopoNode, HostsBelow, LevelNodes, Replicating
<1>7. /\ IsSequence(Tail(calls)) /\ 1 \in DOMAIN calls /\ c = calls[1]
      /\ \A k \in DOMAIN Tail(calls) : k + 1 \in DOMAIN calls /\ Tail(calls)[k] = calls[k + 1]
  <2>1. PICK s : s = calls
    OBVIOUS
  <2>2. IsSequence(s) /\ s # <<>>
    BY <1>2, <1>5, <2>1
  <2>3. /\ IsSequence(Tail(s)) /\ 1 \in DOMAIN s /\ Head(s) = s[1]
        /\ \A k \in DOMAIN Tail(s) : k + 1 \in DOMAIN s /\ Tail(s)[k] = s[k + 1]
    BY <2>2, TailAny
  <2> QED  BY <1>1, <2>1, <2>3
<1>8. /\ CallOK(c) /\ c.a \in TopoNode /\ c.b \in TopoNode /\ c.a # c.b /\ c.b[1] <= c.a[1]
      /\ (stage = "wire" => c.a[2] >= originalSize[c.a[1]] /\ c.b[2] >= originalSize[c.b[1]])
      /\ (HostsBelow => c.a[1] > 0)
  BY <1>5, <1>7 DEF CallOK
<1>9. Replicating => ~(c.a[2] < originalSize[c.a[1]]) /\ ~(c.b[2] < originalSize[c.b[1]])
  <2> SUFFICES ASSUME Replicating, NEW n \in {c.a, c.b}
               PROVE  ~(n[2] < originalSize[n[1]])
    OBVIOUS
  <2>1. Top \in Nat /\ DOMAIN size = 0..Top
        /\ \A l \in 0..Top : originalSize[l] \in Nat /\ size[l] \in Nat
    <3>1. stage = "wire" /\ built < Len(recipe)
      BY <1>2 DEF Replicating, TopologyInv, SizeInv
    <3>2. Template.copies \in Nat
      BY <3>1, TemplateRead DEF TopologyInv, SizeInv
    <3>3. ASSUME NEW l \in 0..Top  PROVE originalSize[l] \in Nat /\ size[l] \in Nat
      <4>1. /\ originalSize[l] \in Nat
            /\ size[l] = Template.copies * originalSize[l] \/ size[l] = originalSize[l]
        BY DEF TopologyInv, SizeInv
      <4> QED  BY <3>2, <4>1
    <3> QED  BY <3>3 DEF TopologyInv, SizeInv
  <2>2. AreNodes(TopoNode, size, Top)
    BY <2>1, TopologyNodes DEF TopologyInv, LinkInv
  <2>3. n[2] >= originalSize[n[1]]
    BY <1>2, <1>8 DEF Replicating
  <2>4. n[1] \in 0..Top /\ n[2] \in 0..(size[n[1]] - 1)
    BY <1>8, <2>2 DEF AreNodes
  <2> QED  BY <2>1, <2>3, <2>4
<1>10. IsSequence(calls') /\ \A k \in DOMAIN calls' : CallOK(calls[k])'
  <2>1. ASSUME NEW call, CallOK(call)  PROVE CallOK(call)'
    BY <1>2, <1>6, <2>1 DEF CallOK
  <2>2. ASSUME NEW k \in DOMAIN calls'  PROVE CallOK(calls[k])'
    <3>1. PICK call : call = calls'[k]
      OBVIOUS
    <3>2. CallOK(call)
      BY <1>2, <1>5, <1>7, <3>1
    <3>3. CallOK(call)'
      BY <2>1, <3>2
    <3> QED  BY <3>1, <3>3 DEF CallOK
  <2> QED  BY <1>2, <1>7, <2>2
<1>11. DOMAIN devices' = TopoNode /\ DOMAIN ports' = TopoNode
  BY <1>3, <1>4, <1>5
<1>12. ASSUME NEW n \in TopoNode
       PROVE  devices'[n] = IF n = c.a THEN Append(devices[n], Here(c.b, c.dim))
                            ELSE IF n = c.b THEN Append(devices[n], There(c.a, c.dim))
                            ELSE devices[n]
  BY <1>3, <1>5, <1>8
<1>13. ASSUME NEW n \in TopoNode  PROVE DevicesOK(n)'
  <2> DEFINE good(s) == IsSequence(s) /\ \A p \in DOMAIN s : DeviceOK(n, s[p])'
  <2>1. ASSUME NEW s, NEW x, good(s), DeviceOK(n, x)'  PROVE good(Append(s, x))
    <3>1. /\ IsSequence(Append(s, x))
          /\ \A k \in DOMAIN Append(s, x) :
               (k \in DOMAIN s /\ Append(s, x)[k] = s[k]) \/ (k \notin DOMAIN s /\ Append(s, x)[k] = x)
      BY <2>1, AppendAny
    <3>2. ASSUME NEW k \in DOMAIN Append(s, x)  PROVE DeviceOK(n, Append(s, x)[k])'
      <4>1. CASE k \in DOMAIN s /\ Append(s, x)[k] = s[k]
        BY <2>1, <4>1
      <4>2. CASE Append(s, x)[k] = x
        BY <2>1, <4>2
      <4> QED  BY <3>1, <4>1, <4>2
    <3> QED  BY <3>1, <3>2
  <2>2. PICK d, x, y : d = devices[n] /\ x = Here(c.b, c.dim) /\ y = There(c.a, c.dim)
    OBVIOUS
  <2>3. x.peer = c.b /\ y.peer = c.a /\ ~y.first
    BY <2>2, EndsOfLink
  <2>4. ASSUME NEW dev, DeviceOK(n, dev)  PROVE DeviceOK(n, dev)'
    BY <1>2, <1>6, <2>4 DEF DeviceOK
  <2>5. good(d)
    <3>1. IsSequence(d) /\ \A p \in DOMAIN d : DeviceOK(n, d[p])
      BY <1>5, <2>2 DEF DevicesOK
    <3> QED  BY <2>4, <3>1
  <2>6. n = c.a => DeviceOK(n, x)'
    <3>1. ASSUME n = c.a  PROVE DeviceOK(n, x)
      BY <1>8, <1>9, <2>3, <3>1 DEF DeviceOK
    <3> QED  BY <2>4, <3>1
  <2>7. n = c.b => DeviceOK(n, y)'
    <3>1. ASSUME n = c.b  PROVE DeviceOK(n, y)
      BY <1>8, <1>9, <2>3, <3>1 DEF DeviceOK
    <3> QED  BY <2>4, <3>1
  <2> HIDE DEF good
  <2>8. PICK f : f = devices'[n]
    OBVIOUS
  <2>9. (n = c.a /\ f = Append(d, x)) \/ (n = c.b /\ f = Append(d, y)) \/ f = d
    BY <1>12, <2>2, <2>8, Zenon
  <2>10. good(f)
    BY <2>1, <2>5, <2>6, <2>7, <2>9
  <2> QED  BY <2>8, <2>10 DEF good, DevicesOK
<1>14. \A n \in TopoNode : Len(devices[n]) + 1 \in Nat
  BY <1>5, SequenceType DEF DevicesOK
<1>15. ASSUME NEW n \in TopoNode
       PROVE  \A b \in DOMAIN ports'[n] : ports'[n][b] \in Seq(Nat)
  <2> DEFINE typed(p) == \A b \in DOMAIN p : p[b] \in Seq(Nat)
  <2>1. PICK P, i, j, A, B : P = ports[n] /\ i = Len(devices[c.a]) + 1 /\ j = Len(devices[c.b]) + 1
                             /\ A = c.bucketA /\ B = c.bucketB
    OBVIOUS
  <2>2. i \in Nat /\ j \in Nat /\ typed(P)
    BY <1>5, <1>8, <1>14, <2>1
  <2>3. typed(AddPort(P, A, i)) /\ typed(AddPort(P, B, j))
    BY <2>2, AddPortTyped
  <2>4. ports'[n] = AddPort(P, A, i) \/ ports'[n] = AddPort(P, B, j) \/ ports'[n] = P
    BY <1>4, <1>5, <1>8, <2>1
  <2>5. typed(ports'[n])
    <3> HIDE DEF typed
    <3> QED  BY <2>2, <2>3, <2>4
  <2> QED  BY <2>5
<1>16. TopoNode' = UNION {LevelNodes(l)' : l \in DOMAIN size'}
  <2>1. TopoNode = UNION {LevelNodes(l) : l \in DOMAIN size}
    BY DEF TopologyInv, LinkInv
  <2> QED  BY <1>2, <1>6, <2>1
<1>17. \A n \in TopoNode : addr'[n] \in Seq(Nat)
  BY <1>2, <1>5
<1> QED  BY <1>2, <1>6, <1>10, <1>11, <1>13, <1>15, <1>16, <1>17 DEF LinkInv

LEMMA LinksCreateLevel ==
  ASSUME TopologyInv, SizeInv', CreateLevel
  PROVE  LinkInv'
<1> DEFINE t == Top + 1
           N == Template.nodes
           new == {<<t, k>> : k \in 0..(N - 1)}
<1>1. /\ Replicated /\ N > 0 /\ stage = "replicate" /\ stage' = "create" /\ calls' = calls
      /\ recipe' = recipe
      /\ size' = [x \in DOMAIN size \cup {t} |-> IF x = t THEN N ELSE size[x]]
      /\ addr' = [n \in TopoNode \cup new |-> IF n \in new THEN <<>> ELSE addr[n]]
      /\ devices' = [n \in TopoNode \cup new |-> IF n \in new THEN <<>> ELSE devices[n]]
      /\ ports' = [n \in TopoNode \cup new |-> IF n \in new THEN NoPorts ELSE ports[n]]
  BY DEF CreateLevel, Replicated
<1>2. Top \in Nat /\ DOMAIN size = 0..Top /\ (0..Top) \cup {t} = 0..t /\ t \in Nat /\ t \notin 0..Top
  <2>1. Top \in Nat /\ DOMAIN size = 0..Top
    BY DEF TopologyInv, SizeInv
  <2> QED  BY <2>1
<1>3. DOMAIN size' = 0..t /\ size'[t] = N /\ \A l \in 0..Top : size'[l] = size[l]
  BY <1>1, <1>2
<1>4. Top' = t
  BY <1>2, <1>3, CountLevels DEF Top
<1>5. AreNodes(TopoNode, size, Top)
  BY <1>2, TopologyNodes DEF TopologyInv, LinkInv
<1>6. TopoNode' = TopoNode \cup new /\ DOMAIN devices' = TopoNode' /\ DOMAIN ports' = TopoNode'
  BY <1>1 DEF TopoNode
<1>7. /\ \A n \in new : n = <<n[1], n[2]>> /\ n[1] = t /\ n[2] \in 0..(N - 1)
      /\ \A k \in 0..(N - 1) : <<t, k>> \in new
  OBVIOUS
<1> HIDE DEF new, t, N
<1>8. AreNodes(TopoNode', size', t)
  <2>1. ASSUME NEW n \in TopoNode'
        PROVE  n = <<n[1], n[2]>> /\ n[1] \in 0..t /\ n[2] \in 0..(size'[n[1]] - 1)
    <3>1. CASE n \in new
      BY <1>2, <1>3, <1>7, <3>1
    <3>2. CASE n \in TopoNode
      <4>1. n = <<n[1], n[2]>> /\ n[1] \in 0..Top /\ n[2] \in 0..(size[n[1]] - 1)
        BY <1>5, <3>2 DEF AreNodes
      <4> QED  BY <1>2, <1>3, <4>1
    <3> QED  BY <1>6, <3>1, <3>2
  <2>2. ASSUME NEW l \in 0..t, NEW k \in 0..(size'[l] - 1)  PROVE <<l, k>> \in TopoNode'
    <3>1. CASE l = t
      BY <1>3, <1>6, <1>7, <3>1
    <3>2. CASE l # t
      <4>1. l \in 0..Top /\ k \in 0..(size[l] - 1)
        BY <1>2, <1>3, <3>2
      <4> QED  BY <1>5, <1>6, <4>1 DEF AreNodes
    <3> QED  BY <3>1, <3>2
  <2> QED  BY <2>1, <2>2 DEF AreNodes
<1>9. (TopoNode = UNION {LevelNodes(l) : l \in DOMAIN size})'
  <2>1. (DOMAIN size = 0..Top /\ Top \in Nat)' /\ AreNodes(TopoNode, size, Top)'
    BY <1>2, <1>3, <1>4, <1>8 DEF AreNodes
  <2>2. (DOMAIN size = 0..Top /\ Top \in Nat =>
          (TopoNode = UNION {LevelNodes(l) : l \in DOMAIN size} <=> AreNodes(TopoNode, size, Top)))'
    BY TopologyNodes, PTL
  <2> QED  BY <2>1, <2>2
<1>10. ~Replicating' /\ HostsBelow' = HostsBelow
  BY <1>1 DEF Replicating, HostsBelow
<1>11. \A n \in TopoNode : n \notin new
  BY <1>2, <1>5, <1>7 DEF AreNodes
<1>12. ASSUME NEW n \in TopoNode'
       PROVE  /\ addr'[n] \in Seq(Nat) /\ DevicesOK(n)'
              /\ \A b \in DOMAIN ports'[n] : ports'[n][b] \in Seq(Nat)
  <2>1. CASE n \in new
    <3>1. addr'[n] = <<>> /\ devices'[n] = <<>> /\ ports'[n] = <<>>
      BY <1>1, <1>6, <2>1 DEF NoPorts
    <3>2. <<>> \in Seq(Nat)
      OBVIOUS
    <3> QED  BY <3>1, <3>2, EmptySequence DEF DevicesOK
  <2>2. CASE n \notin new
    <3>1. n \in TopoNode /\ addr'[n] = addr[n] /\ devices'[n] = devices[n] /\ ports'[n] = ports[n]
      BY <1>1, <1>6, <2>2
    <3>2. addr[n] \in Seq(Nat) /\ DevicesOK(n) /\ \A b \in DOMAIN ports[n] : ports[n][b] \in Seq(Nat)
      BY <3>1 DEF TopologyInv, LinkInv
    <3>3. ASSUME NEW dev, DeviceOK(n, dev)  PROVE DeviceOK(n, dev)'
      BY <1>6, <1>10, <3>3 DEF DeviceOK
    <3>4. DevicesOK(n)'
      BY <3>1, <3>2, <3>3 DEF DevicesOK
    <3> QED  BY <3>1, <3>2, <3>4
  <2> QED  BY <2>1, <2>2
<1>13. calls' = <<>>
  BY <1>1 DEF TopologyInv, LinkInv
<1>14. IsSequence(calls') /\ DOMAIN calls' = {}
  BY <1>13, EmptySequence
<1> QED  BY <1>1, <1>6, <1>9, <1>12, <1>13, <1>14 DEF LinkInv

LEMMA LinksCreateDimension ==
  ASSUME TopologyInv, CreateDimension
  PROVE  LinkInv'
<1>1. /\ stage = "replicate" /\ stage' = "create" /\ calls' = calls /\ recipe' = recipe
      /\ size' = size /\ addr' = addr /\ devices' = devices /\ ports' = ports
  BY DEF CreateDimension, Replicated
<1>2. TopoNode' = TopoNode /\ HostsBelow' = HostsBelow /\ ~Replicating'
      /\ \A l : LevelNodes(l)' = LevelNodes(l)
  BY <1>1 DEF TopoNode, HostsBelow, LevelNodes, Replicating
<1>3. ASSUME NEW n \in TopoNode  PROVE DevicesOK(n)'
  <2>1. DevicesOK(n)
    BY DEF TopologyInv, LinkInv
  <2>2. ASSUME NEW dev, DeviceOK(n, dev)  PROVE DeviceOK(n, dev)'
    BY <1>2, <2>2 DEF DeviceOK
  <2> QED  BY <1>1, <2>1, <2>2 DEF DevicesOK
<1>4. calls' = <<>>
  BY <1>1 DEF TopologyInv, LinkInv
<1>5. IsSequence(calls') /\ DOMAIN calls' = {}
  BY <1>4, EmptySequence
<1>6. TopoNode' = UNION {LevelNodes(l)' : l \in DOMAIN size'}
  <2>1. TopoNode = UNION {LevelNodes(l) : l \in DOMAIN size}
    BY DEF TopologyInv, LinkInv
  <2> QED  BY <1>1, <1>2, <2>1
<1> QED  BY <1>1, <1>2, <1>3, <1>4, <1>5, <1>6 DEF TopologyInv, LinkInv

-----------------------------------------------------------------------------
(* Part 6: the links and addresses each template makes. *)

\* A link between different nodes, of level la and of level lb.
LinkBetween(link, la, lb) ==
  /\ link.a = <<la, link.a[2]>> /\ link.a[2] \in 0..(size[la] - 1)
  /\ link.b = <<lb, link.b[2]>> /\ link.b[2] \in 0..(size[lb] - 1)
  /\ link.a # link.b

LinksBetween(links, la, lb) ==
  IsSequence(links) /\ \A i \in DOMAIN links : LinkBetween(links[i], la, lb)

LEMMA ChosenBetween ==
  ASSUME NEW n \in Nat, NEW P \in SUBSET (1..n), NEW y, NEW seqs, ChosenAt(seqs, n, P, y),
         NEW la, NEW lb, \A k \in P : LinkBetween(y[k], la, lb)
  PROVE  LinksBetween(FlattenSeq(seqs), la, lb)
<1>1. /\ IsSequence(FlattenSeq(seqs))
      /\ \A i \in DOMAIN FlattenSeq(seqs) : \E k \in P : FlattenSeq(seqs)[i] = y[k]
  BY Chosen
<1>2. ASSUME NEW i \in DOMAIN FlattenSeq(seqs)  PROVE LinkBetween(FlattenSeq(seqs)[i], la, lb)
  BY <1>1
<1> QED  BY <1>1, <1>2 DEF LinksBetween

LEMMA LinkOfPlaces ==
  ASSUME NEW la, NEW lb, NEW i \in 0..(size[la] - 1), NEW j \in 0..(size[lb] - 1),
         <<la, i>> # <<lb, j>>, NEW d, NEW p, NEW q
  PROVE  LinkBetween(Link(<<la, i>>, <<lb, j>>, d, p, q), la, lb)
<1>1. /\ Link(<<la, i>>, <<lb, j>>, d, p, q).a = <<la, i>>
      /\ Link(<<la, i>>, <<lb, j>>, d, p, q).b = <<lb, j>>
  BY DEF Link
<1>2. <<la, i>>[2] = i /\ <<lb, j>>[2] = j
  OBVIOUS
<1> QED  BY <1>1, <1>2 DEF LinkBetween

LEMMA SameRankBetween ==
  ASSUME NEW t, NEW l, NEW d, NEW B \in Nat \ {0}, t.copies \in Nat \ {0}, size[l] = t.copies * B
  PROVE  LinksBetween(SameRankLinks(t, l, d), l, l)
<1> DEFINE C == t.copies
           N == C * B * C
           T == Loops(C, B, C)
           P == {k \in 1..N : T[k][1] < T[k][3]}
           y == [k \in 1..N |-> Link(<<l, (T[k][1] * B) + T[k][2]>>, <<l, (T[k][3] * B) + T[k][2]>>, d,
                                     Same(d, T[k][3] + 1), Same(d, T[k][1] + 1))]
           seqs == [k \in 1..N |-> IF k \in P THEN <<y[k]>> ELSE <<>>]
<1>1. size[l] \div t.copies = B
  BY DivExact
<1>2. /\ N \in Nat /\ DOMAIN T = 1..N
      /\ \A k \in DOMAIN T : /\ T[k][1] \in 0..(C - 1) /\ T[k][2] \in 0..(B - 1)
                             /\ T[k][3] \in 0..(C - 1)
  <2> HIDE DEF C
  <2> QED  BY LoopsRange DEF C
<1>3. SameRankLinks(t, l, d) = FlattenSeq(seqs)
  BY <1>1, <1>2 DEF SameRankLinks, OnlyIf
<1>4. ChosenAt(seqs, N, P, y) /\ P \in SUBSET (1..N)
  BY DEF ChosenAt
<1>5. ASSUME NEW k \in P  PROVE LinkBetween(y[k], l, l)
  <2> DEFINE a == T[k][1]
             i == T[k][2]
             b == T[k][3]
  <2>1. y[k] = Link(<<l, (a * B) + i>>, <<l, (b * B) + i>>, d, Same(d, b + 1), Same(d, a + 1))
        /\ a < b /\ k \in 1..N
    OBVIOUS
  <2> HIDE DEF P, y
  <2>2. a \in 0..(C - 1) /\ b \in 0..(C - 1) /\ i \in 0..(B - 1) /\ C \in Nat
    <3> HIDE DEF T, C
    <3> QED  BY <1>2, <2>1 DEF C
  <2> HIDE DEF a, i, b, T, N, C
  <2>3. (a * B) + i \in 0..((C * B) - 1) /\ (b * B) + i \in 0..((C * B) - 1)
    BY <2>2, Slot
  <2>4. (a * B) + i # (b * B) + i
    BY <2>1, <2>2, SlotsDiffer
  <2>5. size[l] = C * B
    BY DEF C
  <2> DEFINE v == (a * B) + i
             w == (b * B) + i
  <2>6. v \in 0..(size[l] - 1) /\ w \in 0..(size[l] - 1) /\ <<l, v>> # <<l, w>>
    BY <2>3, <2>4, <2>5
  <2>7. y[k] = Link(<<l, v>>, <<l, w>>, d, Same(d, b + 1), Same(d, a + 1))
    BY <2>1
  <2> HIDE DEF v, w
  <2> QED  BY <2>6, <2>7, LinkOfPlaces
<1> HIDE DEF P, y, seqs, N
<1>6. LinksBetween(FlattenSeq(seqs), l, l)
  <2>1. N \in Nat
    BY <1>2
  <2> QED  BY <1>4, <1>5, <2>1, ChosenBetween
<1> QED  BY <1>3, <1>6

LEMMA AbsoluteBetween ==
  ASSUME NEW t, NEW l, NEW d, NEW B \in Nat \ {0}, t.copies \in Nat \ {0}, size[l] = t.copies * B,
         t.outLinks \in Nat \ {0}, t.outLinks * B = t.copies - 1
  PROVE  LinksBetween(AbsoluteLinks(t, l, d), l, l)
<1> DEFINE C == t.copies
           h == t.outLinks
           N == C * B * h
           T == Loops(C, B, h)
           other(k) == h * T[k][2] + T[k][3] + 1
           P == {k \in 1..N : T[k][1] < other(k)}
           y == [k \in 1..N |-> Link(<<l, T[k][1] * B + T[k][2]>>,
                                     <<l, other(k) * B + (T[k][1] \div h)>>, d,
                                     Same(d, other(k) + 1), Same(d, T[k][1] + 1))]
           seqs == [k \in 1..N |-> IF k \in P THEN <<y[k]>> ELSE <<>>]
<1>1. size[l] \div t.copies = B
  BY DivExact
<1>2. /\ N \in Nat /\ DOMAIN T = 1..N
      /\ \A k \in DOMAIN T : /\ T[k][1] \in 0..(C - 1) /\ T[k][2] \in 0..(B - 1)
                             /\ T[k][3] \in 0..(h - 1)
  <2> HIDE DEF C, h
  <2> QED  BY LoopsRange DEF C, h
<1>3. AbsoluteLinks(t, l, d) = FlattenSeq(seqs)
  BY <1>1, <1>2 DEF AbsoluteLinks, OnlyIf
<1>4. ChosenAt(seqs, N, P, y) /\ P \in SUBSET (1..N)
  BY DEF ChosenAt
<1>5. ASSUME NEW k \in P  PROVE LinkBetween(y[k], l, l)
  <2> DEFINE a == T[k][1]
             i == T[k][2]
             b == h * i + T[k][3] + 1
             j == a \div h
             v == a * B + i
             w == b * B + j
  <2>1. y[k] = Link(<<l, v>>, <<l, w>>, d, Same(d, b + 1), Same(d, a + 1)) /\ a < b /\ k \in 1..N
    OBVIOUS
  <2> HIDE DEF P, y, N
  <2>2. /\ a \in 0..(C - 1) /\ T[k][3] \in 0..(h - 1) /\ i \in 0..(B - 1)
        /\ C \in Nat /\ h \in Nat \ {0} /\ h * B = C - 1 /\ B * h = C - 1
    <3> HIDE DEF T, C, h
    <3>1. C \in Nat \ {0} /\ h \in Nat \ {0} /\ h * B = C - 1
      BY DEF C, h
    <3>2. h * B = B * h
      BY <3>1
    <3> QED  BY <1>2, <2>1, <3>1, <3>2
  <2>3. (h * i) + T[k][3] \in 0..((B * h) - 1) /\ h * i = i * h
    <3> HIDE DEF T, C, h
    <3>1. (i * h) + T[k][3] \in 0..((B * h) - 1)
      BY <2>2, Slot
    <3>2. h * i = i * h
      BY <2>2
    <3> QED  BY <3>1, <3>2
  <2>4. b \in 0..(C - 1)
    <3> HIDE DEF T, C, h
    <3> QED  BY <2>2, <2>3
  <2>5. j \in 0..(B - 1)
    <3>1. a \in Nat /\ a < B * h
      <4> HIDE DEF a, T, C, h, j
      <4> QED  BY <2>1, <2>2, <2>4
    <3> HIDE DEF a, T, C, h
    <3> QED  BY <2>2, <3>1, DivBelow
  <2>6. v = (a * B) + i /\ w = (b * B) + j
    OBVIOUS
  <2> HIDE DEF a, i, b, j, T, C, h, v, w
  <2>7. (a * B) + i \in 0..((C * B) - 1) /\ (b * B) + j \in 0..((C * B) - 1)
    BY <2>2, <2>4, <2>5, Slot
  <2>8. (a * B) + i # (b * B) + j
    BY <2>1, <2>2, <2>4, <2>5, SlotsDiffer
  <2>9. size[l] = C * B
    BY DEF C
  <2>10. v \in 0..(size[l] - 1) /\ w \in 0..(size[l] - 1) /\ <<l, v>> # <<l, w>>
    BY <2>6, <2>7, <2>8, <2>9
  <2> QED  BY <2>1, <2>10, LinkOfPlaces
<1> HIDE DEF P, y, seqs, N
<1>6. LinksBetween(FlattenSeq(seqs), l, l)
  <2>1. N \in Nat
    BY <1>2
  <2> QED  BY <1>4, <1>5, <2>1, ChosenBetween
<1> QED  BY <1>3, <1>6

LEMMA TorusBetween ==
  ASSUME NEW t, NEW l, NEW d, NEW B \in Nat \ {0}, t.copies \in Nat, t.copies > 1,
         size[l] = t.copies * B
  PROVE  LinksBetween(TorusLinks(t, l, d), l, l)
<1> DEFINE C == t.copies
           N == C * B * 1
           T == Loops(C, B, 1)
           links == [k \in 1..N |-> Link(<<l, T[k][1] * B + T[k][2]>>,
                                         <<l, ((T[k][1] + 1) % C) * B + T[k][2]>>, d,
                                         Same(d, 1), Same(d, -1))]
<1>1. size[l] \div t.copies = B
  BY DivExact
<1>2. /\ N \in Nat /\ DOMAIN T = 1..N
      /\ \A k \in DOMAIN T : T[k][1] \in 0..(C - 1) /\ T[k][2] \in 0..(B - 1)
  <2>1. C \in Nat /\ 1 \in Nat
    OBVIOUS
  <2> HIDE DEF C
  <2>2. InRange(Loops(C, B, 1), C, B, 1)
    BY <2>1, LoopsInRange
  <2> QED  BY <2>2 DEF InRange
<1>3. TorusLinks(t, l, d) = links
  BY <1>1, <1>2 DEF TorusLinks
<1>4. IsSequence(links) /\ DOMAIN links = 1..N
  <2>1. DOMAIN links = 1..N /\ links = [k \in 1..N |-> links[k]]
    OBVIOUS
  <2> HIDE DEF links, N
  <2> QED  BY <1>2, <2>1, SequenceOf
<1>5. ASSUME NEW k \in 1..N  PROVE LinkBetween(links[k], l, l)
  <2> DEFINE a == T[k][1]
             i == T[k][2]
             b == (a + 1) % C
             v == a * B + i
             w == b * B + i
  <2>1. links[k] = Link(<<l, v>>, <<l, w>>, d, Same(d, 1), Same(d, -1))
    OBVIOUS
  <2> HIDE DEF links, N
  <2>2. a \in 0..(C - 1) /\ i \in 0..(B - 1) /\ C \in Nat /\ C > 1
    <3> HIDE DEF T, C
    <3> QED  BY <1>2 DEF C
  <2>3. b \in 0..(C - 1) /\ b # a
    <3> HIDE DEF T, C, a
    <3> QED  BY <2>2, NextBlock
  <2>6. v = (a * B) + i /\ w = (b * B) + i
    OBVIOUS
  <2> HIDE DEF a, i, b, T, C, v, w
  <2>7. (a * B) + i \in 0..((C * B) - 1) /\ (b * B) + i \in 0..((C * B) - 1)
    BY <2>2, <2>3, Slot
  <2>8. (a * B) + i # (b * B) + i
    <3>1. a \in Nat /\ b \in Nat
      BY <2>2, <2>3
    <3> QED  BY <2>2, <2>3, <3>1, SlotsDiffer
  <2>9. size[l] = C * B
    BY DEF C
  <2>10. v \in 0..(size[l] - 1) /\ w \in 0..(size[l] - 1) /\ <<l, v>> # <<l, w>>
    BY <2>6, <2>7, <2>8, <2>9
  <2> QED  BY <2>1, <2>10, LinkOfPlaces
<1> HIDE DEF links, N
<1> QED  BY <1>3, <1>4, <1>5 DEF LinksBetween

LEMMA ServerBetween ==
  ASSUME NEW t, NEW d, size[0] \in Nat \ {0}, t.perServer \in Nat \ {0}
  PROVE  LinksBetween(ServerLinks(t, d), 0, 0)
<1> DEFINE E == t.perServer
           M == size[0] \div E
           N == M * E * E
           T == Loops(M, E, E)
           P == {k \in 1..N : T[k][2] < T[k][3]}
           y == [k \in 1..N |-> Link(<<0, T[k][1] * E + T[k][2]>>, <<0, T[k][1] * E + T[k][3]>>, d,
                                     Same(d, T[k][3] + 1), Same(d, T[k][2] + 1))]
           seqs == [k \in 1..N |-> IF k \in P THEN <<y[k]>> ELSE <<>>]
<1>1. M \in Nat /\ M * E <= size[0] /\ M * E \in Nat /\ E \in Nat
  <2> HIDE DEF M
  <2>1. size[0] = (E * M) + (size[0] % E) /\ size[0] % E \in 0..(E - 1) /\ M \in Nat
    BY DivMod DEF M
  <2>2. E * M = M * E /\ M * E \in Nat /\ E \in Nat
    BY <2>1
  <2> HIDE DEF E
  <2> QED  BY <2>1, <2>2
<1>2. /\ N \in Nat /\ DOMAIN T = 1..N
      /\ \A k \in DOMAIN T : /\ T[k][1] \in 0..(M - 1) /\ T[k][2] \in 0..(E - 1)
                             /\ T[k][3] \in 0..(E - 1)
  <2> HIDE DEF E, M
  <2> QED  BY <1>1, LoopsRange
<1>3. ServerLinks(t, d) = FlattenSeq(seqs)
  BY <1>2 DEF ServerLinks, OnlyIf
<1>4. ChosenAt(seqs, N, P, y) /\ P \in SUBSET (1..N)
  BY DEF ChosenAt
<1>5. ASSUME NEW k \in P  PROVE LinkBetween(y[k], 0, 0)
  <2> DEFINE a == T[k][1]
             i == T[k][2]
             j == T[k][3]
             v == a * E + i
             w == a * E + j
  <2>1. y[k] = Link(<<0, v>>, <<0, w>>, d, Same(d, j + 1), Same(d, i + 1)) /\ i < j /\ k \in 1..N
    OBVIOUS
  <2> HIDE DEF P, y, N
  <2>2. a \in 0..(M - 1) /\ i \in 0..(E - 1) /\ j \in 0..(E - 1)
    <3> HIDE DEF T, E, M
    <3> QED  BY <1>2, <2>1
  <2>3. v = (a * E) + i /\ w = (a * E) + j
    OBVIOUS
  <2> HIDE DEF a, i, j, T, E, M, v, w
  <2>4. (a * E) + i \in 0..((M * E) - 1) /\ (a * E) + j \in 0..((M * E) - 1)
    BY <1>1, <2>2, Slot
  <2>5. a * E \in Nat /\ i \in Nat /\ j \in Nat
    BY <1>1, <2>2
  <2>6. v \in 0..(size[0] - 1) /\ w \in 0..(size[0] - 1) /\ v # w
    BY <1>1, <2>1, <2>3, <2>4, <2>5
  <2>7. <<0, v>> # <<0, w>>
    BY <2>6
  <2> QED  BY <2>1, <2>6, <2>7, LinkOfPlaces
<1> HIDE DEF P, y, seqs, N
<1>6. LinksBetween(FlattenSeq(seqs), 0, 0)
  <2>1. N \in Nat
    BY <1>2
  <2> QED  BY <1>4, <1>5, <2>1, ChosenBetween
<1> QED  BY <1>3, <1>6

LEMMA RailBetween ==
  ASSUME NEW t, size[0] \in Nat, size[1] \in Nat
  PROVE  LinksBetween(RailLinks(t), 1, 0)
<1> DEFINE N == size[1] * size[0] * 1
           T == Loops(size[1], size[0], 1)
           P == {k \in 1..N : RailSwitch(t, T[k][2]) = T[k][1]}
           key(host) == Fields(RailAddresses(t)[<<0, host>>], startBit[0] + 1, startBit[1])
           y == [k \in 1..N |-> Link(<<1, T[k][1]>>, <<0, T[k][2]>>, 0, Down(key(T[k][2])), Up)]
           seqs == [k \in 1..N |-> IF k \in P THEN <<y[k]>> ELSE <<>>]
<1>2. /\ N \in Nat /\ DOMAIN T = 1..N
      /\ \A k \in DOMAIN T : T[k][1] \in 0..(size[1] - 1) /\ T[k][2] \in 0..(size[0] - 1)
  <2>1. 1 \in Nat
    OBVIOUS
  <2> QED  BY <2>1, LoopsRange
<1>3. RailLinks(t) = FlattenSeq(seqs)
  BY <1>2 DEF RailLinks, OnlyIf
<1>4. ChosenAt(seqs, N, P, y) /\ P \in SUBSET (1..N)
  BY DEF ChosenAt
<1>5. ASSUME NEW k \in P  PROVE LinkBetween(y[k], 1, 0)
  <2> DEFINE a == T[k][1]
             b == T[k][2]
  <2>1. y[k] = Link(<<1, a>>, <<0, b>>, 0, Down(key(b)), Up) /\ k \in 1..N
    OBVIOUS
  <2> HIDE DEF P, y, N, key
  <2>2. a \in 0..(size[1] - 1) /\ b \in 0..(size[0] - 1)
    <3> HIDE DEF T
    <3> QED  BY <1>2, <2>1
  <2> HIDE DEF a, b, T
  <2>3. <<1, a>> # <<0, b>>
    OBVIOUS
  <2> QED  BY <2>1, <2>2, <2>3, LinkOfPlaces
<1> HIDE DEF P, y, seqs, N
<1>6. LinksBetween(FlattenSeq(seqs), 1, 0)
  <2>1. N \in Nat
    BY <1>2
  <2> QED  BY <1>4, <1>5, <2>1, ChosenBetween
<1> QED  BY <1>3, <1>6

\* The groups of a Clos template are among the nodes below.
LEMMA ParentsBelow ==
  ASSUME NEW t, NEW p \in 0..(t.nodes - 1), t.nodes \in Nat \ {0}, t.groups \in Nat \ {0},
         t.nodes % t.groups = 0
  PROVE  /\ t.nodes \div t.groups \in Nat \ {0}
         /\ ParentsGroup(t, p) \in 0..(t.groups - 1)
<1> DEFINE N == t.nodes
           G == t.groups
           q == N \div G
<1>1. N \in Nat \ {0} /\ G \in Nat \ {0} /\ N % G = 0 /\ p \in Nat /\ p < N
  OBVIOUS
<1> HIDE DEF N, G
<1>2. N = (G * q) + (N % G) /\ q \in Nat
  BY <1>1, DivMod
<1> HIDE DEF q
<1>3. N = G * q /\ q # 0
  BY <1>1, <1>2
<1>4. q \in Nat \ {0}
  BY <1>2, <1>3
<1>5. p \div q \in 0..(G - 1)
  BY <1>1, <1>3, <1>4, DivBelow
<1> QED  BY <1>4, <1>5 DEF ParentsGroup, N, G, q

LEMMA ClosBetween ==
  ASSUME NEW t, NEW l, NEW B \in Nat \ {0}, t.copies \in Nat \ {0}, size[l - 1] = t.copies * B,
         t.nodes \in Nat \ {0}, size[l] = t.nodes, t.groups \in Nat \ {0},
         t.nodes % t.groups = 0, B % t.groups = 0, <<l>> # <<l - 1>>
  PROVE  LinksBetween(ClosLinks(t, l), l, l - 1)
<1> DEFINE C == t.copies
           G == t.groups
           perGroup == B \div G
           N == t.nodes * C * perGroup
           T == Loops(t.nodes, C, perGroup)
           child(x) == <<l - 1, x[2] * B + ParentsGroup(t, x[1]) * perGroup + x[3]>>
           key(n) == Fields(addr[n], startBit[l - 1] + 1, startBit[l])
           links == [k \in 1..N |-> Link(<<l, T[k][1]>>, child(T[k]), 0, Down(key(child(T[k]))), Up)]
<1>1. size[l - 1] \div t.copies = B
  BY DivExact
<1>2. perGroup \in Nat /\ B = G * perGroup
  <2> DEFINE q == B \div G
  <2>1. G \in Nat \ {0} /\ B % G = 0
    OBVIOUS
  <2> HIDE DEF G
  <2>2. B = (G * q) + (B % G) /\ q \in Nat
    BY <2>1, DivMod
  <2> HIDE DEF q
  <2>3. B = G * q
    BY <2>1, <2>2
  <2> QED  BY <2>2, <2>3 DEF q
<1>3. /\ N \in Nat /\ DOMAIN T = 1..N
      /\ \A k \in DOMAIN T : /\ T[k][1] \in 0..(t.nodes - 1) /\ T[k][2] \in 0..(C - 1)
                             /\ T[k][3] \in 0..(perGroup - 1)
  <2>1. t.nodes \in Nat /\ C \in Nat
    OBVIOUS
  <2> HIDE DEF perGroup, C
  <2> QED  BY <1>2, <2>1, LoopsRange
<1>4. ClosLinks(t, l) = links
  BY <1>1, <1>3 DEF ClosLinks
<1>5. IsSequence(links) /\ DOMAIN links = 1..N
  <2>1. DOMAIN links = 1..N /\ links = [k \in 1..N |-> links[k]]
    OBVIOUS
  <2> HIDE DEF links, N
  <2> QED  BY <1>3, <2>1, SequenceOf
<1>6. ASSUME NEW k \in 1..N  PROVE LinkBetween(links[k], l, l - 1)
  <2> DEFINE a == T[k][1]
             c == T[k][2]
             i == T[k][3]
             g == ParentsGroup(t, a)
             w == c * B + g * perGroup + i
  <2>1. \E p : links[k] = Link(<<l, a>>, <<l - 1, w>>, 0, p, Up)
    OBVIOUS
  <2> HIDE DEF links, N
  <2>2. a \in 0..(t.nodes - 1) /\ c \in 0..(C - 1) /\ i \in 0..(perGroup - 1)
        /\ C \in Nat /\ G \in Nat
    <3> HIDE DEF T, perGroup
    <3> QED  BY <1>3
  <2>3. g \in 0..(G - 1)
    <3> HIDE DEF a, T
    <3> QED  BY <2>2, ParentsBelow
  <2>4. w = (c * B) + ((g * perGroup) + i)
    <3> HIDE DEF a, c, i, g, T, perGroup
    <3>1. c * B \in Int /\ g * perGroup \in Int /\ i \in Int
      BY <1>2, <2>2, <2>3
    <3> QED  BY <3>1
  <2>5. size[l - 1] = C * B /\ size[l] = t.nodes
    OBVIOUS
  <2> HIDE DEF a, c, i, g, T, C, G, perGroup, w
  <2>6. (g * perGroup) + i \in 0..((G * perGroup) - 1)
    BY <1>2, <2>2, <2>3, Slot
  <2> DEFINE j == (g * perGroup) + i
  <2>7. j \in 0..(B - 1)
    BY <1>2, <2>6
  <2> HIDE DEF j
  <2>8. (c * B) + j \in 0..((C * B) - 1)
    BY <2>2, <2>7, Slot
  <2>9. w \in 0..(size[l - 1] - 1) /\ a \in 0..(size[l] - 1)
    BY <2>2, <2>4, <2>5, <2>8 DEF j
  <2>10. <<l, a>> # <<l - 1, w>>
    OBVIOUS
  <2> QED  BY <2>1, <2>9, <2>10, LinkOfPlaces
<1> HIDE DEF links, N
<1> QED  BY <1>4, <1>5, <1>6 DEF LinksBetween

LEMMA PairAndTriple ==
  ASSUME NEW a \in Nat, NEW b \in Nat, NEW c \in Nat
  PROVE  <<a>> \in Seq(Nat) /\ <<a, b>> \in Seq(Nat) /\ <<a, b, c>> \in Seq(Nat)
OBVIOUS

LEMMA ServerAddressesTyped ==
  ASSUME NEW t, t.perServer \in Nat \ {0}, NEW n \in TopoNode, n[2] \in Nat
  PROVE  ServerAddresses(t)[n] \in Seq(Nat)
<1> DEFINE a == (n[2] % t.perServer) + 1
           b == (n[2] \div t.perServer) + 1
<1>1. ServerAddresses(t)[n] = <<a, b>>
  BY DEF ServerAddresses
<1>2. n[2] % t.perServer \in 0..(t.perServer - 1) /\ n[2] \div t.perServer \in Nat
  BY DivMod
<1>3. a \in Nat /\ b \in Nat
  BY <1>2
<1> HIDE DEF a, b
<1> QED  BY <1>1, <1>3, PairAndTriple

LEMMA RailAddressesTyped ==
  ASSUME NEW t, t.perServer \in Nat \ {0}, t.perSwitch \in Nat \ {0}, NEW n \in TopoNode,
         n[1] \in 0..1, n[2] \in Nat
  PROVE  RailAddresses(t)[n] \in Seq(Nat)
<1> DEFINE E == t.perServer
           W == t.perSwitch
           i == n[2]
           server == i \div E
           segment == server \div W
           a == (i % E) + 1
           b == server + 1
           c == i + 1
           d == RailSwitch(t, i) + 1
<1>1. RailAddresses(t)[n] = <<a, b, c>> \/ RailAddresses(t)[n] = <<a, b, d>>
  <2>1. n[1] = 0 \/ n[1] = 1
    OBVIOUS
  <2> QED  BY <2>1 DEF RailAddresses
<1>2. RailSwitch(t, i) = (segment * E) + (i % E)
  BY DEF RailSwitch
<1>3. E \in Nat \ {0} /\ W \in Nat \ {0} /\ i \in Nat
  OBVIOUS
<1> HIDE DEF E, W, i
<1>4. i % E \in 0..(E - 1) /\ server \in Nat
  BY <1>3, DivMod
<1> HIDE DEF server
<1>5. segment \in Nat
  BY <1>3, <1>4, DivMod
<1> HIDE DEF segment
<1>6. segment * E \in Nat
  BY <1>3, <1>5
<1>7. a \in Nat /\ b \in Nat /\ c \in Nat /\ d \in Nat
  BY <1>2, <1>3, <1>4, <1>6
<1> HIDE DEF a, b, c, d
<1> QED  BY <1>1, <1>7, PairAndTriple

LEMMA ClosAddressesTyped ==
  ASSUME NEW t, NEW l, NEW B \in Nat \ {0}, t.copies \in Nat \ {0}, size[l - 1] = t.copies * B,
         t.nodes \in Nat \ {0}, size[l] = t.nodes, t.groups \in Nat \ {0},
         t.nodes % t.groups = 0, B % t.groups = 0, startBit[l] \in Nat,
         \A k \in 0..(size[l - 1] - 1) : addr[<<l - 1, k>>] \in Seq(Nat),
         \A n \in TopoNode : addr[n] \in Seq(Nat),
         NEW n \in TopoNode, n[1] = l => n[2] \in 0..(size[l] - 1)
  PROVE  ClosAddresses(t, l)[n] \in Seq(Nat)
<1>1. CASE n[1] # l
  <2>1. ClosAddresses(t, l)[n] = addr[n]
    BY <1>1 DEF ClosAddresses
  <2> QED  BY <2>1
<1>2. CASE n[1] = l
  <2> DEFINE q == t.nodes \div t.groups
             g == ParentsGroup(t, n[2])
             below == addr[<<l - 1, g>>]
             len == IF startBit[l] < Len(below) THEN startBit[l] ELSE Len(below)
  <2>1. ClosAddresses(t, l)[n] = <<n[2] % q>> \o SubSeq(below, 1, len)
    BY <1>2 DEF ClosAddresses
  <2>2. n[2] \in 0..(t.nodes - 1) /\ n[2] \in Nat
    BY <1>2
  <2>3. q \in Nat \ {0} /\ g \in 0..(t.groups - 1)
    BY <2>2, ParentsBelow
  <2>4. t.groups <= B
    <3> DEFINE G == t.groups
    <3>1. G \in Nat \ {0} /\ B % G = 0
      OBVIOUS
    <3> HIDE DEF G
    <3> DEFINE r == B \div G
    <3>2. B = (G * r) + (B % G) /\ r \in Nat
      BY <3>1, DivMod
    <3> HIDE DEF r
    <3>3. r * G = G * r /\ r # 0 /\ B = r * G /\ 1 * G = G
      BY <3>1, <3>2
    <3>4. 1 * G <= r * G
      BY <3>1, <3>2, <3>3, TimesMonotone
    <3>5. G <= B
      BY <3>3, <3>4
    <3> QED  BY <3>5 DEF G
  <2>5. B <= size[l - 1] /\ size[l - 1] \in Nat
    <3> DEFINE C == t.copies
    <3>1. C \in Nat /\ 1 <= C /\ size[l - 1] = C * B
      OBVIOUS
    <3> HIDE DEF C
    <3>2. 1 * B <= C * B /\ C * B \in Nat
      BY <3>1, TimesMonotone
    <3> QED  BY <3>1, <3>2
  <2>6. g \in 0..(size[l - 1] - 1)
    <3> HIDE DEF g
    <3> QED  BY <2>3, <2>4, <2>5
  <2>7. below \in Seq(Nat)
    BY <2>6
  <2>8. n[2] % q \in Nat
    <3>1. n[2] \in Nat /\ q \in Nat \ {0}
      BY <2>2, <2>3
    <3> HIDE DEF q
    <3>2. n[2] % q \in 0..(q - 1)
      BY <3>1, DivMod
    <3> QED  BY <3>1, <3>2
  <2>9. <<n[2] % q>> \in Seq(Nat)
    BY <2>8, PairAndTriple
  <2> HIDE DEF q, g, below
  <2>10. len \in Nat /\ len <= Len(below) /\ Len(below) \in Nat
    BY <2>7, LenProperties
  <2> HIDE DEF len
  <2>11. SubSeq(below, 1, len) \in Seq(Nat)
    BY <2>7, <2>10
  <2> QED  BY <2>1, <2>9, <2>11, ConcatProperties
<1> QED  BY <1>1, <1>2

\* What Connect finds: the sizes its template works with, as it asserts them.
LEMMA ConnectReads ==
  ASSUME SizeInv, stage = "create"
  PROVE  LET t == Template
             B == TopSizes(recipe)[built]
         IN /\ B \in Nat \ {0} /\ t.copies \in Nat \ {0} /\ size[Top] \in Nat \ {0}
            /\ t.kind \in {"Clos", "Rail"} =>
                 Top > 0 /\ size[Top] = t.nodes /\ size[Top - 1] = t.copies * B
                 /\ size[Top - 1] \in Nat \ {0} /\ startBit[Top] \in Nat /\ t.nodes \in Nat \ {0}
            /\ t.kind = "Clos" =>
                 t.groups \in Nat \ {0} /\ t.nodes % t.groups = 0 /\ B % t.groups = 0
            /\ t.kind = "Rail" => t.perServer \in Nat \ {0} /\ t.perSwitch \in Nat \ {0} /\ Top = 1
            /\ t.kind = "Server" => t.perServer \in Nat \ {0} /\ Top = 0 /\ ~HostsBelow
            /\ t.kind \in {"Full", "Torus"} =>
                 size[Top] = t.copies * B /\ t.copies > 1 /\ (HostsBelow => Top > 0)
            /\ t.kind = "Full" => t.arrangement \in {"Absolute", "SameRank"}
            /\ t.kind = "Full" /\ t.arrangement = "Absolute" =>
                 t.outLinks \in Nat \ {0} /\ t.outLinks * B = t.copies - 1
<1> DEFINE t == Template
           B == TopSizes(recipe)[built]
<1>1. /\ recipe \in Recipes /\ built \in 0..Len(recipe) /\ built < Len(recipe) /\ ~Replicating
      /\ Top \in Nat /\ Created = built + 1
  BY DEF SizeInv, Replicating, Created
<1>2. /\ built + 1 \in DOMAIN recipe /\ built \in Nat /\ built + 1 \in 1..Len(recipe)
      /\ t.kind \in {"Clos", "Rail", "Server", "Full", "Torus"}
      /\ t.nodes \in Nat /\ t.copies \in Nat \ {0}
      /\ t.kind \in {"Clos", "Rail"} <=> t.nodes > 0
      /\ t.kind \in {"Server", "Rail"} => t.perServer \in Nat \ {0}
      /\ t.kind = "Rail" => t.perSwitch \in Nat \ {0}
      /\ t.kind = "Full" => t.arrangement \in {"Absolute", "SameRank"}
      /\ B \in Nat \ {0}
      /\ TopSizes(recipe)[built + 1] = IF t.nodes > 0 THEN t.nodes ELSE t.copies * B
  BY <1>1, TemplateRead
<1>3. t = recipe[built + 1] /\ (t.kind \in {"Full", "Torus"} => t.copies > 1)
  BY <1>1, <1>2, RecipesAssumption DEF Template
<1>4. /\ t.kind = "Clos" =>
           t.groups \in Nat \ {0} /\ t.nodes % t.groups = 0 /\ B % t.groups = 0
      /\ t.kind = "Full" /\ t.arrangement = "Absolute" =>
           t.outLinks \in Nat \ {0} /\ t.outLinks * B = t.copies - 1
      /\ t.kind \in {"Server", "Rail"} => \A i \in 1..built : recipe[i].nodes = 0
  <2>1. (built + 1) - 1 = built
    BY <1>2
  <2> HIDE DEF t
  <2> QED  BY <1>1, <1>2, <1>3, <2>1, ConnectAssumption
<1>5. size[Top] = TopSizes(recipe)[built + 1]
  <2>1. size[Top] = originalSize[Top] /\ originalSize[Top] = TopSizes(recipe)[built + 1]
    BY <1>1 DEF SizeInv
  <2> QED  BY <2>1
<1>6. t.nodes > 0 => Top > 0 /\ size[Top - 1] = t.copies * B
  BY <1>1 DEF SizeInv
<1>7. \A l \in 0..Top : size[l] \in Nat \ {0} /\ (l > 0 => startBit[l] >= 0 /\ startBit[l] \in Int)
  BY <1>1 DEF SizeInv
<1>8. Top = 0 <=> \A k \in 1..(built + 1) : recipe[k].nodes = 0
  BY <1>1 DEF SizeInv
<1>9. (\A k \in 1..built : recipe[k].nodes = 0) => Top <= 1
  BY <1>1 DEF SizeInv
<1>10. HostsBelow => Top > 0
  <2>1. 1 \in 1..(built + 1) /\ (HostsBelow => recipe[1].nodes > 0)
    BY <1>2 DEF HostsBelow
  <2> QED  BY <1>1, <1>8, <2>1
<1>11. t.kind = "Server" => Top = 0
  <2> SUFFICES ASSUME t.kind = "Server", NEW k \in 1..(built + 1)  PROVE recipe[k].nodes = 0
    BY <1>8
  <2>1. CASE k = built + 1
    <3>1. t.nodes = 0
      BY <1>2
    <3> QED  BY <1>3, <2>1, <3>1
  <2>2. CASE k # built + 1
    <3>1. k \in 1..built
      BY <1>2, <2>2
    <3> QED  BY <1>4, <3>1
  <2> QED  BY <2>1, <2>2
<1> HIDE DEF t, B
<1>12. t.kind \in {"Clos", "Rail"} => t.nodes > 0 /\ t.nodes \in Nat \ {0}
  BY <1>2
<1>13. t.kind \in {"Clos", "Rail"} =>
         Top > 0 /\ size[Top] = t.nodes /\ size[Top - 1] = t.copies * B
         /\ size[Top - 1] \in Nat \ {0} /\ startBit[Top] \in Nat
  <2> SUFFICES ASSUME t.kind \in {"Clos", "Rail"}
               PROVE  Top > 0 /\ size[Top] = t.nodes /\ size[Top - 1] = t.copies * B
                      /\ size[Top - 1] \in Nat \ {0} /\ startBit[Top] \in Nat
    OBVIOUS
  <2>1. t.nodes > 0 /\ Top > 0
    BY <1>6, <1>12
  <2>2. Top - 1 \in 0..Top /\ Top \in 0..Top
    BY <1>1, <2>1
  <2>3. size[Top] = t.nodes
    BY <1>2, <1>5, <2>1
  <2>4. size[Top - 1] = t.copies * B
    BY <1>6, <2>1
  <2>5. size[Top - 1] \in Nat \ {0} /\ startBit[Top] \in Nat
    <3>1. size[Top - 1] \in Nat \ {0} /\ startBit[Top] >= 0 /\ startBit[Top] \in Int
      BY <1>7, <2>1, <2>2
    <3> QED  BY <3>1
  <2> QED  BY <2>1, <2>3, <2>4, <2>5
<1>14. t.kind = "Rail" => Top = 1
  BY <1>1, <1>4, <1>9, <1>13
<1>15. t.kind \in {"Full", "Torus"} => size[Top] = t.copies * B
  BY <1>2, <1>5
<1>16. size[Top] \in Nat \ {0}
  BY <1>1, <1>7
<1> QED  BY <1>2, <1>3, <1>4, <1>10, <1>11, <1>12, <1>13, <1>14, <1>15, <1>16 DEF t, B

\* Whatever the template, its links are between levels of the topology, none upwards.
LEMMA TemplateBetween ==
  ASSUME SizeInv, stage = "create"
  PROVE  \E la \in 0..Top, lb \in 0..Top :
           /\ lb <= la /\ (HostsBelow => la > 0)
           /\ LinksBetween(TemplateLinks(Template, Top, dims[Top]), la, lb)
<1> DEFINE t == Template
           B == TopSizes(recipe)[built]
           links == TemplateLinks(t, Top, dims[Top])
<1>1. /\ B \in Nat \ {0} /\ t.copies \in Nat \ {0} /\ size[Top] \in Nat \ {0}
      /\ t.kind \in {"Clos", "Rail"} =>
           Top > 0 /\ size[Top] = t.nodes /\ size[Top - 1] = t.copies * B
           /\ size[Top - 1] \in Nat \ {0} /\ startBit[Top] \in Nat /\ t.nodes \in Nat \ {0}
      /\ t.kind = "Clos" => t.groups \in Nat \ {0} /\ t.nodes % t.groups = 0 /\ B % t.groups = 0
      /\ t.kind = "Rail" => t.perServer \in Nat \ {0} /\ t.perSwitch \in Nat \ {0} /\ Top = 1
      /\ t.kind = "Server" => t.perServer \in Nat \ {0} /\ Top = 0 /\ ~HostsBelow
      /\ t.kind \in {"Full", "Torus"} =>
           size[Top] = t.copies * B /\ t.copies > 1 /\ (HostsBelow => Top > 0)
      /\ t.kind = "Full" => t.arrangement \in {"Absolute", "SameRank"}
      /\ t.kind = "Full" /\ t.arrangement = "Absolute" =>
           t.outLinks \in Nat \ {0} /\ t.outLinks * B = t.copies - 1
  BY ConnectReads
<1>2. Top \in Nat /\ t.kind \in {"Clos", "Rail", "Server", "Full", "Torus"}
  BY TemplateRead DEF SizeInv
<1> HIDE DEF t, B
<1>3. CASE t.kind = "Clos"
  <2>1. links = ClosLinks(t, Top)
    BY <1>3 DEF TemplateLinks
  <2>2. <<Top>> # <<Top - 1>> /\ Top - 1 \in 0..Top /\ Top \in 0..Top /\ Top - 1 <= Top
    BY <1>1, <1>2, <1>3
  <2>3. LinksBetween(ClosLinks(t, Top), Top, Top - 1)
    BY <1>1, <1>3, <2>2, ClosBetween
  <2> HIDE DEF links
  <2> QED  BY <1>1, <1>3, <2>1, <2>2, <2>3 DEF links, t
<1>4. CASE t.kind = "Rail"
  <2>1. links = RailLinks(t)
    BY <1>4 DEF TemplateLinks
  <2>2. size[0] \in Nat /\ size[1] \in Nat /\ Top = 1 /\ 1 - 1 = 0
    BY <1>1, <1>4
  <2>3. LinksBetween(RailLinks(t), 1, 0)
    BY <2>2, RailBetween
  <2>4. 0 \in 0..Top /\ 1 \in 0..Top
    BY <2>2
  <2> HIDE DEF links
  <2> QED  BY <2>1, <2>3, <2>4 DEF links, t
<1>5. CASE t.kind = "Server"
  <2>1. links = ServerLinks(t, dims[Top])
    BY <1>5 DEF TemplateLinks
  <2>2. size[0] \in Nat \ {0} /\ t.perServer \in Nat \ {0} /\ 0 \in 0..Top /\ ~HostsBelow
    BY <1>1, <1>2, <1>5
  <2>3. LinksBetween(ServerLinks(t, dims[Top]), 0, 0)
    BY <2>2, ServerBetween
  <2> HIDE DEF links
  <2> QED  BY <2>1, <2>2, <2>3 DEF links, t
<1>6. CASE t.kind = "Full" /\ t.arrangement = "Absolute"
  <2>1. links = AbsoluteLinks(t, Top, dims[Top])
    BY <1>6 DEF TemplateLinks
  <2>2. LinksBetween(AbsoluteLinks(t, Top, dims[Top]), Top, Top)
    BY <1>1, <1>6, AbsoluteBetween
  <2>3. Top \in 0..Top /\ Top <= Top
    BY <1>2
  <2> HIDE DEF links
  <2> QED  BY <1>1, <1>6, <2>1, <2>2, <2>3 DEF links, t
<1>7. CASE t.kind = "Full" /\ t.arrangement = "SameRank"
  <2>1. links = SameRankLinks(t, Top, dims[Top])
    BY <1>7 DEF TemplateLinks
  <2>2. LinksBetween(SameRankLinks(t, Top, dims[Top]), Top, Top)
    BY <1>1, <1>7, SameRankBetween
  <2>3. Top \in 0..Top /\ Top <= Top
    BY <1>2
  <2> HIDE DEF links
  <2> QED  BY <1>1, <1>7, <2>1, <2>2, <2>3 DEF links, t
<1>8. CASE t.kind = "Torus"
  <2>1. links = TorusLinks(t, Top, dims[Top])
    BY <1>8 DEF TemplateLinks
  <2>2. LinksBetween(TorusLinks(t, Top, dims[Top]), Top, Top)
    BY <1>1, <1>8, TorusBetween
  <2>3. Top \in 0..Top /\ Top <= Top
    BY <1>2
  <2> HIDE DEF links
  <2> QED  BY <1>1, <1>8, <2>1, <2>2, <2>3 DEF links, t
<1> QED  BY <1>1, <1>2, <1>3, <1>4, <1>5, <1>6, <1>7, <1>8

LEMMA LinksConnect ==
  ASSUME TopologyInv, Connect
  PROVE  LinkInv'
<1> DEFINE t == Template
<1>1. /\ stage = "create" /\ stage' = "connect" /\ recipe' = recipe
      /\ calls' = TemplateLinks(t, Top, dims[Top])
      /\ addr' = CASE t.kind = "Clos" -> ClosAddresses(t, Top)
                   [] t.kind = "Rail" -> RailAddresses(t)
                   [] t.kind = "Server" -> ServerAddresses(t)
                   [] OTHER -> addr
      /\ size' = size /\ originalSize' = originalSize /\ devices' = devices /\ ports' = ports
  BY DEF Connect
<1>2. Top \in Nat /\ DOMAIN size = 0..Top /\ t.kind \in {"Clos", "Rail", "Server", "Full", "Torus"}
  BY <1>1, TemplateRead DEF TopologyInv, SizeInv
<1>3. AreNodes(TopoNode, size, Top)
  BY <1>2, TopologyNodes DEF TopologyInv, LinkInv
<1>4. ASSUME NEW n \in TopoNode
      PROVE  n[1] \in 0..Top /\ n[2] \in 0..(size[n[1]] - 1) /\ n[2] \in Nat /\ addr[n] \in Seq(Nat)
  <2>1. n[1] \in 0..Top /\ n[2] \in 0..(size[n[1]] - 1)
    BY <1>3 DEF AreNodes
  <2> QED  BY <2>1 DEF TopologyInv, LinkInv
<1>5. /\ TopSizes(recipe)[built] \in Nat \ {0} /\ t.copies \in Nat \ {0}
      /\ t.kind \in {"Clos", "Rail"} =>
           Top > 0 /\ size[Top] = t.nodes /\ size[Top - 1] = t.copies * TopSizes(recipe)[built]
           /\ startBit[Top] \in Nat /\ t.nodes \in Nat \ {0}
      /\ t.kind = "Clos" => t.groups \in Nat \ {0} /\ t.nodes % t.groups = 0
                            /\ TopSizes(recipe)[built] % t.groups = 0
      /\ t.kind = "Rail" => t.perServer \in Nat \ {0} /\ t.perSwitch \in Nat \ {0} /\ Top = 1
      /\ t.kind = "Server" => t.perServer \in Nat \ {0}
  BY <1>1, ConnectReads DEF TopologyInv
<1> HIDE DEF t
<1>6. TopoNode' = TopoNode /\ \A n \in TopoNode : addr'[n] \in Seq(Nat)
  <2>1. CASE t.kind = "Clos"
    <3>1. addr' = ClosAddresses(t, Top)
      BY <1>1, <2>1
    <3>2. DOMAIN ClosAddresses(t, Top) = TopoNode
      BY DEF ClosAddresses
    <3>3. \A k \in 0..(size[Top - 1] - 1) : addr[<<Top - 1, k>>] \in Seq(Nat)
      <4>1. Top - 1 \in 0..Top
        BY <1>2, <1>5, <2>1
      <4>2. \A k \in 0..(size[Top - 1] - 1) : <<Top - 1, k>> \in TopoNode
        BY <1>3, <4>1 DEF AreNodes
      <4> QED  BY <1>4, <4>2
    <3>4. ASSUME NEW n \in TopoNode  PROVE ClosAddresses(t, Top)[n] \in Seq(Nat)
      <4>1. n[1] = Top => n[2] \in 0..(size[Top] - 1)
        BY <1>4
      <4> QED  BY <1>4, <1>5, <2>1, <3>3, <4>1, ClosAddressesTyped
    <3> QED  BY <3>1, <3>2, <3>4 DEF TopoNode
  <2>2. CASE t.kind = "Rail"
    <3>1. addr' = RailAddresses(t)
      BY <1>1, <2>2
    <3>2. DOMAIN RailAddresses(t) = TopoNode
      BY DEF RailAddresses
    <3>3. \A n \in TopoNode : RailAddresses(t)[n] \in Seq(Nat)
      BY <1>4, <1>5, <2>2, RailAddressesTyped
    <3> QED  BY <3>1, <3>2, <3>3 DEF TopoNode
  <2>3. CASE t.kind = "Server"
    <3>1. addr' = ServerAddresses(t)
      BY <1>1, <2>3
    <3>2. DOMAIN ServerAddresses(t) = TopoNode
      BY DEF ServerAddresses
    <3>3. \A n \in TopoNode : ServerAddresses(t)[n] \in Seq(Nat)
      BY <1>4, <1>5, <2>3, ServerAddressesTyped
    <3> QED  BY <3>1, <3>2, <3>3 DEF TopoNode
  <2>4. CASE t.kind \in {"Full", "Torus"}
    <3>1. addr' = addr
      BY <1>1, <2>4
    <3> QED  BY <1>4, <3>1 DEF TopoNode
  <2> QED  BY <1>2, <2>1, <2>2, <2>3, <2>4
<1>7. ~Replicating /\ ~Replicating' /\ HostsBelow' = HostsBelow
      /\ \A l : LevelNodes(l)' = LevelNodes(l)
  BY <1>1 DEF Replicating, HostsBelow, LevelNodes
<1>8. ASSUME NEW n \in TopoNode  PROVE DevicesOK(n)'
  <2>1. DevicesOK(n)
    BY DEF TopologyInv, LinkInv
  <2>2. ASSUME NEW dev, DeviceOK(n, dev)  PROVE DeviceOK(n, dev)'
    BY <1>6, <1>7, <2>2 DEF DeviceOK
  <2> QED  BY <1>1, <2>1, <2>2 DEF DevicesOK
<1>9. PICK la \in 0..Top, lb \in 0..Top :
        lb <= la /\ (HostsBelow => la > 0) /\ LinksBetween(calls', la, lb)
  BY <1>1, TemplateBetween DEF TopologyInv, t
<1>10. IsSequence(calls') /\ \A i \in DOMAIN calls' : LinkBetween(calls'[i], la, lb)
  BY <1>9 DEF LinksBetween
<1>11. ASSUME NEW i \in DOMAIN calls'  PROVE CallOK(calls[i])'
  <2>1. PICK c : c = calls'[i]
    OBVIOUS
  <2>2. /\ c.a = <<la, c.a[2]>> /\ c.a[2] \in 0..(size[la] - 1)
        /\ c.b = <<lb, c.b[2]>> /\ c.b[2] \in 0..(size[lb] - 1) /\ c.a # c.b
    BY <1>10, <2>1 DEF LinkBetween
  <2>3. <<la, c.a[2]>> \in TopoNode /\ <<lb, c.b[2]>> \in TopoNode
    BY <1>3, <2>2 DEF AreNodes
  <2>4. c.a \in TopoNode /\ c.b \in TopoNode /\ c.a[1] = la /\ c.b[1] = lb
    BY <2>2, <2>3
  <2>5. CallOK(c)'
    BY <1>1, <1>6, <1>7, <1>9, <2>2, <2>4 DEF CallOK
  <2> QED  BY <2>1, <2>5 DEF CallOK
<1>12. TopoNode' = UNION {LevelNodes(l)' : l \in DOMAIN size'}
  <2>1. TopoNode = UNION {LevelNodes(l) : l \in DOMAIN size}
    BY DEF TopologyInv, LinkInv
  <2> QED  BY <1>1, <1>6, <1>7, <2>1
<1>13. /\ DOMAIN devices' = TopoNode /\ DOMAIN ports' = TopoNode
       /\ \A n \in TopoNode : \A b \in DOMAIN ports'[n] : ports'[n][b] \in Seq(Nat)
  BY <1>1 DEF TopologyInv, LinkInv
<1> QED  BY <1>1, <1>6, <1>8, <1>10, <1>11, <1>12, <1>13 DEF LinkInv

-----------------------------------------------------------------------------
(* Part 7: the invariant of the builder. *)

LEMMA TopologyStart ==
  ASSUME InitTopology
  PROVE  TopologyInv
BY SizesStart, LinksStart DEF TopologyInv

LEMMA TopologyKept ==
  ASSUME TopologyInv, UNCHANGED topoVars
  PROVE  TopologyInv'
<1>1. /\ recipe' = recipe /\ built' = built /\ stage' = stage /\ level' = level /\ calls' = calls
      /\ size' = size /\ originalSize' = originalSize /\ startBit' = startBit
      /\ totalAddrBits' = totalAddrBits /\ dims' = dims /\ addr' = addr /\ devices' = devices
      /\ ports' = ports
  BY DEF topoVars, topology
<1>2. SizeInv'
  BY <1>1, SizesKept DEF TopologyInv
<1>3. TopoNode' = TopoNode /\ HostsBelow' = HostsBelow /\ Replicating' = Replicating
      /\ \A l : LevelNodes(l)' = LevelNodes(l)
  BY <1>1 DEF TopoNode, HostsBelow, Replicating, LevelNodes
<1>4. /\ \A n, dev : DeviceOK(n, dev) => DeviceOK(n, dev)'
      /\ \A c : CallOK(c) => CallOK(c)'
  BY <1>1, <1>3 DEF DeviceOK, CallOK
<1>5. \A n : DevicesOK(n) => DevicesOK(n)'
  BY <1>1, <1>4 DEF DevicesOK
<1>6. \A i \in DOMAIN calls : CallOK(calls[i])'
  <2> SUFFICES ASSUME NEW i \in DOMAIN calls  PROVE CallOK(calls[i])'
    OBVIOUS
  <2>1. PICK c : c = calls[i]
    OBVIOUS
  <2>2. CallOK(c)'
    BY <1>4, <2>1 DEF TopologyInv, LinkInv
  <2> QED  BY <1>1, <2>1, <2>2 DEF CallOK
<1>7. TopoNode' = UNION {LevelNodes(l)' : l \in DOMAIN size'}
  <2>1. TopoNode = UNION {LevelNodes(l) : l \in DOMAIN size}
    BY DEF TopologyInv, LinkInv
  <2> QED  BY <1>1, <1>3, <2>1
<1>8. LinkInv'
  BY <1>1, <1>3, <1>5, <1>6, <1>7 DEF TopologyInv, LinkInv
<1> QED  BY <1>2, <1>8 DEF TopologyInv

LEMMA TopologyStep ==
  ASSUME TopologyInv, [BuildStep]_topoVars
  PROVE  TopologyInv'
<1>1. SizeInv
  BY DEF TopologyInv
<1>2. CASE ReplicateLevel
  BY <1>1, <1>2, SizesReplicateLevel, LinksReplicateLevel DEF TopologyInv
<1>3. CASE CopyPortSets
  BY <1>1, <1>3, SizesCopyPortSets, LinksCopyPortSets DEF TopologyInv
<1>4. CASE CreateLevel
  BY <1>1, <1>4, SizesCreateLevel, LinksCreateLevel DEF TopologyInv
<1>5. CASE CreateDimension
  BY <1>1, <1>5, SizesCreateDimension, LinksCreateDimension DEF TopologyInv
<1>6. CASE Connect
  BY <1>1, <1>6, SizesConnect, LinksConnect DEF TopologyInv
<1>7. CASE ConnectNodes
  <2>1. stage' = stage /\ level' = level /\ size' = size /\ recipe' = recipe /\ built' = built
           /\ originalSize' = originalSize /\ startBit' = startBit
           /\ totalAddrBits' = totalAddrBits /\ dims' = dims
    BY <1>7 DEF ConnectNodes
  <2>2. SizeInv'
    BY <1>1, <2>1, SizesKept
  <2> QED  BY <1>7, <2>2, LinksConnectNodes DEF TopologyInv
<1>8. CASE GenerateRoutingRules
  BY <1>1, <1>8, SizesGenerate, LinksGenerate DEF TopologyInv
<1>9. CASE UNCHANGED topoVars
  BY <1>9, TopologyKept
<1> QED  BY <1>2, <1>3, <1>4, <1>5, <1>6, <1>7, <1>8, <1>9 DEF BuildStep
===============================================================================
