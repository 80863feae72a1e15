------------------------ MODULE FailureWithdrawalProofs ------------------------
(***************************************************************************)
(* The withdrawal protocol on every fabric: the frames of a call nest as   *)
(* the code nests them, and a withdrawal on its way is true of its sender. *)
(***************************************************************************)
EXTENDS FailureWithdrawal, SequenceTheorems, FiniteSetTheorems, TLAPS

-----------------------------------------------------------------------------
(* What one insertion into an exception table does, for every table whose regions are *)
(* sequences of natural numbers.                                                      *)

\* No entry offers what an entry covering it does not.
NestedTable(table) ==
  \A q, r \in DOMAIN table : IsPrefix(q, r) => table[r] \subseteq table[q]

\* A prefix agrees with the longer sequence on its own length.
LEMMA PrefixElements ==
  ASSUME NEW s \in Seq(Nat), NEW t \in Seq(Nat)
  PROVE  IsPrefix(s, t) <=> /\ Len(s) <= Len(t)
                            /\ \A i \in 1..Len(s) : s[i] = t[i]
<1>1. CASE Len(s) <= Len(t)
  <2> DEFINE S == SubSeq(s, 1, Len(s))
             T == SubSeq(t, 1, Len(s))
  <2>1. S \in Seq(Nat) /\ Len(S) = Len(s) /\ \A i \in 1..Len(s) : S[i] = s[i]
    <3>1. \A i \in 1..Len(s) : s[i] \in Nat  OBVIOUS
    <3> QED  BY <3>1, SubSeqProperties, LenProperties
  <2>2. T \in Seq(Nat) /\ Len(T) = Len(s) /\ \A i \in 1..Len(s) : T[i] = t[i]
    <3>1. \A i \in 1..Len(s) : t[i] \in Nat  BY <1>1
    <3>2. Len(s) \in Nat  OBVIOUS
    <3>3. /\ T \in Seq(Nat)
          /\ Len(T) = (IF 1 <= Len(s) THEN Len(s) - 1 + 1 ELSE 0)
          /\ \A i \in 1..(Len(s) - 1 + 1) : T[i] = t[1 + i - 1]
      BY <3>1, <3>2, SubSeqProperties
    <3> QED  BY <3>2, <3>3
  <2>3. S = T <=> \A i \in 1..Len(s) : S[i] = T[i]
    BY <2>1, <2>2, SeqEqual
  <2> QED  BY <1>1, <2>1, <2>2, <2>3 DEF IsPrefix
<1>2. CASE ~(Len(s) <= Len(t))
  BY <1>2 DEF IsPrefix
<1> QED  BY <1>1, <1>2

\* Prefix is an order.
LEMMA PrefixOrder ==
  ASSUME NEW r \in Seq(Nat), NEW s \in Seq(Nat), NEW t \in Seq(Nat)
  PROVE  /\ IsPrefix(r, r)
         /\ IsPrefix(r, s) /\ IsPrefix(s, t) => IsPrefix(r, t)
         /\ IsPrefix(r, s) /\ IsPrefix(s, r) => r = s
<1>1. IsPrefix(r, r)
  BY PrefixElements
<1>2. IsPrefix(r, s) /\ IsPrefix(s, t) => IsPrefix(r, t)
  <2>1. /\ IsPrefix(r, s) <=> Len(r) <= Len(s) /\ \A i \in 1..Len(r) : r[i] = s[i]
        /\ IsPrefix(s, t) <=> Len(s) <= Len(t) /\ \A i \in 1..Len(s) : s[i] = t[i]
        /\ IsPrefix(r, t) <=> Len(r) <= Len(t) /\ \A i \in 1..Len(r) : r[i] = t[i]
    BY PrefixElements
  <2> QED  BY <2>1
<1>3. IsPrefix(r, s) /\ IsPrefix(s, r) => r = s
  <2>1. /\ IsPrefix(r, s) <=> Len(r) <= Len(s) /\ \A i \in 1..Len(r) : r[i] = s[i]
        /\ IsPrefix(s, r) <=> Len(s) <= Len(r) /\ \A i \in 1..Len(s) : s[i] = r[i]
    BY PrefixElements
  <2>2. Len(r) \in Nat /\ Len(s) \in Nat  OBVIOUS
  <2> QED  BY <2>1, <2>2, SeqEqual
<1> QED  BY <1>1, <1>2, <1>3

\* An insertion keeps every entry, and no entry gains a candidate by it.
LEMMA UpdateShrinks ==
  ASSUME NEW table, DOMAIN table \subseteq Seq(Nat), NEW rk \in Seq(Nat), NEW cand
  PROVE  /\ DOMAIN UpdatedTable(table, rk, cand) = DOMAIN table \cup {rk}
         /\ UpdatedTable(table, rk, cand)[rk] \subseteq cand
         /\ \A r \in DOMAIN table : UpdatedTable(table, rk, cand)[r] \subseteq table[r]
  BY PrefixOrder DEF UpdatedTable, NewCandidates, EntriesOnPath

\* What an insertion reports as emptied has an entry without candidates.
LEMMA EmptiedAreEmpty ==
  ASSUME NEW table, NEW rk, NEW cand, NEW fallback,
         NEW r \in EmptiedRegions(table, rk, cand, fallback)
  PROVE  /\ r \in DOMAIN UpdatedTable(table, rk, cand)
         /\ UpdatedTable(table, rk, cand)[r] = {}
  BY DEF EmptiedRegions

\* An insertion keeps a table nested.  The entries below the inserted one are
\* cut by cand only, yet they stay below what the entries above leave of it,
\* since they were below those entries before.
LEMMA UpdateKeepsNested ==
  ASSUME NEW table, DOMAIN table \subseteq Seq(Nat), NestedTable(table),
         NEW rk \in Seq(Nat), NEW cand
  PROVE  NestedTable(UpdatedTable(table, rk, cand))
<1> DEFINE after == UpdatedTable(table, rk, cand)
<1>1. DOMAIN after = DOMAIN table \cup {rk}
  BY DEF UpdatedTable
<1> SUFFICES ASSUME NEW q \in DOMAIN after, NEW r \in DOMAIN after, IsPrefix(q, r)
             PROVE  after[r] \subseteq after[q]
  BY DEF NestedTable
<1>2. q \in Seq(Nat) /\ r \in Seq(Nat)
  BY <1>1
<1>3. CASE q = r
  BY <1>3
<1>4. CASE q = rk /\ r # rk
  <2>1. r \in DOMAIN table /\ after[r] = table[r] \cap cand
    BY <1>1, <1>4 DEF UpdatedTable, IsStrictPrefix
  <2>2. \A x \in EntriesOnPath(table, rk) : table[r] \subseteq table[x]
    BY <1>2, <1>4, <2>1, PrefixOrder DEF EntriesOnPath, NestedTable
  <2>3. after[q] = NewCandidates(table, rk, cand)
    BY <1>4 DEF UpdatedTable
  <2> QED  BY <2>1, <2>2, <2>3 DEF NewCandidates
<1>5. CASE r = rk /\ q # rk
  <2>1. q \in DOMAIN table /\ ~IsPrefix(rk, q)
    BY <1>1, <1>2, <1>5, PrefixOrder
  <2>2. after[q] = table[q]
    BY <1>5, <2>1 DEF UpdatedTable, IsStrictPrefix
  <2>3. after[r] = NewCandidates(table, rk, cand)
    BY <1>5 DEF UpdatedTable
  <2> QED  BY <1>5, <2>1, <2>2, <2>3 DEF NewCandidates, EntriesOnPath
<1>6. CASE q # rk /\ r # rk
  <2>1. q \in DOMAIN table /\ r \in DOMAIN table /\ table[r] \subseteq table[q]
    BY <1>1, <1>6 DEF NestedTable
  <2>2. after[q] = IF IsPrefix(rk, q) THEN table[q] \cap cand ELSE table[q]
    BY <1>6, <2>1 DEF UpdatedTable, IsStrictPrefix
  <2>3. after[r] = IF IsPrefix(rk, r) THEN table[r] \cap cand ELSE table[r]
    BY <1>6, <2>1 DEF UpdatedTable, IsStrictPrefix
  <2>4. IsPrefix(rk, q) => IsPrefix(rk, r)
    BY <1>2, PrefixOrder
  <2> QED  BY <2>1, <2>2, <2>3, <2>4
<1> QED  BY <1>1, <1>3, <1>4, <1>5, <1>6

-----------------------------------------------------------------------------
(* Regions and impacts. *)

\* The image of a finite set is finite.
LEMMA ImageFinite ==
  ASSUME NEW f, IsFiniteSet(DOMAIN f)
  PROVE  IsFiniteSet({f[x] : x \in DOMAIN f})
<1> DEFINE S == DOMAIN f
           T == {f[x] : x \in S}
           g == [x \in S |-> f[x]]
<1>1. g \in Surjection(S, T)
  BY DEF Surjection
<1> QED  BY <1>1, FS_Surjection

\* The leading fields of an address are a region.
LEMMA LeadingType ==
  ASSUME NEW a \in Seq(Nat), NEW k \in Int, k <= Len(a)
  PROVE  Leading(a, k) \in Region
<1>1. \A i \in 1..k : a[i] \in Nat  OBVIOUS
<1> QED  BY <1>1, SubSeqProperties DEF Leading, Region

\* The levels of the fabric are small numbers.
LEMMA LevelType ==
  ASSUME NEW n \in Node
  PROVE  /\ Level[n] \in Nat /\ AddrSize \in Nat /\ Level[n] <= AddrSize
         /\ LevelAddrBit[Level[n]] \in Int
         /\ Level[n] > 0 => LevelAddrBit[Level[n] - 1] \in Int
BY FabricAssumption

\* A bucket serves finitely many regions.
LEMMA BucketRegionsType ==
  ASSUME NEW n \in Node, NEW b \in Buckets[n]
  PROVE  BucketRegions(n, b) \subseteq Region /\ IsFiniteSet(BucketRegions(n, b))
<1>0. /\ Address[n] \in Seq(Nat) /\ Len(Address[n]) = AddrSize /\ b.key \in Seq(Nat)
      /\ \A a \in HostAddress : a \in Seq(Nat) /\ Len(a) = AddrSize
  BY FabricAssumption
<1>1. DownwardRegions(n, b.key) \subseteq Region /\ IsFiniteSet(DownwardRegions(n, b.key))
  <2> DEFINE rk == Leading(Address[n], CurrentPrefixLen(n)) \o b.key
  <2>1. Leading(Address[n], CurrentPrefixLen(n)) \in Seq(Nat)
    BY <1>0, LevelType, LeadingType DEF CurrentPrefixLen, Region
  <2>2. rk \in Region
    BY <1>0, <2>1 DEF Region
  <2>3. DownwardRegions(n, b.key) \in {{}, {rk}}
    BY DEF DownwardRegions
  <2> HIDE DEF rk
  <2>4. IsFiniteSet({}) /\ IsFiniteSet({rk})
    BY FS_EmptySet, FS_Singleton
  <2> QED  BY <2>2, <2>3, <2>4
<1>2. UpwardRegions(n) \subseteq Region /\ IsFiniteSet(UpwardRegions(n))
  <2> DEFINE len == AddrSize - (LevelAddrBit[Level[n]] + 1)
             f == [a \in HostAddress |-> Leading(a, len)]
             R == {f[a] : a \in HostAddress}
  <2>1. CASE LevelAddrBit[Level[n]] < 0 \/ len <= 0
    BY <2>1, FS_EmptySet DEF UpwardRegions
  <2>2. CASE ~(LevelAddrBit[Level[n]] < 0 \/ len <= 0)
    <3>1. len \in Int /\ len <= AddrSize
      BY <2>2, LevelType
    <3>2. R \subseteq Region
      BY <1>0, <3>1, LeadingType
    <3>3. IsFiniteSet(R)
      <4>1. DOMAIN f = HostAddress /\ IsFiniteSet(DOMAIN f)
        BY FabricAssumption
      <4> HIDE DEF f
      <4> QED  BY <4>1, ImageFinite
    <3>4. UpwardRegions(n) = R \ {Leading(Address[n], len)}
      BY <2>2 DEF UpwardRegions
    <3> HIDE DEF R
    <3>5. UpwardRegions(n) \in SUBSET R
      BY <3>4
    <3> QED  BY <3>2, <3>3, <3>5, FS_Subset
  <2> QED  BY <2>1, <2>2
<1>3. {b.key} \subseteq Region /\ IsFiniteSet({b.key}) /\ IsFiniteSet({})
  BY <1>0, FS_EmptySet, FS_Singleton DEF Region
<1>4. \/ BucketRegions(n, b) = DownwardRegions(n, b.key)
      \/ BucketRegions(n, b) = UpwardRegions(n)
      \/ BucketRegions(n, b) = {b.key}
      \/ BucketRegions(n, b) = {}
  BY DEF BucketRegions
<1> QED  BY <1>1, <1>2, <1>3, <1>4

\* A port impacts finitely many regions.
LEMMA ImpactsType ==
  ASSUME NEW n \in Node, NEW port
  PROVE  /\ Impacts(n, port) \subseteq Impact /\ IsFiniteSet(Impacts(n, port))
         /\ \A i \in Impacts(n, port) : i.ports \subseteq Neighbour[n]
<1> DEFINE B == {c \in Buckets[n] : port \in c.ports}
           I(b) == {[ports |-> b.ports, rk |-> rk] : rk \in BucketRegions(n, b)}
           g == [b \in B |-> I(b)]
<1>1. \A b \in B : b.ports \subseteq Neighbour[n] /\ Neighbour[n] \subseteq Node
  BY FabricAssumption
<1>2. \A b \in B : I(b) \subseteq Impact
  BY <1>1, BucketRegionsType DEF Impact
<1>3. ASSUME NEW b \in B PROVE IsFiniteSet(I(b))
  <2> DEFINE f == [rk \in BucketRegions(n, b) |-> [ports |-> b.ports, rk |-> rk]]
  <2>1. IsFiniteSet(DOMAIN f) /\ I(b) = {f[rk] : rk \in DOMAIN f}
    BY BucketRegionsType
  <2> HIDE DEF f, I
  <2> QED  BY <2>1, ImageFinite
<1>4. IsFiniteSet({g[b] : b \in DOMAIN g})
  <2>1. B \in SUBSET Buckets[n] /\ IsFiniteSet(Buckets[n])
    BY FabricAssumption
  <2>2. IsFiniteSet(DOMAIN g)
    BY <2>1, FS_Subset
  <2> HIDE DEF g
  <2> QED  BY <2>2, ImageFinite
<1>5. {g[b] : b \in DOMAIN g} = {I(b) : b \in B} /\ Impacts(n, port) = UNION {I(b) : b \in B}
  BY DEF Impacts
<1>6. \A T \in {I(b) : b \in B} : IsFiniteSet(T)
  BY <1>3
<1> HIDE DEF g
<1>7. IsFiniteSet(Impacts(n, port))
  BY <1>4, <1>5, <1>6, FS_UNION
<1> QED  BY <1>1, <1>2, <1>5, <1>7

-----------------------------------------------------------------------------
(* The tables and the queue keep their types. *)

\* An insertion.
LEMMA UpdateType ==
  ASSUME NEW n \in Node, NEW table, IsTable(n, table),
         NEW rk \in Region, NEW cand \in SUBSET Neighbour[n]
  PROVE  IsTable(n, UpdatedTable(table, rk, cand))
<1> DEFINE after == UpdatedTable(table, rk, cand)
<1>1. DOMAIN after = DOMAIN table \cup {rk}
  BY DEF UpdatedTable
<1>2. IsFiniteSet(DOMAIN after)
  BY <1>1, FS_AddElement DEF IsTable
<1>3. \A r \in DOMAIN after : after[r] \in SUBSET Neighbour[n]
  BY <1>1, UpdateShrinks DEF IsTable, Region
<1>4. after = [r \in DOMAIN after |-> after[r]]
  BY <1>1 DEF UpdatedTable
<1>5. DOMAIN after \subseteq Region
  BY <1>1 DEF IsTable
<1>6. after \in [DOMAIN after -> SUBSET Neighbour[n]]
  BY <1>3, <1>4
<1> QED  BY <1>2, <1>5, <1>6 DEF IsTable

\* A recovery.
LEMMA RestoredType ==
  ASSUME NEW n \in Node, NEW table, IsTable(n, table), NEW stillDown,
         NEW impacts \in SUBSET Impact, IsFiniteSet(impacts),
         \A i \in impacts : i.ports \subseteq Neighbour[n]
  PROVE  IsTable(n, Restored(table, impacts, stillDown))
<1> DEFINE partial == {i \in impacts : i.ports \cap stillDown # {}}
           kept == [r \in {i.rk : i \in partial} |->
                      (CHOOSE i \in partial : i.rk = r).ports \ stillDown]
           left == RemoveExceptions(table, {i.rk : i \in impacts \ partial})
           after == SetExceptions(left, kept)
<1>1. DOMAIN kept \subseteq Region /\ \A r \in DOMAIN kept : kept[r] \subseteq Neighbour[n]
  BY DEF Impact
<1>2. IsFiniteSet(DOMAIN kept)
  <2> DEFINE f == [i \in partial |-> i.rk]
  <2>1. partial \in SUBSET impacts
    OBVIOUS
  <2>2. IsFiniteSet(DOMAIN f) /\ DOMAIN kept = {f[i] : i \in DOMAIN f}
    BY <2>1, FS_Subset
  <2> HIDE DEF f, kept
  <2> QED  BY <2>2, ImageFinite
<1> HIDE DEF kept
<1>3. /\ DOMAIN left \in SUBSET DOMAIN table
      /\ \A r \in DOMAIN left : left[r] = table[r]
  BY DEF RemoveExceptions
<1>4. IsFiniteSet(DOMAIN left)
  BY <1>3, FS_Subset DEF IsTable
<1> HIDE DEF left
<1>5. DOMAIN after = DOMAIN left \cup DOMAIN kept
  BY DEF SetExceptions
<1>6. IsFiniteSet(DOMAIN after)
  BY <1>2, <1>4, <1>5, FS_Union
<1>7. \A r \in DOMAIN after : after[r] \in SUBSET Neighbour[n] /\ r \in Region
  BY <1>1, <1>3, <1>5 DEF SetExceptions, IsTable
<1>8. after = [r \in DOMAIN after |-> after[r]]
  BY DEF SetExceptions
<1>9. Restored(table, impacts, stillDown) = after
  BY DEF Restored, kept, left
<1> HIDE DEF after
<1> QED  BY <1>6, <1>7, <1>8, <1>9 DEF IsTable

\* The regions whose entry has no candidate.
EmptyRegions(table) == {r \in Region : r \in DOMAIN table /\ table[r] = {}}

\* The regions an insertion empties, in any of their orders, are a sequence of
\* regions whose entries it left without candidates.
LEMMA EmptiedListing ==
  ASSUME NEW n \in Node, NEW table, IsTable(n, table), NEW rk \in Region, NEW cand, NEW fallback,
         NEW emptied \in SUBSET EmptiedRegions(table, rk, cand, fallback),
         NEW s \in Listings(emptied)
  PROVE  s \in Seq(EmptyRegions(UpdatedTable(table, rk, cand)))
<1> DEFINE after == UpdatedTable(table, rk, cand)
           S == EmptyRegions(after)
<1>1. DOMAIN after = DOMAIN table \cup {rk}
  BY DEF UpdatedTable
<1>2. emptied \in SUBSET DOMAIN after
  BY EmptiedAreEmpty
<1>3. IsFiniteSet(DOMAIN after)
  BY <1>1, FS_AddElement DEF IsTable
<1>4. IsFiniteSet(emptied) /\ Cardinality(emptied) \in Nat
  <2>1. IsFiniteSet(emptied)
    BY <1>2, <1>3, FS_Subset
  <2> QED  BY <2>1, FS_CardinalityType
<1>5. emptied \subseteq S
  BY <1>1, <1>2, EmptiedAreEmpty DEF IsTable, EmptyRegions
<1>6. s \in [1..Cardinality(emptied) -> emptied]
  BY DEF Listings, SetToSeqs
<1> HIDE DEF S
<1>7. s \in Seq(S)
  BY <1>4, <1>5, <1>6
<1> QED  BY <1>7 DEF S

\* What is left in the queue, with what is pushed, is made of withdrawals of
\* the same kind S, if S does not look at the peers.
LEMMA DequeueType ==
  ASSUME NEW p \in Node, NEW S, queue \in Seq(S), queue # <<>>, NEW pushed \in Seq(S),
         \A w \in S : [w EXCEPT !.peers = @ \ {p}] \in S,
         Dequeue(p, pushed)
  PROVE  queue' \in Seq(S) /\ dispatching' \in BOOLEAN /\ (dispatching' <=> queue' # <<>>)
<1>1. Head(queue) \in S /\ Tail(queue) \in Seq(S)
  BY HeadTailProperties
<1>2. <<[Entry EXCEPT !.peers = @ \ {p}]>> \in Seq(S)
  BY <1>1 DEF Entry
<1>3. <<[Entry EXCEPT !.peers = @ \ {p}]>> \o Tail(queue) \in Seq(S)
  BY <1>1, <1>2, ConcatProperties
<1> QED  BY <1>1, <1>3, ConcatProperties DEF Dequeue

-----------------------------------------------------------------------------
(* The inductive invariant.  Frames says how the suspended frames nest; the *)
(* rest is what each of them knows of the tables and of the epoch.          *)

\* The exception of router n for region rk has no candidate.
Emptied(n, rk) == rk \in DOMAIN exceptions[n] /\ exceptions[n][rk] = {}

Frames ==
  /\ notify.active => call.ends # <<>> /\ ~call.up
  /\ ~notify.active => /\ notify.impacts = {} /\ notify.emptied = <<>>
                       /\ broadcast.peers = {} /\ queue = <<>>
  /\ \A i \in notify.impacts : i.ports \subseteq Neighbour[Here]

\* Every frame that will send a withdrawal, or has sent one, holds a region
\* that is empty at its sender.
SpeakForSender ==
  /\ queue \in Seq({w \in Withdrawal : Emptied(w.from, w.rk)})
  /\ notify.emptied \in Seq(EmptyRegions(exceptions[Here]))
  /\ broadcast.peers # {} => Emptied(Here, broadcast.rk)

Inv == TypeOK /\ Frames /\ SpeakForSender

\* The invariant holds when the simulation starts.
LEMMA InitInv == Init => Inv
<1> SUFFICES ASSUME Init PROVE Inv
  OBVIOUS
<1>1. \A n \in Node : IsTable(n, NoExceptions)
  BY FS_EmptySet DEF IsTable, NoExceptions
<1>2. TypeOK
  <2>1. \A n \in Node : /\ down[n] \subseteq Neighbour[n]
                        /\ IsTable(n, exceptions[n])
                        /\ IsGate(lastEpochSeen[n], Node \X Region)
                        /\ IsGate(lastEpochSeenFromSender[n], Node \X Node)
    BY <1>1 DEF Init, IsGate
  <2>2. <<>> \in Region
    BY DEF Region
  <2>3. /\ DOMAIN exceptions = Node
        /\ DOMAIN lastEpochSeen = Node /\ DOMAIN lastEpochSeenFromSender = Node
    BY DEF Init
  <2>8. down \in [Node -> SUBSET Node] /\ epochCounter \in [Node -> Nat] /\ linkEvents \in Nat
    BY DEF Init
  <2>4. queue \in Seq(Withdrawal) /\ dispatching \in BOOLEAN /\ (dispatching <=> queue # <<>>)
    BY EmptySeq DEF Init
  <2>5. call \in [up : BOOLEAN, ends : Seq(LinkEnd)]
    BY EmptySeq DEF Init, NoCall
  <2>6. notify \in [active : BOOLEAN, impacts : SUBSET Impact, triggered : SUBSET Region,
                    emptied : Seq(Region)]
    BY EmptySeq DEF Init, NoNotify
  <2>7. broadcast \in [rk : Region, epoch : Nat, peers : SUBSET Node]
    BY <2>2 DEF Init, NoBroadcast
  <2> QED  BY <2>1, <2>3, <2>4, <2>5, <2>6, <2>7, <2>8 DEF TypeOK
<1> QED  BY <1>2 DEF Inv, Init, Frames, SpeakForSender, NoNotify, NoBroadcast, NoCall

\* The end of the link that the running call is about.
LEMMA HereType ==
  ASSUME TypeOK, call.ends # <<>>
  PROVE  /\ Here \in Node /\ Port \in Neighbour[Here] /\ Port \in Node
         /\ Neighbour[Here] \subseteq Node
         /\ Tail(call.ends) \in Seq(LinkEnd)
         /\ NextEnd => call' \in [up : BOOLEAN, ends : Seq(LinkEnd)]
<1>1. call.ends \in Seq(LinkEnd)
  BY DEF TypeOK
<1>2. Head(call.ends) \in LinkEnd /\ Tail(call.ends) \in Seq(LinkEnd)
  BY <1>1, HeadTailProperties
<1>3. NextEnd => call' \in [up : BOOLEAN, ends : Seq(LinkEnd)]
  BY <1>2 DEF NextEnd, TypeOK
<1>4. Here \in Node /\ Port \in Neighbour[Here] /\ Port \in Node
  BY <1>2 DEF Here, Port, LinkEnd
<1>5. Neighbour[Here] \subseteq Node
  BY <1>4, FabricAssumption
<1> QED  BY <1>2, <1>3, <1>4, <1>5

\* A call of SetLinkDown or SetLinkUp starts.
LEMMA SetLinkInv ==
  ASSUME Inv, NEW l \in Links, NEW up \in BOOLEAN, SetLink(l, up)
  PROVE  Inv'
<1> DEFINE ends == <<[node |-> l[1], port |-> l[2]], [node |-> l[2], port |-> l[1]]>>
<1>1. ~notify.active /\ notify.emptied = <<>> /\ notify.impacts = {} /\ broadcast.peers = {}
  BY DEF Inv, Frames, SetLink, Idle
<1>2. ends \in Seq(LinkEnd)
  <2>1. /\ [node |-> l[1], port |-> l[2]] \in LinkEnd
        /\ [node |-> l[2], port |-> l[1]] \in LinkEnd
    BY LinksAssumption, FabricAssumption DEF LinkEnd
  <2> QED  BY <2>1
<1>3. call' = [up |-> up, ends |-> ends]
  BY DEF SetLink
<1>4. linkEvents' \in Nat
  BY DEF SetLink, Inv, TypeOK
<1>5. UNCHANGED <<down, exceptions, lastEpochSeen, lastEpochSeenFromSender, epochCounter,
                  queue, dispatching, notify, broadcast>>
  BY DEF SetLink, routers, gates, fifo
<1>6. TypeOK'
  BY <1>2, <1>3, <1>4, <1>5 DEF Inv, TypeOK
<1>7. Frames'
  BY <1>1, <1>5 DEF Inv, Frames
<1>8. SpeakForSender'
  BY <1>1, <1>5, EmptySeq DEF Inv, SpeakForSender, Emptied
<1> QED  BY <1>6, <1>7, <1>8 DEF Inv

\* NotifyInterfaceUp runs while no withdrawal is under way.
LEMMA NotifyInterfaceUpInv ==
  ASSUME Inv, NotifyInterfaceUp
  PROVE  Inv'
<1>1. call.ends # <<>> /\ call.up /\ ~notify.active
  BY DEF NotifyInterfaceUp, Inv, Frames
<1>2. /\ Here \in Node /\ Port \in Neighbour[Here]
      /\ call' \in [up : BOOLEAN, ends : Seq(LinkEnd)]
  BY <1>1, HereType DEF NotifyInterfaceUp, Inv
<1>3. UNCHANGED <<lastEpochSeen, lastEpochSeenFromSender, epochCounter,
                  queue, dispatching, notify, broadcast, linkEvents>>
  BY DEF NotifyInterfaceUp, gates, fifo
<1>4. /\ down' \in [Node -> SUBSET Node]
      /\ \A n \in Node : down'[n] \subseteq Neighbour[n] /\ IsTable(n, exceptions'[n])
      /\ DOMAIN exceptions' = Node
  <2>1. CASE UNCHANGED <<down, exceptions>>
    BY <2>1 DEF Inv, TypeOK
  <2>2. CASE /\ down' = [down EXCEPT ![Here] = @ \ {Port}]
             /\ exceptions' = [exceptions EXCEPT ![Here] =
                                 Restored(@, Impacts(Here, Port), down[Here] \ {Port})]
    <3>1. IsTable(Here, Restored(exceptions[Here], Impacts(Here, Port), down[Here] \ {Port}))
      BY <1>2, ImpactsType, RestoredType DEF Inv, TypeOK
    <3>2. \A n \in Node : IsTable(n, exceptions'[n])
      BY <1>2, <2>2, <3>1 DEF Inv, TypeOK
    <3> QED  BY <1>2, <2>2, <3>2 DEF Inv, TypeOK
  <2> QED  BY <2>1, <2>2 DEF NotifyInterfaceUp, routers
<1>5. TypeOK'
  BY <1>2, <1>3, <1>4 DEF Inv, TypeOK
<1>6. Frames'
  BY <1>1, <1>3 DEF Inv, Frames
<1>7. SpeakForSender'
  BY <1>1, <1>3, EmptySeq DEF Inv, Frames, SpeakForSender
<1> QED  BY <1>5, <1>6, <1>7 DEF Inv

\* NotifyInterfaceDown returns at once or opens its frame.
LEMMA NotifyInterfaceDownInv ==
  ASSUME Inv, NotifyInterfaceDown
  PROVE  Inv'
<1>1. call.ends # <<>> /\ ~call.up /\ ~notify.active
  BY DEF NotifyInterfaceDown
<1>2. /\ Here \in Node /\ Port \in Neighbour[Here] /\ Neighbour[Here] \subseteq Node
      /\ NextEnd => call' \in [up : BOOLEAN, ends : Seq(LinkEnd)]
  BY <1>1, HereType DEF Inv
<1>3. UNCHANGED <<exceptions, lastEpochSeen, lastEpochSeenFromSender, epochCounter,
                  queue, dispatching, broadcast, linkEvents>>
  BY DEF NotifyInterfaceDown, gates, fifo
<1>4. /\ notify.impacts = {} /\ notify.emptied = <<>> /\ broadcast.peers = {} /\ queue = <<>>
  BY <1>1 DEF Inv, Frames
<1>5. CASE UNCHANGED <<down, notify>> /\ NextEnd
  <2>1. TypeOK'
    BY <1>2, <1>3, <1>5 DEF Inv, TypeOK
  <2>2. Frames'
    BY <1>1, <1>3, <1>4, <1>5 DEF Frames
  <2>3. SpeakForSender'
    BY <1>3, <1>4, <1>5, EmptySeq DEF SpeakForSender
  <2> QED  BY <2>1, <2>2, <2>3 DEF Inv
<1>6. CASE /\ down' = [down EXCEPT ![Here] = @ \cup {Port}]
           /\ notify' = [NoNotify EXCEPT !.active = TRUE, !.impacts = Impacts(Here, Port)]
           /\ UNCHANGED call
  <2>1. /\ notify'.active = TRUE /\ notify'.impacts = Impacts(Here, Port)
        /\ notify'.triggered = {} /\ notify'.emptied = <<>>
        /\ notify' \in [active : BOOLEAN, impacts : SUBSET Impact,
                        triggered : SUBSET Region, emptied : Seq(Region)]
    BY <1>2, <1>6, ImpactsType, EmptySeq DEF NoNotify
  <2>2. /\ down' \in [Node -> SUBSET Node]
        /\ \A n \in Node : down'[n] \subseteq Neighbour[n]
    BY <1>2, <1>6 DEF Inv, TypeOK
  <2>3. TypeOK'
    BY <1>3, <1>6, <2>1, <2>2 DEF Inv, TypeOK
  <2>4. Frames'
    BY <1>1, <1>2, <1>6, <2>1, ImpactsType DEF Frames, Here
  <2>5. SpeakForSender'
    BY <1>3, <1>4, <2>1, EmptySeq DEF SpeakForSender
  <2> QED  BY <2>3, <2>4, <2>5 DEF Inv
<1> QED  BY <1>5, <1>6 DEF NotifyInterfaceDown

\* NotifyInterfaceDown returns when all its withdrawals have been handled.
LEMMA NotifyReturnsInv ==
  ASSUME Inv, NotifyReturns
  PROVE  Inv'
<1>1. /\ notify.active /\ broadcast.peers = {} /\ queue = <<>>
      /\ call.ends # <<>>
  BY DEF NotifyReturns, NotifyDone, BroadcastDone, QueueDrained, Inv, TypeOK, Frames
<1>2. UNCHANGED <<down, exceptions, lastEpochSeen, lastEpochSeenFromSender, epochCounter,
                  queue, dispatching, broadcast, linkEvents>>
  BY DEF NotifyReturns, routers, gates, fifo
<1>3. /\ ~notify'.active /\ notify'.impacts = {} /\ notify'.triggered = {}
      /\ notify'.emptied = <<>>
      /\ notify' \in [active : BOOLEAN, impacts : SUBSET Impact,
                      triggered : SUBSET Region, emptied : Seq(Region)]
  BY EmptySeq DEF NotifyReturns, NoNotify
<1>4. call' \in [up : BOOLEAN, ends : Seq(LinkEnd)]
  BY <1>1, HereType DEF NotifyReturns, Inv
<1>5. TypeOK'
  BY <1>2, <1>3, <1>4 DEF Inv, TypeOK
<1>6. Frames'
  BY <1>1, <1>2, <1>3 DEF Frames
<1>7. SpeakForSender'
  BY <1>1, <1>2, <1>3, EmptySeq DEF SpeakForSender
<1> QED  BY <1>5, <1>6, <1>7 DEF Inv

\* One turn of the loop of NotifyInterfaceDown.
LEMMA UpdateRegionInv ==
  ASSUME Inv, NEW i \in notify.impacts, UpdateRegion(i)
  PROVE  Inv'
<1> DEFINE avail == Available(Here, i.ports)
           emptied == EmptiedRegions(exceptions[Here], i.rk, avail, avail \cup {Port})
                        \ notify.triggered
<1>1. /\ notify.active /\ broadcast.peers = {} /\ queue = <<>> /\ call.ends # <<>> /\ ~call.up
  BY DEF UpdateRegion, BroadcastDone, QueueDrained, Inv, TypeOK, Frames
<1>2. /\ Here \in Node /\ i.rk \in Region /\ i.ports \subseteq Neighbour[Here]
      /\ avail \in SUBSET Neighbour[Here] /\ IsTable(Here, exceptions[Here])
  BY <1>1, HereType DEF Inv, TypeOK, Frames, Impact, Available
<1>3. /\ exceptions' = [exceptions EXCEPT ![Here] = UpdatedTable(@, i.rk, avail)]
      /\ UNCHANGED <<down, lastEpochSeen, lastEpochSeenFromSender, epochCounter,
                     queue, dispatching, call, broadcast, linkEvents>>
  BY DEF UpdateRegion, gates, fifo
<1>4. PICK s \in Listings(emptied) :
        notify' = [notify EXCEPT !.impacts = @ \ {i}, !.triggered = @ \cup emptied, !.emptied = s]
  BY DEF UpdateRegion
<1>5. DOMAIN exceptions' = Node /\ \A n \in Node : IsTable(n, exceptions'[n])
  BY <1>2, <1>3, UpdateType DEF Inv, TypeOK
<1>6. exceptions'[Here] = UpdatedTable(exceptions[Here], i.rk, avail)
  BY <1>2, <1>3 DEF Inv, TypeOK
<1>7. s \in Seq(EmptyRegions(exceptions'[Here]))
  <2>1. emptied \in SUBSET EmptiedRegions(exceptions[Here], i.rk, avail, avail \cup {Port})
    OBVIOUS
  <2> HIDE DEF emptied, avail
  <2>2. s \in Seq(EmptyRegions(UpdatedTable(exceptions[Here], i.rk, avail)))
    BY <1>2, <1>4, <2>1, EmptiedListing
  <2> QED  BY <1>6, <2>2
<1>8. s \in Seq(Region) /\ emptied \subseteq Region
  <2>1. emptied \subseteq Region
    BY <1>2 DEF EmptiedRegions, UpdatedTable, IsTable
  <2>2. EmptyRegions(exceptions'[Here]) \subseteq Region
    BY DEF EmptyRegions
  <2> QED  BY <1>7, <2>1, <2>2, SeqMonotonic
<1> HIDE DEF emptied, avail
<1>9. /\ notify'.active = TRUE /\ notify'.emptied = s
      /\ notify'.impacts \subseteq notify.impacts
      /\ notify' \in [active : BOOLEAN, impacts : SUBSET Impact,
                      triggered : SUBSET Region, emptied : Seq(Region)]
  BY <1>1, <1>4, <1>8 DEF Inv, TypeOK
<1>10. TypeOK'
  BY <1>3, <1>5, <1>9 DEF Inv, TypeOK
<1>11. Frames'
  BY <1>1, <1>3, <1>9 DEF Inv, Frames, Here
<1>12. SpeakForSender'
  <2>1. Here' = Here
    BY <1>3 DEF Here
  <2> QED  BY <1>1, <1>3, <1>7, <1>9, <2>1, EmptySeq DEF SpeakForSender, Emptied
<1> QED  BY <1>10, <1>11, <1>12 DEF Inv

\* A gate that records an epoch is a gate.
LEMMA RecordType ==
  ASSUME NEW gate, NEW K, IsGate(gate, K), NEW keys \in SUBSET K, NEW epoch \in Nat
  PROVE  IsGate(Record(gate, keys, epoch), K)
BY DEF IsGate, Record

\* The originator withdraws a region it has emptied.
LEMMA WithdrawInv ==
  ASSUME Inv, Withdraw
  PROVE  Inv'
<1> DEFINE rk == Head(notify.emptied)
           epoch == epochCounter[Here] + 1
           S == EmptyRegions(exceptions[Here])
<1>1. /\ notify.active /\ broadcast.peers = {} /\ queue = <<>> /\ call.ends # <<>> /\ ~call.up
      /\ notify.emptied # <<>>
  BY DEF Withdraw, BroadcastDone, QueueDrained, Inv, TypeOK, Frames
<1>2. /\ Here \in Node /\ Neighbour[Here] \subseteq Node /\ epoch \in Nat
  <2>1. Here \in Node /\ Neighbour[Here] \subseteq Node
    BY <1>1, HereType DEF Inv
  <2> QED  BY <2>1 DEF Inv, TypeOK
<1>3. /\ rk \in Region /\ Emptied(Here, rk) /\ Tail(notify.emptied) \in Seq(S)
  <2>1. notify.emptied \in Seq(S)
    BY DEF Inv, SpeakForSender
  <2>2. Head(notify.emptied) \in S /\ Tail(notify.emptied) \in Seq(S)
    BY <1>1, <2>1, HeadTailProperties
  <2> QED  BY <2>2 DEF EmptyRegions, Emptied
<1>4. Tail(notify.emptied) \in Seq(Region)
  BY <1>1, HeadTailProperties DEF Inv, TypeOK
<1>5. /\ epochCounter' = [epochCounter EXCEPT ![Here] = epoch]
      /\ lastEpochSeen' = [lastEpochSeen EXCEPT ![Here] = Record(@, {<<Here, rk>>}, epoch)]
      /\ broadcast' = [rk |-> rk, epoch |-> epoch, peers |-> Peers(Here, Port)]
      /\ notify' = [notify EXCEPT !.emptied = Tail(@)]
      /\ UNCHANGED <<down, exceptions, lastEpochSeenFromSender, queue, dispatching,
                     call, linkEvents>>
  BY DEF Withdraw, routers, fifo
<1>6. /\ \A n \in Node : IsGate(lastEpochSeen'[n], Node \X Region)
      /\ DOMAIN lastEpochSeen' = Node
  <2>1. IsGate(Record(lastEpochSeen[Here], {<<Here, rk>>}, epoch), Node \X Region)
    <3>1. IsGate(lastEpochSeen[Here], Node \X Region)
      BY <1>2 DEF Inv, TypeOK
    <3> HIDE DEF epoch, rk
    <3>2. {<<Here, rk>>} \subseteq Node \X Region
      BY <1>2, <1>3
    <3> QED  BY <1>2, <3>1, <3>2, RecordType
  <2> HIDE DEF epoch, rk
  <2> QED  BY <1>2, <1>5, <2>1 DEF Inv, TypeOK
<1>7. /\ broadcast' \in [rk : Region, epoch : Nat, peers : SUBSET Node]
      /\ epochCounter' \in [Node -> Nat]
  BY <1>2, <1>3, <1>5 DEF Peers, Inv, TypeOK
<1>8. /\ notify'.active = TRUE /\ notify'.emptied = Tail(notify.emptied)
      /\ notify'.impacts = notify.impacts
      /\ notify' \in [active : BOOLEAN, impacts : SUBSET Impact,
                      triggered : SUBSET Region, emptied : Seq(Region)]
  BY <1>1, <1>4, <1>5 DEF Inv, TypeOK
<1>9. TypeOK'
  BY <1>5, <1>6, <1>7, <1>8 DEF Inv, TypeOK
<1>10. Frames'
  BY <1>1, <1>5, <1>8 DEF Inv, Frames, Here
<1>11. SpeakForSender'
  <2>1. Here' = Here /\ exceptions' = exceptions /\ broadcast'.rk = rk
    BY <1>5 DEF Here
  <2> HIDE DEF rk, epoch
  <2> QED  BY <1>1, <1>3, <1>5, <1>8, <2>1, EmptySeq DEF SpeakForSender, Emptied
<1> QED  BY <1>9, <1>10, <1>11 DEF Inv

\* The originator enqueues the withdrawal for one peer.
LEMMA SendToPeerInv ==
  ASSUME Inv, NEW p \in broadcast.peers, SendToPeer(p)
  PROVE  Inv'
<1> DEFINE w == [rk |-> broadcast.rk, origin |-> Here, epoch |-> broadcast.epoch,
                 from |-> Here, peers |-> {p}]
           S == {x \in Withdrawal : Emptied(x.from, x.rk)}
<1>1. /\ notify.active /\ call.ends # <<>> /\ ~call.up
      /\ Emptied(Here, broadcast.rk)
  BY DEF Inv, Frames, SpeakForSender
<1>2. w \in S
  BY <1>1, HereType DEF Withdrawal, Inv, TypeOK
<1>3. /\ queue' = Append(queue, w) /\ dispatching' = TRUE
      /\ UNCHANGED <<down, exceptions, lastEpochSeen, lastEpochSeenFromSender, epochCounter,
                     call, notify, linkEvents>>
  BY DEF SendToPeer, routers, gates
<1>4. queue' \in Seq(S) /\ queue' # <<>>
  BY <1>2, <1>3, AppendProperties, EmptySeq DEF Inv, SpeakForSender
<1>5. queue' \in Seq(Withdrawal)
  BY <1>2, <1>3, AppendProperties DEF Inv, TypeOK
<1>6. /\ broadcast' \in [rk : Region, epoch : Nat, peers : SUBSET Node]
      /\ broadcast'.peers # {} => broadcast'.rk = broadcast.rk
  <2>1. NoBroadcast \in [rk : Region, epoch : Nat, peers : SUBSET Node] /\ NoBroadcast.peers = {}
    BY DEF NoBroadcast, Region
  <2> QED  BY <2>1 DEF SendToPeer, Inv, TypeOK
<1>7. TypeOK'
  BY <1>3, <1>4, <1>5, <1>6 DEF Inv, TypeOK
<1>8. Frames'
  BY <1>1, <1>3 DEF Inv, Frames, Here
<1>9. SpeakForSender'
  BY <1>1, <1>3, <1>4, <1>6 DEF Inv, SpeakForSender, Emptied, Here
<1> QED  BY <1>7, <1>8, <1>9 DEF Inv

\* The withdrawal that is about to be handled.
LEMMA EntryType ==
  ASSUME Inv, dispatching
  PROVE  /\ Entry \in Withdrawal /\ Emptied(Entry.from, Entry.rk) /\ queue # <<>>
         /\ Entry.rk \in Region /\ Entry.origin \in Node /\ Entry.from \in Node
         /\ Entry.epoch \in Nat
         /\ notify.active /\ call.ends # <<>> /\ ~call.up
<1>1. /\ queue \in Seq({w \in Withdrawal : Emptied(w.from, w.rk)}) /\ queue # <<>>
  BY DEF Inv, TypeOK, SpeakForSender
<1>2. Entry \in {w \in Withdrawal : Emptied(w.from, w.rk)}
  BY <1>1, HeadTailProperties DEF Entry
<1>3. notify.active /\ call.ends # <<>> /\ ~call.up
  BY <1>1 DEF Inv, Frames
<1> QED  BY <1>1, <1>2, <1>3 DEF Withdrawal

\* The gate per sender after a withdrawal has passed it.
LEMMA PassGatesType ==
  ASSUME Inv, NEW p \in Node, PassGates(p)
  PROVE  /\ DOMAIN lastEpochSeenFromSender' = Node
         /\ \A n \in Node : IsGate(lastEpochSeenFromSender'[n], Node \X Node)
<1>1. dispatching
  BY DEF PassGates
<1>2. {<<Entry.from, Entry.origin>>} \subseteq Node \X Node /\ Entry.epoch \in Nat
  BY <1>1, EntryType
<1>3. IsGate(Record(lastEpochSeenFromSender[p], {<<Entry.from, Entry.origin>>}, Entry.epoch),
             Node \X Node)
  BY <1>2, RecordType DEF Inv, TypeOK
<1> QED  BY <1>3 DEF PassGates, Inv, TypeOK

\* A handler that leaves the tables alone and pushes nothing: what remains is
\* the type of the gates.
LEMMA NoUpdateInv ==
  ASSUME Inv, NEW p \in Node, dispatching, Dequeue(p, <<>>),
         DOMAIN lastEpochSeen' = Node, DOMAIN lastEpochSeenFromSender' = Node,
         \A n \in Node : /\ IsGate(lastEpochSeen'[n], Node \X Region)
                         /\ IsGate(lastEpochSeenFromSender'[n], Node \X Node),
         UNCHANGED <<down, exceptions, epochCounter, call, notify, broadcast, linkEvents>>
  PROVE  Inv'
<1> DEFINE S == {w \in Withdrawal : Emptied(w.from, w.rk)}
<1>1. queue \in Seq(S) /\ queue # <<>> /\ notify.active
  BY EntryType DEF Inv, SpeakForSender
<1>2. \A w \in S : [w EXCEPT !.peers = @ \ {p}] \in S
  BY DEF Withdrawal
<1>3. queue' \in Seq(S) /\ dispatching' \in BOOLEAN /\ (dispatching' <=> queue' # <<>>)
  <2> HIDE DEF S
  <2> QED  BY <1>1, <1>2, DequeueType, EmptySeq
<1>4. queue' \in Seq(Withdrawal)
  BY <1>3, SeqMonotonic
<1>5. TypeOK'
  BY <1>3, <1>4 DEF Inv, TypeOK
<1>6. Frames'
  BY <1>1 DEF Inv, Frames, Here
<1>7. SpeakForSender'
  BY <1>3 DEF Inv, SpeakForSender, Emptied, Here
<1> QED  BY <1>5, <1>6, <1>7 DEF Inv

\* A withdrawal dropped by the gate per sender changes the queue only.
LEMMA DropRepeatedInv ==
  ASSUME Inv, NEW p \in Node, DropRepeated(p)
  PROVE  Inv'
BY NoUpdateInv DEF DropRepeated, routers, gates, Inv, TypeOK

\* A withdrawal ignored for its region is recorded by both gates only.
LEMMA IgnoreWithdrawalInv ==
  ASSUME Inv, NEW p \in Node, IgnoreWithdrawal(p)
  PROVE  Inv'
<1>1. dispatching /\ PassGates(p) /\ Dequeue(p, <<>>)
  BY DEF IgnoreWithdrawal, PassGates
<1>2. /\ DOMAIN lastEpochSeen' = Node
      /\ \A n \in Node : IsGate(lastEpochSeen'[n], Node \X Region)
  <2>1. {<<Entry.origin, Entry.rk>>} \subseteq Node \X Region /\ Entry.epoch \in Nat
    BY <1>1, EntryType
  <2>2. IsGate(Record(lastEpochSeen[p], {<<Entry.origin, Entry.rk>>}, Entry.epoch), Node \X Region)
    BY <2>1, RecordType DEF Inv, TypeOK
  <2> QED  BY <2>2 DEF IgnoreWithdrawal, Inv, TypeOK
<1>3. UNCHANGED <<down, exceptions, epochCounter, call, notify, broadcast, linkEvents>>
  BY DEF IgnoreWithdrawal, routers
<1> QED  BY <1>1, <1>2, <1>3, PassGatesType, NoUpdateInv

\* What a router holds for a region leads to its neighbours.
LEMMA CandidatesType ==
  ASSUME Inv, NEW p \in Node, NEW rk, NEW from
  PROVE  Candidates(p, rk, from) \subseteq Neighbour[p]
<1>1. \A dir, key : Pool(p, dir, key, from) \subseteq Neighbour[p]
  BY FabricAssumption DEF Pool, Available
<1>2. DefaultCandidates(p, rk, from) \subseteq Neighbour[p]
  <2> DEFINE pools == <<IF HasDownwardKey(p, rk) THEN Pool(p, "down", DownwardKey(p, rk), from)
                                                 ELSE {},
                        Pool(p, "up", rk, from), Pool(p, "up", <<>>, from),
                        Pool(p, "same", rk, from)>>
             usable == {i \in DOMAIN pools : pools[i] # {}}
             first == CHOOSE i \in usable : \A j \in usable : i <= j
  <2>1. DOMAIN pools = 1..4 /\ \A i \in 1..4 : pools[i] \subseteq Neighbour[p]
    BY <1>1
  <2>2. DefaultCandidates(p, rk, from) = IF usable = {} THEN {} ELSE pools[first]
    BY DEF DefaultCandidates
  <2> HIDE DEF pools
  <2>3. usable # {} => \E i \in usable : \A j \in usable : i <= j
    BY <2>1
  <2>4. usable # {} => first \in 1..4
    BY <2>1, <2>3
  <2> QED  BY <2>1, <2>2, <2>4
<1>3. rk \in DOMAIN exceptions[p] => exceptions[p][rk] \subseteq Neighbour[p]
  BY DEF Inv, TypeOK, IsTable
<1> QED  BY <1>2, <1>3 DEF Candidates

\* A router applies a withdrawal and passes on what it empties.
LEMMA ApplyWithdrawalInv ==
  ASSUME Inv, NEW p \in Node, ApplyWithdrawal(p)
  PROVE  Inv'
<1> DEFINE w == Entry
           cand == Candidates(p, w.rk, w.from)
           emptied == EmptiedRegions(exceptions[p], w.rk, cand \ {w.from}, cand)
           peers == Peers(p, w.from)
           pushed(s) == IF peers = {} THEN <<>>
                        ELSE [i \in DOMAIN s |-> [rk |-> s[i], origin |-> w.origin,
                                epoch |-> w.epoch, from |-> p, peers |-> peers]]
           S == {x \in Withdrawal : Emptied(x.from, x.rk)}
           T == {x \in Withdrawal : Emptied(x.from, x.rk)'}
<1>1. dispatching /\ PassGates(p)
  BY DEF ApplyWithdrawal, PassGates
<1>2. /\ w \in Withdrawal /\ w.rk \in Region /\ w.origin \in Node /\ w.from \in Node
      /\ w.epoch \in Nat /\ queue # <<>>
      /\ notify.active /\ call.ends # <<>> /\ ~call.up
  BY <1>1, EntryType
<1> HIDE DEF w
<1>3. /\ exceptions' = [exceptions EXCEPT ![p] = UpdatedTable(@, w.rk, cand \ {w.from})]
      /\ lastEpochSeen' = [lastEpochSeen EXCEPT ![p] =
           Record(@, {<<w.origin, r>> : r \in emptied \cup {w.rk}}, w.epoch)]
      /\ \E s \in Listings(emptied) : Dequeue(p, pushed(s))
      /\ UNCHANGED <<down, epochCounter, call, notify, broadcast, linkEvents>>
  BY DEF ApplyWithdrawal, w
<1>4. /\ IsTable(p, exceptions[p]) /\ cand \ {w.from} \in SUBSET Neighbour[p]
      /\ peers \in SUBSET Node
  <2>1. cand \subseteq Neighbour[p]
    BY CandidatesType
  <2> QED  BY <2>1, FabricAssumption DEF Inv, TypeOK, Peers
<1>5. emptied \subseteq Region
  BY <1>2, <1>4 DEF EmptiedRegions, UpdatedTable, IsTable
<1> HIDE DEF cand, peers
<1>6. /\ DOMAIN exceptions' = Node
      /\ \A n \in Node : IsTable(n, exceptions'[n])
      /\ exceptions'[p] = UpdatedTable(exceptions[p], w.rk, cand \ {w.from})
  BY <1>2, <1>3, <1>4, UpdateType DEF Inv, TypeOK
<1>7. /\ DOMAIN lastEpochSeen' = Node
      /\ \A n \in Node : IsGate(lastEpochSeen'[n], Node \X Region)
  <2> DEFINE keys == {<<w.origin, r>> : r \in emptied \cup {w.rk}}
  <2>1. keys \subseteq Node \X Region
    <3>1. emptied \cup {w.rk} \subseteq Region
      BY <1>2, <1>5
    <3> HIDE DEF emptied
    <3> QED  BY <1>2, <3>1
  <2> HIDE DEF keys
  <2>2. IsGate(Record(lastEpochSeen[p], keys, w.epoch), Node \X Region)
    BY <1>2, <2>1, RecordType DEF Inv, TypeOK
  <2>3. lastEpochSeen' = [lastEpochSeen EXCEPT ![p] = Record(@, keys, w.epoch)]
    BY <1>3 DEF keys
  <2> QED  BY <2>2, <2>3 DEF Inv, TypeOK
<1>8. \A n \in Node : \A r : Emptied(n, r) => Emptied(n, r)'
  <2>1. \A r \in DOMAIN exceptions[p] : /\ r \in DOMAIN exceptions'[p]
                                        /\ exceptions'[p][r] \subseteq exceptions[p][r]
    <3>1. DOMAIN exceptions[p] \subseteq Seq(Nat) /\ w.rk \in Seq(Nat)
      BY <1>2, <1>4 DEF IsTable, Region
    <3> DEFINE table == exceptions[p]
               left == cand \ {w.from}
    <3>2. /\ DOMAIN UpdatedTable(table, w.rk, left) = DOMAIN table \cup {w.rk}
          /\ \A r \in DOMAIN table : UpdatedTable(table, w.rk, left)[r] \subseteq table[r]
      <4> HIDE DEF table, left
      <4> QED  BY <3>1, UpdateShrinks DEF table
    <3> QED  BY <1>6, <3>2
  <2>2. \A n \in Node \ {p} : exceptions'[n] = exceptions[n]
    BY <1>3 DEF Inv, TypeOK
  <2> QED  BY <2>1, <2>2 DEF Emptied
<1>9. S \subseteq T
  BY <1>8 DEF Withdrawal
<1>10. PICK s \in Listings(emptied) : Dequeue(p, pushed(s))
  BY <1>3
<1>11. s \in Seq(EmptyRegions(exceptions'[p]))
  BY <1>2, <1>4, <1>6, EmptiedListing
<1>12. pushed(s) \in Seq(T)
  <2>1. \A i \in DOMAIN s : s[i] \in Region /\ Emptied(p, s[i])'
    BY <1>11 DEF EmptyRegions, Emptied
  <2>2. \A i \in DOMAIN s : [rk |-> s[i], origin |-> w.origin, epoch |-> w.epoch,
                             from |-> p, peers |-> peers] \in T
    BY <1>2, <1>4, <2>1 DEF Withdrawal
  <2>3. DOMAIN s = 1..Len(s) /\ Len(s) \in Nat
    BY <1>11
  <2> HIDE DEF T
  <2> QED  BY <2>2, <2>3
<1>13. queue' \in Seq(T) /\ dispatching' \in BOOLEAN /\ (dispatching' <=> queue' # <<>>)
  <2>1. queue \in Seq(T)
    BY <1>9, SeqMonotonic DEF Inv, SpeakForSender
  <2>2. \A x \in T : [x EXCEPT !.peers = @ \ {p}] \in T
    BY DEF Withdrawal
  <2> HIDE DEF T, pushed
  <2> QED  BY <1>2, <1>10, <1>12, <2>1, <2>2, DequeueType
<1>14. queue' \in Seq(Withdrawal)
  BY <1>13, SeqMonotonic
<1>15. TypeOK'
  BY <1>1, <1>3, <1>6, <1>7, <1>13, <1>14, PassGatesType DEF Inv, TypeOK
<1>16. Frames'
  BY <1>2, <1>3 DEF Inv, Frames, Here
<1>17. SpeakForSender'
  <2>1. Here \in Node /\ Here' = Here
    BY <1>2, <1>3, HereType DEF Inv, Here
  <2>2. EmptyRegions(exceptions[Here]) \subseteq EmptyRegions(exceptions'[Here])
    BY <1>8, <2>1 DEF EmptyRegions, Emptied
  <2>3. notify'.emptied \in Seq(EmptyRegions(exceptions'[Here']))
    BY <1>3, <2>1, <2>2, SeqMonotonic DEF Inv, SpeakForSender
  <2>4. broadcast'.peers # {} => Emptied(Here, broadcast.rk)'
    BY <1>3, <1>8, <2>1 DEF Inv, SpeakForSender
  <2> QED  BY <1>3, <1>13, <2>1, <2>3, <2>4 DEF SpeakForSender, Emptied
<1> QED  BY <1>15, <1>16, <1>17 DEF Inv

\* Every step keeps the invariant.
LEMMA NextInv == Inv /\ [Next]_vars => Inv'
<1> SUFFICES ASSUME Inv, [Next]_vars PROVE Inv'
  OBVIOUS
<1>1. CASE UNCHANGED vars
  BY <1>1 DEF vars, routers, gates, fifo, Inv, TypeOK, Frames, SpeakForSender, Emptied, Here
<1>2. ASSUME NEW l \in Links, SetLinkDown(l) PROVE Inv'
  BY <1>2, SetLinkInv DEF SetLinkDown
<1>3. ASSUME NEW l \in Links, SetLinkUp(l) PROVE Inv'
  BY <1>3, SetLinkInv DEF SetLinkUp
<1>4. ASSUME Proceed PROVE Inv'
  BY <1>4, NotifyInterfaceUpInv, NotifyInterfaceDownInv, NotifyReturnsInv, UpdateRegionInv,
     WithdrawInv, SendToPeerInv, DropRepeatedInv, IgnoreWithdrawalInv, ApplyWithdrawalInv
     DEF Proceed, Dispatch
<1> QED  BY <1>1, <1>2, <1>3, <1>4 DEF Next, Fail, Recover

\* The tables, the gates and the frames of the running call keep their types,
\* and the frames nest, whatever links fail and recover in whatever order.
THEOREM TypeCorrect == Spec => []TypeOK
<1>1. Inv => TypeOK
  BY DEF Inv
<1> QED  BY <1>1, InitInv, NextInv, PTL DEF Spec

\* On every fabric and through every sequence of failures and recoveries, a
\* withdrawal waiting in g_withdrawQueue is true of its sender.
THEOREM WithdrawalsTrue == Spec => []WithdrawnIsEmpty
<1>1. Inv => WithdrawnIsEmpty
  <2> SUFFICES ASSUME Inv, NEW i \in DOMAIN queue
               PROVE  Emptied(queue[i].from, queue[i].rk)
    BY DEF WithdrawnIsEmpty, Emptied
  <2>1. queue \in Seq({w \in Withdrawal : Emptied(w.from, w.rk)})
    BY DEF Inv, SpeakForSender
  <2>2. queue[i] \in {w \in Withdrawal : Emptied(w.from, w.rk)}
    BY <2>1
  <2> QED  BY <2>2
<1> QED  BY <1>1, InitInv, NextInv, PTL DEF Spec

-----------------------------------------------------------------------------
(* One update at a time. *)

\* The withdrawals of one update.
OfUpdate(n, epoch) == {w \in Withdrawal : w.origin = n /\ w.epoch = epoch}

\* The router whose port went down is the origin of all that is under way, at
\* the epoch it has drawn last.
CurrentUpdate ==
  /\ broadcast.peers # {} => broadcast.epoch = epochCounter[Here]
  /\ queue \in Seq(OfUpdate(Here, epochCounter[Here]))

\* Nothing is under way outside NotifyInterfaceDown, nor between its sends.
LEMMA QuietSteps ==
  ASSUME Inv,
         \/ \E l \in Links, up \in BOOLEAN : SetLink(l, up)
         \/ NotifyInterfaceUp \/ NotifyInterfaceDown \/ NotifyReturns
  PROVE  queue' = <<>> /\ broadcast'.peers = {}
BY DEF Inv, TypeOK, Frames, SetLink, Idle, NotifyInterfaceUp, NotifyInterfaceDown, NotifyReturns,
       NotifyDone, BroadcastDone, QueueDrained, fifo

\* The drain of the queue keeps to the update it started with.
LEMMA DispatchUpdate ==
  ASSUME Inv, CurrentUpdate, NEW p \in Node,
         DropRepeated(p) \/ IgnoreWithdrawal(p) \/ ApplyWithdrawal(p)
  PROVE  CurrentUpdate'
<1> DEFINE S == OfUpdate(Here, epochCounter[Here])
<1>1. dispatching /\ UNCHANGED <<epochCounter, call, broadcast>>
  BY DEF DropRepeated, IgnoreWithdrawal, ApplyWithdrawal, PassGates, gates
<1>2. queue \in Seq(S) /\ queue # <<>> /\ Entry \in S
  <2>1. queue \in Seq(S) /\ queue # <<>>
    BY <1>1, EntryType DEF CurrentUpdate
  <2> QED  BY <2>1, HeadTailProperties DEF Entry
<1>3. \A w \in S : [w EXCEPT !.peers = @ \ {p}] \in S
  BY DEF OfUpdate, Withdrawal
<1>4. \E pushed \in Seq(S) : Dequeue(p, pushed)
  <2>1. CASE Dequeue(p, <<>>)
    BY <2>1, EmptySeq
  <2>2. CASE ApplyWithdrawal(p)
    <3> DEFINE cand == Candidates(p, Entry.rk, Entry.from)
               emptied == EmptiedRegions(exceptions[p], Entry.rk, cand \ {Entry.from}, cand)
               peers == Peers(p, Entry.from)
               pushed(s) == IF peers = {} THEN <<>>
                            ELSE [i \in DOMAIN s |-> [rk |-> s[i], origin |-> Entry.origin,
                                    epoch |-> Entry.epoch, from |-> p, peers |-> peers]]
    <3>1. PICK s \in Listings(emptied) : Dequeue(p, pushed(s))
      BY <2>2 DEF ApplyWithdrawal
    <3>2. /\ Entry.rk \in Region /\ Entry.epoch \in Nat
          /\ Entry.origin = Here /\ Entry.epoch = epochCounter[Here] /\ Entry.origin \in Node
      BY <1>1, <1>2, EntryType DEF OfUpdate
    <3>3. IsTable(p, exceptions[p]) /\ peers \in SUBSET Node
      BY FabricAssumption DEF Inv, TypeOK, Peers
    <3>4. s \in Seq(EmptyRegions(UpdatedTable(exceptions[p], Entry.rk, cand \ {Entry.from})))
      <4> HIDE DEF cand
      <4> QED  BY <3>1, <3>2, <3>3, EmptiedListing
    <3>5. DOMAIN s = 1..Len(s) /\ Len(s) \in Nat /\ \A i \in DOMAIN s : s[i] \in Region
      BY <3>4 DEF EmptyRegions
    <3> HIDE DEF peers
    <3>6. \A i \in DOMAIN s : [rk |-> s[i], origin |-> Entry.origin, epoch |-> Entry.epoch,
                               from |-> p, peers |-> peers] \in S
      BY <3>2, <3>3, <3>5 DEF OfUpdate, Withdrawal
    <3>7. pushed(s) \in Seq(S)
      <4> HIDE DEF S
      <4> QED  BY <3>5, <3>6
    <3> QED  BY <3>1, <3>7
  <2> QED  BY <2>1, <2>2 DEF DropRepeated, IgnoreWithdrawal
<1>5. queue' \in Seq(S)
  <2> HIDE DEF S
  <2> QED  BY <1>2, <1>3, <1>4, DequeueType
<1> QED  BY <1>1, <1>5 DEF CurrentUpdate, Here

\* No step lets a second update into the queue.
LEMMA NextUpdate == Inv /\ CurrentUpdate /\ [Next]_vars => CurrentUpdate'
<1> SUFFICES ASSUME Inv, CurrentUpdate, [Next]_vars PROVE CurrentUpdate'
  OBVIOUS
<1>1. ASSUME queue' = <<>>, broadcast'.peers = {} PROVE CurrentUpdate'
  BY <1>1, EmptySeq DEF CurrentUpdate
<1>2. CASE UNCHANGED vars
  BY <1>2 DEF vars, gates, fifo, CurrentUpdate, Here
<1>3. CASE Fail \/ Recover
  BY <1>1, <1>3, QuietSteps DEF Fail, Recover, SetLinkDown, SetLinkUp
<1>4. CASE NotifyInterfaceUp \/ NotifyInterfaceDown \/ NotifyReturns
  BY <1>1, <1>4, QuietSteps
<1>5. ASSUME NEW i \in notify.impacts, UpdateRegion(i) PROVE CurrentUpdate'
  BY <1>1, <1>5 DEF UpdateRegion, BroadcastDone, QueueDrained, fifo, Inv, TypeOK
<1>6. CASE Withdraw
  <2>1. call.ends # <<>> /\ queue = <<>>
    BY <1>6 DEF Withdraw, BroadcastDone, QueueDrained, Inv, TypeOK, Frames
  <2>2. Here \in Node /\ Here' = Here /\ queue' = <<>>
    BY <1>6, <2>1, HereType DEF Withdraw, Inv, Here, fifo
  <2>3. broadcast'.epoch = epochCounter'[Here]
    BY <1>6, <2>2 DEF Withdraw, Inv, TypeOK
  <2> QED  BY <2>2, <2>3, EmptySeq DEF CurrentUpdate
<1>7. ASSUME NEW p \in broadcast.peers, SendToPeer(p) PROVE CurrentUpdate'
  <2> DEFINE w == [rk |-> broadcast.rk, origin |-> Here, epoch |-> broadcast.epoch,
                   from |-> Here, peers |-> {p}]
  <2>1. call.ends # <<>> /\ queue' = Append(queue, w) /\ UNCHANGED <<epochCounter, call>>
    BY <1>7 DEF SendToPeer, Inv, Frames, gates
  <2>2. Here' = Here
    BY <2>1 DEF Here
  <2>3. w \in OfUpdate(Here, epochCounter[Here])
    BY <2>1, HereType DEF CurrentUpdate, OfUpdate, Withdrawal, Inv, TypeOK
  <2>4. queue' \in Seq(OfUpdate(Here, epochCounter[Here]))
    BY <2>1, <2>3, AppendProperties DEF CurrentUpdate
  <2>5. broadcast'.peers # {} => broadcast'.epoch = broadcast.epoch
    BY <1>7 DEF SendToPeer, NoBroadcast, Inv, TypeOK
  <2> QED  BY <2>1, <2>2, <2>4, <2>5 DEF CurrentUpdate
<1>8. CASE Dispatch
  BY <1>8, DispatchUpdate DEF Dispatch
<1> QED  BY <1>2, <1>3, <1>4, <1>5, <1>6, <1>7, <1>8 DEF Next, Proceed

\* The queue never mixes two updates, on any fabric: the two epoch gates may
\* take an epoch for the identity of an update.
THEOREM OneUpdate == Spec => []OneUpdateInFlight
<1>1. Init => CurrentUpdate
  BY EmptySeq DEF Init, CurrentUpdate, NoBroadcast
<1>2. CurrentUpdate => OneUpdateInFlight
  <2> SUFFICES ASSUME CurrentUpdate, NEW i \in DOMAIN queue, NEW j \in DOMAIN queue
               PROVE  /\ queue[i].origin = queue[j].origin
                      /\ queue[i].epoch = epochCounter[queue[i].origin]
    BY DEF OneUpdateInFlight
  <2>1. \A k \in DOMAIN queue : queue[k] \in OfUpdate(Here, epochCounter[Here])
    BY DEF CurrentUpdate
  <2>2. \A k \in DOMAIN queue : queue[k].origin = Here /\ queue[k].epoch = epochCounter[Here]
    BY <2>1 DEF OfUpdate
  <2> QED  BY <2>2
<1> QED  BY <1>1, <1>2, InitInv, NextInv, NextUpdate, PTL DEF Spec

-----------------------------------------------------------------------------
(* The two ends of a link. *)

Agree(a, b) == b \in down[a] <=> a \in down[b]
OthersAgree(a, b) == \A l \in Links : {l[1], l[2]} # {a, b} => Agree(l[1], l[2])
End(a, b) == [node |-> a, port |-> b]

\* Between calls all links agree; during a call all but the link it is about,
\* whose first end, once notified, has the state asked for.
LinkStates ==
  /\ notify.active => Port \in down[Here]
  /\ \/ call.ends = <<>> /\ \A l \in Links : Agree(l[1], l[2])
     \/ \E a, b \in Node :
          /\ a # b /\ OthersAgree(a, b)
          /\ \/ call.ends = <<End(a, b), End(b, a)>>
             \/ call.ends = <<End(b, a)>> /\ (b \in down[a] <=> ~call.up)

\* An end has been notified: its state is the one asked for, nothing else has
\* changed, and the call turns to the other end or returns.
LEMMA EndNotified ==
  ASSUME TypeOK, LinkStates, call.ends # <<>>, NextEnd, ~notify'.active,
         down' = [down EXCEPT ![Here] = IF call.up THEN @ \ {Port} ELSE @ \cup {Port}]
  PROVE  LinkStates'
<1>1. PICK a \in Node, b \in Node :
        /\ a # b /\ OthersAgree(a, b)
        /\ \/ call.ends = <<End(a, b), End(b, a)>>
           \/ call.ends = <<End(b, a)>> /\ (b \in down[a] <=> ~call.up)
  BY DEF LinkStates
<1>2. call'.up = call.up /\ call'.ends = Tail(call.ends)
  BY DEF NextEnd, TypeOK
<1>3. down \in [Node -> SUBSET Node]
  BY DEF TypeOK
<1>4. CASE call.ends = <<End(a, b), End(b, a)>>
  <2>1. Here = a /\ Port = b /\ Tail(call.ends) = <<End(b, a)>>
    BY <1>4 DEF Here, Port, End
  <2>2. b \in down'[a] <=> ~call.up
    BY <1>3, <2>1
  <2>3. \A l \in Links : l \in Node \X Node
    BY LinksAssumption
  <2>4. \A m \in Node : \A n \in Node : {m, n} # {a, b} => (n \in down'[m] <=> n \in down[m])
    BY <1>3, <2>1
  <2>5. OthersAgree(a, b)'
    <3> SUFFICES ASSUME NEW l \in Links, {l[1], l[2]} # {a, b} PROVE Agree(l[1], l[2])'
      BY DEF OthersAgree
    <3>1. l[1] \in Node /\ l[2] \in Node /\ {l[2], l[1]} # {a, b}
      BY <2>3
    <3> QED  BY <1>1, <2>4, <3>1 DEF OthersAgree, Agree
  <2> QED  BY <1>1, <1>2, <2>1, <2>2, <2>5 DEF LinkStates
<1>5. CASE call.ends = <<End(b, a)>> /\ (b \in down[a] <=> ~call.up)
  <2>1. Here = b /\ Port = a /\ Tail(call.ends) = <<>>
    BY <1>5 DEF Here, Port, End
  <2>2. (a \in down'[b] <=> ~call.up) /\ (b \in down'[a] <=> ~call.up)
    BY <1>1, <1>3, <1>5, <2>1
  <2>3. \A l \in Links : l \in Node \X Node
    BY LinksAssumption
  <2>4. \A m \in Node : \A n \in Node : {m, n} # {a, b} => (n \in down'[m] <=> n \in down[m])
    BY <1>3, <2>1
  <2>5. \A l \in Links : Agree(l[1], l[2])'
    <3> SUFFICES ASSUME NEW l \in Links PROVE Agree(l[1], l[2])'
      OBVIOUS
    <3>1. l[1] \in Node /\ l[2] \in Node
      BY <2>3
    <3>2. CASE {l[1], l[2]} = {a, b}
      BY <2>2, <3>2 DEF Agree
    <3>3. CASE {l[1], l[2]} # {a, b}
      BY <1>1, <2>4, <3>1, <3>3 DEF OthersAgree, Agree
    <3> QED  BY <3>2, <3>3
  <2> QED  BY <1>2, <2>1, <2>5 DEF LinkStates
<1> QED  BY <1>1, <1>4, <1>5

\* Every step keeps track of the ends.
LEMMA NextLinkStates == Inv /\ LinkStates /\ [Next]_vars => LinkStates'
<1> SUFFICES ASSUME Inv, LinkStates, [Next]_vars PROVE LinkStates'
  OBVIOUS
<1>1. ASSUME UNCHANGED <<down, call>>, notify'.active => notify.active PROVE LinkStates'
  BY <1>1 DEF LinkStates, Here, Port, Agree, OthersAgree
<1>2. CASE UNCHANGED vars
  BY <1>1, <1>2 DEF vars, routers
<1>3. ASSUME NEW l \in Links, NEW up \in BOOLEAN, SetLink(l, up) PROVE LinkStates'
  <2>1. call'.ends = <<End(l[1], l[2]), End(l[2], l[1])>> /\ UNCHANGED <<down, notify>>
    BY <1>3 DEF SetLink, End, routers
  <2>2. l[1] \in Node /\ l[2] \in Node /\ l[1] # l[2]
    BY LinksAssumption, FabricAssumption
  <2>3. call.ends = <<>> /\ ~notify.active
    BY <1>3 DEF SetLink, Idle, Inv, Frames
  <2>4. \A k \in Links : Agree(k[1], k[2])
    BY <2>3 DEF LinkStates
  <2>5. OthersAgree(l[1], l[2])'
    BY <2>1, <2>4 DEF OthersAgree, Agree
  <2> QED  BY <2>1, <2>2, <2>3, <2>5 DEF LinkStates
<1>4. CASE NotifyInterfaceUp
  <2>1. call.ends # <<>> /\ call.up /\ NextEnd /\ ~notify'.active
    BY <1>4 DEF NotifyInterfaceUp, Inv, Frames
  <2>2. Here \in Node
    BY <2>1, HereType DEF Inv
  <2>3. down' = [down EXCEPT ![Here] = @ \ {Port}]
    BY <1>4, <2>2 DEF NotifyInterfaceUp, routers, Inv, TypeOK
  <2> QED  BY <2>1, <2>3, EndNotified DEF Inv
<1>5. CASE NotifyInterfaceDown
  <2>1. call.ends # <<>> /\ ~call.up /\ ~notify.active
    BY <1>5 DEF NotifyInterfaceDown
  <2>2. Here \in Node
    BY <2>1, HereType DEF Inv
  <2>3. CASE Port \in down[Here]
    <3>1. NextEnd /\ UNCHANGED <<down, notify>>
      BY <1>5, <2>3 DEF NotifyInterfaceDown
    <3>2. down' = [down EXCEPT ![Here] = @ \cup {Port}]
      BY <2>2, <2>3, <3>1 DEF Inv, TypeOK
    <3> QED  BY <2>1, <3>1, <3>2, EndNotified DEF Inv
  <2>4. CASE Port \notin down[Here]
    <3>1. /\ UNCHANGED call /\ down' = [down EXCEPT ![Here] = @ \cup {Port}]
      BY <1>5, <2>4 DEF NotifyInterfaceDown
    <3>2. Port' \in down'[Here']
      BY <2>2, <3>1 DEF Inv, TypeOK, Here, Port
    <3>3. PICK a \in Node, b \in Node :
            /\ a # b /\ OthersAgree(a, b)
            /\ \/ call.ends = <<End(a, b), End(b, a)>>
               \/ call.ends = <<End(b, a)>> /\ (b \in down[a] <=> ~call.up)
      BY <2>1 DEF LinkStates
    <3>4. {Here, Port} = {a, b}
      BY <3>3 DEF Here, Port, End
    <3>5. \A l \in Links : l[1] \in Node /\ l[2] \in Node
      BY LinksAssumption
    <3>6. \A m \in Node : \A n \in Node : {m, n} # {a, b} => (n \in down'[m] <=> n \in down[m])
      BY <2>2, <3>1, <3>4 DEF Inv, TypeOK
    <3>7. OthersAgree(a, b)'
      <4> SUFFICES ASSUME NEW l \in Links, {l[1], l[2]} # {a, b} PROVE Agree(l[1], l[2])'
        BY DEF OthersAgree
      <4>1. l[1] \in Node /\ l[2] \in Node /\ {l[2], l[1]} # {a, b}
        BY <3>5
      <4> QED  BY <3>3, <3>6, <4>1 DEF OthersAgree, Agree
    <3>8. call.ends = <<End(b, a)>> => (b \in down'[a] <=> b \in down[a])
      <4> SUFFICES ASSUME call.ends = <<End(b, a)>> PROVE b \in down'[a] <=> b \in down[a]
        OBVIOUS
      <4>1. Here = b
        BY DEF Here, End
      <4> QED  BY <2>2, <3>1, <3>3, <4>1 DEF Inv, TypeOK
    <3> QED  BY <3>1, <3>2, <3>3, <3>7, <3>8 DEF LinkStates
  <2> QED  BY <2>3, <2>4
<1>6. CASE NotifyReturns
  <2>1. call.ends # <<>> /\ ~call.up /\ NextEnd /\ ~notify'.active /\ Port \in down[Here]
    BY <1>6 DEF NotifyReturns, NoNotify, Inv, Frames, LinkStates
  <2>2. Here \in Node
    BY <2>1, HereType DEF Inv
  <2>3. down' = [down EXCEPT ![Here] = @ \cup {Port}]
    BY <1>6, <2>1, <2>2 DEF NotifyReturns, routers, Inv, TypeOK
  <2> QED  BY <2>1, <2>3, EndNotified DEF Inv
<1>7. CASE Dispatch
  BY <1>1, <1>7 DEF Dispatch, DropRepeated, IgnoreWithdrawal, ApplyWithdrawal, routers
<1>8. ASSUME NEW i \in notify.impacts, UpdateRegion(i) PROVE LinkStates'
  BY <1>1, <1>8 DEF UpdateRegion
<1>9. ASSUME NEW p \in broadcast.peers, SendToPeer(p) PROVE LinkStates'
  BY <1>1, <1>9 DEF SendToPeer, routers
<1>10. CASE Withdraw
  BY <1>1, <1>10 DEF Withdraw, routers
<1>11. CASE Fail \/ Recover
  BY <1>3, <1>11 DEF Fail, Recover, SetLinkDown, SetLinkUp
<1> QED  BY <1>2, <1>4, <1>5, <1>6, <1>7, <1>8, <1>9, <1>10, <1>11 DEF Next, Proceed

\* Nothing has failed yet.
LEMMA InitLinkStates == Init => LinkStates
<1> SUFFICES ASSUME Init PROVE LinkStates
  OBVIOUS
<1>1. \A l \in Links : l[1] \in Node /\ l[2] \in Node
  BY LinksAssumption
<1> QED  BY <1>1 DEF Init, LinkStates, NoNotify, NoCall, Agree

\* The ends of every link agree between calls, on every fabric, also when a
\* link is failed twice or recovered when it is up.
THEOREM LinkEndsAgree == Spec => []EndsAgree
<1>1. LinkStates => EndsAgree
  <2> SUFFICES ASSUME LinkStates, call.ends = <<>>, NEW l \in Links PROVE Agree(l[1], l[2])
    BY DEF EndsAgree, Idle, Agree
  <2>1. \A a, b : <<End(a, b), End(b, a)>> # <<>> /\ <<End(b, a)>> # <<>>
    OBVIOUS
  <2> QED  BY <2>1 DEF LinkStates
<1> QED  BY <1>1, InitInv, NextInv, InitLinkStates, NextLinkStates, PTL DEF Spec

-----------------------------------------------------------------------------
(* While links only fail. *)

\* One insertion into the table of one router.
Insertion ==
  \E n \in Node, rk \in Region : \E cand :
    exceptions' = [exceptions EXCEPT ![n] = UpdatedTable(@, rk, cand)]

\* No call brings a port up.
OnlyFailures == Inv /\ ~call.up

\* A step without recoveries leaves all tables alone or inserts into one.
LEMMA FailureSteps ==
  ASSUME OnlyFailures, [Proceed \/ Fail]_vars
  PROVE  OnlyFailures' /\ (UNCHANGED exceptions \/ Insertion)
<1>1. Inv'
  <2>1. [Next]_vars
    BY DEF Next
  <2> QED  BY <2>1, NextInv DEF OnlyFailures
<1>2. ASSUME UNCHANGED vars PROVE ~call'.up /\ UNCHANGED exceptions
  BY <1>2 DEF vars, routers, OnlyFailures
<1>3. ASSUME NEW l \in Links, SetLinkDown(l) PROVE ~call'.up /\ UNCHANGED exceptions
  BY <1>3 DEF SetLinkDown, SetLink, routers
<1>4. ~NotifyInterfaceUp
  BY DEF NotifyInterfaceUp, OnlyFailures
<1>5. ASSUME NotifyInterfaceDown \/ NotifyReturns PROVE ~call'.up /\ UNCHANGED exceptions
  BY <1>5 DEF NotifyInterfaceDown, NotifyReturns, NextEnd, routers, OnlyFailures, Inv, TypeOK
<1>6. ASSUME NEW i \in notify.impacts, UpdateRegion(i) PROVE ~call'.up /\ Insertion
  <2>1. call.ends # <<>> /\ i.rk \in Region
    BY <1>6 DEF UpdateRegion, OnlyFailures, Inv, TypeOK, Frames, Impact
  <2>2. Here \in Node
    BY <2>1, HereType DEF OnlyFailures, Inv
  <2> QED  BY <1>6, <2>1, <2>2 DEF UpdateRegion, Insertion, OnlyFailures
<1>7. ASSUME Withdraw PROVE ~call'.up /\ UNCHANGED exceptions
  BY <1>7 DEF Withdraw, routers, OnlyFailures
<1>8. ASSUME NEW p \in broadcast.peers, SendToPeer(p) PROVE ~call'.up /\ UNCHANGED exceptions
  BY <1>8 DEF SendToPeer, routers, OnlyFailures
<1>9. ASSUME NEW p \in Node, DropRepeated(p) \/ IgnoreWithdrawal(p)
      PROVE  ~call'.up /\ UNCHANGED exceptions
  BY <1>9 DEF DropRepeated, IgnoreWithdrawal, routers, OnlyFailures
<1>10. ASSUME NEW p \in Node, ApplyWithdrawal(p) PROVE ~call'.up /\ Insertion
  <2>1. dispatching /\ UNCHANGED call
    BY <1>10 DEF ApplyWithdrawal, PassGates
  <2>2. Entry.rk \in Region
    BY <2>1, EntryType DEF OnlyFailures
  <2> QED  BY <1>10, <2>1, <2>2 DEF ApplyWithdrawal, Insertion, OnlyFailures
<1>11. ~call'.up /\ (UNCHANGED exceptions \/ Insertion)
  BY <1>2, <1>3, <1>4, <1>5, <1>6, <1>7, <1>8, <1>9, <1>10 DEF Proceed, Dispatch, Fail
<1> QED  BY <1>1, <1>11 DEF OnlyFailures

\* No call is running at the start.
LEMMA FailureInit == Init => OnlyFailures
BY InitInv DEF Init, NoCall, OnlyFailures

\* While links only fail, a more specific entry never offers an interface a
\* covering one has given up: on every fabric, at every point of a cascade, a
\* longest-prefix match cannot bypass a withdrawn aggregate.
THEOREM NestedTables == FailureSpec => []Nested
<1>1. Init => Nested
  BY DEF Init, NoExceptions, Nested
<1>2. OnlyFailures /\ Nested /\ [Proceed \/ Fail]_vars => Nested'
  <2> SUFFICES ASSUME OnlyFailures, Nested, [Proceed \/ Fail]_vars PROVE Nested'
    OBVIOUS
  <2>1. CASE UNCHANGED exceptions
    BY <2>1 DEF Nested
  <2>2. CASE Insertion
    <3>1. PICK n \in Node, rk \in Region :
            \E cand : exceptions' = [exceptions EXCEPT ![n] = UpdatedTable(@, rk, cand)]
      BY <2>2 DEF Insertion
    <3>2. PICK cand : exceptions' = [exceptions EXCEPT ![n] = UpdatedTable(@, rk, cand)]
      BY <3>1
    <3>3. /\ DOMAIN exceptions = Node /\ DOMAIN exceptions[n] \subseteq Seq(Nat)
          /\ rk \in Seq(Nat)
      BY DEF OnlyFailures, Inv, TypeOK, IsTable, Region
    <3>4. \A m \in Node : NestedTable(exceptions[m])
      BY DEF Nested, NestedTable
    <3>5. NestedTable(UpdatedTable(exceptions[n], rk, cand))
      BY <3>3, <3>4, UpdateKeepsNested
    <3>6. \A m \in Node : NestedTable(exceptions'[m])
      BY <3>2, <3>3, <3>4, <3>5
    <3> QED  BY <3>6 DEF Nested, NestedTable
  <2> QED  BY <2>1, <2>2, FailureSteps
<1>3. OnlyFailures /\ [Proceed \/ Fail]_vars => OnlyFailures'
  BY FailureSteps
<1> QED  BY <1>1, <1>2, <1>3, FailureInit, PTL DEF FailureSpec

\* While links only fail, no entry is lost and none gains an interface: the
\* routes of a packet under way can only become fewer.
THEOREM TablesShrink == FailureSpec => OnlyShrink
<1> DEFINE Shrinks == \A n \in Node : \A r \in DOMAIN exceptions[n] :
                        /\ r \in DOMAIN exceptions'[n]
                        /\ exceptions'[n][r] \subseteq exceptions[n][r]
<1>1. OnlyFailures /\ [Proceed \/ Fail]_vars => [Shrinks]_exceptions
  <2> SUFFICES ASSUME OnlyFailures, Insertion PROVE Shrinks
    BY FailureSteps
  <2>1. PICK n \in Node, rk \in Region :
          \E cand : exceptions' = [exceptions EXCEPT ![n] = UpdatedTable(@, rk, cand)]
    BY DEF Insertion
  <2>2. PICK cand : exceptions' = [exceptions EXCEPT ![n] = UpdatedTable(@, rk, cand)]
    BY <2>1
  <2>3. /\ DOMAIN exceptions = Node /\ DOMAIN exceptions[n] \subseteq Seq(Nat)
        /\ rk \in Seq(Nat)
    BY DEF OnlyFailures, Inv, TypeOK, IsTable, Region
  <2> DEFINE after == UpdatedTable(exceptions[n], rk, cand)
  <2>4. /\ DOMAIN after = DOMAIN exceptions[n] \cup {rk}
        /\ \A r \in DOMAIN exceptions[n] : after[r] \subseteq exceptions[n][r]
    BY <2>3, UpdateShrinks
  <2>5. exceptions'[n] = after /\ \A m \in Node \ {n} : exceptions'[m] = exceptions[m]
    BY <2>2, <2>3
  <2> QED  BY <2>4, <2>5
<1>2. OnlyFailures /\ [Proceed \/ Fail]_vars => OnlyFailures'
  BY FailureSteps
<1> QED  BY <1>1, <1>2, FailureInit, PTL DEF FailureSpec, OnlyShrink
===============================================================================
