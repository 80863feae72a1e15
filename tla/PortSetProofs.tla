------------------------------ MODULE PortSetProofs ------------------------------
(***************************************************************************)
(* PortSet implements AvailablePorts, for all ports, keys and bucket maps. *)
(***************************************************************************)
EXTENDS PortSet, TLAPS

\* Type correctness of what a PortSet keeps.
TypeOK ==
  /\ buckets \in [Group -> [Key -> SUBSET Port]]
  /\ fieldBuckets \in [FieldKey -> SUBSET Port]
  /\ keysByPort \in [Port -> SUBSET Key]
  /\ failedPorts \in SUBSET Port

\* The copy by number and the index always follow the downward buckets.
Mirrored ==
  /\ \A k \in FieldKey : fieldBuckets[k] = buckets[Down][k]
  /\ \A p \in Port, k \in Key : k \in keysByPort[p] <=> p \in buckets[Down][k]

\* The lists of available ports are right whenever a getter reads them.
Rebuilt ==
  failedPorts # {} =>
    /\ \A g \in Group, k \in Key : availableBuckets[g][k] = buckets[g][k] \ failedPorts
    /\ \A k \in FieldKey : availableFieldBuckets[k] = fieldBuckets[k] \ failedPorts

Inv == TypeOK /\ Mirrored /\ Rebuilt

\* An empty PortSet.
LEMMA InitInv == Init => Inv
BY PortSetAssumption DEF Init, Inv, TypeOK, Mirrored, Rebuilt

\* Filling any bucket map but the downward one.
LEMMA StoreOtherInv ==
  ASSUME Inv, NEW g \in Group, NEW k \in Key, NEW s \in SUBSET Port, StoreOther(g, k, s)
  PROVE  Inv' /\ Promise!Build(g, k, s)
<1>1. /\ failedPorts = {} /\ failedPorts' = {} /\ g # Down
      /\ buckets' = [buckets EXCEPT ![g][k] = s]
      /\ UNCHANGED <<fieldBuckets, keysByPort>>
  BY DEF StoreOther, BuildPhase
<1>2. TypeOK'
  BY <1>1 DEF Inv, TypeOK
<1>3. buckets'[Down] = buckets[Down]
  BY <1>1, PortSetAssumption DEF Inv, TypeOK
<1>4. Mirrored'
  BY <1>1, <1>3 DEF Inv, Mirrored
<1> QED  BY <1>1, <1>2, <1>4 DEF Inv, Rebuilt, Promise!Build

\* A call that gives the downward bucket k the ports s, its copy too, and takes
\* k to the index of precisely those ports.
LEMMA DownwardInv ==
  ASSUME Inv, NEW k \in Key, NEW s \in SUBSET Port, BuildPhase,
         buckets' = [buckets EXCEPT ![Down][k] = s],
         fieldBuckets' = [f \in FieldKey |-> IF f = k THEN s ELSE fieldBuckets[f]],
         keysByPort' \in [Port -> SUBSET Key],
         \A p \in Port, j \in Key :
           j \in keysByPort'[p] <=> IF j = k THEN p \in s ELSE j \in keysByPort[p]
  PROVE  Inv' /\ Promise!Build(Down, k, s)
<1>1. failedPorts = {} /\ failedPorts' = {}
  BY DEF BuildPhase
<1>2. TypeOK'
  BY <1>1, PortSetAssumption DEF Inv, TypeOK
<1>3. \A j \in Key : buckets'[Down][j] = IF j = k THEN s ELSE buckets[Down][j]
  BY PortSetAssumption DEF Inv, TypeOK
<1>4. Mirrored'
  <2>1. \A f \in FieldKey : fieldBuckets'[f] = buckets'[Down][f]
    BY <1>3, PortSetAssumption DEF Inv, Mirrored
  <2>2. \A p \in Port, j \in Key : j \in keysByPort'[p] <=> p \in buckets'[Down][j]
    BY <1>3 DEF Inv, Mirrored
  <2> QED  BY <2>1, <2>2 DEF Mirrored
<1> QED  BY <1>1, <1>2, <1>4 DEF Inv, Rebuilt, Promise!Build

\* SetDownward is such a call.
LEMMA SetDownwardInv ==
  ASSUME Inv, NEW k \in Key, NEW s \in SUBSET Port, SetDownward(k, s)
  PROVE  Inv' /\ Promise!Build(Down, k, s)
<1>1. keysByPort' \in [Port -> SUBSET Key]
  BY DEF SetDownward, Inv, TypeOK
<1>2. \A p \in Port, j \in Key :
        j \in keysByPort'[p] <=> IF j = k THEN p \in s ELSE j \in keysByPort[p]
  BY DEF SetDownward, Inv, TypeOK, Mirrored
<1> QED  BY <1>1, <1>2, DownwardInv DEF SetDownward

\* So is AddDownward.
LEMMA AddDownwardInv ==
  ASSUME Inv, NEW k \in Key, NEW p \in Port, AddDownward(k, p)
  PROVE  Inv' /\ Promise!Build(Down, k, buckets[Down][k] \cup {p})
<1> DEFINE s == buckets[Down][k] \cup {p}
<1>1. s \in SUBSET Port /\ BuildPhase
  BY PortSetAssumption DEF AddDownward, Inv, TypeOK
<1>2. buckets' = [buckets EXCEPT ![Down][k] = s]
  BY DEF AddDownward
<1>3. fieldBuckets' = [f \in FieldKey |-> IF f = k THEN s ELSE fieldBuckets[f]]
  BY DEF AddDownward, Inv, Mirrored
<1>4. keysByPort' \in [Port -> SUBSET Key]
  BY DEF AddDownward, Inv, TypeOK
<1>5. \A q \in Port, j \in Key :
        j \in keysByPort'[q] <=> IF j = k THEN q \in s ELSE j \in keysByPort[q]
  BY DEF AddDownward, Inv, TypeOK, Mirrored
<1> QED  BY <1>1, <1>2, <1>3, <1>4, <1>5, DownwardInv

\* Every rebuild is right, whatever was stale before it.
LEMMA MarkInv ==
  ASSUME Inv, NEW p \in Port, MarkPortDown(p) \/ MarkPortUp(p)
  PROVE  Inv' /\ (Promise!Fail(p) \/ Promise!Recover(p))
<1>1. /\ RebuildAvailableLists /\ UNCHANGED <<buckets, fieldBuckets, keysByPort>>
      /\ failedPorts' \in SUBSET Port
  BY DEF MarkPortDown, MarkPortUp, built, Inv, TypeOK
<1>2. Inv'
  BY <1>1 DEF Inv, TypeOK, Mirrored, Rebuilt, RebuildAvailableLists
<1> QED  BY <1>1, <1>2 DEF MarkPortDown, MarkPortUp, Promise!Fail, Promise!Recover

\* Under the invariant every getter answers rightly.
LEMMA AnswersRight ==
  ASSUME Inv
  PROVE  Promise!Answers
<1>1. \A g \in Group, k \in Key : GetAvailable(g, k) = buckets[g][k] \ failedPorts
  BY DEF GetAvailable, Inv, Rebuilt
<1>2. \A k \in FieldKey : GetAvailableField(k) = buckets[Down][k] \ failedPorts
  BY DEF GetAvailableField, Inv, Rebuilt, Mirrored
<1>3. keysByPort = [p \in Port |-> {k \in Key : p \in buckets[Down][k]}]
  <2>1. \A p \in Port : keysByPort[p] = {k \in Key : p \in buckets[Down][k]}
    BY DEF Inv, TypeOK, Mirrored
  <2> QED  BY <2>1 DEF Inv, TypeOK
<1> QED  BY <1>1, <1>2, <1>3 DEF Promise!Answers

\* A PortSet implements AvailablePorts: getters that return a cached list, a
\* copy by number or an index never answer anything but what the buckets and
\* the failed ports say.
THEOREM PortSetImplements == Spec => KeepsPromise
<1>1. Init => Promise!AInit
  <2> SUFFICES ASSUME Init PROVE Promise!AInit
    OBVIOUS
  <2> QED  BY InitInv, AnswersRight DEF Init, Promise!AInit
<1>2. Inv /\ [Next]_vars => Inv' /\ [Promise!ANext]_(Promise!avars)
  <2> SUFFICES ASSUME Inv, [Next]_vars PROVE Inv' /\ [Promise!ANext]_(Promise!avars)
    OBVIOUS
  <2>1. CASE UNCHANGED vars
    <3>1. Inv'
      BY <2>1 DEF vars, built, Inv, TypeOK, Mirrored, Rebuilt
    <3>2. UNCHANGED Promise!avars
      BY <2>1 DEF vars, built, Promise!avars, GetAvailable, GetAvailableField
    <3> QED  BY <3>1, <3>2
  <2>2. CASE Next
    <3>1. Inv' /\ \/ \E g \in Group, k \in Key, bucket \in SUBSET Port : Promise!Build(g, k, bucket)
                  \/ \E p \in Port : Promise!Fail(p) \/ Promise!Recover(p)
      <4>1. ASSUME NEW g \in Group, NEW k \in Key, NEW s \in SUBSET Port, Set(g, k, s)
            PROVE  Inv' /\ Promise!Build(g, k, s)
        BY <4>1, StoreOtherInv DEF Set
      <4>2. ASSUME NEW g \in Group, NEW k \in Key, NEW p \in Port, Add(g, k, p)
            PROVE  Inv' /\ \E s \in SUBSET Port : Promise!Build(g, k, s)
        <5>1. buckets[g][k] \cup {p} \in SUBSET Port
          BY DEF Inv, TypeOK
        <5> QED  BY <4>2, <5>1, StoreOtherInv DEF Add
      <4>3. ASSUME NEW k \in Key, NEW s \in SUBSET Port, SetDownward(k, s)
            PROVE  Inv' /\ Promise!Build(Down, k, s)
        BY <4>3, SetDownwardInv
      <4>4. ASSUME NEW k \in Key, NEW p \in Port, AddDownward(k, p)
            PROVE  Inv' /\ \E s \in SUBSET Port : Promise!Build(Down, k, s)
        <5>1. buckets[Down][k] \cup {p} \in SUBSET Port
          BY PortSetAssumption DEF Inv, TypeOK
        <5> QED  BY <4>4, <5>1, AddDownwardInv
      <4>5. ASSUME NEW p \in Port, MarkPortDown(p) \/ MarkPortUp(p)
            PROVE  Inv' /\ (Promise!Fail(p) \/ Promise!Recover(p))
        BY <4>5, MarkInv
      <4> QED  BY <2>2, <4>1, <4>2, <4>3, <4>4, <4>5, PortSetAssumption DEF Next
    <3>2. Promise!Answers'
      BY <3>1, AnswersRight, PTL
    <3> QED  BY <3>1, <3>2 DEF Promise!ANext
  <2> QED  BY <2>1, <2>2
<1> QED  BY <1>1, <1>2, InitInv, PTL DEF Spec, KeepsPromise, Promise!ASpec
===============================================================================
