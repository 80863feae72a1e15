-------------------------------- MODULE PortSet --------------------------------
(***************************************************************************)
(* PortSet: the port buckets of a router, with the lists of available      *)
(* ports, the buckets by field number and the index from ports to downward *)
(* keys that are kept beside them.                                         *)
(*                                                                         *)
(* A list of ports is a set, as no template puts a port into a bucket      *)
(* twice.  The maps are total: a key without an entry has the empty        *)
(* bucket, which is what every getter answers for it.                      *)
(***************************************************************************)
EXTENDS Naturals

CONSTANTS
  Port, Key,
  Group,      \* the bucket maps: downward, upward, one per same-level dimension
  Down,       \* the downward one
  FieldKey,   \* the keys TryParseSingleFieldKey reads as a number, no two alike
  MaxBuilds   \* bound on the number of Set* and Add* calls

ASSUME PortSetAssumption == Down \in Group /\ FieldKey \subseteq Key /\ MaxBuilds \in Nat

VARIABLES
  buckets,         \* m_downwardBuckets, m_upwardBuckets, m_sameLevelBuckets
  fieldBuckets,    \* m_downwardFieldBuckets
  keysByPort,      \* m_downwardKeysByPort
  availableBuckets,      \* m_availableDownwardBuckets and its siblings
  availableFieldBuckets, \* m_availableDownwardFieldBuckets
  failedPorts,     \* m_failedPorts
  builds           \* calls made so far

built == <<buckets, fieldBuckets, keysByPort>>
vars == <<built, availableBuckets, availableFieldBuckets, failedPorts, builds>>

Init ==
  /\ buckets = [g \in Group |-> [k \in Key |-> {}]]
  /\ availableBuckets = [g \in Group |-> [k \in Key |-> {}]]
  /\ fieldBuckets = [k \in FieldKey |-> {}]
  /\ availableFieldBuckets = [k \in FieldKey |-> {}]
  /\ keysByPort = [p \in Port |-> {}]
  /\ failedPorts = {}
  /\ builds = 0

-----------------------------------------------------------------------------
\* Templates and ReplicateTopologyInPlace fill the buckets before the first
\* failure; the lists of available ports are not rebuilt then.
BuildPhase ==
  /\ failedPorts = {} /\ builds < MaxBuilds
  /\ builds' = builds + 1
  /\ UNCHANGED <<failedPorts, availableBuckets>>

\* SetUpward and SetSameLevel with a new list, AddUpward and AddSameLevel with
\* the old list and one port more.
StoreOther(g, k, s) ==
  /\ BuildPhase /\ g # Down
  /\ buckets' = [buckets EXCEPT ![g][k] = s]
  /\ UNCHANGED <<fieldBuckets, keysByPort, availableFieldBuckets>>

Set(g, k, s) == StoreOther(g, k, s)
Add(g, k, p) == StoreOther(g, k, buckets[g][k] \cup {p})

\* The available ports of a number whose bucket changes are forgotten.
ForgetField(k) ==
  availableFieldBuckets' = [f \in FieldKey |-> IF f = k THEN {} ELSE availableFieldBuckets[f]]

\* Wrong: the ports of the old list stay in the index.
SetDownwardKeepsIndex(k, s) ==
  /\ BuildPhase
  /\ buckets' = [buckets EXCEPT ![Down][k] = s]
  /\ fieldBuckets' = [f \in FieldKey |-> IF f = k THEN s ELSE fieldBuckets[f]]
  /\ ForgetField(k)
  /\ keysByPort' = [p \in Port |-> IF p \in s THEN keysByPort[p] \cup {k} ELSE keysByPort[p]]

\* SetDownward: the bucket, its copy by number, and the index, from which the
\* ports of the old list are taken first.
SetDownward(k, s) ==
  /\ BuildPhase
  /\ buckets' = [buckets EXCEPT ![Down][k] = s]
  /\ fieldBuckets' = [f \in FieldKey |-> IF f = k THEN s ELSE fieldBuckets[f]]
  /\ ForgetField(k)
  /\ LET others == [p \in Port |-> IF p \in buckets[Down][k] THEN keysByPort[p] \ {k}
                                                             ELSE keysByPort[p]]
     IN keysByPort' = [p \in Port |-> IF p \in s THEN others[p] \cup {k} ELSE others[p]]

\* AddDownward: the port joins the bucket and, each as it is, the copy by
\* number and the index.
AddDownward(k, p) ==
  /\ BuildPhase
  /\ buckets' = [buckets EXCEPT ![Down][k] = @ \cup {p}]
  /\ fieldBuckets' = [f \in FieldKey |-> IF f = k THEN fieldBuckets[f] \cup {p}
                                                  ELSE fieldBuckets[f]]
  /\ ForgetField(k)
  /\ keysByPort' = [keysByPort EXCEPT ![p] = @ \cup {k}]

\* RebuildAvailableLists.
RebuildAvailableLists ==
  /\ availableBuckets' = [g \in Group |-> [k \in Key |-> buckets[g][k] \ failedPorts']]
  /\ availableFieldBuckets' = [k \in FieldKey |-> fieldBuckets[k] \ failedPorts']

\* MarkPortDown and MarkPortUp; neither does anything if the port already is in
\* the state asked for.
MarkPortDown(p) ==
  /\ p \notin failedPorts
  /\ failedPorts' = failedPorts \cup {p}
  /\ RebuildAvailableLists
  /\ UNCHANGED <<built, builds>>

MarkPortUp(p) ==
  /\ p \in failedPorts
  /\ failedPorts' = failedPorts \ {p}
  /\ RebuildAvailableLists
  /\ UNCHANGED <<built, builds>>

Next ==
  \/ \E g \in Group, k \in Key : (\E s \in SUBSET Port : Set(g, k, s))
                              \/ (\E p \in Port : Add(g, k, p))
  \/ \E k \in Key : (\E s \in SUBSET Port : SetDownward(k, s))
                 \/ (\E p \in Port : AddDownward(k, p))
  \/ \E p \in Port : MarkPortDown(p) \/ MarkPortUp(p)

Spec == Init /\ [][Next]_vars

-----------------------------------------------------------------------------
\* GetAvailableUpward, GetAvailableSameLevel, and GetAvailableDownward asked by
\* string: the bucket itself while no port is failed.
GetAvailable(g, k) == IF failedPorts = {} THEN buckets[g][k] ELSE availableBuckets[g][k]

\* GetAvailableDownward asked by number.
GetAvailableField(k) ==
  IF failedPorts = {} THEN fieldBuckets[k] ELSE availableFieldBuckets[k]

\* The answers of the getters, as AvailablePorts sees them.
Promise == INSTANCE AvailablePorts WITH
  ports <- buckets, failed <- failedPorts, keysOfPort <- keysByPort,
  available <- [g \in Group |-> [k \in Key |-> GetAvailable(g, k)]],
  byField <- [k \in FieldKey |-> GetAvailableField(k)]

\* A PortSet keeps the promise of AvailablePorts: through every sequence of
\* calls the lists kept beside the buckets, which are stale while buckets are
\* filled, never make a getter answer wrongly.
KeepsPromise == Promise!ASpec
===============================================================================
