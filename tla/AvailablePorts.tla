----------------------------- MODULE AvailablePorts -----------------------------
(***************************************************************************)
(* What a PortSet promises its router: at any time the buckets without the *)
(* failed ports, and the downward keys of a port.  A bucket is a set of    *)
(* ports here: its order only decides which flow takes which port.         *)
(***************************************************************************)
CONSTANTS
  Port, Key,
  Group,      \* the bucket maps: downward, upward, one per same-level dimension
  Down,       \* the downward one
  FieldKey    \* the keys that are also asked for as a number

VARIABLES
  ports,       \* ports[g][k]: the bucket as built
  failed,      \* the failed ports
  available,   \* what the getters of available ports answer
  byField,     \* what GetAvailableDownward answers to a number
  keysOfPort   \* what GetDownwardKeysByPort answers

avars == <<ports, failed, available, byField, keysOfPort>>

\* The getters answer what the buckets and the failed ports say.
Answers ==
  /\ available = [g \in Group |-> [k \in Key |-> ports[g][k] \ failed]]
  /\ byField = [k \in FieldKey |-> ports[Down][k] \ failed]
  /\ keysOfPort = [p \in Port |-> {k \in Key : p \in ports[Down][k]}]

AInit ==
  /\ ports = [g \in Group |-> [k \in Key |-> {}]]
  /\ failed = {}
  /\ Answers

\* A topology template changes one bucket, before any port has failed.
Build(g, k, bucket) ==
  /\ failed = {} /\ UNCHANGED failed
  /\ ports' = [ports EXCEPT ![g][k] = bucket]

\* A port fails, or recovers.
Fail(p) == p \notin failed /\ failed' = failed \cup {p} /\ UNCHANGED ports
Recover(p) == p \in failed /\ failed' = failed \ {p} /\ UNCHANGED ports

ANext ==
  /\ \/ \E g \in Group, k \in Key, bucket \in SUBSET Port : Build(g, k, bucket)
     \/ \E p \in Port : Fail(p) \/ Recover(p)
  /\ Answers'

ASpec == AInit /\ [][ANext]_avars
===============================================================================
