------------------------------- MODULE ClosFabric -------------------------------
(***************************************************************************)
(* The fabric a stack of ClosInterLevelTemplates builds.  Template l       *)
(* replicates what is below it Sub[l] times, creates Num[l] parents and    *)
(* splits parents and children into Grp[l] groups that are fully meshed.   *)
(* (A fat tree: Grp = 1 below the core and one group per aggregation       *)
(* switch of a pod at the core.)                                           *)
(*                                                                         *)
(* A node is <<level, copies, index>>: copies are the numbers of the       *)
(* enclosing replicas, outermost first, index counts within one replica.   *)
(***************************************************************************)
EXTENDS Integers, Sequences

CONSTANTS Levels, Sub, Num, Grp

ASSUME ClosAssumption ==
  /\ Levels \in Nat \ {0}
  /\ Sub \in [1..Levels -> Nat \ {0, 1}]   \* a template with one copy appends no field
  /\ Num \in [1..Levels -> Nat \ {0}]
  /\ Grp \in [1..Levels -> Nat \ {0}]

\* Nodes of level l per replica: CreateLevel(1) makes the one endpoint.
Width(l) == IF l = 0 THEN 1 ELSE Num[l]

ASSUME DivisibilityAssumption ==
  \A l \in 1..Levels : Num[l] % Grp[l] = 0 /\ Width(l - 1) % Grp[l] = 0

\* The replica numbers of the nodes of level l.
Copies(l) ==
  {c \in [1..(Levels - l) -> UNION {1..Sub[k] : k \in 1..Levels}] :
     \A i \in DOMAIN c : c[i] \in 1..Sub[Levels + 1 - i]}

ClosLevelNodes(l) == {<<l, c, i>> : c \in Copies(l), i \in 0..(Width(l) - 1)}
ClosNode == UNION {ClosLevelNodes(l) : l \in 0..Levels}

\* The group of template l that its parent i, or its child j, belongs to.
ParentGroup(l, i) == i \div (Num[l] \div Grp[l])
ChildGroup(l, j) == j \div (Width(l - 1) \div Grp[l])

\* Connect: a parent is linked to its group in every replica below it.
Connected(parent, child) ==
  LET l == parent[1]
  IN /\ child[1] = l - 1
     /\ SubSeq(child[2], 1, Levels - l) = parent[2]
     /\ ParentGroup(l, parent[3]) = ChildGroup(l, child[3])

Children(n) == {c \in ClosNode : Connected(n, c)}
Parents(n) == {p \in ClosNode : Connected(p, n)}

\* ConnectNodes gets the parent first: device 0 of the channel is its.
ClosLinks == {l \in ClosNode \X ClosNode : Connected(l[1], l[2])}

ClosNeighbour == [n \in ClosNode |-> Children(n) \cup Parents(n)]
ClosLevel == [n \in ClosNode |-> n[1]]
ClosLevelAddrBit == [l \in 0..Levels |-> l - 1]

\* The fields of a switch address below its replica numbers: its place in its
\* group, after those of the child whose local index is the group's number.
GroupFields[l \in 0..Levels] ==
  [i \in 0..(Width(l) - 1) |->
     IF l = 0 THEN <<>>
     ELSE Append(GroupFields[l - 1][ParentGroup(l, i)], i % (Num[l] \div Grp[l]))]

\* Replication appends the number of the copy, Connect writes the lower fields.
ClosAddress == [n \in ClosNode |-> n[2] \o GroupFields[n[1]][n[3]]]
ClosHostAddress == {ClosAddress[h] : h \in ClosLevelNodes(0)}

\* The PortSet: a downward bucket per replica number of the children, one
\* upward bucket for all parents.
ClosBuckets ==
  [n \in ClosNode |->
     {[dir |-> "down", key |-> <<b>>,
       ports |-> {c \in Children(n) : c[2][Levels + 1 - n[1]] = b}] :
          b \in IF n[1] = 0 THEN {} ELSE 1..Sub[n[1]]}
     \cup {[dir |-> "up", key |-> <<>>, ports |-> p] : p \in {Parents(n)} \ {{}}}]
===============================================================================
