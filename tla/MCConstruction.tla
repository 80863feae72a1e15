------------------------------ MODULE MCConstruction ------------------------------
(***************************************************************************)
(* Small fabrics of every kind the example configurations build.           *)
(***************************************************************************)
EXTENDS Construction

Clos(nodes, copies, groups) ==
  [kind |-> "Clos", nodes |-> nodes, copies |-> copies, groups |-> groups]
Full(copies, outLinks, arrangement) ==
  [kind |-> "Full", nodes |-> 0, copies |-> copies, outLinks |-> outLinks,
   arrangement |-> arrangement]
Torus(copies) == [kind |-> "Torus", nodes |-> 0, copies |-> copies]
Server(servers, perServer) ==
  [kind |-> "Server", nodes |-> 0, copies |-> servers * perServer, perServer |-> perServer]
Rail(segments, perServer, perSwitch) ==
  [kind |-> "Rail", nodes |-> segments * perServer, copies |-> 1, perServer |-> perServer,
   perSwitch |-> perSwitch]

Dragonfly(hosts, routers, outLinks) ==
  <<Clos(1, hosts, 1), Full(routers, 1, "SameRank"),
    Full(routers * outLinks + 1, outLinks, "Absolute")>>

Fabrics ==
  { <<Clos(1, 2, 1), Clos(2, 2, 1), Clos(4, 4, 2)>>,              \* a fat tree
    <<Clos(2, 2, 1), Clos(2, 2, 1)>>,                             \* hosts with two leaves
    <<Clos(1, 2, 1), Clos(2, 2, 1), Clos(2, 1, 1)>>,              \* a third level without copies
    <<Clos(1, 2, 1), Clos(2, 3, 1), Clos(2, 2, 2)>>,              \* a three-level Clos
    <<Server(4, 2), Rail(2, 2, 2), Clos(2, 1, 1)>>,               \* rails under two spines
    <<Server(3, 3), Rail(2, 3, 2), Clos(1, 1, 1)>>,               \* a segment that is not full
    Dragonfly(2, 2, 1), Dragonfly(2, 2, 2), Dragonfly(2, 3, 1),
    <<Torus(3), Torus(3)>>, <<Torus(4), Torus(2)>>, <<Torus(2), Torus(2), Torus(3)>>,
    <<Clos(1, 2, 1), Torus(5)>> }                                 \* switches in a ring
===============================================================================
