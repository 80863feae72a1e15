-------------------------------- MODULE MCDetours --------------------------------
(***************************************************************************)
(* Small fabrics with the policies that the experiments and the topology   *)
(* generator configure for their kind.                                     *)
(***************************************************************************)
EXTENDS Detours

Clos(nodes, copies, groups) ==
  [kind |-> "Clos", nodes |-> nodes, copies |-> copies, groups |-> groups]
Full(copies, outLinks, arrangement) ==
  [kind |-> "Full", nodes |-> 0, copies |-> copies, outLinks |-> outLinks,
   arrangement |-> arrangement]
Torus(copies) == [kind |-> "Torus", nodes |-> 0, copies |-> copies]

Dragonfly(hosts, routers, outLinks) ==
  <<Clos(1, hosts, 1), Full(routers, 1, "SameRank"),
    Full(routers * outLinks + 1, outLinks, "Absolute")>>
FatTree == <<Clos(1, 2, 1), Clos(2, 2, 1), Clos(4, 2, 2)>>
ManySpines == <<Clos(1, 2, 1), Clos(3, 2, 1)>>

Policy(algorithm, fields, stages) ==
  [algorithm |-> algorithm, fields |-> fields, stages |-> stages]
Scenario(recipe_, policy_) == [recipe |-> recipe_, policy |-> policy_]

Tried ==
  {Scenario(Dragonfly(2, 2, h), Policy(a, <<2>>, 1)) : h \in {1, 2}, a \in {"Valiant", "UGAL"}}
    \cup {Scenario(<<Torus(3), Torus(3)>>, Policy("Detour", <<0, 1>>, s)) : s \in {1, 2}}
    \cup {Scenario(Dragonfly(2, 3, 1), Policy("UGAL", <<2>>, 1)),
          Scenario(<<Torus(4), Torus(2)>>, Policy("Detour", <<0, 1>>, 2)),
          Scenario(<<Torus(2), Torus(2), Torus(3)>>, Policy("Detour", <<0, 1, 2>>, 2)),
          Scenario(<<Torus(3), Torus(2)>>, Policy("Valiant", <<1>>, 1)),
          Scenario(FatTree, Policy("Valiant", <<0>>, 1)),
          Scenario(ManySpines, Policy("Valiant", <<0>>, 1))}
RecipesTried == {s.recipe : s \in Tried}
===============================================================================
