------------------------------ MODULE ShortestPaths ------------------------------
(***************************************************************************)
(* What the BFS baseline promises, as a reference to compare routes with:  *)
(* next hops on shortest paths over the live links of a fabric, and next   *)
(* hops on those shortest paths of the undamaged fabric that are left.     *)
(***************************************************************************)
EXTENDS Integers, FiniteSets

CONSTANT Vertex

\* The sets of vertices at most 0, 1, ... links away from h, where only h and the vertices
\* of Transit pass packets on and Live[n] are n's neighbours by live links.
Within(h, Transit, Live) ==
  LET W[k \in 0..Cardinality(Vertex)] ==
        IF k = 0 THEN {h}
        ELSE LET w == W[k - 1] IN w \cup UNION {Live[n] : n \in w \cap (Transit \cup {h})}
  IN W

\* The neighbours of each vertex that are one link closer to h.
ShortestNextHops(h, Transit, Live) ==
  LET W == Within(h, Transit, Live)
      closer(n) == UNION {W[k] : k \in {k \in DOMAIN W : n \notin W[k]}}
  IN [n \in Vertex |-> IF n \notin W[Cardinality(Vertex)] THEN {}
                       ELSE Live[n] \cap closer(n) \cap (Transit \cup {h})]

\* The next hops of the table Base that still lead to h over Live.
SurvivingNextHops(h, Base, Live) ==
  LET S[n \in Vertex] == {m \in Base[n] \cap Live[n] : m = h \/ S[m] # {}}
  IN S
===============================================================================
