---------------------------- MODULE RegionExceptions ----------------------------
(***************************************************************************)
(* The exception table of one RuleBasedRouting instance, as operators.     *)
(*                                                                         *)
(* A region is a prefix of a structured address, most significant field    *)
(* first (RuleBasedRouting::RegionKey).  A table is a function whose       *)
(* domain is the set of regions that own an entry and whose value at a     *)
(* region is the set of its candidate interfaces: the trie of the code     *)
(* with its inner nodes left out.  Candidate lists are sets, because       *)
(* PickEgress may select any element of the list.                          *)
(***************************************************************************)
EXTENDS Integers, Sequences, FiniteSets, SequencesExt

\* The table a router starts with.
NoExceptions == [r \in {} |-> {}]

\* RegionKey::Matches: dst lies in region rk.
Matches(rk, dst) == IsPrefix(rk, dst)

\* The entries met on the way from the root of the trie down to rk.
EntriesOnPath(table, rk) == {r \in DOMAIN table : IsPrefix(r, rk)}

\* LookupException finds an entry for dst.
HasException(table, dst) == \E r \in DOMAIN table : Matches(r, dst)

\* LookupException: the deepest entry on the path of dst.
LookupException(table, dst) ==
  CHOOSE r \in EntriesOnPath(table, dst) :
    \A q \in EntriesOnPath(table, dst) : Len(q) <= Len(r)

\* Wrong: the entry rk already has is overwritten instead of cut.
NewCandidatesOverwriting(table, rk, cand) ==
  {p \in cand : \A r \in EntriesOnPath(table, rk) \ {rk} : p \in table[r]}

\* The candidates an insertion of cand at rk leaves there: cut by every
\* ancestor entry and by the entry rk already has.
NewCandidates(table, rk, cand) ==
  {p \in cand : \A r \in EntriesOnPath(table, rk) : p \in table[r]}

\* Wrong: the entries below rk keep their candidates.
UpdatedTableAtRegionOnly(table, rk, cand) ==
  [r \in DOMAIN table \cup {rk} |->
     IF r = rk THEN NewCandidates(table, rk, cand) ELSE table[r]]

\* UpdateExceptionWithPrefixIntersections: the table after the insertion.
\* Entries below rk are cut by cand itself, not by what is left of it at rk.
UpdatedTable(table, rk, cand) ==
  [r \in DOMAIN table \cup {rk} |->
     IF r = rk THEN NewCandidates(table, rk, cand)
     ELSE IF IsStrictPrefix(rk, r) THEN table[r] \cap cand
     ELSE table[r]]

\* What the insertion counts as the previous candidates of region r.
Previous(table, r, fallback) ==
  IF r \in DOMAIN table THEN table[r] ELSE fallback

\* Wrong: every region that had candidates is reported, whether or not it has lost them.
AllEmptyRegions(table, rk, cand, fallback) ==
  {r \in DOMAIN UpdatedTable(table, rk, cand) : Previous(table, r, fallback) # {}}

\* The regions the same call reports as emptied.
EmptiedRegions(table, rk, cand, fallback) ==
  LET after == UpdatedTable(table, rk, cand)
  IN {r \in DOMAIN after : Previous(table, r, fallback) # {} /\ after[r] = {}}

\* RemoveExceptionEntry.
RemoveExceptions(table, regions) == [r \in DOMAIN table \ regions |-> table[r]]

\* SetExceptionEntry at every region of new: overwrites, cuts nothing.
SetExceptions(table, new) ==
  [r \in DOMAIN table \cup DOMAIN new |-> IF r \in DOMAIN new THEN new[r] ELSE table[r]]

===============================================================================
