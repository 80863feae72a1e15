------------------------------ MODULE MCRecalculation ------------------------------
(***************************************************************************)
(* Experiments on a small fabric: hosts 1, 2 in one rack, 3, 4 in another, *)
(* each rack with two edge switches (5, 6 and 7, 8), under the spine 9.    *)
(***************************************************************************)
EXTENDS FailureSchedule

FourHosts == <<1, 2, 3, 4>>
DualHomedRacks == <<<<5, 6>>, <<5, 6>>, <<7, 8>>, <<7, 8>>,
                    <<1, 2, 9>>, <<1, 2, 9>>, <<3, 4, 9>>, <<3, 4, 9>>, <<5, 6, 7, 8>>>>

\* The two uplinks of a rack and a link to one of its hosts.
FailingLinks == {<<9, 5>>, <<9, 6>>, <<5, 1>>}

Entry(l, a, b) == [link |-> l, from |-> a, until |-> b]

\* One failure; two at the same time; two in turn, of one link also with no time between
\* them, in the order of their times or against it; one that is recovered from before it is due.
FileContents ==
  {<<>>} \cup {<<Entry(l, 1, Never)>> : l \in FailingLinks}
    \cup {<<Entry(l, 1, b), Entry(m, 1, Never)>> : l, m \in FailingLinks, b \in {Never, 2}}
    \cup {<<Entry(l, 1, 2), Entry(m, 3, 4)>> : l, m \in FailingLinks}
    \cup {<<Entry(l, 1, 2), Entry(l, 2, 4)>> : l \in FailingLinks}
    \cup {<<Entry(l, 2, 4), Entry(l, 1, 2)>> : l \in FailingLinks}
    \cup {<<Entry(l, 3, 2)>> : l \in FailingLinks}

\* Two links at once, one of which the file may fail or recover at that time.
RandomFailure == <<Entry(<<9, 8>>, 2, Never), Entry(<<9, 5>>, 2, Never)>>

Tried == [routing : {"NodeBfs", "NodeBfsStrict", "NodeBfsWithHost"},
          failures : FileContents, random : {<<>>, RandomFailure}, preApply : BOOLEAN]
===============================================================================
