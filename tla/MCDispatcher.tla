--------------------------- MODULE MCDispatcher ---------------------------
(***************************************************************************)
(* Small instances of Dispatcher for TLC.                                  *)
(***************************************************************************)
EXTENDS DispatcherProperties, TLC

CONSTANTS odd, bad   \* two filter sources: one matches, one does not load

\* Packets 1 and 3 match, packets 2 and 4 do not: a match must wait for an
\* earlier non-match that is still being evaluated, and the other way round.
MCMatching == [g \in Filters |-> IF g = odd THEN {1, 3} ELSE {}]

\* Dissectors and filter threads are interchangeable.
Symmetry == Permutations(Dissectors) \cup Permutations(FilterThreads)
=============================================================================
