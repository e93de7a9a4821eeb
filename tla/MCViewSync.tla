----------------------------- MODULE MCViewSync -----------------------------
(* Small instances of ViewSync.                                            *)
EXTENDS ViewSync, TLC

CONSTANTS b1, b2, t1, t2, v1, d1, d2

\* One view, over the first table.
ViewOver == v1 :> t1

Sessions == Permutations({b1, b2}) \cup Permutations({d1, d2})
=============================================================================
