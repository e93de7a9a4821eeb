----------------------------- MODULE MCLakeScan -----------------------------
(***************************************************************************)
(* A cursor over the search path with one scan, of two rows, and a join    *)
(* with schema b, of two scans of a row each, one of which may run twice.  *)
(***************************************************************************)
EXTENDS LakeScan, TLC

CONSTANTS a, b, p1, p2, s1, s2, s3

\* a changes on the way, b is ours.
MCInitially == {k \in [{a, b} -> Kinds] : k[b] = "lake" /\ k[a] \in {"heap", "other"}}
MCChanging == {a} \X {"none", "lake", "other"}
MCPaths == {<<a, b>>, <<b, a>>}
MCRefs == (p1 :> {Unqualified}) @@ (p2 :> {Unqualified, b})
MCAnswer == (p1 :> 1) @@ (p2 :> 2)
MCPortalOf == [s \in Scans |-> IF s = s1 THEN p1 ELSE p2]
MCRows == [s \in Scans |-> IF s = s1 THEN 2 ELSE 1]
=============================================================================
