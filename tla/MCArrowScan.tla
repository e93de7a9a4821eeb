---------------------------- MODULE MCArrowScan ----------------------------
(* Small instances of ArrowScan.                                           *)
EXTENDS ArrowScan, TLC

CONSTANTS p1, p2, p3, s1, s2, s3

\* One statement at a time: a pushed down query, one over a mixed join, and an
\* EXECUTE, with a scan each.
SeqPortalOf == s1 :> p1 @@ s2 :> p2 @@ s3 :> p3
SeqRows == p1 :> 3 @@ p2 :> 2 @@ p3 :> 2 @@ s1 :> 3 @@ s2 :> 3 @@ s3 :> 2

\* A scan of five rows, and two statements that may run while it is open.
NestPortalOf == s1 :> p1 @@ s2 :> p2
NestRows == p1 :> 1 @@ p2 :> 2 @@ p3 :> 2 @@ s1 :> 4 @@ s2 :> 2

\* One statement with two scans.
JoinPortalOf == s1 :> p1 @@ s2 :> p1
JoinRows == p1 :> 2 @@ s1 :> 3 @@ s2 :> 3
=============================================================================
