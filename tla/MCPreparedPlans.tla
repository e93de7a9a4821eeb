--------------------------- MODULE MCPreparedPlans ---------------------------
(* Small instances of PreparedPlans.                                       *)
EXTENDS PreparedPlans, TLC

CONSTANTS q1, q2, x1, x2, a, b, c

\* Both queries are DuckDB's under the paths a and b; under c only the first.
MixedForeign == {x1, x2} \X {a, b} \cup {<<x1, c>>}
=============================================================================
