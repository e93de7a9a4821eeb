--------------------------- MODULE MCTableSources ---------------------------
(***************************************************************************)
(* Two tables of one server and one of another.  One query joins the first *)
(* two, the other, which may run while the first is open, reads the third. *)
(***************************************************************************)
EXTENDS TableSources, TLC

CONSTANTS s1, s2, t1, t2, t3, q1, q2, m1, m2

MCServerOf == [t \in {t1, t2, t3} |-> IF t = t3 THEN s2 ELSE s1]

MCWrappers == {w \in [{s1, s2} -> Handlers] :
                 <<w[s1], w[s2]>> \in {<<"csv", "json">>, <<"json", "spatial">>, <<"parquet", "delta">>,
                                      <<"delta", "iceberg">>, <<"iceberg", "parquet">>,
                                      <<"spatial", "csv">>}}

\* All options of a handler, the least, and too few.
MCOffered == [t \in {t1, t2, t3} |->
                IF t = t1 THEN {Known[h] : h \in Handlers} \cup {{"files"}, {"select"}}
                ELSE {{"files"}}]

Symmetry == Permutations({m1, m2})

MCUses == (q1 :> {t1, t2}) @@ (q2 :> {t3})
=============================================================================
