---------------------------- MODULE MCLakeSession ----------------------------
(***************************************************************************)
(* Two Azure servers with a table each, which may share a container; one   *)
(* query joins them, the other reads the second.  The second table may be  *)
(* of delta format, or have an extension there is no format for.           *)
(***************************************************************************)
EXTENDS LakeSession, TLC

CONSTANTS s1, s2, m1, m2, b1, b2, u1, u2, k1, k2, t1, t2, q1, q2

MCHandlerOf == [s \in {s1, s2} |-> "azblob"]

MCMapped == (s1 :> {m1, m2}) @@ (s2 :> {m1})

MCServerOptions == [s \in {s1, s2} |-> [h \in Handlers |->
                      IF h = "local" THEN {} ELSE ServerOption[h]]]

MCMappingOptions == (m1 :> UNION {MappingOption[h] : h \in Handlers \ {"local"}})
                    @@ (m2 :> {"account_name", "access_key_id", "scope"})

MCBucketOf == (u1 :> b1) @@ (u2 :> b2)
MCGrants == (b1 :> {m1}) @@ (b2 :> {m1, m2})

D(s, u, delta, c) ==
  [server |-> s, url |-> u, extension |-> "csv", delta |-> delta, columns |-> c]

MCOffered == (t1 :> {D(s1, u1, FALSE, {k1}), D(s1, u2, FALSE, {k1})})
             @@ (t2 :> {D(s2, u1, TRUE, {k1, k2}),
                        [D(s2, u1, FALSE, {k1, k2}) EXCEPT !.extension = "orc"]})
MCContents == (u1 :> {k1}) @@ (u2 :> {k1, k2, Gone})
MCInspected == {<<s1, u1, TRUE>>}
MCUses == [q \in Queries |-> IF q = q1 THEN {t1, t2} ELSE {t2}]
=============================================================================
