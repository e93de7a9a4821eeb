---------------------------- MODULE PreparedPlans ----------------------------
(***************************************************************************)
(* Prepared statements of one session, as Postgres and DuckDB keep them.   *)
(*                                                                         *)
(* PREPARE goes to Postgres only.  EXECUTE of a query over DuckDB tables   *)
(* is first tried in DuckDB, as the text the client sent; DuckDB learns    *)
(* the statement when an EXECUTE finds that the search path is not the one *)
(* of the Postgres plan (src/hooks/utility/prepare.rs).  A DuckDB plan     *)
(* stays bound to the search path it was made under.                       *)
(***************************************************************************)
CONSTANTS
  Names,     \* names of prepared statements
  Texts,     \* their queries
  Paths,     \* search paths
  Foreign,   \* <<text, path>> whose relations are all DuckDB foreign tables
  Uses,      \* what else the session meets
  None

Features == {"explain", "all", "errors"}

ASSUME PreparedAssumption ==
  /\ Foreign \subseteq Texts \X Paths
  /\ Uses \subseteq Features
  /\ None \notin [text : Texts, path : Paths]

VARIABLES
  path,     \* the session's search path
  pg,       \* Postgres: the CachedPlanSource of each name
  duck,     \* DuckDB: the prepared statement of each name
  lapsed,   \* history: names DuckDB missed a change of
  answer    \* history: the last EXECUTE that DuckDB answered

vars == <<path, pg, duck, lapsed, answer>>

Plan == [text : Texts, path : Paths]

Init ==
  /\ path \in Paths
  /\ pg = [n \in Names |-> None]
  /\ duck = [n \in Names |-> None]
  /\ lapsed = {}
  /\ answer = None

\* SET search_path, or a rollback that undoes it.
SetSearchPath(p) ==
  /\ p # path
  /\ path' = p
  /\ UNCHANGED <<pg, duck, lapsed, answer>>

Prepare(n, t) ==
  /\ pg[n] = None
  /\ pg' = [pg EXCEPT ![n] = [text |-> t, path |-> path]]
  /\ UNCHANGED <<path, duck, lapsed, answer>>

-----------------------------------------------------------------------------
(* EXECUTE.                                                                *)

\* GetCachedPlan: Postgres replans for the current path, and notes the path.
Revalidated(n) == [pg EXCEPT ![n].path = path]

IsDuckDbQuery(n) == <<pg[n].text, path>> \in Foreign

\* The path of the plan, read before GetCachedPlan.
NeedReplan(n) == pg[n].path # path

\* A new plan for Postgres that DuckDB should have got as well.
Missed(n) == IF NeedReplan(n) /\ IsDuckDbQuery(n) THEN lapsed \cup {n} ELSE lapsed

\* The path is not handed to DuckDB, or DuckDB refuses the PREPARE it is sent:
\* the statement fails, with the Postgres plan already up to date.
ExecuteFails(n) ==
  /\ "errors" \in Uses
  /\ lapsed' = Missed(n)
  /\ UNCHANGED <<duck, answer>>

\* Mutant: a statement DuckDB already has is not prepared again.
ReplannedOnce(n) ==
  IF NeedReplan(n) /\ duck[n] = None
  THEN [duck EXCEPT ![n] = [text |-> pg[n].text, path |-> path]] ELSE duck

\* DuckDB prepares the statement again, under the path it was just given.
Replanned(n) ==
  IF NeedReplan(n) THEN [duck EXCEPT ![n] = [text |-> pg[n].text, path |-> path]] ELSE duck

\* Mutant: it is not noticed that DuckDB does not know the statement.
ExecuteUnknown(n) ==
  /\ duck' = Replanned(n)
  /\ lapsed' = IF NeedReplan(n) THEN lapsed \ {n} ELSE lapsed
  /\ answer' = [name |-> n, by |-> duck'[n], wanted |-> [text |-> pg[n].text, path |-> path],
                missed |-> n \in lapsed']

\* DuckDB runs EXECUTE n with the plan it has.
ExecuteInDuckDb(n) ==
  /\ duck' = Replanned(n)
  /\ lapsed' = IF NeedReplan(n) THEN lapsed \ {n} ELSE lapsed
  /\ duck'[n] # None
  /\ answer' = [name |-> n, by |-> duck'[n], wanted |-> [text |-> pg[n].text, path |-> path],
                missed |-> n \in lapsed']

\* DuckDB does not know n or cannot run it, and Postgres answers; or a row
\* cannot be converted, and the statement fails.
ExecuteElsewhere(n) ==
  /\ duck' = Replanned(n)
  /\ lapsed' = IF NeedReplan(n) THEN lapsed \ {n} ELSE lapsed
  /\ UNCHANGED answer

Execute(n) ==
  /\ pg[n] # None
  /\ pg' = Revalidated(n)
  /\ \/ /\ IsDuckDbQuery(n)
        /\ ExecuteFails(n) \/ ExecuteInDuckDb(n) \/ ExecuteElsewhere(n)
     \/ ~IsDuckDbQuery(n) /\ UNCHANGED <<duck, lapsed, answer>>
  /\ UNCHANGED path

-----------------------------------------------------------------------------
(* The other commands on prepared statements.                              *)

\* EXPLAIN EXECUTE, CREATE TABLE AS EXECUTE: GetCachedPlan without the hook.
ExplainExecute(n) ==
  /\ "explain" \in Uses
  /\ pg[n] # None
  /\ pg' = Revalidated(n)
  /\ lapsed' = Missed(n)
  /\ UNCHANGED <<path, duck, answer>>

\* Mutant: DEALLOCATE is not sent to DuckDB.
DeallocateUnsent(n) ==
  /\ duck' = duck
  /\ lapsed' = lapsed \ {n}

\* DEALLOCATE n is sent first; DuckDB may not know n.
DeallocateSent(n) ==
  /\ duck' = [duck EXCEPT ![n] = None]
  /\ lapsed' = lapsed \ {n}

Deallocate(n) ==
  /\ DeallocateSent(n)
  /\ pg' = [pg EXCEPT ![n] = None]
  /\ UNCHANGED <<path, answer>>

\* DEALLOCATE ALL has no name and sends nothing; DISCARD ALL is not hooked.
DeallocateAll ==
  /\ "all" \in Uses
  /\ pg' = [n \in Names |-> None]
  /\ lapsed' = lapsed \cup {n \in Names : duck[n] # None}
  /\ UNCHANGED <<path, duck, answer>>

Next ==
  \/ \E p \in Paths : SetSearchPath(p)
  \/ \E n \in Names, t \in Texts : Prepare(n, t)
  \/ \E n \in Names : Execute(n) \/ ExplainExecute(n) \/ Deallocate(n)
  \/ DeallocateAll

Spec == Init /\ [][Next]_vars

-----------------------------------------------------------------------------
(* Correctness.                                                            *)

\* Types of the plans and the histories.  DuckDB answers only when it has a
\* plan.
TypeOK ==
  /\ path \in Paths
  /\ pg \in [Names -> Plan \cup {None}]
  /\ duck \in [Names -> Plan \cup {None}]
  /\ lapsed \subseteq Names
  /\ answer \in {None} \cup [name : Names, by : Plan, wanted : Plan, missed : BOOLEAN]

\* The plans of a statement over DuckDB tables are for the same query and the
\* same search path on both sides, unless one of these came between: a failed
\* EXECUTE, EXPLAIN EXECUTE under another path, or DEALLOCATE ALL.  In
\* particular a detour over a path where the query is not DuckDB's, and
\* DEALLOCATE with a name, leave no outdated plan behind.
PlansAgree ==
  \A n \in Names \ lapsed :
    pg[n] # None /\ duck[n] # None /\ <<pg[n].text, pg[n].path>> \in Foreign
      => duck[n] = pg[n]

\* DuckDB answers an EXECUTE for another query or another search path only
\* after it missed a change in one of these ways.
StaleAnswersHaveCause ==
  answer # None /\ answer.by # answer.wanted => answer.missed

\* EXECUTE returns the rows of the statement's query under the current search
\* path ("in order to match PostgreSQL's default behavior", prepare.rs).
AnswersAreCurrent == answer # None => answer.by = answer.wanted

=============================================================================
