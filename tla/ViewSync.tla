------------------------------ MODULE ViewSync ------------------------------
(***************************************************************************)
(* The relations of the Postgres catalog and the DuckDB views that stand   *)
(* for them.                                                               *)
(*                                                                         *)
(* Every backend has an in-memory DuckDB of its own.  A foreign table is   *)
(* registered in it as a view, by the event trigger on CREATE FOREIGN      *)
(* TABLE (src/fdw/trigger.rs) or by the first scan (src/fdw/base.rs); a    *)
(* Postgres view is sent to it when it is created (utility/view.rs).       *)
(* DuckDB is not part of the Postgres transaction, and no other command    *)
(* (ALTER, DROP, ROLLBACK, another session's DDL) reaches it.              *)
(***************************************************************************)
EXTENDS FiniteSets

CONSTANTS
  Backends,
  Tables,   \* DuckDB foreign tables
  Views,    \* Postgres views
  Over,     \* the table a view selects from
  Defs,     \* definitions: the options of a table, the text of a view
  Uses,     \* the commands in play, besides CREATE, DROP FOREIGN TABLE, SELECT
  None

Names == Tables \cup Views

Features == {"alter", "blocks", "dropview", "failreplace"}

ASSUME NamesAssumption ==
  /\ Tables \cap Views = {}
  /\ Over \in [Views -> Tables]
  /\ None \notin Defs
  /\ Uses \subseteq Features

VARIABLES
  committed,  \* the catalog: the definition of each existing relation
  mine,       \* what a backend's open transaction changed it to ...
  dirty,      \* ... and for which relations: it holds them exclusively
  touched,    \* relations its transaction has read: it holds them shared
  duck,       \* the views in the backend's DuckDB
  drift,      \* history: relations of which DuckDB was not told the last change
  read        \* history: the last SELECT, the definition it saw and should see

vars == <<committed, mine, dirty, touched, duck, drift, read>>

Visible(b, n) == IF n \in dirty[b] THEN mine[b][n] ELSE committed[n]

Exists(b, n) == Visible(b, n) # None

\* The table a query on n scans.
Base(n) == IF n \in Views THEN Over[n] ELSE n

\* Postgres locks: DDL excludes everyone, a query only excludes DDL.
Readable(b, n) == \A c \in Backends \ {b} : n \notin dirty[c]
Changeable(b, n) == Readable(b, n) /\ \A c \in Backends \ {b} : n \notin touched[c]

\* Outside a transaction block, a statement is a transaction.
CanRun(b) == "blocks" \in Uses \/ (dirty[b] = {} /\ touched[b] = {})

Nothing == [n \in Names |-> None]

\* Of the catalogs f, the one of b with definition d for n.
Put(f, b, n, d) == [f EXCEPT ![b][n] = d]

Init ==
  /\ committed = Nothing
  /\ mine = [b \in Backends |-> Nothing]
  /\ dirty = [b \in Backends |-> {}]
  /\ touched = [b \in Backends |-> {}]
  /\ duck = [b \in Backends |-> Nothing]
  /\ drift = [b \in Backends |-> {}]
  /\ read = [b \in Backends |-> None]

-----------------------------------------------------------------------------
(* Transactions.                                                           *)

\* b's transaction makes d (None: no relation) the definition of n.
Change(b, n, d) ==
  /\ mine' = Put(mine, b, n, d)
  /\ dirty' = [dirty EXCEPT ![b] = @ \cup {n}]
  /\ UNCHANGED committed

Ended(b) ==
  /\ mine' = [mine EXCEPT ![b] = Nothing]
  /\ dirty' = [dirty EXCEPT ![b] = {}]
  /\ touched' = [touched EXCEPT ![b] = {}]

\* The catalog goes back; DuckDB, with n as the statement left it, does not.
Aborted(b, left) ==
  /\ Ended(b)
  /\ drift' = [drift EXCEPT ![b] = @ \cup dirty[b] \cup left]
  /\ UNCHANGED <<committed, read>>

Commit(b) ==
  /\ dirty[b] # {} \/ touched[b] # {}
  /\ committed' = [n \in Names |-> Visible(b, n)]
  /\ Ended(b)
  /\ drift' = [c \in Backends |-> IF c = b THEN drift[c] ELSE drift[c] \cup dirty[b]]
  /\ UNCHANGED <<duck, read>>

Rollback(b) ==
  /\ "blocks" \in Uses
  /\ dirty[b] # {} \/ touched[b] # {}
  /\ Aborted(b, {})
  /\ UNCHANGED duck

-----------------------------------------------------------------------------
(* CREATE FOREIGN TABLE and its event trigger.                             *)

\* Mutant: the stale view is not dropped, so the table is not registered anew.
RegisteredIfMissing(b, t, d) ==
  /\ duck' = Put(duck, b, t, IF duck[b][t] = None THEN d ELSE duck[b][t])
  /\ drift' = [drift EXCEPT ![b] = @ \ {t}]

\* DROP VIEW IF EXISTS and register_duckdb_view both succeed.
Registered(b, t, d) ==
  /\ duck' = Put(duck, b, t, d)
  /\ drift' = [drift EXCEPT ![b] = @ \ {t}]

\* The trigger fails on a reserved name or the DROP VIEW, on CREATE VIEW, or
\* when the columns are taken over from DuckDB.
TriggerFailed(b, t, d) ==
  /\ \/ UNCHANGED duck
     \/ duck' = Put(duck, b, t, None)
     \/ duck' = Put(duck, b, t, d)
  /\ Aborted(b, {t})

CreateTable(b, t, d) ==
  /\ CanRun(b)
  /\ ~Exists(b, t)
  /\ Changeable(b, t)
  /\ \/ Registered(b, t, d) /\ Change(b, t, d) /\ UNCHANGED <<touched, read>>
     \/ TriggerFailed(b, t, d)

\* The trigger acts on CREATE FOREIGN TABLE only.
AlterOptions(b, t, d) ==
  /\ "alter" \in Uses
  /\ CanRun(b)
  /\ Exists(b, t)
  /\ Changeable(b, t)
  /\ Change(b, t, d)
  /\ drift' = [drift EXCEPT ![b] = @ \cup {t}]
  /\ UNCHANGED <<touched, duck, read>>

DropTable(b, t) ==
  /\ CanRun(b)
  /\ Exists(b, t)
  /\ Changeable(b, t)
  /\ \A v \in Views : Over[v] = t => ~Exists(b, v)
  /\ Change(b, t, None)
  /\ UNCHANGED <<touched, duck, drift, read>>

-----------------------------------------------------------------------------
(* CREATE [OR REPLACE] VIEW, sent to DuckDB before Postgres executes it.   *)

\* DuckDB refuses when the table is not registered or the view is already
\* there; the refusal is only a warning.
DuckAccepts(b, v, replace) ==
  /\ duck[b][Over[v]] # None
  /\ replace \/ duck[b][v] = None

\* Mutant: the statement reaches DuckDB as CREATE VIEW IF NOT EXISTS.
ViewSentOnce(b, v, d, replace) ==
  duck' = Put(duck, b, v,
              IF DuckAccepts(b, v, replace) /\ duck[b][v] = None THEN d ELSE duck[b][v])

ViewSent(b, v, d, replace) ==
  duck' = Put(duck, b, v, IF DuckAccepts(b, v, replace) THEN d ELSE duck[b][v])

\* Postgres creates the view, whatever DuckDB said.
ViewCreated(b, v, d, replace) ==
  /\ replace \/ ~Exists(b, v)
  /\ Change(b, v, d)
  /\ touched' = [touched EXCEPT ![b] = @ \cup {Over[v]}]
  /\ drift' = [drift EXCEPT ![b] =
       IF DuckAccepts(b, v, replace) \/ duck[b][v] = None THEN @ \ {v} ELSE @ \cup {v}]
  /\ UNCHANGED read

\* Postgres refuses: the view is there, or its columns cannot be replaced.
ViewRefused(b, v, replace) ==
  /\ Exists(b, v)
  /\ replace => "failreplace" \in Uses
  /\ Aborted(b, {v})

CreateView(b, v, d, replace) ==
  /\ CanRun(b)
  /\ Exists(b, Over[v]) /\ Readable(b, Over[v])
  /\ Changeable(b, v)
  /\ ViewSent(b, v, d, replace)
  /\ ViewCreated(b, v, d, replace) \/ ViewRefused(b, v, replace)

DropView(b, v) ==
  /\ "dropview" \in Uses
  /\ CanRun(b)
  /\ Exists(b, v)
  /\ Changeable(b, v)
  /\ Change(b, v, None)
  /\ drift' = [drift EXCEPT ![b] = @ \cup {v}]
  /\ UNCHANGED <<touched, duck, read>>

-----------------------------------------------------------------------------
(* SELECT.  begin_scan registers the table the query scans if DuckDB has   *)
(* no view of that name; it never compares what the view says.             *)

\* Mutant: begin_scan does not register the table.
Unregistered(b, t) == duck[b]

\* What is in DuckDB when the query runs.
AfterBeginScan(b, t) ==
  IF duck[b][t] = None THEN [duck[b] EXCEPT ![t] = Visible(b, t)] ELSE duck[b]

\* The query runs in DuckDB under the name it was given, or falls back: then
\* Postgres expands its own definition of a view, and scans the table in DuckDB.
Answers(b, n) ==
  LET there == AfterBeginScan(b, Base(n))[n] IN
  IF n \in Tables THEN {there}
  ELSE {Visible(b, n)} \cup (IF there = None THEN {} ELSE {there})

Select(b, n) ==
  /\ CanRun(b)
  /\ Exists(b, n) /\ Readable(b, n) /\ Readable(b, Base(n))
  /\ \E d \in Answers(b, n) :
       read' = [read EXCEPT ![b] =
                  [saw |-> d, is |-> Visible(b, n), missed |-> n \in drift[b]]]
  /\ duck' = [duck EXCEPT ![b] = AfterBeginScan(b, Base(n))]
  /\ drift' = [drift EXCEPT ![b] = IF duck[b][Base(n)] = None THEN @ \ {Base(n)} ELSE @]
  /\ touched' = [touched EXCEPT ![b] = @ \cup {n, Base(n)}]
  /\ UNCHANGED <<committed, mine, dirty>>

\* begin_scan cannot register the table, or the query fails after it did.
SelectFailed(b, n) ==
  /\ CanRun(b)
  /\ Exists(b, n) /\ Readable(b, n) /\ Readable(b, Base(n))
  /\ \/ UNCHANGED duck
     \/ duck' = [duck EXCEPT ![b] = AfterBeginScan(b, Base(n))]
  /\ Aborted(b, {})

Next ==
  \E b \in Backends :
    \/ Commit(b) \/ Rollback(b)
    \/ \E t \in Tables, d \in Defs : CreateTable(b, t, d) \/ AlterOptions(b, t, d)
    \/ \E t \in Tables : DropTable(b, t)
    \/ \E v \in Views, d \in Defs, replace \in BOOLEAN : CreateView(b, v, d, replace)
    \/ \E v \in Views : DropView(b, v)
    \/ \E n \in Names : Select(b, n) \/ SelectFailed(b, n)

Spec == Init /\ [][Next]_vars

-----------------------------------------------------------------------------
(* Correctness.                                                            *)

Catalog == [Names -> Defs \cup {None}]

\* Types of the catalogs, the locks and the histories; a query always finds its
\* table registered.
TypeOK ==
  /\ committed \in Catalog
  /\ mine \in [Backends -> Catalog]
  /\ dirty \in [Backends -> SUBSET Names]
  /\ touched \in [Backends -> SUBSET Names]
  /\ duck \in [Backends -> Catalog]
  /\ drift \in [Backends -> SUBSET Names]
  /\ read \in [Backends -> {None} \cup [saw : Defs, is : Defs, missed : BOOLEAN]]

\* DuckDB holds an outdated definition of an existing relation only if one of
\* these came between: ALTER, a rollback, another session's commit, DROP VIEW,
\* or a CREATE VIEW that one of the two sides refused.  CREATE and DROP FOREIGN
\* TABLE, CREATE VIEW and SELECT leave the two in step, in any order and with
\* any failure of the trigger.
StaleHasCause ==
  \A b \in Backends, n \in Names :
    Exists(b, n) /\ duck[b][n] \notin {None, Visible(b, n)} => n \in drift[b]

\* A query answered from an outdated definition came after one of these causes.
StaleReadsHaveCause ==
  \A b \in Backends :
    read[b] # None /\ read[b].saw # read[b].is => read[b].missed

\* A query sees the definition that Postgres has: the trigger means to leave no
\* stale view behind ("Drop stale view"), and a fallback costs time only.
SelectsAreCurrent ==
  \A b \in Backends : read[b] # None => read[b].saw = read[b].is

=============================================================================
