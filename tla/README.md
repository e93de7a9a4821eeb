# Verification of pg_analytics

TLA+ models of the extension, TLC runs on small instances and TLAPS proofs for
all instances. Sources are named as in the repository; the crate of the
extension is `src/`.

## 1. Inventory

`pg_analytics` embeds one in-memory DuckDB per Postgres backend. Foreign tables
(Parquet, CSV, JSON, Delta, Iceberg, spatial) stand for files; DuckDB knows each
of them as a view. A query over such tables only is run in DuckDB as a whole by
the executor hook; if DuckDB refuses it, or the query mixes in other tables, it
runs in the Postgres executor, whose foreign scans read one table each from
DuckDB. The backend has one thread. What makes the system hard is that this
thread interleaves executions (scans of one plan, statements run by functions,
cursors), that all of them share one result stream, and that DuckDB takes part
neither in Postgres transactions nor in Postgres' plan and catalog invalidation.

| component | state it keeps | operations | correct when |
|---|---|---|---|
| connection and stream, `duckdb/connection.rs` | `GLOBAL_CONNECTION`, `GLOBAL_STATEMENT`, `GLOBAL_ARROW`, one each per process | `create_arrow`, `get_next_batch`, `get_batches`, `clear_arrow`, view and catalog helpers | a reader of the stream gets the rows of its own query, each once, and the stream is released |
| foreign scans, `fdw/base.rs` | per scan: SQL text, `scan_started`, current batch, batch index | `begin_scan`, `iter_scan`, `re_scan` (default: nothing), `end_scan` | each pass returns every row of the table once, in the order of the stream, then None |
| executor hook, `hooks/executor.rs`, `hooks/query.rs` | none | take the query to DuckDB, write its batches to the receiver, or fall back | a query is answered once, by one side |
| EXECUTE and DEALLOCATE, `hooks/utility/prepare.rs` | plans in Postgres' cache and in DuckDB | replan when the search path changed, run in DuckDB or fall back, deallocate | the answer is that of the statement's query under the current path |
| registration and event trigger, `fdw/base.rs`, `fdw/trigger.rs` | the views of the backend's DuckDB | register on CREATE FOREIGN TABLE or on first scan, drop the stale view, take over columns | what DuckDB calls `t` is what Postgres calls `t` |
| views, `hooks/utility/view.rs` | the views of the backend's DuckDB | send CREATE VIEW to DuckDB, then let Postgres execute it | the same, for views |
| EXPLAIN hook, `hooks/utility/explain.rs` | none | print DuckDB's plan for a SELECT | prints, changes nothing |
| type mapping, `fdw/trigger.rs` | none | DuckDB column types to Postgres types, ALTER TABLE text | every column gets a type its cells convert to |
| cells, `schema/cell.rs`, `schema/datetime.rs` | none | an Arrow value to a Postgres value of the column's type | the value, or an error; never another value |
| option modules, `fdw/*.rs`; SQL builders, `duckdb/*.rs` | none | validate options, build CREATE VIEW | each option reaches DuckDB once |
| secrets, `duckdb/secret.rs` | `default_secret` of the backend's DuckDB | CREATE OR REPLACE SECRET from the user mapping | files of a table are read with the mapping of its server |
| SQL functions, `api/*.rs` | none | a query sent to DuckDB, rows returned | returns DuckDB's answer |
| registration of hooks and settings, `lib.rs`, `hooks/mod.rs`, `debug_guc.rs` | globals | runs once per backend | |
| lake session and stores, `datafusion/src/datafusion/*.rs`, `datafusion/src/fdw/*.rs` | the session of the backend: known URLs, object stores by scheme and host, table providers by oid | load a table when a query is planned, in `begin_scan`, `connect_table`, `arrow_schema`; check and pass on options | a provider is that of the table's present definition, files are read with the store the query was planned with, a failed load can be repeated |
| lake hook and scans, `datafusion/src/hooks/executor.rs`, `datafusion/src/fdw/base.rs` | per wrapper: stream, batch, batch index | hand a SELECT to DataFusion as text or leave it to Postgres; `begin_scan`, `iter_scan`, `end_scan` | the relations that answer are those Postgres planned, and each pass of a scan returns its rows once |
| lake columns and cells, `datafusion/src/schema/*.rs` | none | check the columns of a table against its file, convert values | what the check accepts can be read, as itself |
| lake EXPLAIN, `datafusion/src/hooks/explain.rs` | none | print DataFusion's plan | prints; loads tables as a query does |
| telemetry, `datafusion/shared/src/telemetry/*.rs` | uuid file; in the worker: `last_action_time`, the SPI connection, the signal flags | report the deployment once, the size of the directory every twelve hours | one deployment event and one identity per installation, silence when disabled, an end on SIGTERM |
| transaction callbacks, `datafusion/shared` | a registry | nothing calls it | |
| benchmark tool, `datafusion/cargo-paradedb/` | none | loads tables and times queries from a command line | |

`datafusion/` is pg_lakehouse, the predecessor of the extension, which the
repository keeps as a crate of its own beside it.

How they interact. The executor hook, EXECUTE and every foreign scan call
`create_arrow`, which replaces the statement and the stream of the process;
`end_scan` and every fallback call `clear_arrow`, whoever created the stream.
`begin_scan` registers the scanned table if DuckDB has no view of its name; the
event trigger and the view hook write the same set of views. EXECUTE that falls
back continues in Postgres' executor, which calls the executor hook again.
In `datafusion/`, the executor and EXPLAIN hooks, `begin_scan` and two SQL
functions fill the one session of the backend; the scans then share nothing.
The telemetry worker is a process of its own, and meets the server in the uuid
file, the configuration and signals.

Hard behaviours, each a row of `hazards` in `PROJECT.json`: scans and statements
interleaved on one stream; errors that leave a hook before its clean-up; cursors
that enter the hook on every fetch; rescans of a scan that keeps its position;
commands and rollbacks DuckDB does not see; other sessions' DDL; a plan refreshed
on one side only; boundaries of record batches; integers and dates narrowed to
the column's type. In `datafusion/`: providers, stores and column checks made
once and kept while tables, mappings and files change; names resolved twice, by
Postgres and by the hook; scans that take turns; a telemetry worker that
crashes between writing the uuid and sending the event, or between reading a
setting and acting on it.

## 2. Plan

Most important first; `done` is in this directory.

1. `ArrowScan` (done), with the abstract `PrivateStreams` (done): the stream,
   the scans and the hooks. Every row a query returns goes through it.
2. `ViewSync` (done): what DuckDB calls a table against what Postgres does.
3. `PreparedPlans` (done): the two plans of a prepared statement.
4. `Cells` and `Columns` (done): the conversion of values, and the types of
   columns.
5. `TableSources` (done): options, readers and the secret.
6. `LakeStores` and `LakeSession` (done): what a backend of pg_lakehouse keeps.
7. `LakeScan` (done): its hook and scans, which do implement `PrivateStreams`.
8. `LakeCells` (done): its columns and values, over the arithmetic of `Cells`.
9. `Telemetry` (done): the background worker.
10. Left: schemas in `ViewSync` (search path, `database.schema` names, views of
    dropped tables that shadow others); `EXECUTE` over `TableSources`, since a
    statement served by DuckDB opens files without a `begin_scan`.
11. Proofs left: every invariant and both refinements that a run checks are
    proved. What is worth adding are stronger statements: what `ArrowScan`'s
    scans return of several in one statement, `FallbackExact` under the condition
    of `LoneScansArePrivate`, and `AloneIsCurrent` with transaction blocks.

## 3. Modules

### ArrowScan, PrivateStreams

`slot` is the pair of globals of `connection.rs`: whose statement, whether there
is a stream, how many of its rows are taken. `scan[s]` holds the fields of
`BaseFdw`: `started`, and the batch in hand as the query it came from, the rows
before it, its length and the index. `phase`, `runs`, `emitted`, `eof` are the
Postgres side. A row is the pair of its query and its position, so "the wrong
row" can be told from the right one. One action per call: `ExecuteQuery`,
`ExecutorStart` (`begin_scan`), `ExecutorRun` (the hook), `Suspend`,
`ExecutorEnd` (`end_scan`), `IterScan` with a disjunct per exit of
`iter_scan_impl`, and `ReScan`. Each exit through `?` is an action of its own
with the globals as they are at that point. An error makes its portal, and any
set of portals opened inside it, fail without `end_scan`.

Batches have any length from 1 to `BatchSize`. A failing `query_arrow` is the
choice `CreateFailures`: the stream that is left borrows from the statement that
was replaced, which has no result yet and so yields no row.

`PrivateStreams` is what Postgres expects of foreign scans: a stream each.
`ArrowScan` implements it for one statement at a time, `LakeScan` for all scans
that are run once.

### ViewSync

`committed`, `mine`, `dirty`, `touched` are Postgres: the catalog, the changes of
each open transaction, and the two lock modes that matter. `duck[b]` is the views
of backend `b`. A definition stands for the options of a table or the text of a
view. `drift` and `read` are histories for the properties and guard nothing.
`CreateTable` is the command with the whole event trigger; `TriggerFailed` has one
alternative for each place at which it can stop. `CreateView` sends the view
first and then lets Postgres accept or refuse it. `Select` is `begin_scan` with
registration, then an answer from DuckDB or after a fallback.

### PreparedPlans

`pg[n]` is the cached plan source: query and the path it was planned under;
`duck[n]` the same in DuckDB. `Execute` reads `need_replan`, then calls
`GetCachedPlan` (which writes the path that was just read), then has the
outcomes of `execute_query`. The result columns of a statement are taken not to
change with the path; otherwise Postgres refuses the EXECUTE before the code in
question.

### Cells, Columns

`Cells` is `get_cell`: `GetCell(a, v, t)` is what becomes of the value `v` of
Arrow type `a` in a column of type `t`, a value, null or `Fail`. A value carries
its kind, so that text read as bytes or a number read as another is seen. Numbers
are counted in halves, to have fractions; integer widths (`Half`), float formats
(`Held`, `Printed`) and the time zone (`Wall`, `Instant`) are parameters, while
the arithmetic of `as` (wrapping, truncation, saturation) is kept. Dates and clock
readings are records of a year, a day and a time, with the years of chrono, which
has a year 0. `datetime.rs` gives these fields to Postgres, which has no year 0
and takes -1 for the first year before the common era (`PgYear`): `Made` is what
comes of it, or a refusal, of the year 0 or of what is not in `PgDates` or
`PgStamps`. An instant passes through such a reading (`TimestamptzCell`).

`Columns` is one column of a table: `source` is its DuckDB type in the file,
`pgtype` its type in Postgres; `auto`, a history, says whether the second still
comes from the first, and `seen` is the last value read and what became of it. A
type name is a record of prefix, word and suffix; `IntegersReplaced`
and `Translated` are the calls of `replace` in their order, each applied to what
the one before it left, and what comes out is looked up as Postgres' parser
would. `CreateAuto` and
`CreateDeclared` make the table, `ReplaceFile` changes the file behind it,
`Read` converts one value. `TypeOK` is about that value: the file may have types
nobody thought of when the table was made, and `get_cell` still gives Postgres a
value of the column's own type and bounds, or an error. The geometry types, which become types that
`get_cell` never reads, and nesting beyond lists and structs of scalars (and
lists of structs) are left out.

### TableSources

`view[t]` is the view a table is registered as: reader, arguments, SELECT.
The options a validator knows (`CsvOption` and its like) and those a builder
passes on (`CsvArguments`) are kept apart, as in the code, because nothing there
keeps them in step. `secret` is DuckDB's only secret. `Plan` is `new`, which
keeps the user mapping of that moment in the scan; `BeginScan` registers the
table with it; `OpenFiles` is any time at which DuckDB opens a file, for a
pushed down query as for a scan or a later fetch. `misread` and `alone` are
histories. `Reconnect` replaces the backend and its DuckDB.

### LakeStores, LakeSession

`LakeStores` holds the option tables of the wrappers: what a validator accepts,
what a builder is given, what is lost on the way (`from_connection_string`
starts over, so the root of a delta table is lost). `LakeSession` is one
backend: `urls`, `store` and `provider` are the fields of the registry and of
the schema provider. `Plan` and `PlanTable` are the hook planning a query, a
table at a time; `BeginScan` loads what was not loaded; `Collect` and
`CreateStream` are where files are opened. `Load` is `table_provider` with its
early exits: found by oid, registered under its URL, inferred, compared with
the columns. `ConnectTable` and `ArrowSchema` are the SQL functions that write
the same state. DDL and `ChangeMapping` may come between any two steps a lock
does not forbid, `ChangeFile` at any time. `misread`, `refused`, `disturbed` and
`altered` are histories and guard nothing. One map by oid stands for the
schemas of the catalog.

### LakeScan

All relations have one name, in different schemas, and a query names them by
schema or by search path. `bound` is what Postgres found when it planned the
query; `QueryType` and `Served` look again, as the hook does from the text, by
`TableExists`, which knows foreign tables only. `scan[s]` are the fields of the
wrapper. `BufferedRow`, `FetchedRow` and `ScanEnd` are the exits of `iter_scan`;
`ReScan` does nothing, as no wrapper overrides it. `astray` is a history: a
relation is of another extension's wrapper, or names could change after planning.

### LakeCells

`file`, `table` and `provider` are the columns in the file, in the catalog and
in the loaded provider; `answer` is the cell just read, by DataFusion or by a scan.
`CanConvert` is `can_convert_to_attribute`; the conversions are those of
`get_cell`, with the casts of `Cells`. A panic and an error are both `Mismatch`.
Its specification is `LakeSpec`, and no name of it is one of `Columns`, so that
`Cells_proofs` can extend both.

### Telemetry

`pc` is the place of the worker between two effects that others can see: reading
the uuid file, creating or emptying it (`OpenFile`), filling it (`CreateUuid`),
reading the setting, sending, taking the answer, sleeping. Two failures are no
ends: `exists` is false for a file it cannot look at (`SendDeployment`, counted in
`unseen`), and `extension_uuid` takes any error of reading, also of a file that
is intact, for a missing uuid and writes a new one over it (`ExtensionUuid`,
counted in `unread`). The failures of the other calls end the process (`Fails`),
and `Crash` kills it anywhere, also between `OpenFile` and `CreateUuid`, which
leaves an empty file. `Configure` and `Reload` are the setting in the configuration and in
the process, `Terminate` the signal. `late` counts events sent after the process
had learned that it must not.

## 4. Runs

| run | question | result |
|---|---|---|
| `arrow_seq` | one statement at a time, one scan each: does the shared stream behave like private ones (`ScansArePrivate`), is it never lost (`NeverLost`), does every run end (`RunsEnd`)? | holds |
| `arrow_nest` | a cursor with other statements run while it is open: are pushed down answers exact (`PushdownExact`), are streams left behind only by errors (`LeakOnlyAfterError`), is a scan alone on the stream safe (`SoleScanSafe`)? | holds |
| `arrow_join` | a query over two foreign tables falls back, one of which may be scanned twice: do its scans return their own rows (`FallbackExact`)? | violated: the second scan takes the stream of the first |
| `view_shared` | two sessions, everything allowed: is DuckDB outdated (`StaleHasCause`), and does a query see an outdated definition (`StaleReadsHaveCause`), only for a named cause? | holds |
| `prepared_mixed` | PREPARE, EXECUTE, SET, DEALLOCATE (ALL), EXPLAIN, errors: do the two plans differ (`PlansAgree`), and does an old one answer (`StaleAnswersHaveCause`), only after DuckDB missed a change? | holds |
| `prepared_all` | with DEALLOCATE ALL only: is every answer that of the current statement? | violated: an old plan answers |
| `columns_types` | every DuckDB type into every Postgres type, also after the file was replaced: is every cell of its column's type (`TypeOK`), do numbers, dates and time stamps, lists, structs and nulls survive, and are columns taken over from the file exact where they can be read? | holds, with the exceptions below |
| `table_sources` | tables of every handler, a join and a second query, changing mappings, new backends: do options arrive, and is an undisturbed query over one server read with its mapping? | holds |
| `lake_session` | tables, mappings and files that change under a session: are cached providers those of their tables (`ProvidersAreOwn`), are files read with the store of the plan unless another took its place (`StoresAreOwn`), is a failed load not remembered (`RetriesSucceed`), does every option reach its store (`StoresAreComplete`)? | holds, with the exceptions below |
| `lake_scan` | a cursor and a join over relations of one name in two schemas, with DDL and SET between: do the relations Postgres planned answer (`PushdownExact`), are scans private (`ScansArePrivate`), is a second pass at least a tail (`PassesAreTails`), does every run end (`RunsEnd`)? | holds |
| `lake_cells` | every Arrow type in every column type, changing files and tables: can what was accepted be read (`AcceptedIsReadable`), from the field of its name (`ColumnsAreOwn`), as itself (`ValuesAreKept`)? | holds, with the exceptions below |
| `telemetry` | crashes, restarts, failing calls, settings and signals at any point: is there one deployment event and one identity, and more only if the uuid file was lost, not found or not read (`DeployedOnce`), at most the event in hand after telemetry was disabled (`DisabledIsSilent`), an interval between checks (`DirectoryChecksApart`), an end (`WorkerEnds`)? | holds, with the exceptions below |

A violated row states what a document, a comment or a test of the repository
says; `findings` in `PROJECT.json` quotes it. The passing run of the same module
says under which conditions the statement does hold.

Some passing properties name, in their comments, the cases they except, because
the code does not do there what a reader may expect and no text of the
repository promises it: a fallback of a cursor clears its own stream at the next
fetch and a rescan starts from the end of the first pass (`ArrowScan`); other
sessions keep views of changed tables (`ViewSync`); columns taken over as lists
of most types cannot be read, and years before the common era are read one too
late or refused (`Columns`, and likewise `LakeCells`). In `datafusion/`: ALTER FOREIGN TABLE
never reaches a cached provider; a store may be replaced by that of another
server with a container of the same name; a fallback scan reads columns by
place; a 64 bit integer in a smallint column is accepted and panics when read; a
query whose names resolve anew, because the search path or the catalog changed
after planning, may be answered from another relation; a connection string
drops the root of a delta table; a uuid file that is there but cannot be looked
at or read for once leads to a second deployment event or a new identity.

Bounds. `ArrowScan`: up to three portals and three scans, results of one to four
rows, batches of at most two, so that a result has one batch, several, a partial
last one, and a statement can come between any two batches and any two rows of
one; two runs of a cursor (`MaxRuns`) are a first fetch and a later one; one
rescan. `ViewSync`: two sessions, one table, one view over it and two
definitions; a third session only repeats what the second does, since sessions
meet in the catalog alone. `PreparedPlans`: two names, queries and paths, and a
pair that is not all DuckDB tables, so that the hook declines. `Columns`: integers
of one to four bits instead of 8 to 64, so that every value of every width meets
every column, ends of ranges included; floats that cannot hold all integers;
lists of up to two elements; a time zone with one clock reading that occurs
twice; the years -2 to 1, of which -2 has a leap day that the year made of it
lacks, and one that Postgres refuses. `TableSources`: two tables of one server, which a join reads, and one of
another, and two mappings; each handler occurs with all its options, with
`files` alone and with too few. `LakeSession`: two servers of Azure, the handler
with the most ways to authenticate, whose tables may share a container, two
mappings of which each container accepts some, a query that joins both tables
and one that reads the second; two oids (`MaxOid`), so that one table can be
dropped and made again; that the options of the other handlers arrive is checked
of the mappings and servers directly. `LakeScan`: a scan of two rows in pieces
and two scans of a row each, one of them run twice, batches of at most two rows,
two fetches (`MaxRuns`). `LakeCells`: files and tables of one column of every
type and of two columns in either order, integers of one to four bits, a clock
reading that occurs twice. `Telemetry`: a few hours (`MaxTime`) with an interval
of two, so that two checks and one restart between them fit; the file is lost
once (`MaxRemovals`), and once it is not found and once not read (`MaxFaults`),
which makes three uuids.
Apart from `ArrowScan`, `LakeSession`, `LakeScan` and `Telemetry` the state
spaces are finite without a bound on actions. Symmetry is used where sessions, definitions
or mappings are interchangeable, never in the run that checks liveness.

Deadlock is checked in all modules but three: in `ArrowScan` and `LakeScan` each
portal runs once and then all has been said, and `LakeSession` may run out of
oids.

Fairness. `ArrowScan!FairSpec` and `LakeScan!FairSpec` assume that the executor
goes on asking a running scan for rows (`WF` of `IterScan` and of `Proceed`, the
loop of `ExecutePlan`) and that it ends a run whose scans have all returned None.
Nothing makes a client start a statement or fetch. `Telemetry!FairSpec` assumes
that the worker goes on (`WF` of `Step`, whose calls all return or fail: the
request has the time limit of its client, the sleep ends) and that a server that
is told to stop notices the end of its worker (`Stopped`).
Fairness is used for `RunsEnd` and `WorkerEnds` only.

## 5. Proofs

| theorem | shows, for all constants allowed by the assumptions |
|---|---|
| `ArrowScan_proofs!TypeCorrect` | `TypeOK` |
| `ArrowScan_proofs!PushdownIsExact` | a pushed down query is answered once, with its rows |
| `ArrowScan_proofs!LeaksNeedErrors` | a stream outlives its statement only after an error |
| `ArrowScan_proofs!SoleScansAreSafe` | a scan alone on the stream never returns a wrong row |
| `ArrowScan_proofs!LoneScansAreNeverLost` | one at a time, no scan ends before its stream does (`NeverLost`) |
| `ArrowScan_proofs!LoneScansArePrivate` | and, without rescans, the scans implement `PrivateStreams` |
| `ViewSync_proofs!TypeCorrect` | `TypeOK` |
| `ViewSync_proofs!StaleAlwaysHasCause` | an outdated view has a named cause |
| `ViewSync_proofs!StaleReadsAlwaysHaveCause` | so has a query that saw one |
| `ViewSync_proofs!AloneIsCurrent` | one session without blocks, ALTER, DROP VIEW and refused replacements reads current definitions |
| `PreparedPlans_proofs!TypeCorrect` | `TypeOK` |
| `PreparedPlans_proofs!PlansAlwaysAgree` | plans differ only after a missed change |
| `PreparedPlans_proofs!StaleAnswersAlwaysHaveCause` | an old plan answers only after a missed change |
| `PreparedPlans_proofs!PlainSessionsAreCurrent` | without the three causes every answer is current |
| `Cells_proofs!TypeCorrect` | whatever file is there, a cell has its column's type and bounds (`TypeOK` of `Columns`) |
| `Cells_proofs!NumbersAlwaysKept` | a number the column can hold is read as itself, for any widths and formats |
| `Cells_proofs!AutoColumnsAlwaysExact` | a column taken over from the file has room for all its numbers, and keeps its texts |
| `Cells_proofs!InstantsAlwaysKept` | dates and time stamps from the year 1 on are exact to the second in every time zone, ambiguous readings apart; none before that gets into the common era |
| `Cells_proofs!ElementsAlwaysKept` | lists keep their length, order and the places of nulls; structs lose their null fields only, in lists too |
| `Cells_proofs!LakeTypeCorrect` | a provider's fields are at the places of their columns (`LakeTypeOK`) |
| `Cells_proofs!ColumnsAreAlwaysOwn` | DataFusion's answers and scans of leading columns read the field of the column's name |
| `Cells_proofs!AcceptedIsAlwaysReadable` | what the check of a table accepts is read, 64 bit integers in an INT2 column apart |
| `Cells_proofs!ValuesAreAlwaysKept` | numbers, and moments from the year 1 on, are read as they are, or refused |
| `TableSources_proofs!TypeCorrect` | `TypeOK` |
| `TableSources_proofs!OptionsAlwaysReachDuckDB` | every option of an accepted table is in its view |
| `TableSources_proofs!FilesAlwaysReadWithMapping` | an undisturbed query over one server reads with its mapping |
| `LakeSession_proofs!TypeCorrect` | `TypeOK` |
| `LakeSession_proofs!ProvidersAlwaysOwn` | a cached provider has the URL and columns of its table, unless that was altered |
| `LakeSession_proofs!StoresAlwaysOwn` | files are read with the store of the plan, unless another took its place |
| `LakeSession_proofs!RetriesAlwaysSucceed` | no `begin_scan` fails while store and file are good |
| `LakeSession_proofs!StoresAlwaysComplete` | every option of server and mapping is in the store |
| `LakeScan_proofs!TypeCorrect` | `TypeOK` |
| `LakeScan_proofs!PushdownAlwaysExact` | a served query is answered by the relations Postgres planned, once |
| `LakeScan_proofs!PassesAlwaysTails` | each pass of a scan returns consecutive rows, up to the last |
| `LakeScan_proofs!ScansAlwaysPrivate` | scans run once implement `PrivateStreams` |
| `Telemetry_proofs!TypeCorrect` | `TypeOK` |
| `Telemetry_proofs!AlwaysDeployedOnce` | one deployment event and one uuid, and more only for losses and faults of the file |
| `Telemetry_proofs!AlwaysSilent` | at most one event after the setting was seen off |
| `Telemetry_proofs!ChecksAlwaysApart` | no two directory checks within the interval |

`PlainSessionsAreCurrent` is the positive side of `prepared_all`: the same
property, which fails in general, proved for restricted use. `AloneIsCurrent` is
that for a property like it of `ViewSync`, that queries read current definitions.

`PushdownExact` and `LeakOnlyAfterError` need little beyond types: the four calls
of a served query are one step, and the invariant says which phases may have
output and that a stream left with nothing open comes from a failed portal.
`SoleScanSafe` is not inductive. Its strengthening `SoleInv` ties the position of
the scan (`base + index`) to the number of rows returned, says that the batch in
hand is the scan's own, and gives the three states the stream can be in while
the scan is open: its own stream right after its batch, no stream, or the
exhausted stream of a failed pushed down statement. `FreshInv` covers the scans
that have not started.

`NeverLost` and the refinement of `PrivateStreams` do not hold in general: each
of `ArrowScan_nest` and `ArrowScan_join` has states in which a scan finds the
stream gone or another's. `OneAtATime` names what it takes, in the constants: no
statement starts inside another (`~Nested`), a statement has one scan, and no
open cursor is one the hook would serve at its next fetch; `ArrowScan_seq` is an
instance. Under it `LoneInv` is inductive: at most one portal is active
(`LoneExecutor`), and the stream belongs to the scan of that portal from its
first batch on and stands right behind the batch in hand (`Owned`). A step of a
scan is then the next row, or the end, of a stream of its own, and a step of
anything else a stutter. A rescan is excluded from the refinement only, as its
second pass starts at the end of the first.

In `ViewSync_proofs` the invariant also says that locks
exclude each other, which is what makes another session's commit the only way
to change a relation under an open transaction; for `AloneIsCurrent`, that no
transaction is open between statements. In `PreparedPlans_proofs`, for plain
sessions, that a plan DuckDB holds was made together with that of Postgres.

The theorems about `Columns` carry the last value read in the invariant: it is
null, or a value of the present source type converted by `GetCell`; the rest is
arithmetic, with lemmas on remainders, casts and nearest numbers. For
`AutoColumnsAreExact` the fifteen calls of `replace` are worked out for each name
of a number (`NumbersTranslated`, `UnsignedTranslated`), which leaves eleven pairs
of Arrow and Postgres types (`NumberTranslation`), and each Postgres type has
room for what the Arrow type holds (`RoomForNumbers`): the ranges of widths are
compared, which is why `CellsAssumption` says that a wider integer has at least a
bit more and that a double holds every float. UHUGEINT keeps its prefix and so
gives no type at all. `ElementsAreKept` goes through the arms of `get_cell`: none
makes null of a value. `TypeOK` goes through them too, with what each returns: a
cast ends in the range of its width (`WrapInRange`, `ClampInRange`), a float's
format has a number nearest to any (`NearestIsIn`, by a least square), and the
elements of a list that passes for an array have the array's element type
(`ElementTyped`). For dates and instants `MadeKeeps` says that `PgYear` is the
identity from the year 1 on and leaves earlier years before it, and `InstantKept`
that an instant and what comes back of it show the same reading.

For `LakeCells`, `TableInv` says that the columns left of a table differ in their
names, and that as long as the table was not altered each field at the place of a
column was checked against it; a dropped column cannot pass that check. So a field
that bears a column's name was checked against that very column
(`OwnFieldIsChecked`), even if the column stands behind the last field.
`AnswerInv` carries the cell just read. `AcceptedIsReadable` then compares the two
lists of types, and `ValuesAreKept` uses the lemmas about casts of `Columns`. In
`TableSources_proofs` the invariant says that scans planned together on one
server have one mapping (`PlanInv`), that this mapping is DuckDB's secret from
the first `begin_scan` on unless something else was registered (`SecretInv`),
and that an existing table has its own view or none (`ViewInv`).

In `LakeSession_proofs` the invariant says that an oid is used once and unused
oids have no provider (`CatalogInv`, `ProviderInv`), which is why a table made
again cannot get its predecessor's; that a URL is only known when its bucket has
a store (`RegistryInv`); and that the store of a plan is still there unless the
history says that it was replaced (`StoreInv`, `HistoryInv`). In
`LakeScan_proofs`, `StreamInv` ties the position of the stream to the batch and
the rows returned (`pos = base + size` until the query is over, and
`Len(emitted) = base + index` in a first pass); with it every `FetchedRow` and
`BufferedRow` is the next row of a private stream, and what is left of the
buffer after a pass explains tails. `PortalInv` says that a portal that is not
astray is bound to what Postgres would find now; the first schema of a search
path is found with a least index. `Telemetry_proofs` counts the process's own
events against what the service has received: a deployment event needs a uuid
for a file that was missing, and files go missing only by the removals that are
counted or are passed over by a fault that is (`DeployInv`); a new uuid is made
for a lost or unread one only (`LossInv`, which counts the uuids generated, and
one less while the next is being made); the last check is not later than
`last_action_time` says.

Assumptions are those named in the modules: the sets are disjoint, the
functions have the right domain, `BatchSize` and the ranges `Half` are positive,
wider formats hold what narrower ones do, DuckDB's type names are those its
documentation lists (only integers are unsigned), no schema has a name twice,
the format of a float is not empty, and what Postgres takes a clock reading for
is an instant at which clocks show it (`CellsAssumption`). That a mapping, a store or a provider differs from `None` is
one of them. No set is assumed finite.

Only model-checked: the liveness properties `RunsEnd` of `ArrowScan` and of
`LakeScan` and `WorkerEnds` of `Telemetry`, as liveness under fairness is out of
the prover's reach.

## 6. Not modelled

Parsing and formatting of SQL, the text of errors, warnings and plans, DuckDB's
and DataFusion's execution of a query. The signal thread of `connection.rs` that
interrupts DuckDB appears only as one more way for a query to fail; the data
race itself is below the level of the models. Of pg_lakehouse: projections,
sorts and offsets, arrays and interval arithmetic.

External behaviour is modelled as the code uses it: `supabase_wrappers` passes
the columns a scan has to return and the mapping of the current user, pgrx' SIGHUP
handler makes the worker read the configuration, and the postmaster starts the
worker once per start of the server (`bgworker.rs` sets no restart time).

The components listed as `not_modelled` in `PROJECT.json` have no behaviour worth
a state machine: the registration of hooks and settings runs once without a
choice; the SQL functions send a query and return its rows; nothing calls the
transaction callbacks; the benchmark tool is no part of the extension.
