---------------------------- MODULE TableSources ----------------------------
(***************************************************************************)
(* Where the rows of a foreign table come from: the options of the table,  *)
(* which become a DuckDB view (src/duckdb/csv.rs and its like), and the    *)
(* user mapping of its server, which becomes the one secret that DuckDB    *)
(* opens all files with (src/duckdb/secret.rs).                            *)
(*                                                                         *)
(* register_duckdb_view (src/fdw/base.rs) does both, for the event trigger *)
(* and for every begin_scan.  The module is one backend; options changed   *)
(* after CREATE, other sessions' DDL and rollbacks are in ViewSync.  A     *)
(* user mapping is that of the current user.  An option is its name.       *)
(***************************************************************************)
CONSTANTS
  Servers, Tables,
  ServerOf,   \* the server of a table
  Wrappers,   \* the choices of a handler for every server
  Offered,    \* the options a table may be created with
  Mappings,   \* options of user mappings
  NoMapping,
  Queries,
  Uses        \* the tables of a query

Handlers == {"csv", "json", "parquet", "delta", "iceberg", "spatial"}

ASSUME SourcesAssumption ==
  /\ ServerOf \in [Tables -> Servers]
  /\ Wrappers \subseteq [Servers -> Handlers]
  /\ Offered \in [Tables -> SUBSET SUBSET STRING]
  /\ Uses \in [Queries -> SUBSET Tables]
  /\ NoMapping \notin Mappings

VARIABLES
  handler,  \* of each server
  mapping,  \* the user mapping of each server, in the catalog
  options,  \* the options of each table, in the catalog
  view,     \* DuckDB's views
  secret,   \* DuckDB's default_secret
  phase,    \* of a query: idle, starting (begin_scan), open
  plan,     \* of its tables, the mapping their scans were made with
  begun,    \* of its tables, those begin_scan has run for
  misread,  \* history: its tables whose files were opened with another secret
  alone     \* history: nothing else was registered since its first begin_scan

vars == <<handler, mapping, options, view, secret, phase, plan, begun, misread, alone>>

Catalog == <<handler, mapping, options>>
Portals == <<phase, plan, begun, misread>>

NoTable == {}
Missing == [reader |-> "none", args |-> {}, select |-> FALSE]

NoPlan == [t \in Tables |-> NoMapping]

-----------------------------------------------------------------------------
(* Options and views.                                                       *)

\* The options of each handler.
CsvOption ==
  {"all_varchar", "allow_quoted_nulls", "auto_detect", "auto_type_candidates", "columns",
   "compression", "dateformat", "decimal_separator", "delim", "escape", "filename", "files",
   "force_not_null", "header", "hive_partitioning", "hive_types", "hive_types_autocast",
   "ignore_errors", "max_line_size", "names", "new_line", "normalize_names", "null_padding",
   "nullstr", "parallel", "preserve_casing", "quote", "sample_size", "select", "sep", "skip",
   "timestampformat", "types", "union_by_name"}
JsonOption ==
  {"auto_detect", "columns", "compression", "convert_strings_to_integers", "dateformat",
   "filename", "files", "format", "hive_partitioning", "ignore_errors", "maximum_depth",
   "maximum_object_size", "records", "sample_size", "select", "timestampformat",
   "union_by_name"}
ParquetOption ==
  {"binary_as_string", "file_name", "file_row_number", "files", "hive_partitioning",
   "hive_types", "hive_types_autocast", "preserve_casing", "union_by_name", "select"}
DeltaOption == {"files", "preserve_casing", "select"}
IcebergOption ==
  {"allow_moved_paths", "metadata_compression_codec", "skip_schema_inference", "files",
   "preserve_casing", "select"}
SpatialOption ==
  {"files", "sequential_layer_scan", "spatial_filter", "open_options", "layer",
   "allowed_drivers", "sibling_files", "spatial_filter_box", "keep_wkb"}

Known == [csv |-> CsvOption, json |-> JsonOption, parquet |-> ParquetOption,
          delta |-> DeltaOption, iceberg |-> IcebergOption, spatial |-> SpatialOption]

\* validate_mapping_option: known options only, and `files` among them.
Valid(h, o) == o \subseteq Known[h] /\ "files" \in o

\* Mutant: the CSV builder, which names each option three times, misses one.
CsvArgumentsButTypes == CsvOption \ {"types", "preserve_casing", "select"}

\* What each builder passes to the reader; that of spatial goes through its enum.
CsvArguments ==
  {"files", "all_varchar", "allow_quoted_nulls", "auto_detect", "auto_type_candidates",
   "columns", "compression", "dateformat", "decimal_separator", "delim", "escape", "filename",
   "force_not_null", "header", "hive_partitioning", "hive_types", "hive_types_autocast",
   "ignore_errors", "max_line_size", "names", "new_line", "normalize_names", "null_padding",
   "nullstr", "parallel", "quote", "sample_size", "sep", "skip", "timestampformat", "types",
   "union_by_name"}
JsonArguments ==
  {"files", "auto_detect", "columns", "compression", "convert_strings_to_integers",
   "dateformat", "filename", "format", "hive_partitioning", "ignore_errors", "maximum_depth",
   "maximum_object_size", "records", "sample_size", "timestampformat", "union_by_name"}
ParquetArguments ==
  {"files", "binary_as_string", "file_name", "file_row_number", "hive_partitioning",
   "hive_types", "hive_types_autocast", "union_by_name"}
DeltaArguments == {"files"}
IcebergArguments ==
  {"files", "allow_moved_paths", "metadata_compression_codec", "skip_schema_inference"}
SpatialArguments == SpatialOption

Arguments == [csv |-> CsvArguments, json |-> JsonArguments, parquet |-> ParquetArguments,
              delta |-> DeltaArguments, iceberg |-> IcebergArguments,
              spatial |-> SpatialArguments]

Reader == [csv |-> "read_csv", json |-> "read_json", parquet |-> "read_parquet",
           delta |-> "delta_scan", iceberg |-> "iceberg_scan", spatial |-> "st_read"]

\* create_view of the handler; without files it is an error.
CreateView(h, o) ==
  IF "files" \notin o THEN Missing
  ELSE [reader |-> Reader[h], args |-> o \cap Arguments[h],
        select |-> h # "spatial" /\ "select" \in o]

-----------------------------------------------------------------------------
(* register_duckdb_view and its two callers.                               *)

\* Mutant: a table that is registered already keeps the secret as it is.
SetSecretOnce(t, m) == secret' = IF m = NoMapping \/ view[t] # Missing THEN secret ELSE m

\* CREATE OR REPLACE SECRET, under the one name.
SetSecret(t, m) == secret' = IF m = NoMapping THEN secret ELSE m

\* Queries other than those in S have the secret replaced under them.
Undisturbed(m, S) ==
  [q \in Queries |-> alone[q] /\ (m = NoMapping \/ q \in S \/ begun[q] = {})]

\* Mutant: scans that are gone still count as begun.
CloseLeavingScans(S, left) ==
  /\ phase' = [q \in Queries |-> IF q \in S THEN "idle" ELSE phase[q]]
  /\ UNCHANGED <<plan, begun, misread>>
  /\ alone' = left

\* The scans of the queries in S are gone, by end_scan or with an error.
Close(S, left) ==
  /\ phase' = [q \in Queries |-> IF q \in S THEN "idle" ELSE phase[q]]
  /\ plan' = [q \in Queries |-> IF q \in S THEN NoPlan ELSE plan[q]]
  /\ begun' = [q \in Queries |-> IF q \in S THEN {} ELSE begun[q]]
  /\ misread' = [q \in Queries |-> IF q \in S THEN {} ELSE misread[q]]
  /\ alone' = [q \in Queries |-> IF q \in S THEN TRUE ELSE left[q]]

ViewOf(t, o) == CreateView(handler[ServerOf[t]], o)

Create(t, o) ==
  /\ options[t] = NoTable
  /\ Valid(handler[ServerOf[t]], o)
  /\ LET m == mapping[ServerOf[t]] IN SetSecret(t, m) /\ alone' = Undisturbed(m, {})
  /\ UNCHANGED <<handler, mapping, Portals>>

\* CREATE FOREIGN TABLE: the trigger drops a stale view and registers the table.
CreateTable(t, o) ==
  /\ Create(t, o)
  /\ view' = [view EXCEPT ![t] = ViewOf(t, o)]
  /\ options' = [options EXCEPT ![t] = o]

\* It fails for want of the files, or of column types after the view is made;
\* Postgres undoes its part, DuckDB keeps what it was told.
CreateTableFails(t, o) ==
  /\ Create(t, o)
  /\ view' \in {[view EXCEPT ![t] = v] : v \in {Missing, ViewOf(t, o)}}
  /\ UNCHANGED options

\* DuckDB refuses the secret; the stale view is gone by then.
CreateTableRefused(t, o) ==
  /\ options[t] = NoTable
  /\ Valid(handler[ServerOf[t]], o)
  /\ mapping[ServerOf[t]] # NoMapping
  /\ view' = [view EXCEPT ![t] = Missing]
  /\ UNCHANGED <<Catalog, secret, Portals, alone>>

\* DROP FOREIGN TABLE, of which DuckDB learns nothing.
DropTable(t) ==
  /\ options[t] # NoTable
  /\ \A q \in Queries : phase[q] # "idle" => t \notin Uses[q]
  /\ options' = [options EXCEPT ![t] = NoTable]
  /\ UNCHANGED <<handler, mapping, view, secret, Portals, alone>>

\* CREATE, ALTER and DROP USER MAPPING.
ChangeMapping(s, m) ==
  /\ m # mapping[s]
  /\ mapping' = [mapping EXCEPT ![s] = m]
  /\ UNCHANGED <<handler, options, view, secret, Portals, alone>>

\* The client connects anew; the DuckDB of the last backend is gone.
Reconnect ==
  /\ view' = [t \in Tables |-> Missing]
  /\ secret' = NoMapping
  /\ Close(Queries, alone)
  /\ UNCHANGED Catalog

-----------------------------------------------------------------------------
(* Queries.                                                                 *)

\* The scans of a plan are made with the user mappings of that moment.
Plan(q) ==
  /\ phase[q] = "idle"
  /\ Uses[q] # {}
  /\ \A t \in Uses[q] : options[t] # NoTable
  /\ phase' = [phase EXCEPT ![q] = "starting"]
  /\ plan' = [plan EXCEPT ![q] = [t \in Tables |-> mapping[ServerOf[t]]]]
  /\ UNCHANGED <<Catalog, view, secret, begun, misread, alone>>

\* begin_scan of one of its tables.
BeginScan(q, t) ==
  /\ phase[q] = "starting"
  /\ t \in Uses[q] \ begun[q]
  /\ SetSecret(t, plan[q][t])
  /\ alone' = Undisturbed(plan[q][t], {q})
  /\ view' = [view EXCEPT ![t] = IF @ = Missing THEN ViewOf(t, options[t]) ELSE @]
  /\ begun' = [begun EXCEPT ![q] = @ \cup {t}]
  /\ phase' = [phase EXCEPT ![q] = IF Uses[q] = begun'[q] THEN "open" ELSE "starting"]
  /\ UNCHANGED <<Catalog, plan, misread>>

\* begin_scan fails when the view cannot be made; the secret is replaced.
BeginScanFails(q, t) ==
  /\ phase[q] = "starting"
  /\ t \in Uses[q] \ begun[q]
  /\ view[t] = Missing
  /\ SetSecret(t, plan[q][t])
  /\ Close({q}, Undisturbed(plan[q][t], {q}))
  /\ UNCHANGED <<Catalog, view>>

\* DuckDB opens files of a table: for the executor hook, for a scan after a
\* fallback, or in the middle of a stream that a cursor reads.
OpenFiles(q, t) ==
  /\ phase[q] = "open"
  /\ t \in Uses[q]
  /\ misread' = [misread EXCEPT ![q] = IF secret = plan[q][t] THEN @ ELSE @ \cup {t}]
  /\ UNCHANGED <<Catalog, view, secret, phase, plan, begun, alone>>

\* The query ends, or fails at any point.
End(q) ==
  /\ phase[q] # "idle"
  /\ Close({q}, alone)
  /\ UNCHANGED <<Catalog, view, secret>>

-----------------------------------------------------------------------------
Init ==
  /\ handler \in Wrappers
  /\ mapping = [s \in Servers |-> NoMapping]
  /\ options = [t \in Tables |-> NoTable]
  /\ view = [t \in Tables |-> Missing]
  /\ secret = NoMapping
  /\ phase = [q \in Queries |-> "idle"]
  /\ plan = [q \in Queries |-> NoPlan]
  /\ begun = [q \in Queries |-> {}]
  /\ misread = [q \in Queries |-> {}]
  /\ alone = [q \in Queries |-> TRUE]

Next ==
  \/ \E t \in Tables : \E o \in Offered[t] :
       CreateTable(t, o) \/ CreateTableFails(t, o) \/ CreateTableRefused(t, o)
  \/ \E t \in Tables : DropTable(t)
  \/ \E s \in Servers, m \in Mappings \cup {NoMapping} : ChangeMapping(s, m)
  \/ Reconnect
  \/ \E q \in Queries : Plan(q) \/ End(q)
  \/ \E q \in Queries, t \in Tables :
       BeginScan(q, t) \/ BeginScanFails(q, t) \/ OpenFiles(q, t)

Spec == Init /\ [][Next]_vars

-----------------------------------------------------------------------------
(* Correctness.                                                             *)

\* The catalog holds tables the validator accepts, and a query is open when
\* begin_scan has run for all its tables.
TypeOK ==
  /\ handler \in Wrappers
  /\ mapping \in [Servers -> Mappings \cup {NoMapping}]
  /\ \A t \in Tables : options[t] # NoTable => Valid(handler[ServerOf[t]], options[t])
  /\ secret \in Mappings \cup {NoMapping}
  /\ plan \in [Queries -> [Tables -> Mappings \cup {NoMapping}]]
  /\ \A q \in Queries :
       CASE phase[q] = "idle" -> begun[q] = {} /\ misread[q] = {} /\ alone[q]
         [] phase[q] = "starting" -> begun[q] \subseteq Uses[q] /\ begun[q] # Uses[q]
         [] phase[q] = "open" -> begun[q] = Uses[q]

\* A table that the validator accepted is registered without error, at any later
\* time and in any backend, and every option it has reaches DuckDB, none being
\* left over from an earlier table of the name; preserve_casing concerns only
\* the names of columns in Postgres.
OptionsReachDuckDB ==
  \A t \in Tables : options[t] # NoTable =>
    LET v == IF view[t] = Missing THEN ViewOf(t, options[t]) ELSE view[t] IN
    /\ v.reader = Reader[handler[ServerOf[t]]]
    /\ v.args \subseteq options[t]
    /\ v.select <=> "select" \in options[t]
    /\ options[t] \ v.args \subseteq {"select", "preserve_casing"}

OneServer(q) == \A t, u \in Uses[q] : ServerOf[t] = ServerOf[u]

\* A query over tables of one server, with nothing registered in between, reads
\* all its files with the user mapping it was planned with, whatever mapping
\* DuckDB was left with, however often mappings changed, and whether or not its
\* tables were registered before.  (A query over several servers reads them all
\* with the mapping of the scan begun last.)
FilesReadWithMapping ==
  \A q \in Queries : \A t \in Uses[q] :
    phase[q] = "open" /\ alone[q] /\ OneServer(q) /\ plan[q][t] # NoMapping
      => t \notin misread[q]

=============================================================================
