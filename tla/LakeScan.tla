------------------------------ MODULE LakeScan ------------------------------
(***************************************************************************)
(* How pg_lakehouse (src/datafusion) answers queries: the executor hook    *)
(* hands a SELECT to DataFusion as text, or leaves it to Postgres, whose   *)
(* foreign scans then take batches from streams of their own (fdw/base.rs  *)
(* and the wrappers).                                                      *)
(*                                                                         *)
(* All relations have one name, in different schemas.  A query refers to   *)
(* some of them by schema, to one by the search path.  Stores, providers   *)
(* and their failures are in LakeSession; quals and sorts are ignored by   *)
(* the wrappers and a limit has no offset here.                            *)
(***************************************************************************)
EXTENDS Naturals, Sequences

CONSTANTS
  Schemas,
  Initially,  \* the relations there may be at first
  Changing,   \* what the relations of schemas are created and dropped as
  Paths,      \* the search paths the client sets
  Unqualified,
  Portals, Refs,   \* the references of a query: schemas, Unqualified
  Answer,     \* the number of rows of its answer
  Scans, PortalOf,
  Rows,       \* what a scan would return: its rows, or the limit of the query
  BatchSize,
  Rescanned,  \* scans that the plan of their query runs twice
  Cursors, MaxRuns,  \* queries that are fetched in pieces, and in how many
  None

Kinds == {"none", "heap", "lake", "other"}  \* other: of another extension's wrapper

ASSUME ScanAssumption ==
  /\ Changing \subseteq Schemas \X Kinds
  /\ Initially \subseteq [Schemas -> Kinds]
  /\ Paths \subseteq Seq(Schemas)
  /\ Unqualified \notin Schemas
  /\ Refs \in [Portals -> SUBSET (Schemas \cup {Unqualified})]
  /\ Answer \in [Portals -> Nat]
  /\ PortalOf \in [Scans -> Portals]
  /\ Rows \in [Scans -> Nat]
  /\ BatchSize \in Nat /\ MaxRuns \in Nat
  /\ Rescanned \subseteq Scans /\ Cursors \subseteq Portals

VARIABLES
  kind,    \* catalog: what the relation of each schema is
  path,    \* the search path
  phase,   \* of a portal
  runs,    \* its calls of ExecutorRun
  bound,   \* the schema Postgres found for each of its references
  astray,  \* history: one is of another extension, or names may have changed since
  out,     \* rows the hook sent to its receiver
  scan,    \* state of a wrapper: stream, batch and index
  emitted, \* rows iter_scan returned in this pass
  eof,     \* it returned None
  rescans  \* the scans that began their second pass

Answers == <<runs, bound, astray, out>>
Streams == <<scan, emitted, eof, rescans>>
vars == <<kind, path, phase, runs, bound, astray, out, scan, emitted, eof, rescans>>

Phases == {"idle", "open", "running", "closed", "failed"}

ScansOf(p) == {s \in Scans : PortalOf[s] = p}
Active(p) == phase[p] \in {"open", "running"}

-----------------------------------------------------------------------------
(* Names.                                                                   *)

\* The first schema of the search path that is in S.
First(S) ==
  path[CHOOSE i \in DOMAIN path : path[i] \in S /\ \A j \in 1..(i - 1) : path[j] \notin S]

Present == {x \in Schemas : kind[x] # "none"}

\* table_exist: foreign tables of the wrappers.
TableExists == {x \in Schemas : kind[x] = "lake"}

OnPath(S) == \E i \in DOMAIN path : path[i] \in S

\* Postgres, and get_table_source; a schema is taken at its word.
PgRelation(r) == IF r = Unqualified THEN First(Present) ELSE r
TableSource(r) == IF r = Unqualified THEN First(TableExists) ELSE r

PgFinds(r) == IF r = Unqualified THEN OnPath(Present) ELSE r \in Present
SourceFound(r) == IF r = Unqualified THEN OnPath(TableExists) ELSE r \in TableExists

-----------------------------------------------------------------------------
(* DDL and SET; tables of live executors are locked.                        *)

Locked(x) == \E p \in Portals : Active(p) /\ \E r \in Refs[p] : bound[p][r] = x

Quiet == \A p \in Portals : phase[p] # "running"

\* Every portal that is bound, is bound under circumstances that have changed.
Moved == [p \in Portals |-> astray[p] \/ Active(p)]

ChangeRelation(x, k) ==
  /\ Quiet /\ ~Locked(x) /\ kind[x] # k
  /\ kind[x] = "none" \/ k = "none"
  /\ kind' = [kind EXCEPT ![x] = k]
  /\ astray' = Moved
  /\ UNCHANGED <<path, phase, runs, bound, out, Streams>>

SetSearchPath(new) ==
  /\ Quiet /\ new # path
  /\ path' = new
  /\ astray' = Moved
  /\ UNCHANGED <<kind, phase, runs, bound, out, Streams>>

-----------------------------------------------------------------------------
(* The executor and the hook.                                               *)

\* Planning and ExecutorStart; begin_scan_impl makes a DataFrame.
ExecutorStart(p) ==
  /\ phase[p] = "idle"
  /\ \A r \in Refs[p] : PgFinds(r)
  /\ phase' = [phase EXCEPT ![p] = "open"]
  /\ bound' = [bound EXCEPT ![p] = [r \in Refs[p] |-> PgRelation(r)]]
  /\ astray' = [astray EXCEPT ![p] = \E r \in Refs[p] : kind[PgRelation(r)] = "other"]
  /\ UNCHANGED <<kind, path, runs, out, Streams>>

Kind(p, r) == kind[bound[p][r]]

\* Mutant: one table of ours is enough.
QueryTypeFederated(p) == \E r \in Refs[p] : Kind(p, r) = "lake"

\* get_query_type = DataFusion: tables of other wrappers do not count.
QueryType(p) ==
  /\ \E r \in Refs[p] : Kind(p, r) = "lake"
  /\ \A r \in Refs[p] : Kind(p, r) # "heap"

\* The rows of the answer over the relations f refers to.
AnswerFrom(f, n) == [i \in 1..n |-> <<f, i>>]

\* The text is parsed again, planned, collected, and written out, whatever
\* number of rows was asked for.
Served(p) ==
  /\ out' = [out EXCEPT ![p] = @ \o AnswerFrom([r \in Refs[p] |-> TableSource(r)], Answer[p])]
  /\ UNCHANGED phase

\* A cell cannot be converted: an error, after n rows were sent.
ServedPartly(p) ==
  /\ \E n \in 0..Answer[p] :
       /\ n < Answer[p]
       /\ out' = [out EXCEPT ![p] = @ \o AnswerFrom([r \in Refs[p] |-> TableSource(r)], n)]
  /\ phase' = [phase EXCEPT ![p] = "failed"]

\* DataFusion cannot plan the text, or fails to collect.
LeftToPostgres(p) ==
  /\ phase' = [phase EXCEPT ![p] = "running"]
  /\ UNCHANGED out

ExecutorRun(p) ==
  /\ phase[p] = "open"
  /\ runs[p] < IF p \in Cursors THEN MaxRuns ELSE 1
  /\ runs' = [runs EXCEPT ![p] = @ + 1]
  /\ \/ /\ QueryType(p)
        /\ \A r \in Refs[p] : SourceFound(r)
        /\ Served(p) \/ ServedPartly(p)
     \/ LeftToPostgres(p)
  /\ UNCHANGED <<kind, path, bound, astray, Streams>>

\* A FETCH has its rows.
Suspend(p) ==
  /\ p \in Cursors
  /\ phase[p] = "running"
  /\ phase' = [phase EXCEPT ![p] = "open"]
  /\ UNCHANGED <<kind, path, Answers, Streams>>

\* Mutant: the streams of all scans are cleared, as one connection would.
ExecutorEndAll(p) ==
  /\ Active(p) /\ runs[p] > 0
  /\ phase' = [phase EXCEPT ![p] = "closed"]
  /\ scan' = [s \in Scans |-> [scan[s] EXCEPT !.stream = FALSE, !.pos = 0]]
  /\ UNCHANGED <<kind, path, Answers, emitted, eof, rescans>>

\* ExecutorEnd: end_scan_impl clears the stream of each scan of the query.
ExecutorEnd(p) ==
  /\ Active(p) /\ runs[p] > 0
  /\ phase' = [phase EXCEPT ![p] = "closed"]
  /\ scan' = [s \in Scans |-> IF PortalOf[s] = p
                              THEN [scan[s] EXCEPT !.stream = FALSE, !.pos = 0] ELSE scan[s]]
  /\ UNCHANGED <<kind, path, Answers, emitted, eof, rescans>>

-----------------------------------------------------------------------------
(* iter_scan_impl: one call, from the executor of the scan's portal.       *)

Wanted(s) == phase[PortalOf[s]] = "running" /\ ~eof[s]

\* Mutant: off by one at the end of a batch.
BatchOverrun(s) == scan[s].index > scan[s].size

BatchUsedUp(s) == scan[s].index >= scan[s].size

\* The next row comes from the batch at hand.
BufferedRow(s) ==
  /\ Wanted(s) /\ ~BatchUsedUp(s)
  /\ emitted' = [emitted EXCEPT ![s] = Append(@, <<s, scan[s].base + scan[s].index + 1>>)]
  /\ scan' = [scan EXCEPT ![s].index = @ + 1, ![s].stream = TRUE]
  /\ UNCHANGED <<kind, path, phase, Answers, eof, rescans>>

\* Mutant: the first row of a batch does not count.
FetchedRowUncounted(s) ==
  /\ Wanted(s) /\ BatchUsedUp(s)
  /\ \E n \in 1..BatchSize :
       /\ scan[s].pos + n <= Rows[s]
       /\ scan' = [scan EXCEPT ![s] =
            [stream |-> TRUE, pos |-> @.pos + n, base |-> @.pos, size |-> n, index |-> 0]]
       /\ emitted' = [emitted EXCEPT ![s] = Append(@, <<s, scan[s].pos + 1>>)]
  /\ UNCHANGED <<kind, path, phase, Answers, eof, rescans>>

\* create_stream unless there is one, and the first row of its next batch.
FetchedRow(s) ==
  /\ Wanted(s) /\ BatchUsedUp(s)
  /\ \E n \in 1..BatchSize :
       /\ scan[s].pos + n <= Rows[s]
       /\ scan' = [scan EXCEPT ![s] =
            [stream |-> TRUE, pos |-> @.pos + n, base |-> @.pos, size |-> n, index |-> 1]]
       /\ emitted' = [emitted EXCEPT ![s] = Append(@, <<s, scan[s].pos + 1>>)]
  /\ UNCHANGED <<kind, path, phase, Answers, eof, rescans>>

\* Mutant: the end of the stream is not told from an empty batch.
ScanEndUnreported(s) ==
  /\ Wanted(s) /\ BatchUsedUp(s) /\ scan[s].pos = Rows[s]
  /\ scan' = [scan EXCEPT ![s].stream = TRUE]
  /\ UNCHANGED <<kind, path, phase, Answers, emitted, eof, rescans>>

\* The stream is at its end.  The last batch stays, its index is reset.
ScanEnd(s) ==
  /\ Wanted(s) /\ BatchUsedUp(s) /\ scan[s].pos = Rows[s]
  /\ scan' = [scan EXCEPT ![s].stream = TRUE, ![s].index = 0]
  /\ eof' = [eof EXCEPT ![s] = TRUE]
  /\ UNCHANGED <<kind, path, phase, Answers, emitted, rescans>>

\* The stream cannot be made or read, or a cell cannot be converted.
ScanFails(s) ==
  /\ Wanted(s)
  /\ phase' = [phase EXCEPT ![PortalOf[s]] = "failed"]
  /\ UNCHANGED <<kind, path, Answers, Streams>>

IterScan(s) == BufferedRow(s) \/ FetchedRow(s) \/ ScanEnd(s) \/ ScanFails(s)

\* The plan starts the scan again.  The wrappers have no re_scan, so nothing is
\* done but to ask once more.
ReScan(s) ==
  /\ s \in Rescanned \ rescans
  /\ phase[PortalOf[s]] = "running"
  /\ rescans' = rescans \cup {s}
  /\ emitted' = [emitted EXCEPT ![s] = <<>>]
  /\ eof' = [eof EXCEPT ![s] = FALSE]
  /\ UNCHANGED <<kind, path, phase, Answers, scan>>

-----------------------------------------------------------------------------
Fresh == [stream |-> FALSE, pos |-> 0, base |-> 0, size |-> 0, index |-> 0]

Init ==
  /\ kind \in Initially
  /\ path \in Paths
  /\ phase = [p \in Portals |-> "idle"]
  /\ runs = [p \in Portals |-> 0]
  /\ bound = [p \in Portals |-> [r \in Refs[p] |-> None]]
  /\ astray = [p \in Portals |-> FALSE]
  /\ out = [p \in Portals |-> <<>>]
  /\ scan = [s \in Scans |-> Fresh]
  /\ emitted = [s \in Scans |-> <<>>]
  /\ eof = [s \in Scans |-> FALSE]
  /\ rescans = {}

Next ==
  \/ \E c \in Changing : ChangeRelation(c[1], c[2])
  \/ \E new \in Paths : SetSearchPath(new)
  \/ \E p \in Portals : ExecutorStart(p) \/ ExecutorRun(p) \/ Suspend(p) \/ ExecutorEnd(p)
  \/ \E s \in Scans : IterScan(s) \/ ReScan(s)

Spec == Init /\ [][Next]_vars

\* ExecutePlan asks for rows until every scan has ended, and ends a query that
\* is over; what clients do is up to them, and nothing has to fail.
Proceed(s) == BufferedRow(s) \/ FetchedRow(s) \/ ScanEnd(s)
AllEnded(p) == \A s \in ScansOf(p) : eof[s]

FairSpec ==
  /\ Spec
  /\ \A s \in Scans : WF_vars(Proceed(s))
  /\ \A p \in Portals : WF_vars(AllEnded(p) /\ ExecutorEnd(p))

-----------------------------------------------------------------------------
(* Correctness.                                                             *)

\* Types, and where a batch lies in its stream.
TypeOK ==
  /\ kind \in [Schemas -> Kinds] /\ path \in Paths
  /\ phase \in [Portals -> Phases]
  /\ runs \in [Portals -> Nat]
  /\ \A p \in Portals : phase[p] # "idle" => \A r \in Refs[p] : bound[p][r] \in Schemas
  /\ \A s \in Scans :
       /\ scan[s] \in [stream : BOOLEAN, pos : Nat, base : Nat, size : Nat, index : Nat]
       /\ scan[s].index <= scan[s].size
       /\ scan[s].stream => scan[s].pos = scan[s].base + scan[s].size
       /\ scan[s].pos <= Rows[s]

\* A query that DataFusion serves is answered over the relations Postgres planned
\* it with - although its text is parsed again, by other rules, at every run -
\* and, fetched at once, completely, in order, and by nobody else.  Not so when
\* the search path or the catalog changed since, or when one relation belongs
\* to another extension's wrapper, which get_query_type and table_exist ignore.
PushdownExact ==
  \A p \in Portals : out[p] # <<>> /\ ~astray[p] =>
    /\ \A i \in DOMAIN out[p] : out[p][i][1] = bound[p]
    /\ p \notin Cursors =>
         /\ \A i \in DOMAIN out[p] : out[p][i][2] = i
         /\ Len(out[p]) <= Answer[p]
         /\ phase[p] # "failed" => Len(out[p]) = Answer[p]
         /\ \A s \in ScansOf(p) : emitted[s] = <<>>

\* However the scans of joins, cursors and nested queries interleave, and whatever
\* fails or ends early, each scan reads a stream of its own: what its successor
\* src/fdw/base.rs, with one stream per connection, keeps only for one scan at a
\* time.  (A scan that is run twice is another matter.)
Once == Scans \ Rescanned

Private == INSTANCE PrivateStreams WITH
  Scans <- Once,
  emitted <- [s \in Once |-> emitted[s]],
  eof <- [s \in Once |-> eof[s]]
ScansArePrivate == Private!Spec

\* A scan that is run again repeats or skips rows, as nothing tells the wrapper,
\* but never out of order: each pass is a tail of the rows, and ends with the
\* last one if it returns any.
PassesAreTails ==
  \A s \in Scans :
    /\ \A i \in DOMAIN emitted[s] : i > 1 =>
         emitted[s][i] = <<s, emitted[s][i - 1][2] + 1>>
    /\ eof[s] /\ emitted[s] # <<>> => emitted[s][Len(emitted[s])] = <<s, Rows[s]>>

\* A query left to Postgres ends, by its last row or by an error.
RunsEnd ==
  \A p \in Portals \ Cursors : phase[p] = "running" ~> phase[p] \in {"closed", "failed"}

=============================================================================
