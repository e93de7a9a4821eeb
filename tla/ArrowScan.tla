------------------------------ MODULE ArrowScan ------------------------------
(***************************************************************************)
(* One Postgres backend and the single result stream of its DuckDB         *)
(* connection.                                                             *)
(*                                                                         *)
(* src/duckdb/connection.rs keeps one GLOBAL_STATEMENT and one             *)
(* GLOBAL_ARROW per process.  Three clients use them:                      *)
(*   - the executor hook (src/hooks/executor.rs), which runs a whole       *)
(*     SELECT in DuckDB and falls back to the FDW when DuckDB refuses it;  *)
(*   - the EXECUTE branch of the utility hook (utility/prepare.rs);        *)
(*   - every foreign scan of the executor (src/fdw/base.rs), which pulls   *)
(*     the stream batch by batch across many executor calls.               *)
(* The backend has one thread, but its executions interleave: the scans    *)
(* of one plan are iterated in any order, a function called per row runs   *)
(* whole statements, and cursors are fetched in turns.                     *)
(***************************************************************************)
EXTENDS Integers, Sequences

CONSTANTS
  Portals,    \* executions of statements, each run once
  Scans,      \* foreign scans of their plans
  PortalOf,   \* the portal whose plan contains the scan
  Pushable,   \* portals over DuckDB foreign tables only (is_duckdb_query)
  Prepared,   \* portals reached through EXECUTE
  Cursors,    \* portals whose executor is run in several pieces (FETCH)
  Rescanned,  \* scans the plan rescans (correlated subplan, inner of a loop)
  Rows,       \* number of rows of the result of a portal or of a scan
  BatchSize,  \* most rows DuckDB returns in one record batch
  MaxRuns,    \* bound: executor runs of one cursor
  Nested,     \* may a statement start while another is open?
  None

Queries == Portals \cup Scans

ASSUME QueriesAssumption ==
  /\ Portals \cap Scans = {}
  /\ None \notin Queries
  /\ PortalOf \in [Scans -> Portals]
  /\ Pushable \subseteq Portals
  /\ Prepared \subseteq Portals
  /\ Cursors \subseteq Portals
  /\ Rescanned \subseteq Scans

ASSUME BoundsAssumption ==
  /\ Rows \in [Queries -> Nat]
  /\ BatchSize \in Nat \ {0}
  /\ MaxRuns \in Nat \ {0}
  /\ Nested \in BOOLEAN

VARIABLES
  slot,     \* GLOBAL_STATEMENT, whether GLOBAL_ARROW is set, rows taken so far
  phase,    \* what Postgres is doing with the portal
  runs,     \* calls of ExecutorRun on the portal
  out,      \* rows the hooks sent to the portal's destination
  scan,     \* the BaseFdw fields of each scan
  emitted,  \* rows the scan returned in its current pass
  eof,      \* the scan's last iteration returned None
  rescans   \* scans that have been rescanned

vars == <<slot, phase, runs, out, scan, emitted, eof, rescans>>

Phases == {"idle", "fallback", "open", "running", "closed", "failed"}

\* A row is named by the query it answers and its place in that answer.
Row == Queries \X (Nat \ {0})

\* The n rows of q that follow row lo.
RowsFrom(q, lo, n) == [i \in 1..n |-> <<q, lo + i>>]

ScansOf(p) == {s \in Scans : PortalOf[s] = p}

\* Portals with a live executor, or about to get one.
Active == {p \in Portals : phase[p] \in {"fallback", "open", "running"}}

-----------------------------------------------------------------------------
(* The stream of the connection.                                           *)

\* clear_arrow: both globals become None.
Cleared == [stmt |-> None, arrow |-> FALSE, pos |-> 0]

\* create_arrow succeeds: the globals hold the statement and its stream.
Created(q) == [stmt |-> q, arrow |-> TRUE, pos |-> 0]

\* create_arrow fails.  When prepare fails nothing was assigned.  When
\* query_arrow fails the statement is already replaced and GLOBAL_ARROW, which
\* borrows from the place the statement is stored in, now reads a statement
\* without result: it yields no row.
CreateFailures(q) == {slot, [slot EXCEPT !.stmt = q, !.pos = Rows[q]]}

\* What the stream can still yield, and the batches next() may return.
Remaining(sl) == IF sl.arrow THEN Rows[sl.stmt] - sl.pos ELSE 0
BatchSizes(sl) == {n \in 1..BatchSize : n <= Remaining(sl)}

\* An ERROR in p rolls back a (sub)transaction: p goes, and every portal
\* opened inside it.  Their executors are not ended, so no end_scan runs.
Abort(p) ==
  \E gone \in SUBSET Active :
    phase' = [q \in Portals |-> IF q \in gone \cup {p} THEN "failed" ELSE phase[q]]

-----------------------------------------------------------------------------
Init ==
  /\ slot = Cleared
  /\ phase = [p \in Portals |-> "idle"]
  /\ runs = [p \in Portals |-> 0]
  /\ out = [p \in Portals |-> <<>>]
  /\ scan = [s \in Scans |->
       [started |-> FALSE, src |-> None, base |-> 0, size |-> 0, index |-> 0]]
  /\ emitted = [s \in Scans |-> <<>>]
  /\ eof = [s \in Scans |-> FALSE]
  /\ rescans = {}

scanVars == <<scan, emitted, eof, rescans>>

CanStart == Nested \/ Active = {}

-----------------------------------------------------------------------------
(* What both hooks do with a query DuckDB is asked to run as a whole.      *)

\* Mutant: the stream is not cleared after the rows were written.
DeliveredUncleared(p) ==
  /\ out' = [out EXCEPT ![p] = @ \o RowsFrom(p, 0, Rows[p])]
  /\ slot' = [Created(p) EXCEPT !.pos = Rows[p]]

\* create_arrow, get_batches, write_batches_to_slots and clear_arrow succeed.
Delivered(p) ==
  /\ out' = [out EXCEPT ![p] = @ \o RowsFrom(p, 0, Rows[p])]
  /\ slot' = Cleared

\* create_arrow fails: clear_arrow, and the caller goes on in Postgres.
Refused ==
  /\ slot' = Cleared
  /\ UNCHANGED out

\* Mutant: rows are written while the stream is read, not after.
WriteFailedStreaming(p) ==
  /\ \E n \in 0..(Rows[p] - 1) :
       /\ out' = [out EXCEPT ![p] = @ \o RowsFrom(p, 0, n)]
       /\ slot' = [Created(p) EXCEPT !.pos = n]
  /\ Abort(p)

\* A cell cannot be converted after n rows: the error leaves through `?`, past
\* the final clear_arrow, with every batch already taken from the stream.
WriteFailed(p) ==
  /\ \E n \in 0..(Rows[p] - 1) :
       out' = [out EXCEPT ![p] = @ \o RowsFrom(p, 0, n)]
  /\ slot' = [Created(p) EXCEPT !.pos = Rows[p]]
  /\ Abort(p)

\* set_search_path_by_pg fails before the stream is touched.
SearchPathFailed(p) ==
  /\ Abort(p)
  /\ UNCHANGED <<slot, out>>

-----------------------------------------------------------------------------
(* EXECUTE of a prepared statement, in the utility hook.                   *)

ExecuteServed(p) ==
  /\ p \in Pushable
  /\ Delivered(p)
  /\ phase' = [phase EXCEPT ![p] = "closed"]

ExecuteFallsBack(p) ==
  /\ \/ p \in Pushable /\ Refused
     \/ p \notin Pushable /\ UNCHANGED <<slot, out>>
  /\ phase' = [phase EXCEPT ![p] = "fallback"]

ExecuteFailed(p) ==
  /\ p \in Pushable
  /\ WriteFailed(p) \/ SearchPathFailed(p)

ExecuteQuery(p) ==
  /\ p \in Prepared
  /\ phase[p] = "idle"
  /\ CanStart
  /\ ExecuteServed(p) \/ ExecuteFallsBack(p) \/ ExecuteFailed(p)
  /\ UNCHANGED <<runs, scanVars>>

-----------------------------------------------------------------------------
(* The executor.                                                           *)

\* ExecutorStart begins the scans of the plan: begin_scan builds the SQL text
\* and does not touch the stream.
ExecutorStart(p) ==
  /\ \/ p \in Prepared /\ phase[p] = "fallback"
     \/ p \notin Prepared /\ phase[p] = "idle" /\ CanStart
  /\ phase' = [phase EXCEPT ![p] = "open"]
  /\ UNCHANGED <<slot, runs, out, scanVars>>

\* The text of a prepared statement starts with PREPARE, so executor_run
\* leaves it to the previous hook.
HookTakes(p) == p \in Pushable \ Prepared

HookServed(p) ==
  /\ HookTakes(p)
  /\ Delivered(p)
  /\ UNCHANGED phase

HookFallsBack(p) ==
  /\ HookTakes(p)
  /\ Refused
  /\ phase' = [phase EXCEPT ![p] = "running"]

\* Mutant: an error while writing falls back as an error of DuckDB does.
HookFailedFallsBack(p) ==
  /\ HookTakes(p)
  /\ \E n \in 0..(Rows[p] - 1) :
       out' = [out EXCEPT ![p] = @ \o RowsFrom(p, 0, n)]
  /\ slot' = Cleared
  /\ phase' = [phase EXCEPT ![p] = "running"]

HookFailed(p) ==
  /\ HookTakes(p)
  /\ WriteFailed(p) \/ SearchPathFailed(p)

HookDeclines(p) ==
  /\ ~HookTakes(p)
  /\ phase' = [phase EXCEPT ![p] = "running"]
  /\ UNCHANGED <<slot, out>>

\* Every call of ExecutorRun enters the hook again; its row count is ignored
\* when the hook serves the query.
ExecutorRun(p) ==
  /\ phase[p] = "open"
  /\ runs[p] < IF p \in Cursors THEN MaxRuns ELSE 1
  /\ runs' = [runs EXCEPT ![p] = @ + 1]
  /\ HookServed(p) \/ HookFallsBack(p) \/ HookFailed(p) \/ HookDeclines(p)
  /\ UNCHANGED scanVars

\* A FETCH got its rows: ExecutorRun returns and the cursor stays open.
Suspend(p) ==
  /\ p \in Cursors
  /\ phase[p] = "running"
  /\ phase' = [phase EXCEPT ![p] = "open"]
  /\ UNCHANGED <<slot, runs, out, scanVars>>

\* ExecutorEnd, after the last run or an early stop (LIMIT, CLOSE): end_scan
\* of every scan of the plan is clear_arrow, whoever owns the stream.
ExecutorEnd(p) ==
  /\ phase[p] \in {"open", "running"}
  /\ runs[p] > 0
  /\ phase' = [phase EXCEPT ![p] = "closed"]
  /\ slot' = IF ScansOf(p) # {} THEN Cleared ELSE slot
  /\ UNCHANGED <<runs, out, scanVars>>

-----------------------------------------------------------------------------
(* iter_scan_impl: one call, from the executor of the scan's portal.       *)

\* The executor does not ask again after None, unless it rescans.
Wanted(s) == phase[PortalOf[s]] = "running" /\ ~eof[s]

\* Mutant: a stream that is already there is not replaced.
StreamReused(s) == IF scan[s].started \/ slot.arrow THEN slot ELSE Created(s)

\* The stream the iteration reads: its own, just created, the first time.
StreamOf(s) == IF scan[s].started THEN slot ELSE Created(s)

\* Mutant: off by one at the end of a batch.
BatchOverrun(s) == scan[s].index > scan[s].size

BatchUsedUp(s) == scan[s].index >= scan[s].size

\* The next row comes from the batch at hand.
BufferedRow(s) ==
  /\ Wanted(s)
  /\ ~BatchUsedUp(s)
  /\ emitted' = [emitted EXCEPT
       ![s] = Append(@, <<scan[s].src, scan[s].base + scan[s].index + 1>>)]
  /\ scan' = [scan EXCEPT ![s].index = @ + 1]
  /\ UNCHANGED <<slot, phase, runs, out, eof, rescans>>

\* Mutant: the stream is released with its first batch.
FetchedRowClears(s) ==
  /\ Wanted(s)
  /\ BatchUsedUp(s)
  /\ \E n \in BatchSizes(StreamOf(s)) :
       LET from == StreamOf(s) IN
       /\ slot' = Cleared
       /\ scan' = [scan EXCEPT ![s] =
            [started |-> TRUE, src |-> from.stmt, base |-> from.pos,
             size |-> n, index |-> 1]]
       /\ emitted' = [emitted EXCEPT ![s] = Append(@, <<from.stmt, from.pos + 1>>)]
  /\ UNCHANGED <<phase, runs, out, eof, rescans>>

\* The next row is the first of a new batch of whatever the stream holds.
FetchedRow(s) ==
  /\ Wanted(s)
  /\ BatchUsedUp(s)
  /\ \E n \in BatchSizes(StreamOf(s)) :
       LET from == StreamOf(s) IN
       /\ slot' = [from EXCEPT !.pos = @ + n]
       /\ scan' = [scan EXCEPT ![s] =
            [started |-> TRUE, src |-> from.stmt, base |-> from.pos,
             size |-> n, index |-> 1]]
       /\ emitted' = [emitted EXCEPT ![s] = Append(@, <<from.stmt, from.pos + 1>>)]
  /\ UNCHANGED <<phase, runs, out, eof, rescans>>

\* Mutant: at the end of the stream the scan waits for another batch.
ScanEndUnreported(s) ==
  /\ Wanted(s)
  /\ BatchUsedUp(s)
  /\ StreamOf(s).arrow
  /\ Remaining(StreamOf(s)) = 0
  /\ slot' = StreamOf(s)
  /\ scan' = [scan EXCEPT ![s].started = TRUE]
  /\ UNCHANGED <<phase, runs, out, emitted, eof, rescans>>

\* The stream is at its end.  The old batch stays and its index is reset.
ScanEnd(s) ==
  /\ Wanted(s)
  /\ BatchUsedUp(s)
  /\ StreamOf(s).arrow
  /\ Remaining(StreamOf(s)) = 0
  /\ slot' = StreamOf(s)
  /\ scan' = [scan EXCEPT ![s].started = TRUE, ![s].index = 0]
  /\ eof' = [eof EXCEPT ![s] = TRUE]
  /\ UNCHANGED <<phase, runs, out, emitted, rescans>>

\* create_arrow fails; scan_started was set before it was called.
CreateFailed(s) ==
  /\ Wanted(s)
  /\ ~scan[s].started
  /\ slot' \in CreateFailures(s)
  /\ scan' = [scan EXCEPT ![s].started = TRUE]
  /\ Abort(PortalOf[s])
  /\ UNCHANGED <<runs, out, emitted, eof, rescans>>

\* get_next_batch finds no stream: "No Arrow batches found in GLOBAL_ARROW".
StreamGone(s) == Wanted(s) /\ BatchUsedUp(s) /\ ~StreamOf(s).arrow

StreamLost(s) ==
  /\ StreamGone(s)
  /\ Abort(PortalOf[s])
  /\ scan' = [scan EXCEPT ![s].index = 0]
  /\ UNCHANGED <<slot, runs, out, emitted, eof, rescans>>

\* A cell of the next row cannot be converted.
CellFailed(s) ==
  /\ Wanted(s)
  /\ \/ ~BatchUsedUp(s) /\ UNCHANGED <<slot, scan>>
     \/ /\ BatchUsedUp(s)
        /\ \E n \in BatchSizes(StreamOf(s)) :
             LET from == StreamOf(s) IN
             /\ slot' = [from EXCEPT !.pos = @ + n]
             /\ scan' = [scan EXCEPT ![s] =
                  [started |-> TRUE, src |-> from.stmt, base |-> from.pos,
                   size |-> n, index |-> 0]]
  /\ Abort(PortalOf[s])
  /\ UNCHANGED <<runs, out, emitted, eof, rescans>>

IterScan(s) ==
  \/ BufferedRow(s) \/ FetchedRow(s) \/ ScanEnd(s)
  \/ CreateFailed(s) \/ StreamLost(s) \/ CellFailed(s)

\* The executor restarts the scan.  No wrapper implements re_scan, so the FDW
\* state stays as it is; only what the executor expects starts over.
ReScan(s) ==
  /\ s \in Rescanned \ rescans
  /\ phase[PortalOf[s]] = "running"
  /\ rescans' = rescans \cup {s}
  /\ emitted' = [emitted EXCEPT ![s] = <<>>]
  /\ eof' = [eof EXCEPT ![s] = FALSE]
  /\ UNCHANGED <<slot, phase, runs, out, scan>>

Next ==
  \/ \E p \in Portals :
       ExecuteQuery(p) \/ ExecutorStart(p) \/ ExecutorRun(p) \/ Suspend(p) \/ ExecutorEnd(p)
  \/ \E s \in Scans : IterScan(s) \/ ReScan(s)

Spec == Init /\ [][Next]_vars

-----------------------------------------------------------------------------
(* Fairness: ExecutePlan loops until the plan returns no row, and a run    *)
(* that is over is ended.  Nothing makes a client start or fetch.          *)

AllEnded(p) == \A s \in ScansOf(p) : eof[s]

FairSpec ==
  /\ Spec
  /\ \A s \in Scans : WF_vars(IterScan(s))
  /\ \A p \in Portals : WF_vars(AllEnded(p) /\ ExecutorEnd(p))

-----------------------------------------------------------------------------
(* Correctness.                                                            *)

ScanFields ==
  [started : BOOLEAN, src : Queries \cup {None}, base : Nat, size : Nat, index : Nat]

\* Types of the globals, the portals and the scans.
TypeOK ==
  /\ slot \in [stmt : Queries \cup {None}, arrow : BOOLEAN, pos : Nat]
  /\ phase \in [Portals -> Phases]
  /\ runs \in [Portals -> 0..MaxRuns]
  /\ out \in [Portals -> Seq(Row)]
  /\ scan \in [Scans -> ScanFields]
  /\ emitted \in [Scans -> Seq(Row)]
  /\ eof \in [Scans -> BOOLEAN]
  /\ rescans \subseteq Scans

\* A query the hooks serve is answered by its own rows, in order, once, and
\* completely unless the statement fails - whatever scans and statements are
\* interleaved with it - and a query whose rows went out through a hook is
\* never answered a second time by the executor.  (executor.rs, prepare.rs:
\* create, collect, write and clear happen in one call.)
PushdownExact ==
  \A p \in Portals \ Cursors :
    /\ out[p] = RowsFrom(p, 0, Len(out[p]))
    /\ Len(out[p]) <= Rows[p]
    /\ out[p] # <<>> /\ phase[p] # "failed" => Len(out[p]) = Rows[p]
    /\ \A s \in ScansOf(p) : emitted[s] # <<>> => out[p] = <<>>

\* With nothing open, the globals hold a stream only if some statement failed:
\* every path that ends normally goes through clear_arrow.
LeakOnlyAfterError ==
  Active = {} /\ slot # Cleared => \E p \in Portals : phase[p] = "failed"

\* s is the only scan that has ever used the stream of the connection.
Sole(s) == scan[s].started /\ \A t \in Scans \ {s} : ~scan[t].started

InOrder(s) == emitted[s] = RowsFrom(s, 0, Len(emitted[s])) /\ Len(emitted[s]) <= Rows[s]

\* Statements pushed down while a single scan is open may take its stream away
\* (the scan then fails), but they never feed it a wrong row, and make it end
\* early only by failing themselves with the stream left behind.
SoleScanSafe ==
  \A s \in Scans \ rescans : Sole(s) =>
    /\ InOrder(s)
    /\ eof[s] => \/ Len(emitted[s]) = Rows[s]
                 \/ \E p \in Pushable : phase[p] = "failed"

\* One statement at a time and one scan per statement: the scans behave as if
\* each had a stream of its own.  (An error may leave a stale stream; the next
\* scan replaces it before reading.)
Private == INSTANCE PrivateStreams WITH emitted <- emitted, eof <- eof
ScansArePrivate == Private!Spec

\* One statement at a time and one scan per statement: no scan that was
\* started finds the stream gone.
NeverLost == \A s \in Scans : ~StreamGone(s)

\* A statement left to the executor ends, by its last row or by an error.
RunsEnd ==
  \A p \in Portals \ Cursors : phase[p] = "running" ~> phase[p] \in {"closed", "failed"}

\* A portal DuckDB refused, which the executor is now running.
FellBack(p) == p \in Pushable /\ phase[p] = "running"

\* The warning of a fallback says that "query times may be impacted", so the
\* scans of a query that fell back (FellBack) return the rows of that query:
\* a first pass returns them in order, and every pass returns them all.
FallbackExact ==
  \A s \in Scans : FellBack(PortalOf[s]) =>
    /\ s \notin rescans => InOrder(s)
    /\ eof[s] => Len(emitted[s]) = Rows[s]

=============================================================================
