-------------------------- MODULE ArrowScan_proofs --------------------------
(***************************************************************************)
(* Proofs about ArrowScan, for every set of portals and scans, every       *)
(* result size, batch size and interleaving.                               *)
(***************************************************************************)
EXTENDS ArrowScan, TLAPS

USE QueriesAssumption, BoundsAssumption

\* What TypeOK needs to be inductive: a stream that is set is the stream of a
\* query and within its rows, and so is the unread part of a batch.
StreamWithinRows ==
  slot.arrow => slot.stmt \in Queries /\ slot.pos <= Rows[slot.stmt]

BatchHasSource ==
  \A s \in Scans : scan[s].size > 0 => scan[s].src \in Queries

TypeInv == TypeOK /\ StreamWithinRows /\ BatchHasSource

-----------------------------------------------------------------------------
LEMMA RowsFromType ==
  ASSUME NEW q \in Queries, NEW lo \in Nat, NEW n \in Nat
  PROVE  RowsFrom(q, lo, n) \in Seq(Row)
BY DEF RowsFrom, Row

LEMMA AbortType ==
  ASSUME NEW p \in Portals, Abort(p), phase \in [Portals -> Phases]
  PROVE  phase' \in [Portals -> Phases]
BY DEF Abort, Phases

\* Every phase change of an abort is to "failed", and it only hits p and
\* active portals.
LEMMA AbortEffect ==
  ASSUME NEW p \in Portals, Abort(p), NEW q \in Portals
  PROVE  /\ phase'[q] # phase[q] => phase'[q] = "failed"
         /\ phase'[p] = "failed"
         /\ phase[q] = "failed" => phase'[q] = "failed"
BY DEF Abort

LEMMA InitType == Init => TypeInv
BY DEF Init, TypeInv, TypeOK, StreamWithinRows, BatchHasSource, Cleared, Phases,
       ScanFields

\* What a failed or successful push down leaves behind.
LEMMA DeliveredType ==
  ASSUME NEW p \in Portals, TypeOK, Delivered(p) \/ Refused \/ WriteFailed(p)
  PROVE  /\ slot' \in [stmt : Queries \cup {None}, arrow : BOOLEAN, pos : Nat]
         /\ StreamWithinRows'
         /\ out' \in [Portals -> Seq(Row)]
<1>1. p \in Queries /\ Rows[p] \in Nat
  BY DEF Queries
<1>2. CASE Delivered(p)
  <2>1. RowsFrom(p, 0, Rows[p]) \in Seq(Row)
    BY <1>1, RowsFromType
  <2>. QED
    BY <1>2, <2>1 DEF Delivered, Cleared, StreamWithinRows, TypeOK
<1>3. CASE Refused
  BY <1>3 DEF Refused, Cleared, StreamWithinRows, TypeOK
<1>4. CASE WriteFailed(p)
  <2>1. PICK n \in 0..(Rows[p] - 1) :
          out' = [out EXCEPT ![p] = @ \o RowsFrom(p, 0, n)]
    BY <1>4 DEF WriteFailed
  <2>2. RowsFrom(p, 0, n) \in Seq(Row)
    BY <1>1, RowsFromType
  <2>3. slot' = [stmt |-> p, arrow |-> TRUE, pos |-> Rows[p]]
    BY <1>4 DEF WriteFailed, Created
  <2>. QED
    BY <1>1, <2>1, <2>2, <2>3 DEF StreamWithinRows, TypeOK
<1>. QED
  BY <1>2, <1>3, <1>4

\* The stream an iteration reads is well formed too.
LEMMA StreamOfType ==
  ASSUME TypeInv, NEW s \in Scans
  PROVE  /\ StreamOf(s) \in [stmt : Queries \cup {None}, arrow : BOOLEAN, pos : Nat]
         /\ StreamOf(s).arrow => /\ StreamOf(s).stmt \in Queries
                                 /\ Rows[StreamOf(s).stmt] \in Nat
                                 /\ StreamOf(s).pos <= Rows[StreamOf(s).stmt]
         /\ \A n \in BatchSizes(StreamOf(s)) :
              /\ n \in Nat \ {0}
              /\ StreamOf(s).arrow
              /\ StreamOf(s).pos + n <= Rows[StreamOf(s).stmt]
<1>1. s \in Queries /\ Rows[s] \in Nat
  BY DEF Queries
<1>2. CASE scan[s].started
  BY <1>1, <1>2 DEF TypeInv, TypeOK, StreamWithinRows, StreamOf, BatchSizes, Remaining
<1>3. CASE ~scan[s].started
  BY <1>1, <1>3 DEF StreamOf, Created, BatchSizes, Remaining
<1>. QED
  BY <1>2, <1>3

\* Updating the flag or the index of a scan leaves its batch alone.
LEMMA ScanUpdate ==
  ASSUME TypeInv, NEW s \in Scans,
         \/ scan' = [scan EXCEPT ![s].index = @ + 1]
         \/ scan' = [scan EXCEPT ![s].index = 0]
         \/ scan' = [scan EXCEPT ![s].started = TRUE]
         \/ scan' = [scan EXCEPT ![s].started = TRUE, ![s].index = 0]
  PROVE  /\ scan' \in [Scans -> ScanFields]
         /\ BatchHasSource'
<1>1. scan \in [Scans -> ScanFields] /\ scan[s] \in ScanFields
  BY DEF TypeInv, TypeOK
<1>2. \E st \in BOOLEAN, k \in Nat :
        scan' = [scan EXCEPT ![s] = [scan[s] EXCEPT !.started = st, !.index = k]]
  <2>1. scan[s].started \in BOOLEAN /\ scan[s].index \in Nat /\ scan[s].index + 1 \in Nat
    BY <1>1 DEF ScanFields
  <2>2. CASE scan' = [scan EXCEPT ![s].index = @ + 1]
    <3>1. scan' = [scan EXCEPT ![s] =
                     [scan[s] EXCEPT !.started = scan[s].started, !.index = scan[s].index + 1]]
      BY <1>1, <2>2 DEF ScanFields
    <3>. QED BY <2>1, <3>1
  <2>3. CASE scan' = [scan EXCEPT ![s].index = 0]
    <3>1. scan' = [scan EXCEPT ![s] =
                     [scan[s] EXCEPT !.started = scan[s].started, !.index = 0]]
      BY <1>1, <2>3 DEF ScanFields
    <3>. QED BY <2>1, <3>1
  <2>4. CASE scan' = [scan EXCEPT ![s].started = TRUE]
    <3>1. scan' = [scan EXCEPT ![s] =
                     [scan[s] EXCEPT !.started = TRUE, !.index = scan[s].index]]
      BY <1>1, <2>4 DEF ScanFields
    <3>. QED BY <2>1, <3>1
  <2>5. CASE scan' = [scan EXCEPT ![s].started = TRUE, ![s].index = 0]
    <3>1. scan' = [scan EXCEPT ![s] = [scan[s] EXCEPT !.started = TRUE, !.index = 0]]
      BY <1>1, <2>5 DEF ScanFields
    <3>. QED BY <3>1
  <2>. QED
    BY <2>2, <2>3, <2>4, <2>5
<1>3. PICK st \in BOOLEAN, k \in Nat :
        scan' = [scan EXCEPT ![s] = [scan[s] EXCEPT !.started = st, !.index = k]]
  BY <1>2
<1>4. [scan[s] EXCEPT !.started = st, !.index = k] \in ScanFields
  BY <1>1 DEF ScanFields
<1>5. \A t \in Scans : scan'[t].src = scan[t].src /\ scan'[t].size = scan[t].size
  BY <1>1, <1>3 DEF ScanFields
<1>. QED
  BY <1>1, <1>3, <1>4, <1>5 DEF TypeInv, BatchHasSource

-----------------------------------------------------------------------------
LEMMA NextType == TypeInv /\ [Next]_vars => TypeInv'
<1> SUFFICES ASSUME TypeInv, [Next]_vars PROVE TypeInv'
  OBVIOUS
<1> USE DEF TypeInv
<1>1. ASSUME NEW p \in Portals, ExecuteQuery(p) PROVE TypeInv'
  <2>1. UNCHANGED <<runs, scan, emitted, eof, rescans>>
    BY <1>1 DEF ExecuteQuery, scanVars
  <2>2. /\ slot' \in [stmt : Queries \cup {None}, arrow : BOOLEAN, pos : Nat]
        /\ StreamWithinRows'
        /\ out' \in [Portals -> Seq(Row)]
        /\ phase' \in [Portals -> Phases]
    <3>1. CASE ExecuteServed(p)
      BY <3>1, DeliveredType DEF ExecuteServed, TypeOK, Phases
    <3>2. CASE ExecuteFallsBack(p)
      BY <3>2, DeliveredType DEF ExecuteFallsBack, TypeOK, Phases, StreamWithinRows
    <3>3. CASE ExecuteFailed(p)
      <4>1. CASE WriteFailed(p)
        BY <4>1, DeliveredType, AbortType DEF WriteFailed, TypeOK
      <4>2. CASE SearchPathFailed(p)
        BY <4>2, AbortType DEF SearchPathFailed, TypeOK, StreamWithinRows
      <4>. QED BY <3>3, <4>1, <4>2 DEF ExecuteFailed
    <3>. QED BY <1>1, <3>1, <3>2, <3>3 DEF ExecuteQuery
  <2>. QED BY <2>1, <2>2 DEF TypeOK, BatchHasSource
<1>2. ASSUME NEW p \in Portals, ExecutorStart(p) PROVE TypeInv'
  BY <1>2 DEF ExecutorStart, scanVars, TypeOK, StreamWithinRows, BatchHasSource, Phases
<1>3. ASSUME NEW p \in Portals, ExecutorRun(p) PROVE TypeInv'
  <2>1. UNCHANGED <<scan, emitted, eof, rescans>>
    BY <1>3 DEF ExecutorRun, scanVars
  <2>2. runs' \in [Portals -> 0..MaxRuns]
    BY <1>3 DEF ExecutorRun, TypeOK
  <2>3. /\ slot' \in [stmt : Queries \cup {None}, arrow : BOOLEAN, pos : Nat]
        /\ StreamWithinRows'
        /\ out' \in [Portals -> Seq(Row)]
        /\ phase' \in [Portals -> Phases]
    <3>1. CASE HookServed(p)
      BY <3>1, DeliveredType DEF HookServed, TypeOK
    <3>2. CASE HookFallsBack(p)
      BY <3>2, DeliveredType DEF HookFallsBack, TypeOK, Phases
    <3>3. CASE HookFailed(p)
      <4>1. CASE WriteFailed(p)
        BY <4>1, DeliveredType, AbortType DEF WriteFailed, TypeOK
      <4>2. CASE SearchPathFailed(p)
        BY <4>2, AbortType DEF SearchPathFailed, TypeOK, StreamWithinRows
      <4>. QED BY <3>3, <4>1, <4>2 DEF HookFailed
    <3>4. CASE HookDeclines(p)
      BY <3>4 DEF HookDeclines, TypeOK, Phases, StreamWithinRows
    <3>. QED BY <1>3, <3>1, <3>2, <3>3, <3>4 DEF ExecutorRun
  <2>. QED BY <2>1, <2>2, <2>3 DEF TypeOK, BatchHasSource
<1>4. ASSUME NEW p \in Portals, Suspend(p) PROVE TypeInv'
  BY <1>4 DEF Suspend, scanVars, TypeOK, StreamWithinRows, BatchHasSource, Phases
<1>5. ASSUME NEW p \in Portals, ExecutorEnd(p) PROVE TypeInv'
  BY <1>5 DEF ExecutorEnd, scanVars, TypeOK, StreamWithinRows, BatchHasSource, Phases,
              Cleared
<1>6. ASSUME NEW s \in Scans, BufferedRow(s) PROVE TypeInv'
  <2>1. <<scan[s].src, scan[s].base + scan[s].index + 1>> \in Row
    BY <1>6 DEF BufferedRow, BatchUsedUp, TypeOK, ScanFields, BatchHasSource, Row
  <2>2. emitted' \in [Scans -> Seq(Row)]
    BY <1>6, <2>1 DEF BufferedRow, TypeOK
  <2>3. scan' = [scan EXCEPT ![s].index = @ + 1]
    BY <1>6 DEF BufferedRow
  <2>4. scan' \in [Scans -> ScanFields] /\ BatchHasSource'
    BY <2>3, ScanUpdate
  <2>. QED BY <1>6, <2>2, <2>4 DEF BufferedRow, TypeOK, StreamWithinRows
<1>7. ASSUME NEW s \in Scans, FetchedRow(s) PROVE TypeInv'
  <2> DEFINE from == StreamOf(s)
  <2>1. PICK n \in BatchSizes(from) :
          /\ slot' = [from EXCEPT !.pos = @ + n]
          /\ scan' = [scan EXCEPT ![s] =
               [started |-> TRUE, src |-> from.stmt, base |-> from.pos,
                size |-> n, index |-> 1]]
          /\ emitted' = [emitted EXCEPT ![s] = Append(@, <<from.stmt, from.pos + 1>>)]
    BY <1>7 DEF FetchedRow
  <2>2. /\ from \in [stmt : Queries \cup {None}, arrow : BOOLEAN, pos : Nat]
        /\ from.stmt \in Queries
        /\ n \in Nat \ {0}
        /\ from.pos + n <= Rows[from.stmt]
    BY <2>1, StreamOfType
  <2> HIDE DEF from
  <2>3. slot' \in [stmt : Queries \cup {None}, arrow : BOOLEAN, pos : Nat] /\ StreamWithinRows'
    BY <2>1, <2>2 DEF StreamWithinRows
  <2>4. emitted' \in [Scans -> Seq(Row)]
    <3>1. <<from.stmt, from.pos + 1>> \in Row
      BY <2>2 DEF Row
    <3>2. emitted \in [Scans -> Seq(Row)]
      BY DEF TypeOK
    <3>3. Append(emitted[s], <<from.stmt, from.pos + 1>>) \in Seq(Row)
      BY <3>1, <3>2
    <3> QED BY <2>1, <3>2, <3>3
  <2> DEFINE batch == [started |-> TRUE, src |-> from.stmt, base |-> from.pos,
                       size |-> n, index |-> 1]
  <2>5. batch \in ScanFields /\ batch.src \in Queries
    BY <2>2 DEF ScanFields
  <2>6. scan' = [scan EXCEPT ![s] = batch] /\ scan \in [Scans -> ScanFields] /\ BatchHasSource
    BY <2>1 DEF TypeOK
  <2> HIDE DEF batch
  <2>7. scan' \in [Scans -> ScanFields]
    BY <2>5, <2>6
  <2>8. \A r \in Scans : scan'[r] = batch \/ scan'[r] = scan[r]
    BY <2>6
  <2>9. BatchHasSource'
    BY <2>5, <2>6, <2>8 DEF BatchHasSource
  <2>. QED BY <1>7, <2>3, <2>4, <2>7, <2>9 DEF FetchedRow, TypeOK
<1>8. ASSUME NEW s \in Scans, ScanEnd(s) PROVE TypeInv'
  <2>1. slot' \in [stmt : Queries \cup {None}, arrow : BOOLEAN, pos : Nat] /\ StreamWithinRows'
    BY <1>8, StreamOfType DEF ScanEnd, StreamWithinRows
  <2>2. scan' \in [Scans -> ScanFields] /\ BatchHasSource'
    <3>1. scan' = [scan EXCEPT ![s].started = TRUE, ![s].index = 0]
      BY <1>8 DEF ScanEnd
    <3>. QED BY <3>1, ScanUpdate
  <2>. QED BY <1>8, <2>1, <2>2 DEF ScanEnd, TypeOK
<1>9. ASSUME NEW s \in Scans, CreateFailed(s) PROVE TypeInv'
  <2>1. s \in Queries /\ Rows[s] \in Nat
    BY DEF Queries
  <2>2. slot' \in [stmt : Queries \cup {None}, arrow : BOOLEAN, pos : Nat] /\ StreamWithinRows'
    <3>1. CASE slot' = slot
      BY <3>1 DEF TypeOK, StreamWithinRows
    <3>2. CASE slot' = [slot EXCEPT !.stmt = s, !.pos = Rows[s]]
      <4>1. slot' = [stmt |-> s, arrow |-> slot.arrow, pos |-> Rows[s]]
        BY <3>2 DEF TypeOK
      <4>. QED BY <2>1, <4>1 DEF TypeOK, StreamWithinRows
    <3>. QED BY <1>9, <3>1, <3>2 DEF CreateFailed, CreateFailures
  <2>3. phase' \in [Portals -> Phases]
    <3>1. PortalOf[s] \in Portals
      OBVIOUS
    <3>. QED BY <1>9, <3>1, AbortType DEF CreateFailed, TypeOK
  <2>4. scan' \in [Scans -> ScanFields] /\ BatchHasSource'
    <3>1. scan' = [scan EXCEPT ![s].started = TRUE]
      BY <1>9 DEF CreateFailed
    <3>. QED BY <3>1, ScanUpdate
  <2>. QED BY <1>9, <2>2, <2>3, <2>4 DEF CreateFailed, TypeOK
<1>10. ASSUME NEW s \in Scans, StreamLost(s) PROVE TypeInv'
  <2>1. phase' \in [Portals -> Phases]
    BY <1>10, AbortType DEF StreamLost, TypeOK
  <2>2. scan' \in [Scans -> ScanFields] /\ BatchHasSource'
    <3>1. scan' = [scan EXCEPT ![s].index = 0]
      BY <1>10 DEF StreamLost
    <3>. QED BY <3>1, ScanUpdate
  <2>. QED BY <1>10, <2>1, <2>2 DEF StreamLost, TypeOK, StreamWithinRows
<1>11. ASSUME NEW s \in Scans, CellFailed(s) PROVE TypeInv'
  <2>1. phase' \in [Portals -> Phases]
    BY <1>11, AbortType DEF CellFailed, TypeOK
  <2>2. CASE UNCHANGED <<slot, scan>>
    BY <1>11, <2>1, <2>2 DEF CellFailed, TypeOK, StreamWithinRows, BatchHasSource
  <2>3. CASE \E n \in BatchSizes(StreamOf(s)) :
               /\ slot' = [StreamOf(s) EXCEPT !.pos = @ + n]
               /\ scan' = [scan EXCEPT ![s] =
                    [started |-> TRUE, src |-> StreamOf(s).stmt,
                     base |-> StreamOf(s).pos, size |-> n, index |-> 0]]
    <3> DEFINE from == StreamOf(s)
    <3>1. PICK n \in BatchSizes(from) :
            /\ slot' = [from EXCEPT !.pos = @ + n]
            /\ scan' = [scan EXCEPT ![s] =
                 [started |-> TRUE, src |-> from.stmt, base |-> from.pos,
                  size |-> n, index |-> 0]]
      BY <2>3
    <3>2. /\ from \in [stmt : Queries \cup {None}, arrow : BOOLEAN, pos : Nat]
          /\ from.stmt \in Queries
          /\ n \in Nat \ {0}
          /\ from.pos + n <= Rows[from.stmt]
      BY <3>1, StreamOfType
    <3> HIDE DEF from
    <3>3. slot' \in [stmt : Queries \cup {None}, arrow : BOOLEAN, pos : Nat] /\ StreamWithinRows'
      BY <3>1, <3>2 DEF StreamWithinRows
    <3>4. scan' \in [Scans -> ScanFields] /\ BatchHasSource'
      BY <3>1, <3>2 DEF TypeOK, ScanFields, BatchHasSource
    <3>. QED BY <1>11, <2>1, <3>3, <3>4 DEF CellFailed, TypeOK
  <2>. QED BY <1>11, <2>2, <2>3 DEF CellFailed
<1>12. ASSUME NEW s \in Scans, ReScan(s) PROVE TypeInv'
  BY <1>12 DEF ReScan, TypeOK, StreamWithinRows, BatchHasSource
<1>13. CASE UNCHANGED vars
  BY <1>13 DEF vars, TypeOK, StreamWithinRows, BatchHasSource
<1>. QED
  BY <1>1, <1>2, <1>3, <1>4, <1>5, <1>6, <1>7, <1>8, <1>9, <1>10, <1>11, <1>12, <1>13
  DEF Next, IterScan

\* The globals, the portals and the scans keep their types in every behaviour.
THEOREM TypeCorrect == Spec => []TypeOK
<1>1. Spec => []TypeInv
  BY InitType, NextType, PTL DEF Spec
<1>2. TypeInv => TypeOK
  BY DEF TypeInv
<1>. QED
  BY <1>1, <1>2, PTL

-----------------------------------------------------------------------------
(* PushdownExact.  Strengthening: a portal nothing has answered yet has    *)
(* sent no row and its scans have returned none, and a portal in the hands *)
(* of the executor was not answered by a hook.                             *)

Unanswered(p) ==
  \/ phase[p] \in {"idle", "fallback"}
  \/ phase[p] = "open" /\ runs[p] = 0

PortalInv(p) ==
  /\ out[p] = RowsFrom(p, 0, Len(out[p]))
  /\ Len(out[p]) <= Rows[p]
  /\ out[p] # <<>> /\ phase[p] # "failed" => Len(out[p]) = Rows[p]
  /\ \A s \in ScansOf(p) : emitted[s] # <<>> => out[p] = <<>>
  /\ Unanswered(p) => /\ runs[p] = 0
                      /\ out[p] = <<>>
                      /\ \A s \in ScansOf(p) : emitted[s] = <<>>
  /\ phase[p] = "running" => runs[p] > 0 /\ out[p] = <<>>

PushdownInv == \A p \in Portals \ Cursors : PortalInv(p)

LEMMA RowsFromLen ==
  ASSUME NEW q \in Queries, NEW n \in Nat
  PROVE  /\ Len(RowsFrom(q, 0, n)) = n
         /\ <<>> \o RowsFrom(q, 0, n) = RowsFrom(q, 0, n)
BY RowsFromType DEF RowsFrom

LEMMA InitPushdown == Init => PushdownInv
<1> SUFFICES ASSUME Init, NEW p \in Portals \ Cursors PROVE PortalInv(p)
  BY DEF PushdownInv
<1>1. out[p] = <<>> /\ runs[p] = 0 /\ phase[p] = "idle"
  BY DEF Init
<1>2. \A s \in ScansOf(p) : emitted[s] = <<>>
  BY DEF Init, ScansOf
<1>3. Rows[p] \in Nat
  BY DEF Queries
<1>4. <<>> = RowsFrom(p, 0, 0)
  BY DEF RowsFrom
<1>. QED
  BY <1>1, <1>2, <1>3, <1>4 DEF PortalInv

\* A portal whose rows, runs and scans do not change keeps the invariant when
\* its phase stays or becomes "failed".
LEMMA PortalKept ==
  ASSUME NEW p \in Portals, PortalInv(p),
         out'[p] = out[p], runs'[p] = runs[p],
         \A s \in ScansOf(p) : emitted'[s] = emitted[s],
         phase'[p] \in {phase[p], "failed"}
  PROVE  PortalInv(p)'
BY DEF PortalInv, Unanswered, ScansOf

\* The rows a hook sends for a portal nothing has answered yet.
LEMMA PortalAnswered ==
  ASSUME TypeOK, NEW p \in Portals, PortalInv(p), Unanswered(p),
         NEW n \in 0..Rows[p],
         out' = [out EXCEPT ![p] = @ \o RowsFrom(p, 0, n)],
         \A s \in ScansOf(p) : emitted'[s] = emitted[s],
         \/ phase'[p] = "failed"
         \/ n = Rows[p] /\ phase'[p] = "closed"
         \/ n = Rows[p] /\ phase'[p] = "open" /\ runs'[p] = 1
  PROVE  PortalInv(p)'
<1>1. Rows[p] \in Nat /\ n \in Nat /\ p \in Queries
  BY DEF Queries
<1>2. out[p] = <<>> /\ runs[p] = 0
  BY DEF PortalInv
<1>3. out'[p] = <<>> \o RowsFrom(p, 0, n)
  BY <1>2 DEF TypeOK
<1>4. out'[p] = RowsFrom(p, 0, n) /\ Len(out'[p]) = n
  BY <1>1, <1>3, RowsFromLen
<1>5. \A s \in ScansOf(p) : emitted'[s] = <<>>
  BY DEF PortalInv
<1>6. ~Unanswered(p)' /\ phase'[p] # "running"
  BY DEF Unanswered
<1>7. phase'[p] # "failed" => Len(out'[p]) = Rows[p]
  BY <1>4
<1>8. out'[p] = RowsFrom(p, 0, Len(out'[p]))
  BY <1>4, Zenon
<1>9. Len(out'[p]) <= Rows[p]
  BY <1>1, <1>4
<1>. QED
  BY <1>5, <1>6, <1>7, <1>8, <1>9 DEF PortalInv, ScansOf

LEMMA NextPushdown == TypeOK /\ PushdownInv /\ [Next]_vars => PushdownInv'
<1> SUFFICES ASSUME TypeOK, PushdownInv, [Next]_vars, NEW p \in Portals \ Cursors
             PROVE  PortalInv(p)'
  BY DEF PushdownInv
<1>0. /\ PortalInv(p)
      /\ Rows[p] \in Nat
      /\ \A s \in ScansOf(p) : s \in Scans /\ PortalOf[s] = p
  BY DEF PushdownInv, Queries, ScansOf
<1>1. ASSUME NEW q \in Portals, ExecuteQuery(q) PROVE PortalInv(p)'
  <2>1. UNCHANGED <<runs, scan, emitted, eof, rescans>> /\ phase[q] = "idle"
    BY <1>1 DEF ExecuteQuery, scanVars
  <2>2. CASE ExecuteServed(q) /\ q = p
    <3>1. out' = [out EXCEPT ![p] = @ \o RowsFrom(p, 0, Rows[p])] /\ phase'[p] = "closed"
      BY <2>2 DEF ExecuteServed, Delivered, TypeOK
    <3>2. Unanswered(p) /\ Rows[p] \in 0..Rows[p]
      BY <1>0, <2>1, <2>2 DEF Unanswered
    <3>. QED BY <1>0, <2>1, <3>1, <3>2, PortalAnswered
  <2>3. CASE ExecuteServed(q) /\ q # p
    BY <1>0, <2>1, <2>3, PortalKept DEF ExecuteServed, Delivered, TypeOK
  <2>4. CASE ExecuteFallsBack(q)
    <3>1. out' = out
      BY <2>4 DEF ExecuteFallsBack, Refused
    <3>2. CASE q = p
      <4>1. phase'[p] = "fallback"
        BY <2>4, <3>2 DEF ExecuteFallsBack, TypeOK
      <4>. QED BY <1>0, <2>1, <3>1, <3>2, <4>1 DEF PortalInv, Unanswered, ScansOf
    <3>3. CASE q # p
      BY <1>0, <2>1, <2>4, <3>1, <3>3, PortalKept DEF ExecuteFallsBack, TypeOK
    <3>. QED BY <3>2, <3>3
  <2>5. CASE ExecuteFailed(q) /\ WriteFailed(q)
    <3>1. PICK n \in 0..(Rows[q] - 1) :
            out' = [out EXCEPT ![q] = @ \o RowsFrom(q, 0, n)]
      BY <2>5 DEF WriteFailed
    <3>2. phase'[q] = "failed" /\ phase'[p] \in {phase[p], "failed"}
      BY <2>5, AbortEffect DEF WriteFailed
    <3>3. CASE q = p
      <4>1. n \in 0..Rows[p]
        BY <1>0, <3>3
      <4>. QED BY <1>0, <2>1, <3>1, <3>2, <3>3, <4>1, PortalAnswered DEF Unanswered
    <3>4. CASE q # p
      BY <1>0, <2>1, <3>1, <3>2, <3>4, PortalKept DEF TypeOK
    <3>. QED BY <3>3, <3>4
  <2>6. CASE ExecuteFailed(q) /\ SearchPathFailed(q)
    BY <1>0, <2>1, <2>6, AbortEffect, PortalKept DEF SearchPathFailed
  <2>. QED
    BY <1>1, <2>2, <2>3, <2>4, <2>5, <2>6 DEF ExecuteQuery, ExecuteFailed
<1>2. ASSUME NEW q \in Portals, ExecutorStart(q) PROVE PortalInv(p)'
  <2>1. UNCHANGED <<runs, out, emitted>>
    BY <1>2 DEF ExecutorStart, scanVars
  <2>2. CASE q = p
    <3>1. Unanswered(p) /\ phase'[p] = "open"
      BY <1>2, <2>2 DEF ExecutorStart, Unanswered, TypeOK
    <3>. QED BY <1>0, <2>1, <3>1 DEF PortalInv, Unanswered, ScansOf
  <2>3. CASE q # p
    BY <1>0, <1>2, <2>1, <2>3, PortalKept DEF ExecutorStart, TypeOK
  <2>. QED BY <2>2, <2>3
<1>3. ASSUME NEW q \in Portals, ExecutorRun(q) PROVE PortalInv(p)'
  <2>1. UNCHANGED <<scan, emitted, eof, rescans>> /\ phase[q] = "open"
    BY <1>3 DEF ExecutorRun, scanVars
  <2>2. CASE q # p
    <3>1. runs'[p] = runs[p]
      BY <1>3, <2>2 DEF ExecutorRun, TypeOK
    <3>2. out'[p] = out[p]
      BY <1>3, <2>2 DEF ExecutorRun, HookServed, HookFallsBack, HookFailed, HookDeclines,
           Delivered, Refused, WriteFailed, SearchPathFailed, TypeOK
    <3>3. phase'[p] \in {phase[p], "failed"}
      <4>1. CASE HookServed(q) \/ HookFallsBack(q) \/ HookDeclines(q)
        BY <2>2, <4>1 DEF HookServed, HookFallsBack, HookDeclines, TypeOK
      <4>2. CASE HookFailed(q)
        BY <4>2, AbortEffect DEF HookFailed, WriteFailed, SearchPathFailed
      <4>. QED BY <1>3, <4>1, <4>2 DEF ExecutorRun
    <3>. QED BY <1>0, <2>1, <3>1, <3>2, <3>3, PortalKept
  <2>3. CASE q = p
    <3>1. runs[p] = 0 /\ runs'[p] = 1 /\ Unanswered(p)
      BY <1>3, <2>1, <2>3 DEF ExecutorRun, Unanswered, TypeOK
    <3>2. CASE HookServed(p)
      <4>1. out' = [out EXCEPT ![p] = @ \o RowsFrom(p, 0, Rows[p])] /\ phase'[p] = "open"
        BY <2>1, <2>3, <3>2 DEF HookServed, Delivered
      <4>2. Rows[p] \in 0..Rows[p]
        BY <1>0
      <4>. QED BY <1>0, <2>1, <3>1, <4>1, <4>2, PortalAnswered
    <3>3. CASE HookFallsBack(p) \/ HookDeclines(p)
      <4>1. out' = out /\ phase'[p] = "running"
        BY <3>3 DEF HookFallsBack, HookDeclines, Refused, TypeOK
      <4>. QED BY <1>0, <2>1, <3>1, <4>1 DEF PortalInv, Unanswered, ScansOf
    <3>4. CASE HookFailed(p) /\ WriteFailed(p)
      <4>1. PICK n \in 0..(Rows[p] - 1) :
              out' = [out EXCEPT ![p] = @ \o RowsFrom(p, 0, n)]
        BY <3>4 DEF WriteFailed
      <4>2. phase'[p] = "failed" /\ n \in 0..Rows[p]
        BY <1>0, <3>4, AbortEffect DEF WriteFailed
      <4>. QED BY <1>0, <2>1, <3>1, <4>1, <4>2, PortalAnswered
    <3>5. CASE HookFailed(p) /\ SearchPathFailed(p)
      <4>1. out' = out /\ phase'[p] = "failed"
        BY <3>5, AbortEffect DEF SearchPathFailed
      <4>. QED BY <1>0, <2>1, <3>1, <4>1 DEF PortalInv, Unanswered, ScansOf
    <3>. QED BY <1>3, <2>3, <3>2, <3>3, <3>4, <3>5 DEF ExecutorRun, HookFailed
  <2>. QED BY <2>2, <2>3
<1>4. ASSUME NEW q \in Portals, Suspend(q) PROVE PortalInv(p)'
  BY <1>0, <1>4, PortalKept DEF Suspend, scanVars, TypeOK
<1>5. ASSUME NEW q \in Portals, ExecutorEnd(q) PROVE PortalInv(p)'
  <2>1. UNCHANGED <<runs, out, emitted>>
    BY <1>5 DEF ExecutorEnd, scanVars
  <2>2. CASE q = p
    <3>1. phase'[p] = "closed" /\ runs[p] > 0 /\ phase[p] # "failed"
      BY <1>5, <2>2 DEF ExecutorEnd, TypeOK
    <3>. QED BY <1>0, <2>1, <3>1 DEF PortalInv, Unanswered, ScansOf
  <2>3. CASE q # p
    BY <1>0, <1>5, <2>1, <2>3, PortalKept DEF ExecutorEnd, TypeOK
  <2>. QED BY <2>2, <2>3
<1>6. ASSUME NEW s \in Scans, BufferedRow(s) \/ FetchedRow(s) PROVE PortalInv(p)'
  <2>1. /\ UNCHANGED <<phase, runs, out>>
        /\ phase[PortalOf[s]] = "running"
        /\ \A t \in Scans : t # s => emitted'[t] = emitted[t]
    BY <1>6 DEF BufferedRow, FetchedRow, Wanted, TypeOK
  <2>2. CASE PortalOf[s] = p
    BY <1>0, <2>1, <2>2 DEF PortalInv, Unanswered, ScansOf
  <2>3. CASE PortalOf[s] # p
    <3>1. \A t \in ScansOf(p) : emitted'[t] = emitted[t]
      BY <1>0, <2>1, <2>3
    <3>. QED BY <1>0, <2>1, <3>1, PortalKept
  <2>. QED BY <2>2, <2>3
<1>7. ASSUME NEW s \in Scans, ScanEnd(s) PROVE PortalInv(p)'
  BY <1>0, <1>7, PortalKept DEF ScanEnd
<1>8. ASSUME NEW s \in Scans, CreateFailed(s) \/ StreamLost(s) \/ CellFailed(s)
      PROVE PortalInv(p)'
  <2>1. UNCHANGED <<runs, out, emitted>> /\ Abort(PortalOf[s]) /\ PortalOf[s] \in Portals
    BY <1>8 DEF CreateFailed, StreamLost, CellFailed
  <2>. QED BY <1>0, <2>1, AbortEffect, PortalKept
<1>9. ASSUME NEW s \in Scans, ReScan(s) PROVE PortalInv(p)'
  <2>1. /\ UNCHANGED <<phase, runs, out>>
        /\ phase[PortalOf[s]] = "running"
        /\ \A t \in Scans : t # s => emitted'[t] = emitted[t]
    BY <1>9 DEF ReScan, TypeOK
  <2>2. CASE PortalOf[s] = p
    BY <1>0, <2>1, <2>2 DEF PortalInv, Unanswered, ScansOf
  <2>3. CASE PortalOf[s] # p
    <3>1. \A t \in ScansOf(p) : emitted'[t] = emitted[t]
      BY <1>0, <2>1, <2>3
    <3>. QED BY <1>0, <2>1, <3>1, PortalKept
  <2>. QED BY <2>2, <2>3
<1>10. CASE UNCHANGED vars
  BY <1>0, <1>10, PortalKept DEF vars
<1>. QED
  BY <1>1, <1>2, <1>3, <1>4, <1>5, <1>6, <1>7, <1>8, <1>9, <1>10 DEF Next, IterScan

\* A query served by a hook is answered once, by its own rows, in order, and
\* completely unless it fails, however many scans and statements interleave.
THEOREM PushdownIsExact == Spec => []PushdownExact
<1>1. Spec => []PushdownInv
  BY InitPushdown, NextPushdown, TypeCorrect, PTL DEF Spec
<1>2. PushdownInv => PushdownExact
  BY DEF PushdownInv, PortalInv, PushdownExact
<1>. QED
  BY <1>1, <1>2, PTL

-----------------------------------------------------------------------------
(* LeakOnlyAfterError.  Strengthening: a stream that is not cleared is in  *)
(* use by an executor with foreign scans, or a statement failed.           *)

SomeFailed == \E p \in Portals : phase[p] = "failed"

Live(s) == phase[PortalOf[s]] \in {"open", "running"}

LeakInv == slot # Cleared => SomeFailed \/ \E s \in Scans : Live(s)

LEMMA AbortFails ==
  ASSUME NEW p \in Portals, Abort(p)
  PROVE  SomeFailed'
BY AbortEffect DEF SomeFailed

LEMMA NextLeak == TypeOK /\ LeakInv /\ [Next]_vars => LeakInv'
<1> SUFFICES ASSUME TypeOK, LeakInv, [Next]_vars PROVE LeakInv'
  OBVIOUS
<1>1. ASSUME NEW p \in Portals, ExecuteQuery(p) PROVE LeakInv'
  <2>1. CASE ExecuteServed(p)
    BY <2>1 DEF ExecuteServed, Delivered, LeakInv, Cleared
  <2>2. CASE ExecuteFallsBack(p)
    <3>1. CASE slot' = Cleared
      BY <3>1 DEF LeakInv, Cleared
    <3>2. CASE slot' = slot
      <4>1. phase[p] = "idle" /\ phase' = [phase EXCEPT ![p] = "fallback"]
        BY <1>1, <2>2 DEF ExecuteQuery, ExecuteFallsBack
      <4>2. \A s \in Scans : Live(s) => Live(s)'
        BY <4>1 DEF Live, TypeOK
      <4>3. SomeFailed => SomeFailed'
        BY <4>1 DEF SomeFailed, TypeOK
      <4>. QED BY <3>2, <4>2, <4>3 DEF LeakInv, Cleared
    <3>. QED BY <2>2, <3>1, <3>2 DEF ExecuteFallsBack, Refused
  <2>3. CASE ExecuteFailed(p)
    <3>1. Abort(p)
      BY <2>3 DEF ExecuteFailed, WriteFailed, SearchPathFailed
    <3>. QED BY <3>1, AbortFails DEF LeakInv
  <2>. QED BY <1>1, <2>1, <2>2, <2>3 DEF ExecuteQuery
<1>2. ASSUME NEW p \in Portals, ExecutorStart(p) \/ Suspend(p) PROVE LeakInv'
  <2>1. slot' = slot /\ phase[p] \in {"idle", "fallback", "running"}
        /\ phase' = [phase EXCEPT ![p] = "open"]
    BY <1>2 DEF ExecutorStart, Suspend
  <2>2. \A s \in Scans : Live(s) => Live(s)'
    BY <2>1 DEF Live, TypeOK
  <2>3. SomeFailed => SomeFailed'
    BY <2>1 DEF SomeFailed, TypeOK
  <2>. QED BY <2>1, <2>2, <2>3 DEF LeakInv, Cleared
<1>3. ASSUME NEW p \in Portals, ExecutorRun(p) PROVE LeakInv'
  <2>1. CASE HookServed(p) \/ HookFallsBack(p)
    BY <2>1 DEF HookServed, HookFallsBack, Delivered, Refused, LeakInv, Cleared
  <2>2. CASE HookFailed(p)
    <3>1. Abort(p)
      BY <2>2 DEF HookFailed, WriteFailed, SearchPathFailed
    <3>. QED BY <3>1, AbortFails DEF LeakInv
  <2>3. CASE HookDeclines(p)
    <3>1. slot' = slot /\ phase[p] = "open" /\ phase' = [phase EXCEPT ![p] = "running"]
      BY <1>3, <2>3 DEF ExecutorRun, HookDeclines
    <3>2. \A s \in Scans : Live(s) => Live(s)'
      BY <3>1 DEF Live, TypeOK
    <3>3. SomeFailed => SomeFailed'
      BY <3>1 DEF SomeFailed, TypeOK
    <3>. QED BY <3>1, <3>2, <3>3 DEF LeakInv, Cleared
  <2>. QED BY <1>3, <2>1, <2>2, <2>3 DEF ExecutorRun
<1>4. ASSUME NEW p \in Portals, ExecutorEnd(p) PROVE LeakInv'
  <2>1. CASE slot' = Cleared
    BY <2>1 DEF LeakInv, Cleared
  <2>2. CASE slot' = slot /\ ScansOf(p) = {}
    <3>1. phase' = [phase EXCEPT ![p] = "closed"] /\ phase[p] # "failed"
      BY <1>4 DEF ExecutorEnd
    <3>2. \A s \in Scans : Live(s) => Live(s)'
      BY <2>2, <3>1 DEF Live, ScansOf, TypeOK
    <3>3. SomeFailed => SomeFailed'
      BY <3>1 DEF SomeFailed, TypeOK
    <3>. QED BY <2>2, <3>2, <3>3 DEF LeakInv, Cleared
  <2>. QED BY <1>4, <2>1, <2>2 DEF ExecutorEnd
<1>5. ASSUME NEW s \in Scans, BufferedRow(s) \/ FetchedRow(s) \/ ScanEnd(s) \/ ReScan(s)
      PROVE  LeakInv'
  <2>1. Live(s)'
    BY <1>5 DEF BufferedRow, FetchedRow, ScanEnd, ReScan, Wanted, Live
  <2>. QED BY <2>1 DEF LeakInv
<1>6. ASSUME NEW s \in Scans, CreateFailed(s) \/ StreamLost(s) \/ CellFailed(s)
      PROVE  LeakInv'
  <2>1. Abort(PortalOf[s]) /\ PortalOf[s] \in Portals
    BY <1>6 DEF CreateFailed, StreamLost, CellFailed
  <2>. QED BY <2>1, AbortFails DEF LeakInv
<1>7. CASE UNCHANGED vars
  BY <1>7 DEF vars, LeakInv, SomeFailed, Live, Cleared
<1>. QED
  BY <1>1, <1>2, <1>3, <1>4, <1>5, <1>6, <1>7 DEF Next, IterScan

\* A stream outlives the open statements only when one of them failed.
THEOREM LeaksNeedErrors == Spec => []LeakOnlyAfterError
<1>1. Init => LeakInv
  BY DEF Init, LeakInv
<1>2. Spec => []LeakInv
  BY <1>1, NextLeak, TypeCorrect, PTL DEF Spec
<1>3. LeakInv => LeakOnlyAfterError
  BY DEF LeakInv, LeakOnlyAfterError, SomeFailed, Live, Active
<1>. QED
  BY <1>2, <1>3, PTL

-----------------------------------------------------------------------------
(* SoleScanSafe.  Strengthening: where a live scan stands in its batch and *)
(* in the stream, what a stream of another query can be, and what holds of *)
(* scans that have not started.                                            *)

PushFailed == \E p \in Pushable : phase[p] = "failed"

\* Nothing happened yet on a scan that has not started, and only the executor
\* of an open portal starts scans.
FreshInv ==
  \A s \in Scans :
    /\ ~scan[s].started => /\ emitted[s] = <<>>
                           /\ scan[s].base = 0
                           /\ scan[s].size = 0
                           /\ scan[s].index = 0
                           /\ ~eof[s]
    /\ phase[PortalOf[s]] \in {"idle", "fallback"} => ~scan[s].started

\* The place of a scan in its batch, and of its batch in the stream.
Position(s) ==
  /\ ~eof[s] => Len(emitted[s]) = scan[s].base + scan[s].index
  /\ scan[s].index <= scan[s].size
  /\ scan[s].size > 0 => scan[s].src = s /\ scan[s].base + scan[s].size <= Rows[s]
  /\ slot.arrow /\ slot.stmt = s => slot.pos = scan[s].base + scan[s].size
  /\ slot.arrow /\ slot.stmt # s => slot.pos = Rows[slot.stmt] /\ PushFailed

SoleAt(s) ==
  Sole(s) =>
    /\ InOrder(s)
    /\ eof[s] => Len(emitted[s]) = Rows[s] \/ PushFailed
    /\ Live(s) => Position(s)

SoleInv == \A s \in Scans \ rescans : SoleAt(s)

LEMMA NextFresh == TypeOK /\ FreshInv /\ [Next]_vars => FreshInv'
<1> SUFFICES ASSUME TypeOK, FreshInv, [Next]_vars PROVE FreshInv'
  OBVIOUS
<1>1. ASSUME NEW p \in Portals,
             ExecuteQuery(p) \/ ExecutorStart(p) \/ ExecutorRun(p) \/ Suspend(p) \/ ExecutorEnd(p)
      PROVE  FreshInv'
  <2>1. UNCHANGED <<scan, emitted, eof, rescans>>
    BY <1>1 DEF ExecuteQuery, ExecutorStart, ExecutorRun, Suspend, ExecutorEnd, scanVars
  <2>2. \A q \in Portals : phase'[q] \in {"idle", "fallback"} => phase[q] \in {"idle", "fallback"}
    <3>1. CASE ExecuteQuery(p)
      <4>1. CASE ExecuteServed(p) \/ ExecuteFallsBack(p)
        BY <3>1, <4>1 DEF ExecuteQuery, ExecuteServed, ExecuteFallsBack, TypeOK
      <4>2. CASE ExecuteFailed(p)
        BY <4>2, AbortEffect DEF ExecuteFailed, WriteFailed, SearchPathFailed
      <4>. QED BY <3>1, <4>1, <4>2 DEF ExecuteQuery
    <3>2. CASE ExecutorStart(p) \/ Suspend(p) \/ ExecutorEnd(p)
      BY <3>2 DEF ExecutorStart, Suspend, ExecutorEnd, TypeOK
    <3>3. CASE ExecutorRun(p)
      <4>1. CASE HookServed(p) \/ HookFallsBack(p) \/ HookDeclines(p)
        BY <4>1 DEF HookServed, HookFallsBack, HookDeclines, TypeOK
      <4>2. CASE HookFailed(p)
        BY <4>2, AbortEffect DEF HookFailed, WriteFailed, SearchPathFailed
      <4>. QED BY <3>3, <4>1, <4>2 DEF ExecutorRun
    <3>. QED BY <1>1, <3>1, <3>2, <3>3
  <2>. QED BY <2>1, <2>2 DEF FreshInv
<1>2. ASSUME NEW s \in Scans, BufferedRow(s) PROVE FreshInv'
  <2>1. scan[s].started
    BY <1>2 DEF BufferedRow, BatchUsedUp, FreshInv
  <2>2. /\ scan' = [scan EXCEPT ![s].index = @ + 1]
        /\ \A t \in Scans : t # s => emitted'[t] = emitted[t]
        /\ UNCHANGED <<phase, eof>>
        /\ phase[PortalOf[s]] = "running"
    BY <1>2 DEF BufferedRow, Wanted, TypeOK
  <2>3. scan'[s].started /\ \A t \in Scans : t # s => scan'[t] = scan[t]
    BY <2>1, <2>2 DEF TypeOK, ScanFields
  <2>. QED BY <2>1, <2>2, <2>3 DEF FreshInv
<1>3. ASSUME NEW s \in Scans, FetchedRow(s) \/ ScanEnd(s) PROVE FreshInv'
  <2>1. /\ scan'[s].started
        /\ \A t \in Scans : t # s => scan'[t] = scan[t] /\ emitted'[t] = emitted[t] /\ eof'[t] = eof[t]
        /\ UNCHANGED phase
        /\ phase[PortalOf[s]] = "running"
    BY <1>3 DEF FetchedRow, ScanEnd, Wanted, TypeOK, ScanFields
  <2>. QED BY <2>1 DEF FreshInv
<1>4. ASSUME NEW s \in Scans, CreateFailed(s) \/ StreamLost(s) \/ CellFailed(s)
      PROVE  FreshInv'
  <2>1. UNCHANGED <<emitted, eof>> /\ Abort(PortalOf[s]) /\ PortalOf[s] \in Portals
    BY <1>4 DEF CreateFailed, StreamLost, CellFailed
  <2>2. phase'[PortalOf[s]] = "failed"
        /\ \A q \in Portals : phase'[q] \in {phase[q], "failed"}
    BY <2>1, AbortEffect
  <2>3. \A t \in Scans : t # s => scan'[t] = scan[t]
    BY <1>4 DEF CreateFailed, StreamLost, CellFailed, TypeOK
  <2>4. scan'[s].started
    <3>1. CASE CreateFailed(s)
      BY <3>1 DEF CreateFailed, TypeOK, ScanFields
    <3>2. CASE StreamLost(s)
      BY <3>2 DEF StreamLost, StreamGone, StreamOf, Created, TypeOK, ScanFields
    <3>3. CASE CellFailed(s)
      BY <3>3 DEF CellFailed, BatchUsedUp, FreshInv, TypeOK, ScanFields
    <3>. QED BY <1>4, <3>1, <3>2, <3>3
  <2>. QED BY <2>1, <2>2, <2>3, <2>4 DEF FreshInv
<1>5. ASSUME NEW s \in Scans, ReScan(s) PROVE FreshInv'
  BY <1>5 DEF ReScan, FreshInv, TypeOK
<1>6. CASE UNCHANGED vars
  BY <1>6 DEF vars, FreshInv
<1>. QED
  BY <1>1, <1>2, <1>3, <1>4, <1>5, <1>6 DEF Next, IterScan

\* A step that leaves the scans alone: the stream is as it was, or cleared, or
\* the exhausted one of a push down that failed.
LEMMA SoleKept ==
  ASSUME NEW s \in Scans, SoleAt(s), UNCHANGED <<scan, emitted, eof>>,
         PushFailed => PushFailed',
         Sole(s) /\ Live(s)' => Live(s),
         \/ slot' = slot
         \/ slot' = Cleared
         \/ slot'.stmt # s /\ slot'.pos = Rows[slot'.stmt] /\ PushFailed'
  PROVE  SoleAt(s)'
<1> SUFFICES ASSUME Sole(s)' PROVE InOrder(s)' /\ (eof'[s] => Len(emitted'[s]) = Rows[s] \/ PushFailed')
                                   /\ (Live(s)' => Position(s)')
  BY DEF SoleAt
<1>1. Sole(s)
  BY DEF Sole
<1>2. InOrder(s)' /\ (eof'[s] => Len(emitted'[s]) = Rows[s] \/ PushFailed')
  BY <1>1 DEF SoleAt, InOrder
<1>3. ASSUME Live(s)' PROVE Position(s)'
  <2>1. Position(s)
    BY <1>1, <1>3 DEF SoleAt
  <2>2. CASE slot' = slot
    BY <2>1, <2>2 DEF Position
  <2>3. CASE slot' = Cleared
    BY <2>1, <2>3 DEF Position, Cleared
  <2>4. CASE slot'.stmt # s /\ slot'.pos = Rows[slot'.stmt] /\ PushFailed'
    BY <2>1, <2>4 DEF Position
  <2>. QED BY <2>2, <2>3, <2>4
<1>. QED BY <1>2, <1>3

\* What a push down of p does to the stream.
LEMMA PushDownSlot ==
  ASSUME NEW p \in Pushable, NEW s \in Scans,
         Delivered(p) \/ Refused \/ WriteFailed(p) \/ SearchPathFailed(p)
  PROVE  \/ slot' = slot
         \/ slot' = Cleared
         \/ slot'.stmt # s /\ slot'.pos = Rows[slot'.stmt] /\ PushFailed'
<1>1. CASE Delivered(p) \/ Refused \/ SearchPathFailed(p)
  BY <1>1 DEF Delivered, Refused, SearchPathFailed
<1>2. CASE WriteFailed(p)
  <2>1. p \in Portals /\ p # s
    OBVIOUS
  <2>2. slot' = [stmt |-> p, arrow |-> TRUE, pos |-> Rows[p]]
    BY <1>2 DEF WriteFailed, Created
  <2>3. PushFailed'
    BY <1>2, <2>1, AbortEffect DEF WriteFailed, PushFailed
  <2>. QED BY <2>1, <2>2, <2>3
<1>. QED BY <1>1, <1>2

\* The stream an iteration of the sole scan reads: its own, at the row that
\* follows the ones it returned, or an exhausted one.
LEMMA StreamPlace ==
  ASSUME TypeInv, FreshInv, NEW s \in Scans, SoleAt(s), Wanted(s), BatchUsedUp(s),
         \A t \in Scans \ {s} : ~scan[t].started
  PROVE  /\ Len(emitted[s]) \in Nat
         /\ InOrder(s)
         /\ StreamOf(s).arrow =>
              \/ StreamOf(s).stmt = s /\ StreamOf(s).pos = Len(emitted[s])
              \/ /\ StreamOf(s).stmt # s
                 /\ StreamOf(s).pos = Rows[StreamOf(s).stmt]
                 /\ PushFailed
<1>1. emitted[s] \in Seq(Row) /\ Len(emitted[s]) \in Nat /\ Rows[s] \in Nat
  BY DEF TypeInv, TypeOK, Queries
<1>2. CASE scan[s].started
  <2>1. InOrder(s) /\ Position(s) /\ ~eof[s]
    BY <1>2 DEF Sole, SoleAt, Live, Wanted
  <2>2. scan[s].base \in Nat /\ scan[s].size \in Nat /\ scan[s].index \in Nat
    BY DEF TypeInv, TypeOK, ScanFields
  <2>3. scan[s].base + scan[s].size = Len(emitted[s])
    BY <2>1, <2>2 DEF Position, BatchUsedUp
  <2>. QED BY <1>1, <1>2, <2>1, <2>3 DEF StreamOf, Position
<1>3. CASE ~scan[s].started
  <2>1. emitted[s] = <<>>
    BY <1>3 DEF FreshInv
  <2>2. InOrder(s)
    BY <1>1, <2>1 DEF InOrder, RowsFrom
  <2>. QED BY <1>1, <1>3, <2>1, <2>2 DEF StreamOf, Created
<1>. QED BY <1>2, <1>3

\* The next row in order keeps the rows in order.
LEMMA RowsFromNext ==
  ASSUME NEW s \in Scans, NEW n \in Nat, NEW seq,
         seq = RowsFrom(s, 0, n)
  PROVE  Append(seq, <<s, n + 1>>) = RowsFrom(s, 0, n + 1)
<1>1. RowsFrom(s, 0, n) \in Seq(Row) /\ Len(RowsFrom(s, 0, n)) = n
  BY RowsFromType, RowsFromLen DEF Queries
<1>. QED
  BY <1>1 DEF RowsFrom

\* One iteration of s, with no other scan started.
LEMMA SoleIterates ==
  ASSUME TypeInv, FreshInv, NEW s \in Scans, SoleAt(s), Sole(s)', IterScan(s)
  PROVE  SoleAt(s)'
<1> SUFFICES InOrder(s)' /\ (eof'[s] => Len(emitted'[s]) = Rows[s] \/ PushFailed')
             /\ (Live(s)' => Position(s)')
  BY DEF SoleAt
<1>1. /\ scan[s] \in ScanFields
      /\ scan \in [Scans -> ScanFields]
      /\ scan[s].base \in Nat /\ scan[s].size \in Nat /\ scan[s].index \in Nat
      /\ emitted \in [Scans -> Seq(Row)] /\ emitted[s] \in Seq(Row)
      /\ Len(emitted[s]) \in Nat
      /\ eof \in [Scans -> BOOLEAN]
      /\ s \in Queries /\ Rows[s] \in Nat
  <2>1. scan \in [Scans -> ScanFields] /\ emitted \in [Scans -> Seq(Row)]
        /\ eof \in [Scans -> BOOLEAN]
    BY DEF TypeInv, TypeOK
  <2>2. scan[s] \in ScanFields /\ emitted[s] \in Seq(Row)
    BY <2>1
  <2>3. scan[s].base \in Nat /\ scan[s].size \in Nat /\ scan[s].index \in Nat
    BY <2>2 DEF ScanFields
  <2>4. Len(emitted[s]) \in Nat
    BY <2>2
  <2>5. s \in Queries /\ Rows[s] \in Nat
    BY DEF Queries
  <2>. QED BY <2>1, <2>2, <2>3, <2>4, <2>5
<1>2. ASSUME NEW t \in Scans \ {s} PROVE ~scan[t].started
  <2>1. scan'[t] = scan[t]
    BY <1>1 DEF IterScan, BufferedRow, FetchedRow, ScanEnd, CreateFailed, StreamLost, CellFailed
  <2>. QED BY <2>1 DEF Sole
<1>3. CASE BufferedRow(s)
  <2>1. /\ scan[s].started /\ ~eof[s] /\ Live(s) /\ Live(s)'
        /\ scan[s].index < scan[s].size
        /\ UNCHANGED <<slot, phase, eof>>
    BY <1>1, <1>3 DEF BufferedRow, Wanted, BatchUsedUp, FreshInv, Live
  <2>2. InOrder(s) /\ Position(s)
    BY <1>2, <2>1 DEF SoleAt, Sole
  <2>3. /\ emitted'[s] = Append(emitted[s], <<scan[s].src, scan[s].base + scan[s].index + 1>>)
        /\ scan' = [scan EXCEPT ![s].index = @ + 1]
    BY <1>1, <1>3 DEF BufferedRow
  <2>4. scan'[s] = [scan[s] EXCEPT !.index = scan[s].index + 1]
    BY <1>1, <2>3
  <2>5. /\ scan'[s].base = scan[s].base /\ scan'[s].size = scan[s].size
        /\ scan'[s].src = scan[s].src /\ scan'[s].index = scan[s].index + 1
    BY <1>1, <2>4 DEF ScanFields
  <2>6. /\ scan[s].src = s /\ scan[s].base + scan[s].size <= Rows[s]
        /\ Len(emitted[s]) = scan[s].base + scan[s].index
    BY <1>1, <2>1, <2>2 DEF Position
  <2>7. emitted'[s] = Append(emitted[s], <<s, Len(emitted[s]) + 1>>)
    BY <2>3, <2>6
  <2>8. Len(emitted'[s]) = Len(emitted[s]) + 1
    BY <1>1, <2>7
  <2>9. emitted'[s] = RowsFrom(s, 0, Len(emitted[s]) + 1)
    BY <1>1, <2>2, <2>7, RowsFromNext DEF InOrder
  <2>10. Len(emitted[s]) + 1 <= Rows[s]
    BY <1>1, <2>1, <2>6
  <2>11. InOrder(s)'
    BY <2>8, <2>9, <2>10 DEF InOrder
  <2>12. Position(s)'
    BY <1>1, <2>1, <2>2, <2>5, <2>6, <2>8 DEF Position, PushFailed
  <2>. QED BY <2>1, <2>11, <2>12
<1>4. CASE FetchedRow(s)
  <2>1. Wanted(s) /\ BatchUsedUp(s) /\ ~eof[s] /\ UNCHANGED <<phase, eof>>
    BY <1>4 DEF FetchedRow, Wanted
  <2>2. PICK n \in BatchSizes(StreamOf(s)) :
          /\ slot' = [StreamOf(s) EXCEPT !.pos = @ + n]
          /\ scan' = [scan EXCEPT ![s] =
               [started |-> TRUE, src |-> StreamOf(s).stmt, base |-> StreamOf(s).pos,
                size |-> n, index |-> 1]]
          /\ emitted' = [emitted EXCEPT
               ![s] = Append(@, <<StreamOf(s).stmt, StreamOf(s).pos + 1>>)]
    BY <1>4 DEF FetchedRow
  <2>3. /\ n \in Nat \ {0}
        /\ StreamOf(s).arrow
        /\ StreamOf(s).pos + n <= Rows[StreamOf(s).stmt]
        /\ StreamOf(s) \in [stmt : Queries \cup {None}, arrow : BOOLEAN, pos : Nat]
    BY StreamOfType
  <2>4. InOrder(s) /\ StreamOf(s).stmt = s /\ StreamOf(s).pos = Len(emitted[s])
    BY <1>2, <2>1, <2>3, StreamPlace
  <2>5. /\ slot'.stmt = s /\ slot'.pos = Len(emitted[s]) + n
        /\ scan'[s] = [started |-> TRUE, src |-> s, base |-> Len(emitted[s]),
                       size |-> n, index |-> 1]
        /\ emitted'[s] = Append(emitted[s], <<s, Len(emitted[s]) + 1>>)
    BY <1>1, <2>2, <2>3, <2>4
  <2>6. Len(emitted'[s]) = Len(emitted[s]) + 1
    BY <1>1, <2>5
  <2>7. emitted'[s] = RowsFrom(s, 0, Len(emitted[s]) + 1)
    BY <1>1, <2>4, <2>5, RowsFromNext DEF InOrder
  <2>8. InOrder(s)'
    BY <1>1, <2>3, <2>4, <2>6, <2>7 DEF InOrder
  <2>9. Position(s)'
    BY <1>1, <2>1, <2>3, <2>4, <2>5, <2>6 DEF Position
  <2>. QED BY <2>1, <2>8, <2>9
<1>5. CASE ScanEnd(s)
  <2>1. /\ Wanted(s) /\ BatchUsedUp(s) /\ ~eof[s] /\ Live(s)
        /\ UNCHANGED <<phase, emitted>>
        /\ StreamOf(s).arrow /\ Remaining(StreamOf(s)) = 0
        /\ slot' = StreamOf(s)
        /\ scan' = [scan EXCEPT ![s].started = TRUE, ![s].index = 0]
        /\ eof'[s]
    BY <1>1, <1>5 DEF ScanEnd, Wanted, Live
  <2>2. /\ InOrder(s)
        /\ \/ StreamOf(s).stmt = s /\ StreamOf(s).pos = Len(emitted[s])
           \/ /\ StreamOf(s).stmt # s
              /\ StreamOf(s).pos = Rows[StreamOf(s).stmt]
              /\ PushFailed
    BY <1>2, <2>1, StreamPlace
  <2>3. StreamOf(s).pos \in Nat /\ Rows[StreamOf(s).stmt] \in Nat
        /\ Rows[StreamOf(s).stmt] = StreamOf(s).pos
    BY <2>1, StreamOfType DEF Remaining
  <2>4. InOrder(s)' /\ PushFailed' = PushFailed
    BY <2>1, <2>2 DEF InOrder, PushFailed
  <2>5. Len(emitted'[s]) = Rows[s] \/ PushFailed'
    BY <2>1, <2>2, <2>3, <2>4
  <2>6. scan'[s] = [scan[s] EXCEPT !.started = TRUE, !.index = 0]
    BY <1>1, <2>1
  <2>7. /\ scan'[s].base = scan[s].base /\ scan'[s].size = scan[s].size
        /\ scan'[s].src = scan[s].src /\ scan'[s].index = 0
    BY <1>1, <2>6 DEF ScanFields
  <2>8. /\ scan[s].size > 0 => scan[s].src = s /\ scan[s].base + scan[s].size <= Rows[s]
        /\ StreamOf(s).stmt = s => StreamOf(s).pos = scan[s].base + scan[s].size
    <3>1. CASE scan[s].started
      BY <1>2, <2>1, <3>1 DEF Sole, SoleAt, Position, StreamOf
    <3>2. CASE ~scan[s].started
      BY <1>1, <3>2 DEF FreshInv, StreamOf, Created
    <3>. QED BY <3>1, <3>2
  <2>9. Position(s)'
    BY <1>1, <2>1, <2>2, <2>4, <2>7, <2>8 DEF Position
  <2>. QED BY <2>4, <2>5, <2>9
<1>6. CASE CreateFailed(s) \/ StreamLost(s) \/ CellFailed(s)
  <2>1. Abort(PortalOf[s]) /\ PortalOf[s] \in Portals /\ UNCHANGED <<emitted, eof>>
    BY <1>6 DEF CreateFailed, StreamLost, CellFailed
  <2>2. ~Live(s)'
    BY <2>1, AbortEffect DEF Live
  <2>3. PushFailed => PushFailed'
    BY <2>1, AbortEffect DEF PushFailed
  <2>4. InOrder(s) /\ (eof[s] => Len(emitted[s]) = Rows[s] \/ PushFailed)
    <3>1. CASE scan[s].started
      BY <1>2, <3>1 DEF Sole, SoleAt
    <3>2. CASE ~scan[s].started
      <4>1. emitted[s] = <<>> /\ ~eof[s]
        BY <3>2 DEF FreshInv
      <4>2. RowsFrom(s, 0, 0) = <<>>
        BY DEF RowsFrom
      <4>. QED BY <1>1, <4>1, <4>2 DEF InOrder
    <3>. QED BY <3>1, <3>2
  <2>. QED BY <2>1, <2>2, <2>3, <2>4 DEF InOrder
<1>. QED BY <1>3, <1>4, <1>5, <1>6 DEF IterScan

\* After an iteration, the scan is started and the others are as they were.
LEMMA IterationStarts ==
  ASSUME TypeInv, FreshInv, NEW t \in Scans, IterScan(t)
  PROVE  scan'[t].started
<1>1. scan \in [Scans -> ScanFields] /\ scan[t] \in ScanFields
  BY DEF TypeInv, TypeOK
<1>2. CASE BufferedRow(t)
  <2>1. scan[t].started
    BY <1>1, <1>2 DEF BufferedRow, BatchUsedUp, FreshInv
  <2>2. scan' = [scan EXCEPT ![t].index = @ + 1]
    BY <1>2 DEF BufferedRow
  <2>. QED BY <1>1, <2>1, <2>2 DEF ScanFields
<1>3. CASE FetchedRow(t) \/ ScanEnd(t) \/ CreateFailed(t)
  BY <1>1, <1>3 DEF FetchedRow, ScanEnd, CreateFailed, ScanFields
<1>4. CASE StreamLost(t)
  BY <1>1, <1>4 DEF StreamLost, StreamGone, StreamOf, Created, ScanFields
<1>5. CASE CellFailed(t)
  BY <1>1, <1>5 DEF CellFailed, BatchUsedUp, FreshInv, ScanFields
<1>. QED
  BY <1>2, <1>3, <1>4, <1>5 DEF IterScan

LEMMA NextSole == TypeInv /\ FreshInv /\ SoleInv /\ [Next]_vars => SoleInv'
<1> SUFFICES ASSUME TypeInv, FreshInv, SoleInv, [Next]_vars, NEW s \in Scans \ rescans'
             PROVE  SoleAt(s)'
  BY DEF SoleInv
<1>1. s \in Scans \ rescans /\ SoleAt(s)
  <2>1. rescans \subseteq rescans'
    BY DEF Next, vars, ExecuteQuery, ExecutorStart, ExecutorRun, Suspend, ExecutorEnd,
           scanVars, IterScan, BufferedRow, FetchedRow, ScanEnd, CreateFailed,
           StreamLost, CellFailed, ReScan
  <2>. QED BY <2>1 DEF SoleInv
<1>2. phase \in [Portals -> Phases] /\ PortalOf[s] \in Portals
  BY DEF TypeInv, TypeOK
<1>3. Sole(s) => phase[PortalOf[s]] \notin {"idle", "fallback"}
  BY DEF Sole, FreshInv
<1>4. ASSUME NEW p \in Portals, ExecuteQuery(p) PROVE SoleAt(s)'
  <2>1. UNCHANGED <<scan, emitted, eof>> /\ phase[p] = "idle"
    BY <1>4 DEF ExecuteQuery, scanVars
  <2>2. CASE ExecuteServed(p) \/ ExecuteFallsBack(p)
    <3>1. phase' = [phase EXCEPT ![p] = "closed"] \/ phase' = [phase EXCEPT ![p] = "fallback"]
      BY <2>2 DEF ExecuteServed, ExecuteFallsBack
    <3>2. (PushFailed => PushFailed') /\ (Live(s)' => Live(s))
      BY <1>2, <2>1, <3>1 DEF PushFailed, Live
    <3>3. \/ slot' = slot
          \/ slot' = Cleared
          \/ slot'.stmt # s /\ slot'.pos = Rows[slot'.stmt] /\ PushFailed'
      BY <2>2, PushDownSlot DEF ExecuteServed, ExecuteFallsBack
    <3>. QED BY <1>1, <2>1, <3>2, <3>3, SoleKept
  <2>3. CASE ExecuteFailed(p)
    <3>1. Abort(p) /\ p \in Pushable /\ (WriteFailed(p) \/ SearchPathFailed(p))
      BY <2>3 DEF ExecuteFailed, WriteFailed, SearchPathFailed
    <3>2. (PushFailed => PushFailed') /\ (Live(s)' => Live(s))
      BY <1>2, <3>1, AbortEffect DEF PushFailed, Live
    <3>. QED BY <1>1, <2>1, <3>1, <3>2, PushDownSlot, SoleKept
  <2>. QED BY <1>4, <2>2, <2>3 DEF ExecuteQuery
<1>5. ASSUME NEW p \in Portals, ExecutorStart(p) PROVE SoleAt(s)'
  <2>1. /\ UNCHANGED <<slot, scan, emitted, eof>>
        /\ phase' = [phase EXCEPT ![p] = "open"]
        /\ phase[p] \in {"idle", "fallback"}
    BY <1>5 DEF ExecutorStart, scanVars
  <2>2. (PushFailed => PushFailed') /\ (Sole(s) /\ Live(s)' => Live(s))
    BY <1>2, <1>3, <2>1 DEF PushFailed, Live
  <2>. QED BY <1>1, <2>1, <2>2, SoleKept
<1>6. ASSUME NEW p \in Portals, Suspend(p) \/ ExecutorEnd(p) PROVE SoleAt(s)'
  <2>1. /\ UNCHANGED <<scan, emitted, eof>>
        /\ slot' = slot \/ slot' = Cleared
        /\ phase' = [phase EXCEPT ![p] = "open"] \/ phase' = [phase EXCEPT ![p] = "closed"]
        /\ phase[p] \in {"open", "running"}
    BY <1>6 DEF Suspend, ExecutorEnd, scanVars
  <2>2. (PushFailed => PushFailed') /\ (Live(s)' => Live(s))
    BY <1>2, <2>1 DEF PushFailed, Live
  <2>. QED BY <1>1, <2>1, <2>2, SoleKept
<1>7. ASSUME NEW p \in Portals, ExecutorRun(p) PROVE SoleAt(s)'
  <2>1. UNCHANGED <<scan, emitted, eof>> /\ phase[p] = "open"
    BY <1>7 DEF ExecutorRun, scanVars
  <2>2. CASE HookServed(p) \/ HookFallsBack(p) \/ HookDeclines(p)
    <3>1. phase' = phase \/ phase' = [phase EXCEPT ![p] = "running"]
      BY <2>2 DEF HookServed, HookFallsBack, HookDeclines
    <3>2. (PushFailed => PushFailed') /\ (Live(s)' => Live(s))
      BY <1>2, <2>1, <3>1 DEF PushFailed, Live
    <3>3. slot' = slot \/ slot' = Cleared
      BY <2>2 DEF HookServed, HookFallsBack, HookDeclines, Delivered, Refused
    <3>. QED BY <1>1, <2>1, <3>2, <3>3, SoleKept
  <2>3. CASE HookFailed(p)
    <3>1. Abort(p) /\ p \in Pushable /\ (WriteFailed(p) \/ SearchPathFailed(p))
      BY <2>3 DEF HookFailed, HookTakes, WriteFailed, SearchPathFailed
    <3>2. (PushFailed => PushFailed') /\ (Live(s)' => Live(s))
      BY <1>2, <3>1, AbortEffect DEF PushFailed, Live
    <3>. QED BY <1>1, <2>1, <3>1, <3>2, PushDownSlot, SoleKept
  <2>. QED BY <1>7, <2>2, <2>3 DEF ExecutorRun
<1>8. ASSUME NEW t \in Scans, IterScan(t) PROVE SoleAt(s)'
  <2>1. CASE t = s
    BY <1>1, <1>8, <2>1, SoleIterates DEF SoleAt
  <2>2. CASE t # s
    BY <1>8, <2>2, IterationStarts DEF SoleAt, Sole
  <2>. QED BY <2>1, <2>2
<1>9. ASSUME NEW t \in Scans, ReScan(t) PROVE SoleAt(s)'
  <2>1. t # s /\ UNCHANGED <<slot, phase, scan>>
    BY <1>9 DEF ReScan
  <2>2. emitted'[s] = emitted[s] /\ eof'[s] = eof[s]
    BY <1>9, <2>1 DEF ReScan, TypeInv, TypeOK
  <2>. QED BY <1>1, <2>1, <2>2 DEF SoleAt, Sole, InOrder, PushFailed, Live, Position
<1>10. CASE UNCHANGED vars
  BY <1>1, <1>10 DEF vars, SoleAt, Sole, InOrder, PushFailed, Live, Position
<1>. QED
  BY <1>4, <1>5, <1>6, <1>7, <1>8, <1>9, <1>10 DEF Next

\* A scan that has the connection to itself returns its own rows in order, and
\* ends early only through a failed push down.
THEOREM SoleScansAreSafe == Spec => []SoleScanSafe
<1>1. Init => TypeInv /\ FreshInv /\ SoleInv
  <2>1. Init => FreshInv
    BY DEF Init, FreshInv
  <2>2. Init => SoleInv
    BY DEF Init, SoleInv, SoleAt, Sole
  <2>. QED BY <2>1, <2>2, InitType
<1>2. TypeInv /\ FreshInv /\ SoleInv /\ [Next]_vars => (TypeInv /\ FreshInv /\ SoleInv)'
  BY NextType, NextFresh, NextSole DEF TypeInv
<1>3. TypeInv /\ FreshInv /\ SoleInv => SoleScanSafe
  BY DEF SoleInv, SoleAt, SoleScanSafe, PushFailed
<1>. QED
  BY <1>1, <1>2, <1>3, PTL DEF Spec

-----------------------------------------------------------------------------
(* One statement at a time, one scan per statement.  NeverLost and the     *)
(* refinement of PrivateStreams need it: a second statement, a second scan *)
(* of the plan or a hook called again for an open cursor each release the  *)
(* stream of a scan that still wants it.  ArrowScan_nest and ArrowScan_join *)
(* show what is left without it.                                           *)

OneAtATime ==
  /\ ~Nested
  /\ \A s, t \in Scans : PortalOf[s] = PortalOf[t] => s = t
  /\ \A p \in Cursors : ~HookTakes(p)

\* There is one executor, and only a portal that was run starts its scan.
LoneExecutor ==
  /\ \A p, q \in Active : p = q
  /\ \A p \in Portals : phase[p] = "running" => runs[p] > 0
  /\ \A s \in Scans : scan[s].started => runs[PortalOf[s]] > 0

\* The stream belongs to the scan of the open portal, once it has started,
\* and stands where the scan's first pass expects it.
Owned(s) ==
  Live(s) /\ scan[s].started =>
    /\ slot.arrow
    /\ slot.stmt = s
    /\ s \notin rescans => Position(s)

LoneInv ==
  /\ TypeInv
  /\ FreshInv
  /\ LoneExecutor
  /\ \A s \in Scans : Owned(s)

\* An abort leaves no portal active that was not.
LEMMA AbortActive ==
  ASSUME NEW p \in Portals, Abort(p)
  PROVE  Active' \subseteq Active /\ p \notin Active'
BY AbortEffect DEF Active

LEMMA NextLoneExecutor ==
  OneAtATime /\ TypeInv /\ FreshInv /\ LoneExecutor /\ [Next]_vars => LoneExecutor'
<1> SUFFICES ASSUME OneAtATime, TypeInv, FreshInv, LoneExecutor, [Next]_vars
             PROVE  LoneExecutor'
  OBVIOUS
<1>0. /\ phase \in [Portals -> Phases] /\ runs \in [Portals -> 0..MaxRuns]
      /\ scan \in [Scans -> ScanFields]
      /\ \A s \in Scans : PortalOf[s] \in Portals
      /\ CanStart => Active = {}
  BY DEF TypeInv, TypeOK, OneAtATime, CanStart
<1>1. ASSUME NEW p \in Portals, ExecuteQuery(p) PROVE LoneExecutor'
  <2>1. Active = {} /\ UNCHANGED <<runs, scan>>
    BY <1>0, <1>1 DEF ExecuteQuery, scanVars
  <2>2. CASE ExecuteServed(p) \/ ExecuteFallsBack(p)
    <3>1. phase' = [phase EXCEPT ![p] = "closed"] \/ phase' = [phase EXCEPT ![p] = "fallback"]
      BY <2>2 DEF ExecuteServed, ExecuteFallsBack
    <3>2. Active' \subseteq {p} /\ \A q \in Portals : phase'[q] # "running"
      BY <1>0, <2>1, <3>1 DEF Active
    <3>. QED BY <2>1, <3>2 DEF LoneExecutor
  <2>3. CASE ExecuteFailed(p)
    <3>1. Abort(p)
      BY <2>3 DEF ExecuteFailed, WriteFailed, SearchPathFailed
    <3>2. Active' \subseteq {}
      BY <2>1, <3>1, AbortActive
    <3>3. \A q \in Portals : phase'[q] # "running"
      BY <3>2 DEF Active
    <3>. QED BY <2>1, <3>2, <3>3 DEF LoneExecutor
  <2>. QED BY <1>1, <2>2, <2>3 DEF ExecuteQuery
<1>2. ASSUME NEW p \in Portals, ExecutorStart(p) PROVE LoneExecutor'
  <2>1. phase' = [phase EXCEPT ![p] = "open"] /\ UNCHANGED <<runs, scan>>
    BY <1>2 DEF ExecutorStart, scanVars
  <2>2. Active \subseteq {p}
    BY <1>0, <1>2 DEF ExecutorStart, LoneExecutor, Active
  <2>3. Active' \subseteq {p}
    BY <1>0, <2>1, <2>2 DEF Active
  <2>. QED BY <1>0, <2>1, <2>3 DEF LoneExecutor
<1>3. ASSUME NEW p \in Portals, ExecutorRun(p) PROVE LoneExecutor'
  <2>1. phase[p] = "open" /\ runs' = [runs EXCEPT ![p] = @ + 1] /\ UNCHANGED scan
    BY <1>3 DEF ExecutorRun, scanVars
  <2>2. \A q \in Portals : runs'[q] >= runs[q] /\ runs'[p] > 0
    BY <1>0, <2>1
  <2>3. phase' = phase \/ phase' = [phase EXCEPT ![p] = "running"] \/ Abort(p)
    BY <1>3 DEF ExecutorRun, HookServed, HookFallsBack, HookFailed, HookDeclines,
                WriteFailed, SearchPathFailed
  <2>4. Active' \subseteq Active
    <3>1. CASE Abort(p)
      BY <3>1, AbortActive
    <3>2. CASE ~Abort(p)
      BY <1>0, <2>1, <2>3, <3>2 DEF Active
    <3>. QED BY <3>1, <3>2
  <2>5. \A q \in Portals : phase'[q] = "running" => q = p \/ phase[q] = "running"
    <3>1. CASE Abort(p)
      BY <3>1, AbortEffect
    <3>2. CASE ~Abort(p)
      BY <1>0, <2>3, <3>2
    <3>. QED BY <3>1, <3>2
  <2>6. \A q \in Portals : phase'[q] = "running" => runs'[q] > 0
    BY <1>0, <2>1, <2>2, <2>5 DEF LoneExecutor
  <2>7. \A s \in Scans : scan'[s].started => runs'[PortalOf[s]] > 0
    BY <1>0, <2>1, <2>2 DEF LoneExecutor
  <2>. QED BY <2>4, <2>6, <2>7 DEF LoneExecutor
<1>4. ASSUME NEW p \in Portals, Suspend(p) \/ ExecutorEnd(p) PROVE LoneExecutor'
  <2>1. /\ phase[p] \in {"open", "running"}
        /\ phase' = [phase EXCEPT ![p] = "open"] \/ phase' = [phase EXCEPT ![p] = "closed"]
        /\ UNCHANGED <<runs, scan>>
    BY <1>4 DEF Suspend, ExecutorEnd, scanVars
  <2>2. /\ Active' \subseteq Active
        /\ \A q \in Portals : phase'[q] = "running" => phase[q] = "running"
    BY <1>0, <2>1 DEF Active
  <2>. QED BY <2>1, <2>2 DEF LoneExecutor
<1>5. ASSUME NEW s \in Scans, IterScan(s) PROVE LoneExecutor'
  <2>1. phase[PortalOf[s]] = "running" /\ UNCHANGED runs
    BY <1>5 DEF IterScan, BufferedRow, FetchedRow, ScanEnd, CreateFailed, StreamLost,
                StreamGone, CellFailed, Wanted
  <2>2. UNCHANGED phase \/ Abort(PortalOf[s])
    BY <1>5 DEF IterScan, BufferedRow, FetchedRow, ScanEnd, CreateFailed, StreamLost, CellFailed
  <2>3. /\ Active' \subseteq Active
        /\ \A q \in Portals : phase'[q] = "running" => phase[q] = "running"
    <3>1. CASE UNCHANGED phase
      BY <3>1 DEF Active
    <3>2. CASE Abort(PortalOf[s])
      BY <1>0, <3>2, AbortActive, AbortEffect
    <3>. QED BY <2>2, <3>1, <3>2
  <2>4. \A t \in Scans : t # s => scan'[t] = scan[t]
    BY <1>0, <1>5 DEF IterScan, BufferedRow, FetchedRow, ScanEnd, CreateFailed, StreamLost, CellFailed
  <2>5. \A t \in Scans : scan'[t].started => runs'[PortalOf[t]] > 0
    BY <1>0, <2>1, <2>4 DEF LoneExecutor
  <2>. QED BY <2>1, <2>3, <2>5 DEF LoneExecutor
<1>6. ASSUME NEW s \in Scans, ReScan(s) PROVE LoneExecutor'
  BY <1>6 DEF ReScan, LoneExecutor, Active
<1>7. CASE UNCHANGED vars
  BY <1>7 DEF vars, LoneExecutor, Active
<1>. QED
  BY <1>1, <1>2, <1>3, <1>4, <1>5, <1>6, <1>7 DEF Next

\* Steps that leave the scans and the stream alone.
LEMMA OwnedKept ==
  ASSUME NEW s \in Scans, Owned(s), UNCHANGED <<slot, scan, emitted, eof, rescans>>,
         scan[s].started /\ Live(s)' => Live(s)
  PROVE  Owned(s)'
BY DEF Owned, Position

\* The stream an iteration of s reads is its own and, in its first pass, at the
\* row that follows the ones it returned.
LEMMA OwnStream ==
  ASSUME TypeInv, FreshInv, NEW s \in Scans, Owned(s), Wanted(s), BatchUsedUp(s)
  PROVE  /\ StreamOf(s).arrow
         /\ StreamOf(s).stmt = s
         /\ s \notin rescans => StreamOf(s).pos = Len(emitted[s])
<1>1. CASE scan[s].started
  <2>1. /\ slot.arrow /\ slot.stmt = s /\ ~eof[s]
        /\ s \notin rescans => Position(s)
    BY <1>1 DEF Owned, Live, Wanted
  <2>2. scan[s].base \in Nat /\ scan[s].size \in Nat /\ scan[s].index \in Nat
    BY DEF TypeInv, TypeOK, ScanFields
  <2>. QED BY <1>1, <2>1, <2>2 DEF StreamOf, Position, BatchUsedUp
<1>2. CASE ~scan[s].started
  <2>1. emitted[s] = <<>>
    BY <1>2 DEF FreshInv
  <2>. QED BY <1>2, <2>1 DEF StreamOf, Created
<1>. QED BY <1>1, <1>2

LEMMA IterationOwned ==
  ASSUME TypeInv, FreshInv, NEW s \in Scans, Owned(s), IterScan(s)
  PROVE  Owned(s)'
<1>1. /\ scan \in [Scans -> ScanFields] /\ scan[s] \in ScanFields
      /\ scan[s].base \in Nat /\ scan[s].size \in Nat /\ scan[s].index \in Nat
      /\ emitted \in [Scans -> Seq(Row)] /\ emitted[s] \in Seq(Row)
      /\ Len(emitted[s]) \in Nat
      /\ eof \in [Scans -> BOOLEAN]
  <2>1. scan \in [Scans -> ScanFields] /\ emitted \in [Scans -> Seq(Row)]
        /\ eof \in [Scans -> BOOLEAN]
    BY DEF TypeInv, TypeOK
  <2>2. scan[s] \in ScanFields /\ emitted[s] \in Seq(Row)
    BY <2>1
  <2>3. scan[s].base \in Nat /\ scan[s].size \in Nat /\ scan[s].index \in Nat
    BY <2>2 DEF ScanFields
  <2>4. Len(emitted[s]) \in Nat
    BY <2>2
  <2>. QED BY <2>1, <2>2, <2>3, <2>4
<1>2. CASE BufferedRow(s)
  <2>1. /\ scan[s].started /\ ~eof[s] /\ Live(s)
        /\ scan[s].index < scan[s].size
        /\ UNCHANGED <<slot, phase, eof, rescans>>
    BY <1>1, <1>2 DEF BufferedRow, Wanted, BatchUsedUp, FreshInv, Live
  <2>2. slot.arrow /\ slot.stmt = s /\ (s \notin rescans => Position(s))
    BY <2>1 DEF Owned
  <2>3. /\ emitted'[s] = Append(emitted[s], <<scan[s].src, scan[s].base + scan[s].index + 1>>)
        /\ scan'[s] = [scan[s] EXCEPT !.index = scan[s].index + 1]
    BY <1>1, <1>2 DEF BufferedRow
  <2>4. /\ scan'[s].base = scan[s].base /\ scan'[s].size = scan[s].size
        /\ scan'[s].src = scan[s].src /\ scan'[s].index = scan[s].index + 1
        /\ Len(emitted'[s]) = Len(emitted[s]) + 1
    BY <1>1, <2>3 DEF ScanFields
  <2>5. ASSUME s \notin rescans PROVE Position(s)'
    <3>1. /\ Len(emitted[s]) = scan[s].base + scan[s].index
          /\ scan[s].src = s /\ scan[s].base + scan[s].size <= Rows[s]
          /\ slot.pos = scan[s].base + scan[s].size
      BY <1>1, <2>1, <2>2, <2>5 DEF Position
    <3>2. /\ Len(emitted'[s]) = scan'[s].base + scan'[s].index
          /\ scan'[s].index <= scan'[s].size
      BY <1>1, <2>1, <2>4, <3>1
    <3>3. /\ scan'[s].src = s /\ scan'[s].base + scan'[s].size <= Rows[s]
          /\ slot'.stmt = s /\ slot'.pos = scan'[s].base + scan'[s].size
      BY <2>1, <2>2, <2>4, <3>1
    <3>. QED BY <3>2, <3>3 DEF Position
  <2>. QED BY <2>1, <2>2, <2>5 DEF Owned
<1>3. CASE FetchedRow(s)
  <2>1. Wanted(s) /\ BatchUsedUp(s) /\ UNCHANGED <<phase, eof, rescans>>
    BY <1>3 DEF FetchedRow
  <2>2. PICK n \in BatchSizes(StreamOf(s)) :
          /\ slot' = [StreamOf(s) EXCEPT !.pos = @ + n]
          /\ scan' = [scan EXCEPT ![s] =
               [started |-> TRUE, src |-> StreamOf(s).stmt, base |-> StreamOf(s).pos,
                size |-> n, index |-> 1]]
          /\ emitted' = [emitted EXCEPT
               ![s] = Append(@, <<StreamOf(s).stmt, StreamOf(s).pos + 1>>)]
    BY <1>3 DEF FetchedRow
  <2>3. /\ n \in Nat \ {0}
        /\ StreamOf(s).pos + n <= Rows[StreamOf(s).stmt]
        /\ StreamOf(s) \in [stmt : Queries \cup {None}, arrow : BOOLEAN, pos : Nat]
    BY StreamOfType
  <2>4. /\ StreamOf(s).arrow /\ StreamOf(s).stmt = s
        /\ s \notin rescans => StreamOf(s).pos = Len(emitted[s])
    BY <2>1, OwnStream
  <2>5. /\ slot'.arrow /\ slot'.stmt = s /\ slot'.pos = StreamOf(s).pos + n
        /\ scan'[s] = [started |-> TRUE, src |-> s, base |-> StreamOf(s).pos,
                       size |-> n, index |-> 1]
        /\ Len(emitted'[s]) = Len(emitted[s]) + 1
    BY <1>1, <2>2, <2>3, <2>4
  <2>6. ASSUME s \notin rescans PROVE Position(s)'
    <3>1. StreamOf(s).pos = Len(emitted[s])
      BY <2>4, <2>6
    <3>. QED BY <1>1, <2>3, <2>4, <2>5, <3>1 DEF Position
  <2>. QED BY <2>1, <2>5, <2>6 DEF Owned
<1>4. CASE ScanEnd(s)
  <2>1. /\ Wanted(s) /\ BatchUsedUp(s) /\ Live(s)
        /\ UNCHANGED <<phase, emitted, rescans>>
        /\ slot' = StreamOf(s)
        /\ scan' = [scan EXCEPT ![s].started = TRUE, ![s].index = 0]
        /\ eof'[s]
    BY <1>1, <1>4 DEF ScanEnd, Wanted, Live
  <2>2. StreamOf(s).arrow /\ StreamOf(s).stmt = s
    BY <2>1, OwnStream
  <2>3. scan'[s] = [scan[s] EXCEPT !.started = TRUE, !.index = 0]
    BY <1>1, <2>1
  <2>4. /\ scan'[s].base = scan[s].base /\ scan'[s].size = scan[s].size
        /\ scan'[s].src = scan[s].src /\ scan'[s].index = 0
    BY <1>1, <2>3 DEF ScanFields
  <2>5. s \notin rescans =>
          /\ scan[s].size > 0 => scan[s].src = s /\ scan[s].base + scan[s].size <= Rows[s]
          /\ StreamOf(s).pos = scan[s].base + scan[s].size
    <3>1. CASE scan[s].started
      BY <2>1, <2>2, <3>1 DEF Owned, Position, StreamOf
    <3>2. CASE ~scan[s].started
      BY <1>1, <3>2 DEF FreshInv, StreamOf, Created
    <3>. QED BY <3>1, <3>2
  <2>6. ASSUME s \notin rescans PROVE Position(s)'
    <3>1. /\ scan[s].size > 0 => scan[s].src = s /\ scan[s].base + scan[s].size <= Rows[s]
          /\ StreamOf(s).pos = scan[s].base + scan[s].size
      BY <2>5, <2>6
    <3>. QED BY <1>1, <2>1, <2>2, <2>4, <3>1 DEF Position
  <2>. QED BY <2>1, <2>2, <2>6 DEF Owned
<1>5. CASE CreateFailed(s) \/ StreamLost(s) \/ CellFailed(s)
  <2>1. Abort(PortalOf[s]) /\ PortalOf[s] \in Portals
    BY <1>5 DEF CreateFailed, StreamLost, CellFailed
  <2>2. ~Live(s)'
    BY <2>1, AbortEffect DEF Live
  <2>. QED BY <2>2 DEF Owned
<1>. QED BY <1>2, <1>3, <1>4, <1>5 DEF IterScan

\* Nothing but its own iterations and the end of its portal touches the stream
\* of a live scan.
LEMMA NextOwned == OneAtATime /\ LoneInv /\ [Next]_vars => \A s \in Scans : Owned(s)'
<1> SUFFICES ASSUME OneAtATime, LoneInv, [Next]_vars, NEW s \in Scans PROVE Owned(s)'
  OBVIOUS
<1>0. /\ TypeInv /\ FreshInv /\ LoneExecutor /\ Owned(s)
      /\ phase \in [Portals -> Phases] /\ runs \in [Portals -> 0..MaxRuns]
      /\ PortalOf[s] \in Portals
      /\ CanStart => Active = {}
      /\ Live(s) => PortalOf[s] \in Active
  BY DEF LoneInv, TypeInv, TypeOK, OneAtATime, CanStart, Live, Active
<1>1. ASSUME NEW p \in Portals, ExecuteQuery(p) PROVE Owned(s)'
  <2>1. Active = {} /\ phase[p] = "idle"
    BY <1>0, <1>1 DEF ExecuteQuery
  <2>2. ~Live(s)'
    <3>1. CASE ExecuteServed(p) \/ ExecuteFallsBack(p)
      BY <1>0, <2>1, <3>1 DEF ExecuteServed, ExecuteFallsBack, Live
    <3>2. CASE ExecuteFailed(p)
      BY <1>0, <2>1, <3>2, AbortEffect DEF ExecuteFailed, WriteFailed, SearchPathFailed, Live
    <3>. QED BY <1>1, <3>1, <3>2 DEF ExecuteQuery
  <2>. QED BY <2>2 DEF Owned
<1>2. ASSUME NEW p \in Portals, ExecutorStart(p) PROVE Owned(s)'
  <2>1. /\ UNCHANGED <<slot, scan, emitted, eof, rescans>>
        /\ phase' = [phase EXCEPT ![p] = "open"]
        /\ phase[p] \in {"idle", "fallback"}
    BY <1>2 DEF ExecutorStart, scanVars
  <2>2. scan[s].started /\ Live(s)' => Live(s)
    BY <1>0, <2>1 DEF FreshInv, Live
  <2>. QED BY <1>0, <2>1, <2>2, OwnedKept
<1>3. ASSUME NEW p \in Portals, ExecutorRun(p) PROVE Owned(s)'
  <2>1. /\ UNCHANGED <<scan, emitted, eof, rescans>> /\ phase[p] = "open"
        /\ runs[p] < IF p \in Cursors THEN MaxRuns ELSE 1
    BY <1>3 DEF ExecutorRun, scanVars
  <2>2. Live(s)' => Live(s)
    BY <1>0, <1>3, <2>1, AbortEffect
       DEF ExecutorRun, HookServed, HookFallsBack, HookFailed, HookDeclines, WriteFailed,
           SearchPathFailed, Live
  <2>3. CASE HookDeclines(p)
    BY <1>0, <2>1, <2>2, <2>3, OwnedKept DEF HookDeclines
  <2>4. CASE HookTakes(p)
    <3>1. p \notin Cursors /\ runs[p] = 0
      BY <1>0, <2>1, <2>4 DEF OneAtATime
    <3>2. ASSUME Live(s) PROVE ~scan[s].started
      <4>1. p \in Active
        BY <2>1 DEF Active
      <4>2. PortalOf[s] = p
        BY <1>0, <3>2, <4>1 DEF LoneExecutor
      <4>. QED BY <1>0, <3>1, <4>2 DEF LoneExecutor
    <3>. QED BY <2>1, <2>2, <3>2 DEF Owned
  <2>. QED BY <1>3, <2>3, <2>4 DEF ExecutorRun, HookServed, HookFallsBack, HookFailed
<1>4. ASSUME NEW p \in Portals, Suspend(p) PROVE Owned(s)'
  <2>1. UNCHANGED <<slot, scan, emitted, eof, rescans>> /\ (Live(s)' => Live(s))
    BY <1>0, <1>4 DEF Suspend, scanVars, Live
  <2>. QED BY <1>0, <2>1, OwnedKept
<1>5. ASSUME NEW p \in Portals, ExecutorEnd(p) PROVE Owned(s)'
  <2>1. p \in Active /\ phase' = [phase EXCEPT ![p] = "closed"]
    BY <1>5 DEF ExecutorEnd, Active
  <2>2. Live(s) => PortalOf[s] = p
    BY <1>0, <2>1 DEF LoneExecutor
  <2>3. ~Live(s)'
    BY <1>0, <2>1, <2>2 DEF Live
  <2>. QED BY <2>3 DEF Owned
<1>6. ASSUME NEW t \in Scans, IterScan(t) PROVE Owned(s)'
  <2>1. CASE t = s
    BY <1>0, <1>6, <2>1, IterationOwned
  <2>2. CASE t # s
    <3>1. phase[PortalOf[t]] = "running" /\ (UNCHANGED phase \/ Abort(PortalOf[t]))
      BY <1>6 DEF IterScan, BufferedRow, FetchedRow, ScanEnd, CreateFailed, StreamLost,
                  StreamGone, CellFailed, Wanted
    <3>2. PortalOf[t] \in Active
      BY <3>1 DEF Active
    <3>3. ~Live(s)
      BY <1>0, <2>2, <3>2 DEF LoneExecutor, OneAtATime
    <3>4. ~Live(s)'
      BY <1>0, <3>1, <3>3, AbortEffect DEF Live
    <3>. QED BY <3>4 DEF Owned
  <2>. QED BY <2>1, <2>2
<1>7. ASSUME NEW t \in Scans, ReScan(t) PROVE Owned(s)'
  <2>1. /\ UNCHANGED <<slot, phase, scan>> /\ rescans' = rescans \cup {t}
        /\ t # s => emitted'[s] = emitted[s] /\ eof'[s] = eof[s]
    BY <1>0, <1>7 DEF ReScan, TypeInv, TypeOK
  <2>. QED BY <1>0, <2>1 DEF Owned, Live, Position
<1>8. CASE UNCHANGED vars
  BY <1>0, <1>8 DEF vars, Owned, Live, Position
<1>. QED
  BY <1>1, <1>2, <1>3, <1>4, <1>5, <1>6, <1>7, <1>8 DEF Next

LEMMA LoneInvariant ==
  ASSUME OneAtATime
  PROVE  Spec => []LoneInv
<1>1. Init => LoneInv
  <2>1. Init => FreshInv /\ LoneExecutor
    BY DEF Init, FreshInv, LoneExecutor, Active
  <2>2. Init => \A s \in Scans : Owned(s)
    BY DEF Init, Owned
  <2>. QED BY <2>1, <2>2, InitType DEF LoneInv
<1>2. LoneInv /\ [Next]_vars => LoneInv'
  BY NextType, NextFresh, NextLoneExecutor, NextOwned DEF LoneInv, TypeInv
<1>. QED BY <1>1, <1>2, PTL DEF Spec

\* With one statement at a time and one scan per statement, no scan finds the
\* stream it started gone, rescans and aborted statements included.
THEOREM LoneScansAreNeverLost ==
  ASSUME OneAtATime
  PROVE  Spec => []NeverLost
<1>1. LoneInv => NeverLost
  <2> SUFFICES ASSUME LoneInv, NEW s \in Scans, StreamGone(s) PROVE FALSE
    BY DEF NeverLost
  <2>. QED BY OwnStream DEF StreamGone, LoneInv
<1>. QED BY <1>1, LoneInvariant, PTL

-----------------------------------------------------------------------------
(* The refinement of PrivateStreams, for plans without rescans: a scan that *)
(* is rescanned starts its passes over, which a private stream does not.   *)

LoneFirstInv == LoneInv /\ rescans = {}

LEMMA NextLoneFirst ==
  OneAtATime /\ Rescanned = {} /\ LoneFirstInv /\ [Next]_vars => LoneFirstInv'
<1> SUFFICES ASSUME OneAtATime, Rescanned = {}, LoneFirstInv, [Next]_vars PROVE LoneFirstInv'
  OBVIOUS
<1>1. LoneInv'
  BY NextType, NextFresh, NextLoneExecutor, NextOwned DEF LoneInv, TypeInv, LoneFirstInv
<1>2. rescans' = rescans
  BY DEF Next, vars, ExecuteQuery, ExecutorStart, ExecutorRun, Suspend, ExecutorEnd,
         scanVars, IterScan, BufferedRow, FetchedRow, ScanEnd, CreateFailed,
         StreamLost, CellFailed, ReScan
<1>. QED BY <1>1, <1>2 DEF LoneFirstInv

\* Where a live scan stands, spelled out.
LEMMA OwnPlace ==
  ASSUME LoneFirstInv, NEW s \in Scans, Wanted(s)
  PROVE  /\ ~eof[s] /\ Owned(s) /\ TypeInv /\ FreshInv
         /\ Len(emitted[s]) \in Nat /\ Rows[s] \in Nat
         /\ BatchUsedUp(s) => /\ StreamOf(s).arrow
                              /\ StreamOf(s).stmt = s
                              /\ StreamOf(s).pos = Len(emitted[s])
         /\ ~BatchUsedUp(s) => /\ scan[s].src = s
                               /\ scan[s].base + scan[s].index = Len(emitted[s])
                               /\ Len(emitted[s]) < Rows[s]
<1>1. /\ ~eof[s] /\ Owned(s) /\ TypeInv /\ FreshInv /\ s \notin rescans
      /\ Live(s)
  BY DEF LoneFirstInv, LoneInv, Wanted, Live
<1>2. emitted[s] \in Seq(Row) /\ Len(emitted[s]) \in Nat /\ Rows[s] \in Nat
  BY <1>1 DEF TypeInv, TypeOK, Queries
<1>3. scan[s].base \in Nat /\ scan[s].size \in Nat /\ scan[s].index \in Nat
  BY <1>1 DEF TypeInv, TypeOK, ScanFields
<1>4. ASSUME BatchUsedUp(s)
      PROVE  StreamOf(s).arrow /\ StreamOf(s).stmt = s /\ StreamOf(s).pos = Len(emitted[s])
  BY <1>1, <1>4, OwnStream
<1>5. ASSUME ~BatchUsedUp(s)
      PROVE  /\ scan[s].src = s
             /\ scan[s].base + scan[s].index = Len(emitted[s])
             /\ Len(emitted[s]) < Rows[s]
  <2>1. scan[s].started /\ scan[s].index < scan[s].size
    BY <1>1, <1>3, <1>5 DEF BatchUsedUp, FreshInv
  <2>2. Position(s)
    BY <1>1, <2>1 DEF Owned
  <2>3. /\ Len(emitted[s]) = scan[s].base + scan[s].index
        /\ scan[s].src = s /\ scan[s].base + scan[s].size <= Rows[s]
    BY <1>1, <1>3, <2>1, <2>2 DEF Position
  <2>. QED BY <1>2, <1>3, <2>1, <2>3
<1>. QED BY <1>1, <1>2, <1>4, <1>5

\* An iteration gives the next row of the scan's stream, reports its end, or
\* fails and leaves what the scan returned as it is.
LEMMA IterationIsPrivate ==
  ASSUME LoneFirstInv, NEW s \in Scans, IterScan(s)
  PROVE  [Private!Next]_(Private!streamVars)
<1>1. CASE BufferedRow(s)
  <2>1. /\ Wanted(s) /\ ~BatchUsedUp(s) /\ UNCHANGED eof
        /\ emitted' = [emitted EXCEPT
             ![s] = Append(@, <<scan[s].src, scan[s].base + scan[s].index + 1>>)]
    BY <1>1 DEF BufferedRow
  <2>2. Private!Give(s)
    BY <2>1, OwnPlace DEF Private!Give
  <2>. QED BY <2>2 DEF Private!Next
<1>2. CASE FetchedRow(s)
  <2>1. Wanted(s) /\ BatchUsedUp(s) /\ UNCHANGED eof
    BY <1>2 DEF FetchedRow
  <2>2. PICK n \in BatchSizes(StreamOf(s)) :
          emitted' = [emitted EXCEPT ![s] = Append(@, <<StreamOf(s).stmt, StreamOf(s).pos + 1>>)]
    BY <1>2 DEF FetchedRow
  <2>3. /\ StreamOf(s).stmt = s /\ StreamOf(s).pos = Len(emitted[s])
        /\ ~eof[s] /\ TypeInv /\ Len(emitted[s]) \in Nat /\ Rows[s] \in Nat
    BY <2>1, OwnPlace
  <2>4. n \in Nat \ {0} /\ StreamOf(s).pos + n <= Rows[StreamOf(s).stmt]
    BY <2>3, StreamOfType
  <2>5. Private!Give(s)
    BY <2>1, <2>2, <2>3, <2>4 DEF Private!Give
  <2>. QED BY <2>5 DEF Private!Next
<1>3. CASE ScanEnd(s)
  <2>1. /\ Wanted(s) /\ BatchUsedUp(s) /\ UNCHANGED emitted
        /\ Remaining(StreamOf(s)) = 0
        /\ eof' = [eof EXCEPT ![s] = TRUE]
    BY <1>3 DEF ScanEnd
  <2>2. /\ StreamOf(s).arrow /\ StreamOf(s).stmt = s /\ StreamOf(s).pos = Len(emitted[s])
        /\ ~eof[s] /\ Len(emitted[s]) \in Nat /\ Rows[s] \in Nat
    BY <2>1, OwnPlace
  <2>3. Len(emitted[s]) = Rows[s]
    BY <2>1, <2>2 DEF Remaining
  <2>4. Private!Finish(s)
    BY <2>1, <2>2, <2>3 DEF Private!Finish
  <2>. QED BY <2>4 DEF Private!Next
<1>4. CASE CreateFailed(s) \/ StreamLost(s) \/ CellFailed(s)
  BY <1>4 DEF CreateFailed, StreamLost, CellFailed, Private!streamVars
<1>. QED BY <1>1, <1>2, <1>3, <1>4 DEF IterScan

LEMMA NextIsPrivate ==
  Rescanned = {} /\ LoneFirstInv /\ [Next]_vars => [Private!Next]_(Private!streamVars)
<1> SUFFICES ASSUME Rescanned = {}, LoneFirstInv, [Next]_vars
             PROVE  [Private!Next]_(Private!streamVars)
  OBVIOUS
<1>1. ASSUME NEW p \in Portals,
             ExecuteQuery(p) \/ ExecutorStart(p) \/ ExecutorRun(p) \/ Suspend(p) \/ ExecutorEnd(p)
      PROVE  UNCHANGED Private!streamVars
  BY <1>1 DEF ExecuteQuery, ExecutorStart, ExecutorRun, Suspend, ExecutorEnd, scanVars,
              Private!streamVars
<1>2. ASSUME NEW s \in Scans, ReScan(s) PROVE FALSE
  BY <1>2 DEF ReScan
<1>3. CASE UNCHANGED vars
  BY <1>3 DEF vars, Private!streamVars
<1>. QED BY <1>1, <1>2, <1>3, IterationIsPrivate DEF Next

\* With one statement at a time, one scan per statement and no rescan, the
\* single stream of the connection does for every scan what a stream of its own
\* would: its rows in order, without gaps, and its end after the last one.
THEOREM LoneScansArePrivate ==
  ASSUME OneAtATime, Rescanned = {}
  PROVE  Spec => ScansArePrivate
<1>1. Init => LoneFirstInv
  <2>1. Init => FreshInv /\ LoneExecutor /\ rescans = {}
    BY DEF Init, FreshInv, LoneExecutor, Active
  <2>2. Init => \A s \in Scans : Owned(s)
    BY DEF Init, Owned
  <2>. QED BY <2>1, <2>2, InitType DEF LoneInv, LoneFirstInv
<1>2. LoneFirstInv /\ [Next]_vars => LoneFirstInv'
  BY NextLoneFirst
<1>3. LoneFirstInv /\ [Next]_vars => [Private!Next]_(Private!streamVars)
  BY NextIsPrivate
<1>4. Init => Private!Init
  BY DEF Init, Private!Init
<1>. QED BY <1>1, <1>2, <1>3, <1>4, PTL DEF Spec, ScansArePrivate, Private!Spec

=============================================================================
