-------------------------- MODULE LakeScan_proofs --------------------------
(***************************************************************************)
(* Proofs about LakeScan, for every set of queries, scans and relations    *)
(* and every interleaving: its scans implement PrivateStreams, a second    *)
(* pass is a tail, and DataFusion answers over the relations Postgres      *)
(* planned with.                                                           *)
(***************************************************************************)
EXTENDS LakeScan, SequenceTheorems, WellFoundedInduction, TLAPS

Fields == [stream : BOOLEAN, pos : Nat, base : Nat, size : Nat, index : Nat]

ScanTypes ==
  /\ phase \in [Portals -> Phases]
  /\ scan \in [Scans -> Fields]
  /\ emitted \in [Scans -> Seq(Scans \X Nat)]
  /\ eof \in [Scans -> BOOLEAN]
  /\ rescans \subseteq Rescanned

\* A batch of a query that is not over ends where its stream is.
BatchInv(s) ==
  /\ scan[s].index <= scan[s].size
  /\ scan[s].pos <= Rows[s]
  /\ scan[s].stream \/ phase[PortalOf[s]] \in {"idle", "open", "running"}
       => scan[s].pos = scan[s].base + scan[s].size

\* The last row of a pass is the one before the index, or the last of all.
PassInv(s) ==
  /\ \A i \in DOMAIN emitted[s] : i > 1 => emitted[s][i] = <<s, emitted[s][i - 1][2] + 1>>
  /\ emitted[s] # <<>> =>
       emitted[s][Len(emitted[s])]
         = <<s, IF eof[s] THEN Rows[s] ELSE scan[s].base + scan[s].index>>

\* A first pass has returned what is before the index.
FirstInv(s) == s \notin rescans /\ ~eof[s] => Len(emitted[s]) = scan[s].base + scan[s].index

StreamInv == ScanTypes /\ \A s \in Scans : BatchInv(s) /\ PassInv(s) /\ FirstInv(s)

-----------------------------------------------------------------------------
LEMMA FieldTypes ==
  ASSUME NEW x \in Fields
  PROVE  /\ x.stream \in BOOLEAN
         /\ x.pos \in Nat /\ x.base \in Nat /\ x.size \in Nat /\ x.index \in Nat
BY DEF Fields

LEMMA FieldsMade ==
  ASSUME NEW a \in BOOLEAN, NEW b \in Nat, NEW c \in Nat, NEW d \in Nat, NEW e \in Nat
  PROVE  [stream |-> a, pos |-> b, base |-> c, size |-> d, index |-> e] \in Fields
BY DEF Fields

LEMMA BufferedUpdate ==
  ASSUME NEW x \in Fields, NEW y, y = [x EXCEPT !.index = @ + 1, !.stream = TRUE]
  PROVE  /\ y \in Fields
         /\ y.stream /\ y.pos = x.pos /\ y.base = x.base /\ y.size = x.size
         /\ y.index = x.index + 1
PROOF
<1>1. y = [stream |-> TRUE, pos |-> x.pos, base |-> x.base, size |-> x.size, index |-> x.index + 1]
  BY DEF Fields
<1>2. y \in Fields
  <2>1. TRUE \in BOOLEAN /\ x.pos \in Nat /\ x.base \in Nat /\ x.size \in Nat /\ x.index + 1 \in Nat
    BY FieldTypes
  <2>2. [stream |-> TRUE, pos |-> x.pos, base |-> x.base, size |-> x.size, index |-> x.index + 1]
          \in Fields
    BY <2>1, FieldsMade
  <2>. QED BY <1>1, <2>2, Zenon
<1>. QED BY <1>1, <1>2

LEMMA EndedUpdate ==
  ASSUME NEW x \in Fields, NEW y, y = [x EXCEPT !.stream = TRUE, !.index = 0]
  PROVE  /\ y \in Fields
         /\ y.stream /\ y.pos = x.pos /\ y.base = x.base /\ y.size = x.size /\ y.index = 0
BY DEF Fields

LEMMA ClearedUpdate ==
  ASSUME NEW x \in Fields, NEW y, y = [x EXCEPT !.stream = FALSE, !.pos = 0]
  PROVE  /\ y \in Fields
         /\ y.stream = FALSE /\ y.pos = 0 /\ y.base = x.base /\ y.size = x.size
         /\ y.index = x.index
BY DEF Fields

LEMMA NatIsPositive ==
  ASSUME NEW n \in Nat
  PROVE  0 <= n
OBVIOUS

LEMMA ScanConstants ==
  /\ BatchSize \in Nat
  /\ \A s \in Scans : Rows[s] \in Nat /\ PortalOf[s] \in Portals
BY ScanAssumption

\* The state of one scan changes.
LEMMA ScanUpdated ==
  ASSUME ScanTypes, NEW s \in Scans, NEW x \in Fields, scan' = [scan EXCEPT ![s] = x]
  PROVE  scan' \in [Scans -> Fields] /\ scan'[s] = x /\ \A t \in Scans \ {s} : scan'[t] = scan[t]
BY DEF ScanTypes

LEMMA InitStream == Init => StreamInv
PROOF
<1> SUFFICES ASSUME Init PROVE StreamInv
  OBVIOUS
<1>1. ScanTypes
  BY DEF Init, ScanTypes, Phases, Fields, Fresh
<1>2. ASSUME NEW s \in Scans PROVE BatchInv(s) /\ PassInv(s) /\ FirstInv(s)
  BY ScanConstants DEF Init, BatchInv, PassInv, FirstInv, Fresh
<1>. QED BY <1>1, <1>2 DEF StreamInv

\* Steps that leave the streams alone and begin no query that was over.
LEMMA StreamKept ==
  ASSUME StreamInv, UNCHANGED Streams, phase' \in [Portals -> Phases],
         \A p \in Portals : phase'[p] \in {"idle", "open", "running"}
                              => phase[p] \in {"idle", "open", "running"}
  PROVE  StreamInv'
PROOF
<1>1. ScanTypes'
  BY DEF StreamInv, ScanTypes, Streams
<1>2. ASSUME NEW s \in Scans PROVE BatchInv(s)' /\ PassInv(s)' /\ FirstInv(s)'
  BY <1>2, ScanConstants DEF StreamInv, Streams, BatchInv, PassInv, FirstInv
<1>. QED BY <1>1, <1>2 DEF StreamInv

\* A scan returns the row after the index: so far it has returned, in this pass,
\* what PassInv says.
LEMMA RowReturned ==
  ASSUME StreamInv, NEW s \in Scans, ~eof[s],
         emitted' = [emitted EXCEPT ![s] = Append(@, <<s, scan[s].base + scan[s].index + 1>>)],
         scan' \in [Scans -> Fields],
         scan'[s].base + scan'[s].index = scan[s].base + scan[s].index + 1,
         UNCHANGED <<eof, rescans>>
  PROVE  /\ emitted' \in [Scans -> Seq(Scans \X Nat)]
         /\ PassInv(s)' /\ FirstInv(s)'
PROOF
<1> DEFINE n == scan[s].base + scan[s].index
<1>0. scan[s] \in Fields /\ emitted[s] \in Seq(Scans \X Nat)
  BY DEF StreamInv, ScanTypes
<1>1. n \in Nat /\ emitted[s] \in Seq(Scans \X Nat) /\ <<s, n + 1>> \in Scans \X Nat
  BY <1>0, FieldTypes
<1>1a. n = scan[s].base + scan[s].index
  OBVIOUS
<1> HIDE DEF n
<1>2. emitted'[s] = Append(emitted[s], <<s, n + 1>>)
  BY <1>1a DEF StreamInv, ScanTypes
<1>3. /\ emitted'[s] \in Seq(Scans \X Nat)
      /\ Len(emitted'[s]) = Len(emitted[s]) + 1
      /\ emitted'[s][Len(emitted[s]) + 1] = <<s, n + 1>>
      /\ \A i \in 1..Len(emitted[s]) : emitted'[s][i] = emitted[s][i]
  BY <1>1, <1>2
<1>4. emitted' \in [Scans -> Seq(Scans \X Nat)]
  BY <1>2, <1>3 DEF StreamInv, ScanTypes
<1>5. PassInv(s) /\ FirstInv(s)
  BY DEF StreamInv
<1>6. ASSUME NEW i \in DOMAIN emitted'[s], i > 1
      PROVE  emitted'[s][i] = <<s, emitted'[s][i - 1][2] + 1>>
  <2>1. i \in 1..(Len(emitted[s]) + 1) /\ Len(emitted[s]) \in Nat
    BY <1>1, <1>3
  <2>2. CASE i \in 1..Len(emitted[s])
    <3>1. i - 1 \in 1..Len(emitted[s])
      BY <1>6, <2>1, <2>2
    <3>2. emitted'[s][i] = emitted[s][i] /\ emitted'[s][i - 1] = emitted[s][i - 1]
      BY <1>3, <2>2, <3>1
    <3>3. DOMAIN emitted[s] = 1..Len(emitted[s])
      BY <1>0
    <3>4. emitted[s][i] = <<s, emitted[s][i - 1][2] + 1>>
      BY <1>5, <1>6, <2>2, <3>3 DEF PassInv
    <3>. QED BY <3>2, <3>4
  <2>3. CASE i = Len(emitted[s]) + 1
    <3>1. i - 1 = Len(emitted[s]) /\ Len(emitted[s]) \in 1..Len(emitted[s])
      BY <1>6, <2>1, <2>3
    <3>2. emitted[s] # <<>>
      BY <3>1
    <3>3. emitted[s][Len(emitted[s])] = <<s, n>>
      BY <1>1a, <1>5, <3>2 DEF PassInv
    <3>4. emitted'[s][i - 1] = emitted[s][Len(emitted[s])]
      BY <1>3, <3>1
    <3>5. emitted'[s][i - 1] = <<s, n>>
      BY <3>3, <3>4
    <3>6. <<s, n>>[2] = n
      OBVIOUS
    <3>7. emitted'[s][i] = <<s, n + 1>>
      BY <1>3, <2>3
    <3>. QED BY <3>5, <3>6, <3>7, Zenon
  <2>4. i \in 1..Len(emitted[s]) \/ i = Len(emitted[s]) + 1
    BY <2>1
  <2>. QED BY <2>2, <2>3, <2>4, Zenon
<1>7. PassInv(s)'
  BY <1>1, <1>1a, <1>3, <1>6 DEF PassInv
<1>8. FirstInv(s)'
  BY <1>1, <1>1a, <1>3, <1>5 DEF FirstInv
<1>. QED BY <1>4, <1>7, <1>8

\* The scans that did not move.
LEMMA OthersKept ==
  ASSUME StreamInv, NEW s \in Scans, NEW t \in Scans, t # s, UNCHANGED phase,
         scan'[t] = scan[t], emitted'[t] = emitted[t], eof'[t] = eof[t],
         t \in rescans' <=> t \in rescans
  PROVE  BatchInv(t)' /\ PassInv(t)' /\ FirstInv(t)'
BY DEF StreamInv, BatchInv, PassInv, FirstInv

-----------------------------------------------------------------------------
LEMMA BufferedRowStream ==
  ASSUME StreamInv, NEW s \in Scans, BufferedRow(s)
  PROVE  StreamInv'
PROOF
<1> DEFINE y == [scan[s] EXCEPT !.index = @ + 1, !.stream = TRUE]
<1>1. /\ phase[PortalOf[s]] = "running" /\ ~eof[s] /\ ~(scan[s].index >= scan[s].size)
      /\ emitted' = [emitted EXCEPT ![s] = Append(@, <<s, scan[s].base + scan[s].index + 1>>)]
      /\ scan' = [scan EXCEPT ![s] = y]
      /\ UNCHANGED <<phase, eof, rescans>>
  BY DEF BufferedRow, Wanted, BatchUsedUp, StreamInv, ScanTypes
<1>2. scan[s] \in Fields /\ BatchInv(s) /\ Rows[s] \in Nat
  BY ScanConstants DEF StreamInv, ScanTypes
<1>3. /\ y \in Fields
      /\ y.stream /\ y.pos = scan[s].pos /\ y.base = scan[s].base /\ y.size = scan[s].size
      /\ y.index = scan[s].index + 1
  BY <1>2, BufferedUpdate
<1> HIDE DEF y
<1>4. scan' \in [Scans -> Fields] /\ scan'[s] = y /\ \A t \in Scans \ {s} : scan'[t] = scan[t]
  BY <1>1, <1>3, ScanUpdated DEF StreamInv
<1>5. BatchInv(s)'
  BY <1>1, <1>2, <1>3, <1>4, FieldTypes DEF BatchInv
<1>6. scan'[s].base + scan'[s].index = scan[s].base + scan[s].index + 1
  <2>1. scan[s].base \in Nat /\ scan[s].index \in Nat
    BY <1>2, FieldTypes
  <2>2. scan'[s].base = scan[s].base /\ scan'[s].index = scan[s].index + 1
    BY <1>3, <1>4
  <2>. QED BY <2>1, <2>2
<1>7. emitted' \in [Scans -> Seq(Scans \X Nat)] /\ PassInv(s)' /\ FirstInv(s)'
  BY <1>1, <1>4, <1>6, RowReturned
<1>8. ScanTypes'
  BY <1>1, <1>4, <1>7 DEF StreamInv, ScanTypes
<1>9. ASSUME NEW t \in Scans, t # s PROVE BatchInv(t)' /\ PassInv(t)' /\ FirstInv(t)'
  BY <1>1, <1>4, <1>9, OthersKept DEF StreamInv, ScanTypes
<1>. QED BY <1>5, <1>7, <1>8, <1>9 DEF StreamInv

LEMMA FetchedRowStream ==
  ASSUME StreamInv, NEW s \in Scans, FetchedRow(s)
  PROVE  StreamInv'
PROOF
<1> USE DEF FetchedRow, Wanted, BatchUsedUp
<1>1. scan[s] \in Fields /\ BatchInv(s) /\ Rows[s] \in Nat
  BY ScanConstants DEF StreamInv, ScanTypes
<1>2. PICK n \in 1..BatchSize :
        /\ scan[s].pos + n <= Rows[s]
        /\ scan' = [scan EXCEPT ![s] =
             [stream |-> TRUE, pos |-> @.pos + n, base |-> @.pos, size |-> n, index |-> 1]]
        /\ emitted' = [emitted EXCEPT ![s] = Append(@, <<s, scan[s].pos + 1>>)]
  OBVIOUS
<1>3. scan' \in [Scans -> Fields]
  BY <1>1, <1>2 DEF StreamInv, ScanTypes, Fields
<1>4. scan'[s] = [stream |-> TRUE, pos |-> scan[s].pos + n, base |-> scan[s].pos,
                  size |-> n, index |-> 1]
  BY <1>2 DEF StreamInv, ScanTypes
<1>5. BatchInv(s)'
  BY <1>1, <1>2, <1>4, FieldTypes DEF BatchInv
<1>6. scan[s].pos = scan[s].base + scan[s].index
  BY <1>1, FieldTypes DEF BatchInv
<1>7. scan'[s].base + scan'[s].index = scan[s].base + scan[s].index + 1
  BY <1>1, <1>4, <1>6, FieldTypes
<1>8. emitted' \in [Scans -> Seq(Scans \X Nat)] /\ PassInv(s)' /\ FirstInv(s)'
  BY <1>2, <1>3, <1>6, <1>7, RowReturned
<1>9. ScanTypes'
  BY <1>3, <1>8 DEF StreamInv, ScanTypes
<1>10. ASSUME NEW t \in Scans, t # s PROVE BatchInv(t)' /\ PassInv(t)' /\ FirstInv(t)'
  BY <1>2, <1>10, OthersKept DEF StreamInv, ScanTypes
<1>. QED BY <1>5, <1>8, <1>9, <1>10 DEF StreamInv

LEMMA ScanEndStream ==
  ASSUME StreamInv, NEW s \in Scans, ScanEnd(s)
  PROVE  StreamInv'
PROOF
<1> USE DEF ScanEnd, Wanted, BatchUsedUp
<1>1. scan[s] \in Fields /\ BatchInv(s) /\ PassInv(s) /\ Rows[s] \in Nat
  BY ScanConstants DEF StreamInv, ScanTypes
<1> DEFINE y == [scan[s] EXCEPT !.stream = TRUE, !.index = 0]
<1>2. /\ y \in Fields
      /\ y.stream /\ y.pos = scan[s].pos /\ y.base = scan[s].base /\ y.size = scan[s].size
      /\ y.index = 0
  BY <1>1, EndedUpdate
<1>3. scan' = [scan EXCEPT ![s] = y] /\ eof'[s] = TRUE
  BY DEF StreamInv, ScanTypes
<1> HIDE DEF y
<1>4. scan' \in [Scans -> Fields] /\ scan'[s] = y /\ \A t \in Scans \ {s} : scan'[t] = scan[t]
  BY <1>2, <1>3, ScanUpdated DEF StreamInv
<1>5. BatchInv(s)'
  BY <1>1, <1>2, <1>4, FieldTypes DEF BatchInv
<1>6. scan[s].base + scan[s].index = Rows[s]
  BY <1>1, FieldTypes DEF BatchInv
<1>7. PassInv(s)' /\ FirstInv(s)'
  BY <1>1, <1>3, <1>6 DEF PassInv, FirstInv
<1>8. ScanTypes'
  BY <1>4 DEF StreamInv, ScanTypes
<1>9. ASSUME NEW t \in Scans, t # s PROVE BatchInv(t)' /\ PassInv(t)' /\ FirstInv(t)'
  BY <1>4, <1>9, OthersKept DEF StreamInv, ScanTypes
<1>. QED BY <1>5, <1>7, <1>8, <1>9 DEF StreamInv

LEMMA ReScanStream ==
  ASSUME StreamInv, NEW s \in Scans, ReScan(s)
  PROVE  StreamInv'
PROOF
<1> USE DEF ReScan
<1>1. BatchInv(s)' /\ PassInv(s)' /\ FirstInv(s)'
  BY DEF StreamInv, ScanTypes, BatchInv, PassInv, FirstInv
<1>2. ScanTypes'
  BY DEF StreamInv, ScanTypes
<1>3. ASSUME NEW t \in Scans, t # s PROVE BatchInv(t)' /\ PassInv(t)' /\ FirstInv(t)'
  BY <1>3, OthersKept DEF StreamInv, ScanTypes
<1>. QED BY <1>1, <1>2, <1>3 DEF StreamInv

LEMMA ExecutorEndStream ==
  ASSUME StreamInv, NEW p \in Portals, ExecutorEnd(p)
  PROVE  StreamInv'
PROOF
<1>0. /\ phase' = [phase EXCEPT ![p] = "closed"]
      /\ scan' = [s \in Scans |-> IF PortalOf[s] = p
                                  THEN [scan[s] EXCEPT !.stream = FALSE, !.pos = 0] ELSE scan[s]]
      /\ UNCHANGED <<emitted, eof, rescans>>
  BY DEF ExecutorEnd
<1>1. scan' \in [Scans -> Fields]
  <2>1. ASSUME NEW s \in Scans PROVE scan'[s] \in Fields
    <3>1. scan[s] \in Fields
      BY DEF StreamInv, ScanTypes
    <3>2. [scan[s] EXCEPT !.stream = FALSE, !.pos = 0] \in Fields
      BY <3>1, ClearedUpdate
    <3>. QED BY <1>0, <3>1, <3>2
  <2>. QED BY <1>0, <2>1
<1>2. ScanTypes'
  BY <1>0, <1>1 DEF StreamInv, ScanTypes, Phases
<1>3. ASSUME NEW s \in Scans PROVE BatchInv(s)' /\ PassInv(s)' /\ FirstInv(s)'
  <2>1. BatchInv(s) /\ PassInv(s) /\ FirstInv(s) /\ scan[s] \in Fields /\ Rows[s] \in Nat
    BY ScanConstants DEF StreamInv, ScanTypes
  <2>2. CASE PortalOf[s] = p
    <3>1. scan'[s] = [scan[s] EXCEPT !.stream = FALSE, !.pos = 0] /\ phase'[p] = "closed"
      BY <1>0, <2>2 DEF StreamInv, ScanTypes
    <3>2. /\ scan'[s].stream = FALSE /\ scan'[s].pos = 0 /\ scan'[s].base = scan[s].base
          /\ scan'[s].size = scan[s].size /\ scan'[s].index = scan[s].index
      BY <2>1, <3>1, ClearedUpdate
    <3>3. scan'[s].index <= scan'[s].size /\ scan'[s].pos <= Rows[s]
      <4>1. scan[s].index <= scan[s].size
        BY <2>1 DEF BatchInv
      <4>2. 0 <= Rows[s]
        BY <2>1, NatIsPositive, Zenon
      <4>. QED BY <3>2, <4>1, <4>2, Zenon
    <3>5. BatchInv(s)'
      BY <1>0, <2>2, <3>1, <3>2, <3>3 DEF BatchInv
    <3>4. PassInv(s)' /\ FirstInv(s)'
      BY <1>0, <2>1, <3>2 DEF PassInv, FirstInv
    <3>. QED BY <3>5, <3>4
  <2>3. CASE PortalOf[s] # p
    <3>0. PortalOf[s] \in Portals
      BY ScanConstants
    <3>1. scan'[s] = scan[s]
      BY <1>0, <2>3
    <3>2. phase'[PortalOf[s]] = phase[PortalOf[s]]
      BY <1>0, <2>3, <3>0 DEF StreamInv, ScanTypes
    <3>. QED BY <1>0, <2>1, <3>1, <3>2 DEF BatchInv, PassInv, FirstInv
  <2>. QED BY <2>2, <2>3
<1>. QED BY <1>2, <1>3 DEF StreamInv

LEMMA NextStream == StreamInv /\ [Next]_vars => StreamInv'
PROOF
<1> SUFFICES ASSUME StreamInv, [Next]_vars PROVE StreamInv'
  OBVIOUS
<1> USE DEF Phases
<1>1. ASSUME NEW c \in Changing, ChangeRelation(c[1], c[2]) PROVE StreamInv'
  BY <1>1, StreamKept DEF ChangeRelation, StreamInv, ScanTypes
<1>2. ASSUME NEW new \in Paths, SetSearchPath(new) PROVE StreamInv'
  BY <1>2, StreamKept DEF SetSearchPath, StreamInv, ScanTypes
<1>3. ASSUME NEW p \in Portals, ExecutorStart(p) \/ Suspend(p) PROVE StreamInv'
  BY <1>3, StreamKept DEF ExecutorStart, Suspend, StreamInv, ScanTypes
<1>4. ASSUME NEW p \in Portals, ExecutorRun(p) PROVE StreamInv'
  BY <1>4, StreamKept
     DEF ExecutorRun, Served, ServedPartly, LeftToPostgres, StreamInv, ScanTypes
<1>5. ASSUME NEW p \in Portals, ExecutorEnd(p) PROVE StreamInv'
  BY <1>5, ExecutorEndStream
<1>6. ASSUME NEW s \in Scans, IterScan(s) PROVE StreamInv'
  <2>1. ASSUME ScanFails(s) PROVE StreamInv'
    BY <2>1, StreamKept DEF ScanFails, Wanted, StreamInv, ScanTypes
  <2>. QED BY <1>6, <2>1, BufferedRowStream, FetchedRowStream, ScanEndStream DEF IterScan
<1>7. ASSUME NEW s \in Scans, ReScan(s) PROVE StreamInv'
  BY <1>7, ReScanStream
<1>8. ASSUME UNCHANGED vars PROVE StreamInv'
  BY <1>8, StreamKept DEF vars, Streams, StreamInv, ScanTypes
<1>. QED BY <1>1, <1>2, <1>3, <1>4, <1>5, <1>6, <1>7, <1>8 DEF Next

LEMMA StreamsInvariant == Spec => []StreamInv
PROOF
BY InitStream, NextStream, PTL DEF Spec

\* A scan that is run again - a wrapper has no re_scan, and iter_scan_impl goes on
\* from wherever its batch is - returns the rest of its rows in order, down to
\* the last one.
THEOREM PassesAlwaysTails == Spec => []PassesAreTails
PROOF
<1>1. StreamInv => PassesAreTails
  BY DEF StreamInv, PassInv, PassesAreTails
<1>. QED BY <1>1, StreamsInvariant, PTL

-----------------------------------------------------------------------------
(* The refinement.                                                          *)

\* A row returned by a scan that is run once is the next row of its stream.
LEMMA RowIsGiven ==
  ASSUME StreamInv, NEW s \in Once, ~eof[s],
         scan[s].base + scan[s].index < Rows[s],
         emitted' = [emitted EXCEPT ![s] = Append(@, <<s, scan[s].base + scan[s].index + 1>>)],
         UNCHANGED eof
  PROVE  Private!Give(s)
PROOF
<1>1. s \in Scans /\ s \notin rescans
  BY DEF Once, StreamInv, ScanTypes
<1>2. Len(emitted[s]) = scan[s].base + scan[s].index
  BY <1>1 DEF StreamInv, FirstInv
<1> DEFINE e == [t \in Once |-> emitted[t]]
<1>3. e[s] = emitted[s]
  OBVIOUS
<1>4. [t \in Once |-> emitted'[t]] = [e EXCEPT ![s] = Append(@, <<s, Len(e[s]) + 1>>)]
  <2>1. emitted'[s] = Append(emitted[s], <<s, Len(emitted[s]) + 1>>)
    BY <1>1, <1>2 DEF StreamInv, ScanTypes
  <2>2. \A t \in Once \ {s} : emitted'[t] = emitted[t]
    BY <1>1 DEF StreamInv, ScanTypes, Once
  <2>. QED BY <2>1, <2>2
<1>5. Len(e[s]) < Rows[s] /\ ~[t \in Once |-> eof[t]][s]
  BY <1>2, <1>3
<1>. QED BY <1>4, <1>5 DEF Private!Give

\* Steps that return nothing to the scans that are run once.
LEMMA NothingGiven ==
  ASSUME \A t \in Once : emitted'[t] = emitted[t] /\ eof'[t] = eof[t]
  PROVE  UNCHANGED Private!streamVars
BY DEF Private!streamVars

LEMMA BufferedRowGives ==
  ASSUME StreamInv, NEW s \in Scans, BufferedRow(s)
  PROVE  [Private!Next]_(Private!streamVars)
PROOF
<1>1. /\ phase[PortalOf[s]] = "running" /\ ~eof[s] /\ ~(scan[s].index >= scan[s].size)
      /\ emitted' = [emitted EXCEPT ![s] = Append(@, <<s, scan[s].base + scan[s].index + 1>>)]
      /\ UNCHANGED eof
  BY DEF BufferedRow, Wanted, BatchUsedUp
<1>2. CASE s \in Once
  <2>1. scan[s] \in Fields /\ BatchInv(s) /\ Rows[s] \in Nat
    BY ScanConstants DEF StreamInv, ScanTypes
  <2>2. scan[s].pos = scan[s].base + scan[s].size /\ scan[s].pos <= Rows[s]
    BY <1>1, <2>1 DEF BatchInv
  <2>3. scan[s].base + scan[s].index < Rows[s]
    BY <1>1, <2>1, <2>2, FieldTypes
  <2>4. Private!Give(s)
    BY <1>1, <1>2, <2>3, RowIsGiven
  <2>. QED BY <1>2, <2>4 DEF Private!Next
<1>3. CASE s \notin Once
  <2>1. \A t \in Once : emitted'[t] = emitted[t] /\ eof'[t] = eof[t]
    BY <1>1, <1>3 DEF StreamInv, ScanTypes, Once
  <2>. QED BY <2>1, NothingGiven
<1>. QED BY <1>2, <1>3

LEMMA FetchedRowGives ==
  ASSUME StreamInv, NEW s \in Scans, FetchedRow(s)
  PROVE  [Private!Next]_(Private!streamVars)
PROOF
<1>1. PICK n \in 1..BatchSize :
        /\ scan[s].pos + n <= Rows[s]
        /\ emitted' = [emitted EXCEPT ![s] = Append(@, <<s, scan[s].pos + 1>>)]
  BY DEF FetchedRow
<1>2. phase[PortalOf[s]] = "running" /\ ~eof[s] /\ scan[s].index >= scan[s].size /\ UNCHANGED eof
  BY DEF FetchedRow, Wanted, BatchUsedUp
<1>3. CASE s \in Once
  <2>1. scan[s] \in Fields /\ BatchInv(s) /\ Rows[s] \in Nat
    BY ScanConstants DEF StreamInv, ScanTypes
  <2>2. scan[s].pos = scan[s].base + scan[s].index
    BY <1>2, <2>1, FieldTypes DEF BatchInv
  <2>3. scan[s].base + scan[s].index < Rows[s]
    BY <1>1, <2>1, <2>2, FieldTypes
  <2>4. Private!Give(s)
    BY <1>1, <1>2, <1>3, <2>2, <2>3, RowIsGiven
  <2>. QED BY <1>3, <2>4 DEF Private!Next
<1>4. CASE s \notin Once
  <2>1. \A t \in Once : emitted'[t] = emitted[t] /\ eof'[t] = eof[t]
    BY <1>1, <1>2, <1>4 DEF StreamInv, ScanTypes, Once
  <2>. QED BY <2>1, NothingGiven
<1>. QED BY <1>3, <1>4

LEMMA ScanEndFinishes ==
  ASSUME StreamInv, NEW s \in Scans, ScanEnd(s)
  PROVE  [Private!Next]_(Private!streamVars)
PROOF
<1>1. /\ phase[PortalOf[s]] = "running" /\ ~eof[s] /\ scan[s].index >= scan[s].size
      /\ scan[s].pos = Rows[s] /\ eof' = [eof EXCEPT ![s] = TRUE] /\ UNCHANGED emitted
  BY DEF ScanEnd, Wanted, BatchUsedUp
<1>2. CASE s \in Once
  <2>1. scan[s] \in Fields /\ BatchInv(s) /\ FirstInv(s) /\ s \notin rescans
    BY <1>2 DEF StreamInv, ScanTypes, Once
  <2>2. scan[s].base + scan[s].index = Rows[s]
    BY <1>1, <2>1, FieldTypes DEF BatchInv
  <2>3. Len(emitted[s]) = Rows[s]
    BY <1>1, <2>1, <2>2 DEF FirstInv
  <2>4. [t \in Once |-> eof'[t]] = [[t \in Once |-> eof[t]] EXCEPT ![s] = TRUE]
    BY <1>1, <1>2 DEF StreamInv, ScanTypes, Once
  <2>5. Private!Finish(s)
    BY <1>1, <1>2, <2>3, <2>4 DEF Private!Finish
  <2>. QED BY <1>2, <2>5 DEF Private!Next
<1>3. CASE s \notin Once
  <2>1. \A t \in Once : emitted'[t] = emitted[t] /\ eof'[t] = eof[t]
    BY <1>1, <1>3 DEF StreamInv, ScanTypes, Once
  <2>. QED BY <2>1, NothingGiven
<1>. QED BY <1>2, <1>3

LEMMA NextIsPrivate ==
  StreamInv /\ [Next]_vars => [Private!Next]_(Private!streamVars)
PROOF
<1> SUFFICES ASSUME StreamInv, [Next]_vars PROVE [Private!Next]_(Private!streamVars)
  OBVIOUS
<1>1. ASSUME UNCHANGED <<emitted, eof>> PROVE UNCHANGED Private!streamVars
  BY <1>1, NothingGiven
<1>2. ASSUME NEW c \in Changing, ChangeRelation(c[1], c[2]) PROVE UNCHANGED <<emitted, eof>>
  BY <1>2 DEF ChangeRelation, Streams
<1>3. ASSUME NEW new \in Paths, SetSearchPath(new) PROVE UNCHANGED <<emitted, eof>>
  BY <1>3 DEF SetSearchPath, Streams
<1>4. ASSUME NEW p \in Portals,
             ExecutorStart(p) \/ ExecutorRun(p) \/ Suspend(p) \/ ExecutorEnd(p)
      PROVE  UNCHANGED <<emitted, eof>>
  BY <1>4 DEF ExecutorStart, ExecutorRun, Suspend, ExecutorEnd, Streams
<1>5. ASSUME NEW s \in Scans, ScanFails(s) PROVE UNCHANGED <<emitted, eof>>
  BY <1>5 DEF ScanFails, Streams
<1>6. ASSUME NEW s \in Scans, ReScan(s) PROVE UNCHANGED Private!streamVars
  <2>1. s \notin Once
    BY <1>6 DEF ReScan, Once
  <2>2. \A t \in Once : emitted'[t] = emitted[t] /\ eof'[t] = eof[t]
    BY <1>6, <2>1 DEF ReScan, StreamInv, ScanTypes, Once
  <2>. QED BY <2>2, NothingGiven
<1>7. ASSUME UNCHANGED vars PROVE UNCHANGED <<emitted, eof>>
  BY <1>7 DEF vars
<1>8. ASSUME NEW s \in Scans, IterScan(s) PROVE [Private!Next]_(Private!streamVars)
  BY <1>1, <1>5, <1>8, BufferedRowGives, FetchedRowGives, ScanEndFinishes DEF IterScan
<1>. QED BY <1>1, <1>2, <1>3, <1>4, <1>6, <1>7, <1>8 DEF Next

\* Each scan that is run once has a stream of its own, whatever other scans,
\* cursors and queries do meanwhile: iter_scan_impl keeps stream, batch and index
\* in the wrapper and end_scan_impl clears the wrapper it is called on.
THEOREM ScansAlwaysPrivate == Spec => ScansArePrivate
PROOF
<1>1. Init => Private!Init
  BY DEF Init, Private!Init, Once
<1>. QED BY <1>1, StreamsInvariant, NextIsPrivate, PTL DEF Spec, ScansArePrivate, Private!Spec

-----------------------------------------------------------------------------
(* Names.                                                                   *)

LEMMA SmallestIndex ==
  ASSUME NEW T, T \subseteq Nat, T # {}
  PROVE  \E i \in T : \A j \in T : ~(j < i)
PROOF
<1>1. PICK i \in T : \A j \in T : <<j, i>> \notin OpToRel(<, Nat)
  BY NatLessThanWellFounded, WFMin
<1>2. \A j \in T : ~(j < i)
  BY <1>1 DEF OpToRel
<1>. QED BY <1>2

\* The place of a search path at which a name is found.
FirstAt(S, i) == i \in DOMAIN path /\ path[i] \in S /\ \A j \in 1..(i - 1) : path[j] \notin S

LEMMA FirstIsThere ==
  ASSUME path \in Seq(Schemas), NEW S, OnPath(S)
  PROVE  \E i \in DOMAIN path : FirstAt(S, i) /\ First(S) = path[i]
PROOF
<1> DEFINE T == {i \in DOMAIN path : path[i] \in S}
<1>1. DOMAIN path = 1..Len(path) /\ Len(path) \in Nat
  OBVIOUS
<1>2. PICK i \in T : \A j \in T : ~(j < i)
  <2>1. T \subseteq Nat
    BY <1>1
  <2>2. T # {}
    BY DEF OnPath
  <2> HIDE DEF T
  <2>. QED BY <2>1, <2>2, SmallestIndex
<1>3. i \in DOMAIN path /\ path[i] \in S
  OBVIOUS
<1>4. \A j \in 1..(i - 1) : path[j] \notin S
  BY <1>1, <1>2, <1>3
<1>. QED BY <1>3, <1>4, Zenon DEF First, FirstAt

\* There is one such place.
LEMMA FirstIsOne ==
  ASSUME path \in Seq(Schemas), NEW S, NEW i, NEW j, FirstAt(S, i), FirstAt(S, j)
  PROVE  i = j
PROOF
<1>1. i \in 1..Len(path) /\ j \in 1..Len(path) /\ Len(path) \in Nat
  BY DEF FirstAt
<1>2. ~(i < j) /\ ~(j < i)
  BY <1>1 DEF FirstAt
<1>. QED BY <1>1, <1>2

\* If the first relation on the path is ours, then our first relation is that one.
LEMMA SameFirst ==
  ASSUME path \in Seq(Schemas), OnPath(Present), First(Present) \in TableExists
  PROVE  First(TableExists) = First(Present)
PROOF
<1>1. TableExists \subseteq Present
  BY DEF TableExists, Present
<1>2. PICK i \in DOMAIN path : FirstAt(Present, i) /\ First(Present) = path[i]
  BY FirstIsThere
<1>3. FirstAt(TableExists, i)
  BY <1>1, <1>2 DEF FirstAt
<1>4. PICK j \in DOMAIN path : FirstAt(TableExists, j) /\ First(TableExists) = path[j]
  BY <1>3, FirstIsThere DEF OnPath, FirstAt
<1>. QED BY <1>2, <1>3, <1>4, FirstIsOne

-----------------------------------------------------------------------------
(* Answers.                                                                 *)

BindTypes ==
  /\ kind \in [Schemas -> Kinds] /\ path \in Paths
  /\ phase \in [Portals -> Phases]
  /\ runs \in [Portals -> Nat]
  /\ bound = [p \in Portals |-> bound[p]]
  /\ astray \in [Portals -> BOOLEAN]
  /\ out = [p \in Portals |-> out[p]]

\* What Postgres planned with is what it would plan with now.
BoundInv(p) ==
  /\ phase[p] # "idle" => \A r \in Refs[p] : bound[p][r] \in Schemas
  /\ Active(p) /\ ~astray[p] =>
       /\ bound[p] = [r \in Refs[p] |-> PgRelation(r)]
       /\ \A r \in Refs[p] : PgFinds(r) /\ kind[PgRelation(r)] # "other"

\* A query that DataFusion answered has not run, and one that ran is over for it.
AnswerInv(p) ==
  /\ runs[p] = 0 =>
       phase[p] \in {"idle", "open"} /\ out[p] = <<>> /\ \A s \in ScansOf(p) : emitted[s] = <<>>
  /\ phase[p] = "idle" => runs[p] = 0
  /\ p \notin Cursors => runs[p] <= 1
  /\ ~astray[p] => out[p] \in Seq({bound[p]} \X Nat)
  /\ p \notin Cursors /\ out[p] # <<>> =>
       phase[p] # "running" /\ \A s \in ScansOf(p) : emitted[s] = <<>>
  /\ p \notin Cursors /\ out[p] # <<>> /\ ~astray[p] =>
       /\ \A i \in DOMAIN out[p] : out[p][i][2] = i
       /\ Len(out[p]) <= Answer[p]
       /\ phase[p] # "failed" => Len(out[p]) = Answer[p]

PortalInv == BindTypes /\ \A p \in Portals : BoundInv(p) /\ AnswerInv(p)

LEMMA NameConstants ==
  /\ Paths \subseteq Seq(Schemas) /\ Unqualified \notin Schemas
  /\ \A p \in Portals : Refs[p] \subseteq Schemas \cup {Unqualified} /\ Answer[p] \in Nat
  /\ \A s \in Scans : PortalOf[s] \in Portals
BY ScanAssumption

LEMMA FoundIsPresent ==
  ASSUME path \in Seq(Schemas), NEW r, PgFinds(r)
  PROVE  PgRelation(r) \in Present
PROOF
<1>1. CASE r = Unqualified
  <2>1. PICK i \in DOMAIN path : FirstAt(Present, i) /\ First(Present) = path[i]
    BY <1>1, FirstIsThere DEF PgFinds
  <2>. QED BY <1>1, <2>1 DEF FirstAt, PgRelation
<1>2. CASE r # Unqualified
  BY <1>2 DEF PgFinds, PgRelation
<1>. QED BY <1>1, <1>2

\* get_table_source finds the relation that Postgres found, if it is ours and
\* nothing has moved.
LEMMA SameSource ==
  ASSUME BindTypes, NEW p \in Portals, BoundInv(p), Active(p), ~astray[p], QueryType(p)
  PROVE  [r \in Refs[p] |-> TableSource(r)] = bound[p]
PROOF
<1>1. path \in Seq(Schemas) /\ kind \in [Schemas -> Kinds]
  BY NameConstants DEF BindTypes
<1>2. bound[p] = [r \in Refs[p] |-> PgRelation(r)]
  BY DEF BoundInv
<1>3. ASSUME NEW r \in Refs[p] PROVE TableSource(r) = PgRelation(r)
  <2>1. PgFinds(r) /\ kind[PgRelation(r)] # "other"
    BY DEF BoundInv
  <2>2. kind[PgRelation(r)] # "heap"
    BY <1>2 DEF QueryType, Kind
  <2>3. PgRelation(r) \in Present
    BY <1>1, <2>1, FoundIsPresent
  <2>4. PgRelation(r) \in TableExists
    BY <1>1, <2>1, <2>2, <2>3 DEF Present, TableExists, Kinds
  <2>5. CASE r = Unqualified
    BY <1>1, <2>1, <2>4, <2>5, SameFirst DEF PgFinds, PgRelation, TableSource
  <2>6. CASE r # Unqualified
    BY <2>6 DEF PgRelation, TableSource
  <2>. QED BY <2>5, <2>6
<1>. QED BY <1>2, <1>3

LEMMA AnswerWritten ==
  ASSUME NEW f, NEW n \in Nat
  PROVE  /\ AnswerFrom(f, n) \in Seq({f} \X Nat)
         /\ Len(AnswerFrom(f, n)) = n
         /\ \A i \in 1..n : AnswerFrom(f, n)[i] = <<f, i>>
PROOF
<1>1. AnswerFrom(f, n) \in [1..n -> {f} \X Nat]
  BY DEF AnswerFrom
<1>2. AnswerFrom(f, n) \in Seq({f} \X Nat)
  BY <1>1, SeqDef
<1>3. Len(AnswerFrom(f, n)) = n
  BY <1>1, <1>2, LenProperties
<1>4. \A i \in 1..n : AnswerFrom(f, n)[i] = <<f, i>>
  BY DEF AnswerFrom
<1>. QED BY <1>2, <1>3, <1>4

\* A portal that does not take part.
LEMMA PortalKept ==
  ASSUME NEW q \in Portals, BoundInv(q), AnswerInv(q), UNCHANGED <<kind, path>>,
         phase'[q] = phase[q], runs'[q] = runs[q], bound'[q] = bound[q],
         astray'[q] = astray[q], out'[q] = out[q],
         \A s \in ScansOf(q) : emitted'[s] = emitted[s]
  PROVE  BoundInv(q)' /\ AnswerInv(q)'
PROOF
<1>1. BoundInv(q)'
  BY DEF BoundInv, Active, PgFinds, PgRelation, OnPath, First, Present
<1>2. AnswerInv(q)'
  BY DEF AnswerInv, ScansOf
<1>. QED BY <1>1, <1>2

LEMMA InitPortal == Init => PortalInv
PROOF
<1> SUFFICES ASSUME Init PROVE PortalInv
  OBVIOUS
<1>1. kind \in [Schemas -> Kinds]
  BY ScanAssumption DEF Init
<1>2. BindTypes
  BY <1>1 DEF Init, BindTypes, Phases
<1>3. ASSUME NEW p \in Portals PROVE BoundInv(p)
  BY DEF Init, BoundInv, Active
<1>4. ASSUME NEW p \in Portals PROVE AnswerInv(p)
  <2>1. runs[p] = 0 /\ phase[p] = "idle" /\ out[p] = <<>>
    BY DEF Init
  <2>2. \A s \in ScansOf(p) : emitted[s] = <<>>
    BY DEF Init, ScansOf
  <2>. QED BY <2>1, <2>2 DEF AnswerInv
<1>. QED BY <1>2, <1>3, <1>4 DEF PortalInv

\* DDL and SET: what is bound from now on does not count.
LEMMA MovedPortal ==
  ASSUME PortalInv, kind' \in [Schemas -> Kinds], path' \in Paths, astray' = Moved,
         UNCHANGED <<phase, runs, bound, out, emitted>>
  PROVE  PortalInv'
PROOF
<1>1. \A p \in Portals : astray'[p] = (astray[p] \/ Active(p))
  BY DEF Moved
<1>2. astray' \in [Portals -> BOOLEAN]
  BY DEF Moved, PortalInv, BindTypes, Active
<1>3. BindTypes'
  BY <1>2 DEF PortalInv, BindTypes
<1>4. ASSUME NEW p \in Portals PROVE BoundInv(p)'
  BY <1>1 DEF PortalInv, BoundInv, Active
<1>5. ASSUME NEW p \in Portals PROVE AnswerInv(p)'
  BY <1>1 DEF PortalInv, AnswerInv, ScansOf
<1>. QED BY <1>3, <1>4, <1>5 DEF PortalInv

LEMMA ExecutorStartPortal ==
  ASSUME PortalInv, NEW p \in Portals, ExecutorStart(p)
  PROVE  PortalInv'
PROOF
<1>1. /\ phase[p] = "idle" /\ \A r \in Refs[p] : PgFinds(r)
      /\ phase' = [phase EXCEPT ![p] = "open"]
      /\ bound' = [bound EXCEPT ![p] = [r \in Refs[p] |-> PgRelation(r)]]
      /\ astray' = [astray EXCEPT ![p] = \E r \in Refs[p] : kind[PgRelation(r)] = "other"]
      /\ UNCHANGED <<kind, path, runs, out, emitted>>
  BY DEF ExecutorStart, Streams
<1>2. BindTypes'
  BY <1>1 DEF PortalInv, BindTypes, Phases
<1>3. /\ phase'[p] = "open" /\ bound'[p] = [r \in Refs[p] |-> PgRelation(r)]
      /\ astray'[p] = (\E r \in Refs[p] : kind[PgRelation(r)] = "other")
  BY <1>1 DEF PortalInv, BindTypes
<1>4. path \in Seq(Schemas) /\ BoundInv(p) /\ AnswerInv(p)
  BY NameConstants DEF PortalInv, BindTypes
<1>5. \A r \in Refs[p] : PgRelation(r) \in Schemas
  BY <1>1, <1>4, FoundIsPresent DEF Present
<1>6. \A r : PgRelation(r)' = PgRelation(r) /\ PgFinds(r)' = PgFinds(r)
  BY <1>1 DEF PgRelation, PgFinds, First, OnPath, Present
<1>7. BoundInv(p)'
  BY <1>1, <1>3, <1>5, <1>6 DEF BoundInv
<1>8. out'[p] = <<>> /\ runs'[p] = 0 /\ \A s \in ScansOf(p) : emitted'[s] = <<>>
  BY <1>1, <1>4 DEF AnswerInv
<1>9. AnswerInv(p)'
  BY <1>3, <1>8 DEF AnswerInv, ScansOf
<1>10. ASSUME NEW q \in Portals, q # p PROVE BoundInv(q)' /\ AnswerInv(q)'
  BY <1>1, <1>10, PortalKept DEF PortalInv, BindTypes
<1>. QED BY <1>2, <1>7, <1>9, <1>10 DEF PortalInv

\* The text is answered, in full or until a cell cannot be converted.
LEMMA ServedPortal ==
  ASSUME PortalInv, NEW p \in Portals, NEW n \in 0..Answer[p],
         phase[p] = "open", runs[p] < IF p \in Cursors THEN MaxRuns ELSE 1, QueryType(p),
         runs' = [runs EXCEPT ![p] = @ + 1],
         out' = [out EXCEPT ![p] = @ \o AnswerFrom([r \in Refs[p] |-> TableSource(r)], n)],
         phase'[p] = "failed" \/ (phase'[p] = "open" /\ n = Answer[p]),
         UNCHANGED <<kind, path, bound, astray, emitted>>
  PROVE  BoundInv(p)' /\ AnswerInv(p)'
PROOF
<1>1. BindTypes /\ BoundInv(p) /\ AnswerInv(p) /\ runs[p] \in Nat /\ n \in Nat /\ Answer[p] \in Nat
  BY NameConstants DEF PortalInv, BindTypes
<1> DEFINE a == AnswerFrom([r \in Refs[p] |-> TableSource(r)], n)
<1>2. out'[p] = out[p] \o a /\ runs'[p] = runs[p] + 1
  BY <1>1 DEF BindTypes
<1>3. ~astray[p] => /\ a \in Seq({bound[p]} \X Nat) /\ Len(a) = n
                    /\ \A i \in 1..n : a[i] = <<bound[p], i>>
  <2> SUFFICES ASSUME ~astray[p]
               PROVE  /\ a \in Seq({bound[p]} \X Nat) /\ Len(a) = n
                      /\ \A i \in 1..n : a[i] = <<bound[p], i>>
    OBVIOUS
  <2>1. [r \in Refs[p] |-> TableSource(r)] = bound[p]
    BY <1>1, SameSource DEF Active
  <2>2. a = AnswerFrom(bound[p], n)
    BY <2>1, Zenon
  <2>3. n \in Nat
    BY <1>1, Zenon
  <2>4. /\ AnswerFrom(bound[p], n) \in Seq({bound[p]} \X Nat)
        /\ Len(AnswerFrom(bound[p], n)) = n
        /\ \A i \in 1..n : AnswerFrom(bound[p], n)[i] = <<bound[p], i>>
    BY <2>3, AnswerWritten, Zenon
  <2>. QED BY <2>2, <2>4, Zenon
<1> HIDE DEF a
<1>4. BoundInv(p)'
  BY <1>1 DEF BoundInv, Active, PgFinds, PgRelation, OnPath, First, Present
<1>5. runs'[p] # 0 /\ phase'[p] # "idle" /\ phase'[p] # "running"
  BY <1>1, <1>2
<1>6. ~astray'[p] => out'[p] \in Seq({bound'[p]} \X Nat)
  <2> SUFFICES ASSUME ~astray[p] PROVE out[p] \o a \in Seq({bound[p]} \X Nat)
    BY <1>2
  <2>1. out[p] \in Seq({bound[p]} \X Nat)
    BY <1>1 DEF AnswerInv
  <2>. QED BY <1>3, <2>1, ConcatProperties
<1>7. CASE p \in Cursors
  BY <1>4, <1>5, <1>6, <1>7 DEF AnswerInv
<1>8. CASE p \notin Cursors
  <2>1. runs[p] = 0 /\ runs'[p] = 1
    BY <1>1, <1>2, <1>8
  <2>2. out[p] = <<>> /\ \A s \in ScansOf(p) : emitted[s] = <<>>
    BY <1>1, <2>1 DEF AnswerInv
  <2>3. ~astray[p] => out'[p] = a
    BY <1>2, <1>3, <2>2, ConcatEmptySeq
  <2>4. ~astray[p] => /\ \A i \in DOMAIN out'[p] : out'[p][i][2] = i
                      /\ Len(out'[p]) = n
    <3> SUFFICES ASSUME ~astray[p]
                 PROVE  /\ \A i \in DOMAIN a : a[i][2] = i
                        /\ Len(a) = n
      BY <2>3
    <3>1. DOMAIN a = 1..n /\ Len(a) = n
      BY <1>3, LenProperties
    <3>2. \A i \in 1..n : a[i] = <<bound[p], i>>
      BY <1>3
    <3>. QED BY <3>1, <3>2
  <2>5. n <= Answer[p]
    BY <1>1
  <2>6. AnswerInv(p)'
    BY <1>5, <1>6, <2>1, <2>2, <2>4, <2>5 DEF AnswerInv, ScansOf
  <2>. QED BY <1>4, <2>6
<1>. QED BY <1>4, <1>7, <1>8

LEMMA ExecutorRunPortal ==
  ASSUME PortalInv, NEW p \in Portals, ExecutorRun(p)
  PROVE  PortalInv'
PROOF
<1>1. /\ phase[p] = "open" /\ runs[p] < IF p \in Cursors THEN MaxRuns ELSE 1
      /\ runs' = [runs EXCEPT ![p] = @ + 1]
      /\ UNCHANGED <<kind, path, bound, astray, emitted>>
  BY DEF ExecutorRun, Streams
<1>2. /\ \A q \in Portals \ {p} : phase'[q] = phase[q] /\ out'[q] = out[q]
      /\ phase' \in [Portals -> Phases] /\ out' = [q \in Portals |-> out'[q]]
      /\ BoundInv(p)' /\ AnswerInv(p)'
  <2>1. BindTypes /\ BoundInv(p) /\ AnswerInv(p) /\ Answer[p] \in Nat /\ runs[p] \in Nat
    BY NameConstants DEF PortalInv, BindTypes
  <2>2. CASE QueryType(p) /\ Served(p)
    <3>1. Answer[p] \in 0..Answer[p]
      BY <2>1
    <3>2. BoundInv(p)' /\ AnswerInv(p)'
      BY <1>1, <2>2, <3>1, ServedPortal DEF Served
    <3>. QED BY <2>1, <2>2, <3>2 DEF Served, BindTypes
  <2>3. CASE QueryType(p) /\ ServedPartly(p)
    <3>1. PICK n \in 0..Answer[p] :
            out' = [out EXCEPT ![p] = @ \o AnswerFrom([r \in Refs[p] |-> TableSource(r)], n)]
      BY <2>3 DEF ServedPartly
    <3>2. phase' = [phase EXCEPT ![p] = "failed"]
      BY <2>3 DEF ServedPartly
    <3>3. phase'[p] = "failed"
      BY <2>1, <3>2 DEF BindTypes
    <3>4. BoundInv(p)' /\ AnswerInv(p)'
      BY <1>1, <2>3, <3>1, <3>3, ServedPortal
    <3>. QED BY <2>1, <3>1, <3>2, <3>4 DEF BindTypes, Phases
  <2>4. CASE LeftToPostgres(p)
    <3>1. phase'[p] = "running" /\ out' = out /\ runs'[p] = runs[p] + 1
      BY <1>1, <2>1, <2>4 DEF LeftToPostgres, BindTypes
    <3>2. BoundInv(p)'
      BY <1>1, <2>1, <3>1 DEF BoundInv, Active, PgFinds, PgRelation, OnPath, First, Present
    <3>3. p \notin Cursors => out[p] = <<>> /\ runs[p] = 0
      BY <1>1, <2>1 DEF AnswerInv
    <3>4. AnswerInv(p)'
      BY <1>1, <2>1, <3>1, <3>3 DEF AnswerInv, ScansOf
    <3>. QED BY <2>1, <2>4, <3>2, <3>4 DEF LeftToPostgres, BindTypes, Phases
  <2>. QED BY <2>2, <2>3, <2>4 DEF ExecutorRun
<1>3. BindTypes'
  <2>1. runs' \in [Portals -> Nat]
    BY <1>1 DEF PortalInv, BindTypes
  <2>. QED BY <1>1, <1>2, <2>1 DEF PortalInv, BindTypes
<1>4. ASSUME NEW q \in Portals, q # p PROVE BoundInv(q)' /\ AnswerInv(q)'
  <2>1. runs'[q] = runs[q]
    BY <1>1, <1>4 DEF PortalInv, BindTypes
  <2>. QED BY <1>1, <1>2, <1>4, <2>1, PortalKept DEF PortalInv
<1>. QED BY <1>2, <1>3, <1>4 DEF PortalInv

LEMMA SuspendPortal ==
  ASSUME PortalInv, NEW p \in Portals, Suspend(p)
  PROVE  PortalInv'
PROOF
<1>1. /\ p \in Cursors /\ phase[p] = "running" /\ phase' = [phase EXCEPT ![p] = "open"]
      /\ UNCHANGED <<kind, path, runs, bound, astray, out, emitted>>
  BY DEF Suspend, Answers, Streams
<1>2. BindTypes' /\ phase'[p] = "open"
  BY <1>1 DEF PortalInv, BindTypes, Phases
<1>3. BoundInv(p)'
  BY <1>1, <1>2 DEF PortalInv, BoundInv, Active, PgFinds, PgRelation, OnPath, First, Present
<1>4. AnswerInv(p)'
  BY <1>1, <1>2 DEF PortalInv, AnswerInv, ScansOf
<1>5. ASSUME NEW q \in Portals, q # p PROVE BoundInv(q)' /\ AnswerInv(q)'
  BY <1>1, <1>5, PortalKept DEF PortalInv, BindTypes
<1>. QED BY <1>2, <1>3, <1>4, <1>5 DEF PortalInv

LEMMA ExecutorEndPortal ==
  ASSUME PortalInv, NEW p \in Portals, ExecutorEnd(p)
  PROVE  PortalInv'
PROOF
<1>1. /\ Active(p) /\ runs[p] > 0 /\ phase' = [phase EXCEPT ![p] = "closed"]
      /\ UNCHANGED <<kind, path, runs, bound, astray, out, emitted>>
  BY DEF ExecutorEnd, Answers
<1>2. BindTypes' /\ phase'[p] = "closed"
  BY <1>1 DEF PortalInv, BindTypes, Phases
<1>3. BoundInv(p)'
  BY <1>1, <1>2 DEF PortalInv, BoundInv, Active
<1>4. AnswerInv(p)'
  <2>1. AnswerInv(p) /\ runs[p] # 0 /\ phase[p] \in {"open", "running"}
    BY <1>1 DEF PortalInv, Active
  <2>. QED BY <1>1, <1>2, <2>1 DEF AnswerInv, ScansOf
<1>5. ASSUME NEW q \in Portals, q # p PROVE BoundInv(q)' /\ AnswerInv(q)'
  BY <1>1, <1>5, PortalKept DEF PortalInv, BindTypes
<1>. QED BY <1>2, <1>3, <1>4, <1>5 DEF PortalInv

\* A scan of a running query moves, or its query fails.
LEMMA ScanPortal ==
  ASSUME PortalInv, NEW s \in Scans, phase[PortalOf[s]] = "running",
         phase' = phase \/ phase' = [phase EXCEPT ![PortalOf[s]] = "failed"],
         \A t \in Scans \ {s} : emitted'[t] = emitted[t],
         UNCHANGED <<kind, path, runs, bound, astray, out>>
  PROVE  PortalInv'
PROOF
<1> DEFINE p == PortalOf[s]
<1>1. p \in Portals /\ BindTypes /\ BoundInv(p) /\ AnswerInv(p)
  BY NameConstants DEF PortalInv
<1>2. BindTypes' /\ phase'[p] \in {"running", "failed"}
  BY <1>1 DEF BindTypes, Phases
<1>3. BoundInv(p)'
  BY <1>1, <1>2 DEF BoundInv, Active, PgFinds, PgRelation, OnPath, First, Present
<1>4. AnswerInv(p)'
  BY <1>1, <1>2 DEF AnswerInv, ScansOf
<1>5. ASSUME NEW q \in Portals, q # p PROVE BoundInv(q)' /\ AnswerInv(q)'
  <2>1. phase'[q] = phase[q]
    BY <1>1, <1>5 DEF BindTypes
  <2>2. \A t \in ScansOf(q) : emitted'[t] = emitted[t]
    BY <1>5 DEF ScansOf
  <2>. QED BY <2>1, <2>2, PortalKept DEF PortalInv
<1>. QED BY <1>2, <1>3, <1>4, <1>5 DEF PortalInv

LEMMA NextPortal == ScanTypes /\ PortalInv /\ [Next]_vars => PortalInv'
PROOF
<1> SUFFICES ASSUME ScanTypes, PortalInv, [Next]_vars PROVE PortalInv'
  OBVIOUS
<1>1. ASSUME NEW c \in Changing, ChangeRelation(c[1], c[2]) PROVE PortalInv'
  <2>1. c[2] \in Kinds
    BY ScanAssumption
  <2>2. kind' \in [Schemas -> Kinds] /\ path' \in Paths
    BY <1>1, <2>1 DEF ChangeRelation, PortalInv, BindTypes
  <2>. QED BY <1>1, <2>2, MovedPortal DEF ChangeRelation, Streams
<1>2. ASSUME NEW new \in Paths, SetSearchPath(new) PROVE PortalInv'
  BY <1>2, MovedPortal DEF SetSearchPath, Streams, PortalInv, BindTypes
<1>3. ASSUME NEW p \in Portals,
             ExecutorStart(p) \/ ExecutorRun(p) \/ Suspend(p) \/ ExecutorEnd(p)
      PROVE  PortalInv'
  BY <1>3, ExecutorStartPortal, ExecutorRunPortal, SuspendPortal, ExecutorEndPortal
<1>4. ASSUME NEW s \in Scans, IterScan(s) PROVE PortalInv'
  <2>1. phase[PortalOf[s]] = "running"
    BY <1>4 DEF IterScan, BufferedRow, FetchedRow, ScanEnd, ScanFails, Wanted
  <2>2. phase' = phase \/ phase' = [phase EXCEPT ![PortalOf[s]] = "failed"]
    BY <1>4 DEF IterScan, BufferedRow, FetchedRow, ScanEnd, ScanFails
  <2>3. \A t \in Scans \ {s} : emitted'[t] = emitted[t]
    BY <1>4 DEF IterScan, BufferedRow, FetchedRow, ScanEnd, ScanFails, Streams, ScanTypes
  <2>4. UNCHANGED <<kind, path, runs, bound, astray, out>>
    BY <1>4 DEF IterScan, BufferedRow, FetchedRow, ScanEnd, ScanFails, Answers
  <2>. QED BY <2>1, <2>2, <2>3, <2>4, ScanPortal
<1>5. ASSUME NEW s \in Scans, ReScan(s) PROVE PortalInv'
  BY <1>5, ScanPortal DEF ReScan, Answers, ScanTypes
<1>6. ASSUME UNCHANGED vars PROVE PortalInv'
  <2>1. ASSUME NEW q \in Portals PROVE BoundInv(q)' /\ AnswerInv(q)'
    BY <1>6, PortalKept DEF vars, PortalInv
  <2>. QED BY <1>6, <2>1 DEF vars, PortalInv, BindTypes
<1>. QED BY <1>1, <1>2, <1>3, <1>4, <1>5, <1>6 DEF Next

LEMMA PortalsInvariant == Spec => [](StreamInv /\ PortalInv)
PROOF
<1>1. StreamInv => ScanTypes
  BY DEF StreamInv
<1>. QED BY <1>1, InitStream, NextStream, InitPortal, NextPortal, PTL DEF Spec

\* Wrappers, batches and portals have their types: a batch never reaches past the
\* end of its stream, a stream never past its rows.
THEOREM TypeCorrect == Spec => []TypeOK
PROOF
<1>1. StreamInv /\ PortalInv => TypeOK
  BY DEF StreamInv, ScanTypes, PortalInv, BindTypes, BoundInv, BatchInv, TypeOK, Fields
<1>. QED BY <1>1, PortalsInvariant, PTL

\* What the executor hook hands to DataFusion as text is answered over the
\* relations Postgres planned with, for every catalog, search path and query.
THEOREM PushdownAlwaysExact == Spec => []PushdownExact
PROOF
<1>1. ASSUME PortalInv, NEW p \in Portals, out[p] # <<>>, ~astray[p]
      PROVE  \A i \in DOMAIN out[p] : out[p][i][1] = bound[p]
  <2>1. out[p] \in Seq({bound[p]} \X Nat)
    BY <1>1 DEF PortalInv, AnswerInv
  <2>2. \A i \in DOMAIN out[p] : out[p][i] \in {bound[p]} \X Nat
    BY <2>1, ElementOfSeq, LenProperties
  <2>. QED BY <2>2
<1>2. PortalInv => PushdownExact
  BY <1>1 DEF PortalInv, AnswerInv, PushdownExact
<1>. QED BY <1>2, PortalsInvariant, PTL

=============================================================================
