--------------------------- MODULE ViewSync_proofs ---------------------------
(***************************************************************************)
(* Proofs about ViewSync, for any backends, relations and definitions.     *)
(***************************************************************************)
EXTENDS ViewSync, TLAPS

USE NamesAssumption

\* TypeOK without the history of SELECTs.
StateOK ==
  /\ committed \in Catalog
  /\ mine \in [Backends -> Catalog]
  /\ dirty \in [Backends -> SUBSET Names]
  /\ touched \in [Backends -> SUBSET Names]
  /\ duck \in [Backends -> Catalog]
  /\ drift \in [Backends -> SUBSET Names]

\* Put changes one definition in one catalog.
LEMMA PutEffect ==
  ASSUME NEW f \in [Backends -> Catalog], NEW b \in Backends, NEW n \in Names,
         NEW d \in Defs \cup {None}
  PROVE  /\ Put(f, b, n, d) \in [Backends -> Catalog]
         /\ \A c \in Backends, m \in Names :
              Put(f, b, n, d)[c][m] = IF c = b /\ m = n THEN d ELSE f[c][m]
<1>1. f[b] \in Catalog /\ [f[b] EXCEPT ![n] = d] \in Catalog
  BY DEF Catalog
<1>2. Put(f, b, n, d) = [f EXCEPT ![b] = [f[b] EXCEPT ![n] = d]]
  BY DEF Put
<1>. QED
  BY <1>1, <1>2 DEF Catalog

LEMMA NothingType == Nothing \in Catalog
BY DEF Nothing, Catalog

LEMMA VisibleType ==
  ASSUME StateOK, NEW b \in Backends, NEW n \in Names
  PROVE  Visible(b, n) \in Defs \cup {None}
BY DEF StateOK, Catalog, Visible

LEMMA BaseType ==
  ASSUME NEW n \in Names
  PROVE  Base(n) \in Tables /\ Base(n) \in Names
BY DEF Base, Names

\* begin_scan registers the table when DuckDB has no view for it.
LEMMA BeginScanType ==
  ASSUME StateOK, NEW b \in Backends, NEW t \in Names
  PROVE  /\ AfterBeginScan(b, t) \in Catalog
         /\ [duck EXCEPT ![b] = AfterBeginScan(b, t)] \in [Backends -> Catalog]
         /\ \A c \in Backends, m \in Names :
              [duck EXCEPT ![b] = AfterBeginScan(b, t)][c][m] =
                IF c = b /\ m = t /\ duck[b][t] = None THEN Visible(b, t) ELSE duck[c][m]
<1>1. duck \in [Backends -> Catalog] /\ duck[b] \in Catalog /\ Visible(b, t) \in Defs \cup {None}
  BY VisibleType DEF StateOK
<1>2. AfterBeginScan(b, t) \in Catalog
  BY <1>1 DEF AfterBeginScan, Catalog
<1>3. \A m \in Names : AfterBeginScan(b, t)[m] =
        IF m = t /\ duck[b][t] = None THEN Visible(b, t) ELSE duck[b][m]
  BY <1>1 DEF AfterBeginScan, Catalog
<1>. QED
  BY <1>1, <1>2, <1>3

\* What an abort leaves: nothing of the transaction, and its relations drift.
LEMMA AbortEffect ==
  ASSUME StateOK, NEW b \in Backends, NEW left \in SUBSET Names, Aborted(b, left)
  PROVE  /\ committed' = committed
         /\ mine' \in [Backends -> Catalog]
         /\ dirty' \in [Backends -> SUBSET Names]
         /\ touched' \in [Backends -> SUBSET Names]
         /\ drift' \in [Backends -> SUBSET Names]
         /\ \A c \in Backends \ {b} : mine'[c] = mine[c] /\ dirty'[c] = dirty[c]
                                      /\ touched'[c] = touched[c] /\ drift'[c] = drift[c]
         /\ dirty'[b] = {} /\ touched'[b] = {}
         /\ drift'[b] = drift[b] \cup dirty[b] \cup left
         /\ read' = read
BY NothingType DEF Aborted, Ended, StateOK

\* A change of b's transaction, and of nothing else.
LEMMA ChangeEffect ==
  ASSUME StateOK, NEW b \in Backends, NEW n \in Names, NEW d \in Defs \cup {None},
         Change(b, n, d)
  PROVE  /\ committed' = committed
         /\ mine' \in [Backends -> Catalog]
         /\ dirty' \in [Backends -> SUBSET Names]
         /\ \A c \in Backends, m \in Names :
              Visible(c, m)' = IF c = b /\ m = n THEN d ELSE Visible(c, m)
<1>1. mine' = Put(mine, b, n, d) /\ dirty' = [dirty EXCEPT ![b] = @ \cup {n}]
      /\ committed' = committed
  BY DEF Change
<1>2. /\ mine' \in [Backends -> Catalog]
      /\ \A c \in Backends, m \in Names :
           mine'[c][m] = IF c = b /\ m = n THEN d ELSE mine[c][m]
  BY <1>1, PutEffect DEF StateOK
<1>3. /\ dirty' \in [Backends -> SUBSET Names]
      /\ dirty'[b] = dirty[b] \cup {n}
      /\ \A c \in Backends \ {b} : dirty'[c] = dirty[c]
  BY <1>1 DEF StateOK
<1>. QED
  BY <1>1, <1>2, <1>3 DEF Visible

\* What reaches DuckDB under one name.
LEMMA DuckUpdate ==
  ASSUME StateOK, NEW b \in Backends, NEW n \in Names, NEW d \in Defs \cup {None},
         duck' = Put(duck, b, n, d)
  PROVE  /\ duck' \in [Backends -> Catalog]
         /\ \A c \in Backends, m \in Names :
              duck'[c][m] = IF c = b /\ m = n THEN d ELSE duck[c][m]
<1>1. duck \in [Backends -> Catalog]
  BY DEF StateOK
<1>. QED
  BY <1>1, PutEffect

LEMMA ViewSentEffect ==
  ASSUME StateOK, NEW b \in Backends, NEW v \in Views, NEW d \in Defs,
         NEW replace \in BOOLEAN, ViewSent(b, v, d, replace)
  PROVE  /\ duck' \in [Backends -> Catalog]
         /\ \A c \in Backends, m \in Names :
              duck'[c][m] = IF c = b /\ m = v /\ DuckAccepts(b, v, replace) THEN d
                            ELSE duck[c][m]
<1>. DEFINE e == IF DuckAccepts(b, v, replace) THEN d ELSE duck[b][v]
<1>1. v \in Names /\ e \in Defs \cup {None}
  BY DEF StateOK, Catalog, Names
<1>2. duck' = Put(duck, b, v, e)
  BY DEF ViewSent
<1>3. /\ duck' \in [Backends -> Catalog]
      /\ \A c \in Backends, m \in Names :
           duck'[c][m] = IF c = b /\ m = v THEN e ELSE duck[c][m]
  <2>. HIDE DEF e
  <2>. QED BY <1>1, <1>2, DuckUpdate
<1>. QED
  BY <1>3

LEMMA TriggerFailedEffect ==
  ASSUME StateOK, NEW b \in Backends, NEW t \in Tables, NEW d \in Defs,
         TriggerFailed(b, t, d)
  PROVE  /\ duck' \in [Backends -> Catalog]
         /\ \A c \in Backends, m \in Names :
              c # b \/ m # t => duck'[c][m] = duck[c][m]
<1>1. t \in Names /\ duck \in [Backends -> Catalog]
  BY DEF Names, StateOK
<1>2. CASE UNCHANGED duck
  BY <1>1, <1>2
<1>3. CASE duck' = Put(duck, b, t, None)
  BY <1>1, <1>3, DuckUpdate
<1>4. CASE duck' = Put(duck, b, t, d)
  BY <1>1, <1>4, DuckUpdate
<1>. QED BY <1>2, <1>3, <1>4 DEF TriggerFailed

-----------------------------------------------------------------------------
LEMMA NextState == StateOK /\ [Next]_vars => StateOK'
<1> SUFFICES ASSUME StateOK, [Next]_vars PROVE StateOK'
  OBVIOUS
<1>. Tables \subseteq Names /\ Views \subseteq Names /\ Defs \subseteq Defs \cup {None}
  BY DEF Names
<1>1. ASSUME NEW b \in Backends, Commit(b) PROVE StateOK'
  <2>1. committed' \in Catalog
    BY <1>1, VisibleType DEF Commit, Catalog
  <2>2. /\ mine' \in [Backends -> Catalog]
        /\ dirty' \in [Backends -> SUBSET Names]
        /\ touched' \in [Backends -> SUBSET Names]
    BY <1>1, NothingType DEF Commit, Ended, StateOK
  <2>3. drift' \in [Backends -> SUBSET Names]
    BY <1>1 DEF Commit, StateOK
  <2>. QED BY <1>1, <2>1, <2>2, <2>3 DEF Commit, StateOK
<1>2. ASSUME NEW b \in Backends, Rollback(b) PROVE StateOK'
  BY <1>2, AbortEffect DEF Rollback, StateOK
<1>3. ASSUME NEW b \in Backends, NEW t \in Tables, NEW d \in Defs, CreateTable(b, t, d)
      PROVE  StateOK'
  <2>1. CASE Registered(b, t, d) /\ Change(b, t, d) /\ UNCHANGED <<touched, read>>
    <3>1. duck' \in [Backends -> Catalog]
      BY <2>1, DuckUpdate DEF Registered
    <3>2. drift' \in [Backends -> SUBSET Names]
      BY <2>1 DEF Registered, StateOK
    <3>. QED BY <2>1, <3>1, <3>2, ChangeEffect DEF StateOK
  <2>2. CASE TriggerFailed(b, t, d)
    <3>1. Aborted(b, {t}) /\ {t} \in SUBSET Names
      BY <2>2 DEF TriggerFailed
    <3>. QED BY <2>2, <3>1, TriggerFailedEffect, AbortEffect DEF StateOK
  <2>. QED BY <1>3, <2>1, <2>2 DEF CreateTable
<1>4. ASSUME NEW b \in Backends, NEW t \in Tables, NEW d \in Defs, AlterOptions(b, t, d)
      PROVE  StateOK'
  <2>1. drift' \in [Backends -> SUBSET Names]
    BY <1>4 DEF AlterOptions, StateOK
  <2>. QED BY <1>4, <2>1, ChangeEffect DEF AlterOptions, StateOK
<1>5. ASSUME NEW b \in Backends, NEW t \in Tables, DropTable(b, t) PROVE StateOK'
  BY <1>5, ChangeEffect DEF DropTable, StateOK
<1>6. ASSUME NEW b \in Backends, NEW v \in Views, NEW d \in Defs, NEW replace \in BOOLEAN,
             CreateView(b, v, d, replace)
      PROVE  StateOK'
  <2>1. duck' \in [Backends -> Catalog]
    BY <1>6, ViewSentEffect DEF CreateView
  <2>2. CASE ViewCreated(b, v, d, replace)
    <3>1. drift' \in [Backends -> SUBSET Names] /\ touched' \in [Backends -> SUBSET Names]
      BY <2>2 DEF ViewCreated, StateOK
    <3>. QED BY <2>1, <2>2, <3>1, ChangeEffect DEF ViewCreated, StateOK
  <2>3. CASE ViewRefused(b, v, replace)
    <3>1. Aborted(b, {v}) /\ {v} \in SUBSET Names
      BY <2>3 DEF ViewRefused
    <3>. QED BY <2>1, <3>1, AbortEffect DEF StateOK
  <2>. QED BY <1>6, <2>2, <2>3 DEF CreateView
<1>7. ASSUME NEW b \in Backends, NEW v \in Views, DropView(b, v) PROVE StateOK'
  <2>1. drift' \in [Backends -> SUBSET Names]
    BY <1>7 DEF DropView, StateOK
  <2>. QED BY <1>7, <2>1, ChangeEffect DEF DropView, StateOK
<1>8. ASSUME NEW b \in Backends, NEW n \in Names, Select(b, n) PROVE StateOK'
  <2>1. Base(n) \in Names
    BY BaseType
  <2>2. duck' \in [Backends -> Catalog]
    BY <1>8, <2>1, BeginScanType DEF Select
  <2>3. drift' \in [Backends -> SUBSET Names] /\ touched' \in [Backends -> SUBSET Names]
    BY <1>8, <2>1 DEF Select, StateOK
  <2>. QED BY <1>8, <2>2, <2>3 DEF Select, StateOK
<1>9. ASSUME NEW b \in Backends, NEW n \in Names, SelectFailed(b, n) PROVE StateOK'
  <2>1. Base(n) \in Names
    BY BaseType
  <2>2. duck' \in [Backends -> Catalog]
    BY <1>9, <2>1, BeginScanType DEF SelectFailed, StateOK
  <2>3. Aborted(b, {}) /\ {} \in SUBSET Names
    BY <1>9 DEF SelectFailed
  <2>. QED BY <2>2, <2>3, AbortEffect DEF StateOK
<1>10. CASE UNCHANGED vars
  BY <1>10 DEF vars, StateOK
<1>. QED
  BY <1>1, <1>2, <1>3, <1>4, <1>5, <1>6, <1>7, <1>8, <1>9, <1>10 DEF Next

LEMMA InitState == Init => StateOK
BY NothingType DEF Init, StateOK

-----------------------------------------------------------------------------
(* StaleHasCause, one backend and one relation at a time.                  *)

StaleAt(b, n) ==
  Exists(b, n) /\ duck[b][n] \notin {None, Visible(b, n)} => n \in drift[b]

\* The ways in which a step keeps DuckDB and the catalog explained.
Explained(c, m) ==
  \/ m \in drift'[c]
  \/ duck'[c][m] \in {None, Visible(c, m)'}
  \/ Visible(c, m)' = None
  \/ /\ Visible(c, m)' = Visible(c, m)
     /\ duck'[c][m] = duck[c][m]
     /\ m \in drift[c] => m \in drift'[c]

LEMMA ExplainedKeeps ==
  ASSUME NEW c, NEW m, StaleAt(c, m), Explained(c, m)
  PROVE  StaleAt(c, m)'
BY DEF StaleAt, Explained, Exists

\* An abort explains what it leaves, if DuckDB only changed under a name in
\* "left", or was given the definition the abort returns to.
LEMMA AbortExplained ==
  ASSUME StateOK, NEW b \in Backends, NEW left \in SUBSET Names, Aborted(b, left),
         NEW c \in Backends, NEW m \in Names,
         \/ duck'[c][m] = duck[c][m]
         \/ c = b /\ (m \in left \/ duck'[c][m] = Visible(c, m))
  PROVE  Explained(c, m)
<1>1. CASE c # b
  <2>1. Visible(c, m)' = Visible(c, m) /\ drift'[c] = drift[c]
    BY <1>1, AbortEffect DEF Visible
  <2>. QED BY <1>1, <2>1 DEF Explained
<1>2. CASE c = b /\ m \in dirty[b] \cup left
  BY <1>2, AbortEffect DEF Explained
<1>3. CASE c = b /\ m \notin dirty[b] \cup left
  <2>1. Visible(c, m)' = Visible(c, m) /\ drift[c] \subseteq drift'[c]
    BY <1>3, AbortEffect DEF Visible
  <2>. QED BY <1>3, <2>1 DEF Explained
<1>. QED BY <1>1, <1>2, <1>3

LEMMA NextStale == StateOK /\ StaleHasCause /\ [Next]_vars => StaleHasCause'
<1> SUFFICES ASSUME StateOK, StaleHasCause, [Next]_vars,
                    NEW c \in Backends, NEW m \in Names
             PROVE  StaleAt(c, m)'
  BY DEF StaleHasCause, StaleAt
<1>. Tables \subseteq Names /\ Views \subseteq Names /\ Defs \subseteq Defs \cup {None}
  BY DEF Names
<1>. /\ drift \in [Backends -> SUBSET Names]
     /\ duck \in [Backends -> Catalog]
  BY DEF StateOK
<1>0. StaleAt(c, m)
  BY DEF StaleHasCause, StaleAt
<1>1. ASSUME NEW b \in Backends, Commit(b) PROVE Explained(c, m)
  <2>1. /\ committed'[m] = Visible(b, m)
        /\ duck' = duck
        /\ dirty'[b] = {}
        /\ c # b => dirty'[c] = dirty[c] /\ mine'[c] = mine[c] /\ drift'[c] = drift[c] \cup dirty[b]
        /\ c = b => drift'[c] = drift[c]
    BY <1>1 DEF Commit, Ended, StateOK
  <2>2. CASE c = b
    BY <2>1, <2>2 DEF Explained, Visible
  <2>3. CASE c # b
    BY <2>1, <2>3 DEF Explained, Visible
  <2>. QED BY <2>2, <2>3
<1>2. ASSUME NEW b \in Backends, Rollback(b) PROVE Explained(c, m)
  <2>1. Aborted(b, {}) /\ {} \in SUBSET Names /\ duck' = duck
    BY <1>2 DEF Rollback
  <2>. QED BY <2>1, AbortExplained
<1>3. ASSUME NEW b \in Backends, NEW t \in Tables, NEW d \in Defs, CreateTable(b, t, d)
      PROVE  Explained(c, m)
  <2>1. CASE Registered(b, t, d) /\ Change(b, t, d)
    <3>1. duck'[c][m] = IF c = b /\ m = t THEN d ELSE duck[c][m]
      BY <2>1, DuckUpdate DEF Registered
    <3>2. Visible(c, m)' = IF c = b /\ m = t THEN d ELSE Visible(c, m)
      BY <2>1, ChangeEffect
    <3>3. c # b \/ m # t => (m \in drift[c] => m \in drift'[c])
      BY <2>1 DEF Registered
    <3>. QED BY <3>1, <3>2, <3>3 DEF Explained
  <2>2. CASE TriggerFailed(b, t, d)
    <3>1. Aborted(b, {t}) /\ {t} \in SUBSET Names
      BY <2>2 DEF TriggerFailed
    <3>. QED BY <2>2, <3>1, TriggerFailedEffect, AbortExplained
  <2>. QED BY <1>3, <2>1, <2>2 DEF CreateTable
<1>4. ASSUME NEW b \in Backends, NEW n \in Names, NEW d \in Defs \cup {None},
             Change(b, n, d), duck' = duck,
             drift' = [drift EXCEPT ![b] = @ \cup {n}] \/ (d = None /\ drift' = drift)
      PROVE  Explained(c, m)
  <2>1. Visible(c, m)' = IF c = b /\ m = n THEN d ELSE Visible(c, m)
    BY <1>4, ChangeEffect
  <2>2. /\ drift[c] \subseteq drift'[c]
        /\ c = b /\ m = n => m \in drift'[c] \/ d = None
    BY <1>4
  <2>. QED BY <1>4, <2>1, <2>2 DEF Explained
<1>5. ASSUME NEW b \in Backends, NEW v \in Views, NEW d \in Defs, NEW replace \in BOOLEAN,
             CreateView(b, v, d, replace)
      PROVE  Explained(c, m)
  <2>1. duck'[c][m] = IF c = b /\ m = v /\ DuckAccepts(b, v, replace) THEN d ELSE duck[c][m]
    BY <1>5, ViewSentEffect DEF CreateView
  <2>2. CASE ViewCreated(b, v, d, replace)
    <3>1. Visible(c, m)' = IF c = b /\ m = v THEN d ELSE Visible(c, m)
      BY <2>2, ChangeEffect DEF ViewCreated
    <3>2. CASE c = b /\ m = v
      <4>1. DuckAccepts(b, v, replace) \/ duck[b][v] = None \/ v \in drift'[b]
        BY <2>2 DEF ViewCreated
      <4>. QED BY <2>1, <3>1, <3>2, <4>1 DEF Explained
    <3>3. CASE ~(c = b /\ m = v)
      <4>1. m \in drift[c] => m \in drift'[c]
        BY <2>2, <3>3 DEF ViewCreated
      <4>. QED BY <2>1, <3>1, <3>3, <4>1 DEF Explained
    <3>. QED BY <3>2, <3>3
  <2>3. CASE ViewRefused(b, v, replace)
    <3>1. Aborted(b, {v}) /\ {v} \in SUBSET Names
      BY <2>3 DEF ViewRefused
    <3>. QED BY <2>1, <3>1, AbortExplained
  <2>. QED BY <1>5, <2>2, <2>3 DEF CreateView
<1>6. ASSUME NEW b \in Backends, NEW n \in Names, Select(b, n) PROVE Explained(c, m)
  <2>1. Base(n) \in Names
    BY BaseType
  <2>2. duck'[c][m] = IF c = b /\ m = Base(n) /\ duck[b][Base(n)] = None
                      THEN Visible(b, Base(n)) ELSE duck[c][m]
    BY <1>6, <2>1, BeginScanType DEF Select
  <2>3. Visible(c, m)' = Visible(c, m)
    BY <1>6 DEF Select, Visible
  <2>4. CASE c = b /\ m = Base(n) /\ duck[b][Base(n)] = None
    BY <2>2, <2>3, <2>4 DEF Explained
  <2>5. CASE ~(c = b /\ m = Base(n) /\ duck[b][Base(n)] = None)
    <3>1. m \in drift[c] => m \in drift'[c]
      BY <1>6, <2>1, <2>5 DEF Select
    <3>. QED BY <2>2, <2>3, <2>5, <3>1 DEF Explained
  <2>. QED BY <2>4, <2>5
<1>7. ASSUME NEW b \in Backends, NEW n \in Names, SelectFailed(b, n) PROVE Explained(c, m)
  <2>1. Base(n) \in Names
    BY BaseType
  <2>2. \/ duck'[c][m] = duck[c][m]
        \/ c = b /\ duck'[c][m] = Visible(c, m)
    BY <1>7, <2>1, BeginScanType DEF SelectFailed
  <2>3. Aborted(b, {}) /\ {} \in SUBSET Names
    BY <1>7 DEF SelectFailed
  <2>4. CASE duck'[c][m] = duck[c][m]
    BY <2>3, <2>4, AbortExplained
  <2>5. CASE c = b /\ duck'[c][m] = Visible(c, m)
    BY <2>3, <2>5, AbortExplained
  <2>. QED BY <2>2, <2>4, <2>5
<1>8. ASSUME UNCHANGED vars PROVE Explained(c, m)
  BY <1>8 DEF vars, Explained, Visible
<1>9. ASSUME NEW b \in Backends, NEW t \in Tables, NEW d \in Defs, AlterOptions(b, t, d)
      PROVE  Explained(c, m)
  BY <1>4, <1>9 DEF AlterOptions
<1>10. ASSUME NEW b \in Backends, NEW t \in Tables, DropTable(b, t) PROVE Explained(c, m)
  BY <1>4, <1>10 DEF DropTable
<1>11. ASSUME NEW b \in Backends, NEW v \in Views, DropView(b, v) PROVE Explained(c, m)
  BY <1>4, <1>11 DEF DropView
<1>. QED
  BY <1>0, <1>1, <1>2, <1>3, <1>5, <1>6, <1>7, <1>8, <1>9, <1>10, <1>11, ExplainedKeeps DEF Next

\* An outdated definition in a backend's DuckDB has one of the named causes.
THEOREM StaleAlwaysHasCause == Spec => []StaleHasCause
<1>1. Init => StaleHasCause
  BY DEF Init, StaleHasCause, Exists, Visible, Nothing
<1>. QED
  BY <1>1, InitState, NextState, NextStale, PTL DEF Spec

LEMMA NextStaleReads ==
  StateOK /\ StaleHasCause /\ StaleReadsHaveCause /\ [Next]_vars => StaleReadsHaveCause'
<1> SUFFICES ASSUME StateOK, StaleHasCause, StaleReadsHaveCause, [Next]_vars
             PROVE  StaleReadsHaveCause'
  OBVIOUS
<1>1. ASSUME NEW b \in Backends, NEW n \in Names, Select(b, n)
      PROVE  StaleReadsHaveCause'
  <2>1. Base(n) \in Names /\ duck[b] \in Catalog /\ Exists(b, n)
    BY <1>1, BaseType DEF StateOK, Select
  <2>2. PICK d \in Answers(b, n) :
          read' = [read EXCEPT ![b] = [saw |-> d, is |-> Visible(b, n),
                                      missed |-> n \in drift[b]]]
    BY <1>1 DEF Select
  <2>3. AfterBeginScan(b, Base(n))[n] \in {duck[b][n], Visible(b, n)}
    BY <2>1 DEF AfterBeginScan, Catalog
  <2>4. duck[b][n] \notin {None, Visible(b, n)} => n \in drift[b]
    BY <2>1 DEF StaleHasCause
  <2>5. n \in Tables => AfterBeginScan(b, Base(n))[n] # None
    BY <2>1 DEF AfterBeginScan, Catalog, Base, Exists
  <2>6. d # Visible(b, n) => n \in drift[b]
    BY <2>2, <2>3, <2>4, <2>5 DEF Answers
  <2>. DEFINE r == [saw |-> d, is |-> Visible(b, n), missed |-> n \in drift[b]]
  <2>7. r.saw # r.is => r.missed
    BY <2>6
  <2>8. read' = [read EXCEPT ![b] = r]
    BY <2>2
  <2>9. \A c \in Backends : read'[c] = read[c] \/ read'[c] = r
    <3>. HIDE DEF r
    <3>. QED BY <2>8
  <2>. HIDE DEF r
  <2>. QED BY <2>7, <2>9, Zenon DEF StaleReadsHaveCause
<1>2. ASSUME NEW b \in Backends, NEW left, Aborted(b, left) PROVE StaleReadsHaveCause'
  BY <1>2 DEF Aborted, StaleReadsHaveCause
<1>3. CASE read' = read
  BY <1>3 DEF StaleReadsHaveCause
<1>4. ASSUME NEW b \in Backends, Commit(b) \/ Rollback(b) PROVE StaleReadsHaveCause'
  <2>1. CASE Commit(b)
    BY <1>3, <2>1 DEF Commit
  <2>2. CASE Rollback(b)
    BY <1>2, <2>2 DEF Rollback
  <2>. QED BY <1>4, <2>1, <2>2
<1>5. ASSUME NEW b \in Backends, NEW t \in Tables, NEW d \in Defs,
             CreateTable(b, t, d) \/ AlterOptions(b, t, d)
      PROVE  StaleReadsHaveCause'
  <2>1. CASE CreateTable(b, t, d)
    BY <1>2, <1>3, <2>1 DEF CreateTable, TriggerFailed
  <2>2. CASE AlterOptions(b, t, d)
    BY <1>3, <2>2 DEF AlterOptions
  <2>. QED BY <1>5, <2>1, <2>2
<1>6. ASSUME NEW b \in Backends, NEW t \in Tables, DropTable(b, t) PROVE StaleReadsHaveCause'
  BY <1>3, <1>6 DEF DropTable
<1>7. ASSUME NEW b \in Backends, NEW v \in Views, NEW d \in Defs, NEW replace \in BOOLEAN,
             CreateView(b, v, d, replace)
      PROVE  StaleReadsHaveCause'
  BY <1>2, <1>3, <1>7 DEF CreateView, ViewCreated, ViewRefused
<1>8. ASSUME NEW b \in Backends, NEW v \in Views, DropView(b, v) PROVE StaleReadsHaveCause'
  BY <1>3, <1>8 DEF DropView
<1>9. ASSUME NEW b \in Backends, NEW n \in Names, SelectFailed(b, n) PROVE StaleReadsHaveCause'
  BY <1>2, <1>9 DEF SelectFailed
<1>10. CASE UNCHANGED vars
  BY <1>3, <1>10 DEF vars
<1>. QED
  BY <1>1, <1>4, <1>5, <1>6, <1>7, <1>8, <1>9, <1>10 DEF Next

\* A query that sees an outdated definition does so for one of the named causes.
THEOREM StaleReadsAlwaysHaveCause == Spec => []StaleReadsHaveCause
<1>1. Init => StaleHasCause /\ StaleReadsHaveCause
  BY DEF Init, StaleHasCause, StaleReadsHaveCause, Exists, Visible, Nothing
<1>. QED
  BY <1>1, InitState, NextState, NextStale, NextStaleReads, PTL DEF Spec

Reads == {None} \cup [saw : Defs, is : Defs, missed : BOOLEAN]

ReadOK == read \in [Backends -> Reads]

LEMMA SelectReads ==
  ASSUME StateOK, read \in [Backends -> Reads], NEW b \in Backends, NEW n \in Names, Select(b, n)
  PROVE  read' \in [Backends -> Reads]
<1>1. Base(n) \in Names /\ duck[b] \in Catalog /\ Visible(b, n) \in Defs \cup {None}
  BY BaseType, VisibleType DEF StateOK
<1>2. Exists(b, n) /\ drift[b] \in SUBSET Names
  BY DEF Select, StateOK
<1>3. Visible(b, n) \in Defs
  BY <1>1, <1>2 DEF Exists
<1>4. AfterBeginScan(b, Base(n))[n] \in {duck[b][n], Visible(b, n)}
  BY <1>1 DEF AfterBeginScan, Catalog
<1>5. n \in Tables => AfterBeginScan(b, Base(n))[n] # None
  BY <1>1, <1>2 DEF AfterBeginScan, Catalog, Base, Exists
<1>6. duck[b][n] \in Defs \cup {None}
  BY <1>1 DEF Catalog
<1>7. Answers(b, n) \subseteq Defs
  BY <1>3, <1>4, <1>5, <1>6 DEF Answers
<1>8. PICK d \in Answers(b, n) :
        read' = [read EXCEPT ![b] = [saw |-> d, is |-> Visible(b, n), missed |-> n \in drift[b]]]
  BY DEF Select
<1>9. [saw |-> d, is |-> Visible(b, n), missed |-> n \in drift[b]] \in Reads
  BY <1>3, <1>7 DEF Reads
<1>. QED BY <1>8, <1>9

LEMMA NextReads == StateOK /\ ReadOK /\ [Next]_vars => ReadOK'
<1> SUFFICES ASSUME StateOK, read \in [Backends -> Reads], [Next]_vars
             PROVE  read' \in [Backends -> Reads]
  BY DEF ReadOK
<1>1. ASSUME NEW b \in Backends, NEW n \in Names, Select(b, n) PROVE read' \in [Backends -> Reads]
  BY <1>1, SelectReads
<1>2. ASSUME NEW b \in Backends, NEW left, Aborted(b, left) PROVE read' = read
  BY <1>2 DEF Aborted
<1>3. ASSUME NEW b \in Backends, Commit(b) \/ Rollback(b) PROVE read' = read
  BY <1>2, <1>3 DEF Commit, Rollback
<1>4. ASSUME NEW b \in Backends, NEW t \in Tables, NEW d \in Defs,
             CreateTable(b, t, d) \/ AlterOptions(b, t, d)
      PROVE  read' = read
  BY <1>2, <1>4 DEF CreateTable, TriggerFailed, AlterOptions
<1>5. ASSUME NEW b \in Backends, NEW t \in Tables, DropTable(b, t) PROVE read' = read
  BY <1>5 DEF DropTable
<1>6. ASSUME NEW b \in Backends, NEW v \in Views, NEW d \in Defs, NEW replace \in BOOLEAN,
             CreateView(b, v, d, replace)
      PROVE  read' = read
  BY <1>2, <1>6 DEF CreateView, ViewCreated, ViewRefused
<1>7. ASSUME NEW b \in Backends, NEW v \in Views, DropView(b, v) PROVE read' = read
  BY <1>7 DEF DropView
<1>8. ASSUME NEW b \in Backends, NEW n \in Names, SelectFailed(b, n) PROVE read' = read
  BY <1>2, <1>8 DEF SelectFailed
<1>9. CASE UNCHANGED vars
  BY <1>9 DEF vars
<1>. QED
  BY <1>1, <1>3, <1>4, <1>5, <1>6, <1>7, <1>8, <1>9 DEF Next

\* Catalogs, transactions and DuckDB's views hold definitions and nothing else, and
\* a SELECT that got an answer saw one.
THEOREM TypeCorrect == Spec => []TypeOK
<1>1. Init => ReadOK
  BY DEF Init, Reads, ReadOK
<1>2. StateOK /\ ReadOK => TypeOK
  BY DEF StateOK, TypeOK, Reads, ReadOK
<1>. QED
  BY <1>1, <1>2, InitState, NextState, NextReads, PTL DEF Spec

-----------------------------------------------------------------------------
(* A single session without transaction blocks, ALTER and DROP VIEW.       *)

\* Every table is registered with its definition, every view is in DuckDB as
\* it is in Postgres, and no view is without its table.
InStep(b) ==
  /\ \A t \in Tables : Exists(b, t) => duck[b][t] = Visible(b, t)
  /\ \A v \in Views : duck[b][v] = Visible(b, v)
  /\ \A v \in Views : Exists(b, v) => Exists(b, Over[v])

\* An abort of the only statement of a transaction changes no definition.
LEMMA AbortAlone ==
  ASSUME StateOK, NEW b \in Backends, NEW left \in SUBSET Names, Aborted(b, left),
         dirty[b] = {}
  PROVE  \A n \in Names : Visible(b, n)' = Visible(b, n)
BY AbortEffect DEF Visible

LEMMA NextInStep ==
  ASSUME Uses = {}, NEW b \in Backends, Backends = {b},
         StateOK, InStep(b), SelectsAreCurrent, [Next]_vars
  PROVE  InStep(b)' /\ SelectsAreCurrent'
<1>. Tables \subseteq Names /\ Views \subseteq Names /\ Defs \subseteq Defs \cup {None}
  BY DEF Names
<1>. duck \in [Backends -> Catalog] /\ \A n \in Names : duck[b][n] \in Defs \cup {None}
  BY DEF StateOK, Catalog
<1>. /\ \A v \in Views : Over[v] \in Tables
     /\ \A v \in Views : v \notin Tables
  OBVIOUS
\* Steps that change neither what b sees nor what its DuckDB holds for it.
<1>1. ASSUME \A n \in Names : Visible(b, n)' = Visible(b, n),
             \A n \in Names : n \in Views \/ Exists(b, n) => duck'[b][n] = duck[b][n],
             read' = read
      PROVE  InStep(b)' /\ SelectsAreCurrent'
  BY <1>1 DEF InStep, Exists, SelectsAreCurrent
<1>2. ASSUME Commit(b) PROVE InStep(b)' /\ SelectsAreCurrent'
  <2>1. \A n \in Names : Visible(b, n)' = Visible(b, n)
    BY <1>2 DEF Commit, Ended, StateOK, Visible
  <2>. QED BY <1>1, <1>2, <2>1 DEF Commit
<1>3. ASSUME NEW t \in Tables, NEW d \in Defs, CreateTable(b, t, d)
      PROVE  InStep(b)' /\ SelectsAreCurrent'
  <2>1. CASE Registered(b, t, d) /\ Change(b, t, d) /\ UNCHANGED <<touched, read>>
    <3>1. \A n \in Names : duck'[b][n] = IF n = t THEN d ELSE duck[b][n]
      BY <2>1, DuckUpdate DEF Registered
    <3>2. \A n \in Names : Visible(b, n)' = IF n = t THEN d ELSE Visible(b, n)
      BY <2>1, ChangeEffect
    <3>3. d # None /\ \A n \in Names : Exists(b, n)' <=> (n = t \/ Exists(b, n))
      BY <3>2 DEF Exists
    <3>4. InStep(b)'
      BY <3>1, <3>2, <3>3 DEF InStep
    <3>. QED BY <2>1, <3>4 DEF SelectsAreCurrent
  <2>2. CASE TriggerFailed(b, t, d)
    <3>1. Aborted(b, {t}) /\ {t} \in SUBSET Names /\ dirty[b] = {} /\ ~Exists(b, t)
      BY <1>3, <2>2 DEF TriggerFailed, CreateTable, CanRun
    <3>2. \A n \in Names : Visible(b, n)' = Visible(b, n)
      BY <3>1, AbortAlone
    <3>3. \A n \in Names : n \in Views \/ Exists(b, n) => duck'[b][n] = duck[b][n]
      BY <2>2, <3>1, TriggerFailedEffect
    <3>4. read' = read
      BY <3>1 DEF Aborted
    <3>. QED BY <1>1, <3>2, <3>3, <3>4
  <2>. QED BY <1>3, <2>1, <2>2 DEF CreateTable
<1>4. ASSUME NEW t \in Tables, DropTable(b, t) PROVE InStep(b)' /\ SelectsAreCurrent'
  <2>1. \A n \in Names : Visible(b, n)' = IF n = t THEN None ELSE Visible(b, n)
    BY <1>4, ChangeEffect DEF DropTable
  <2>2. duck' = duck /\ read' = read /\ \A v \in Views : Over[v] = t => ~Exists(b, v)
    BY <1>4 DEF DropTable
  <2>3. InStep(b)'
    BY <2>1, <2>2 DEF InStep, Exists
  <2>. QED BY <2>2, <2>3 DEF SelectsAreCurrent
<1>5. ASSUME NEW v \in Views, NEW d \in Defs, NEW replace \in BOOLEAN,
             CreateView(b, v, d, replace)
      PROVE  InStep(b)' /\ SelectsAreCurrent'
  <2>1. \A n \in Names : duck'[b][n] = IF n = v /\ DuckAccepts(b, v, replace) THEN d
                                       ELSE duck[b][n]
    BY <1>5, ViewSentEffect DEF CreateView
  <2>2. duck[b][Over[v]] # None /\ duck[b][v] = Visible(b, v) /\ Exists(b, Over[v])
    BY <1>5 DEF CreateView, InStep, Exists
  <2>3. CASE ViewCreated(b, v, d, replace)
    <3>1. DuckAccepts(b, v, replace)
      BY <2>2, <2>3 DEF ViewCreated, DuckAccepts, Exists
    <3>2. \A n \in Names : Visible(b, n)' = IF n = v THEN d ELSE Visible(b, n)
      BY <2>3, ChangeEffect DEF ViewCreated
    <3>3. read' = read
      BY <2>3 DEF ViewCreated
    <3>4. \A n \in Names : duck'[b][n] = IF n = v THEN d ELSE duck[b][n]
      BY <2>1, <3>1
    <3>5. InStep(b)'
      BY <2>2, <3>2, <3>4 DEF InStep, Exists
    <3>. QED BY <3>3, <3>5 DEF SelectsAreCurrent
  <2>4. CASE ViewRefused(b, v, replace)
    <3>1. /\ Exists(b, v) /\ ~replace
          /\ Aborted(b, {v}) /\ {v} \in SUBSET Names
          /\ dirty[b] = {}
      BY <1>5, <2>4 DEF ViewRefused, CreateView, CanRun
    <3>2. ~DuckAccepts(b, v, replace)
      BY <2>2, <3>1 DEF DuckAccepts, Exists
    <3>3. \A n \in Names : Visible(b, n)' = Visible(b, n)
      BY <3>1, AbortAlone
    <3>4. read' = read
      BY <3>1 DEF Aborted
    <3>. QED BY <1>1, <2>1, <3>2, <3>3, <3>4
  <2>. QED BY <1>5, <2>3, <2>4 DEF CreateView
<1>6. ASSUME NEW n \in Names, Exists(b, n)
      PROVE  /\ Base(n) \in Names
             /\ AfterBeginScan(b, Base(n)) = duck[b]
             /\ duck[b][n] = Visible(b, n)
  <2>1. Base(n) \in Tables /\ Exists(b, Base(n)) /\ duck[b][n] = Visible(b, n)
    BY <1>6 DEF Base, Names, InStep
  <2>2. duck[b][Base(n)] # None
    BY <2>1 DEF InStep, Exists
  <2>. QED BY <2>1, <2>2 DEF AfterBeginScan
<1>7. ASSUME NEW n \in Names, Select(b, n) PROVE InStep(b)' /\ SelectsAreCurrent'
  <2>1. Exists(b, n) /\ UNCHANGED <<committed, mine, dirty>>
    BY <1>7 DEF Select
  <2>2. duck' = duck
    BY <1>6, <1>7, <2>1 DEF Select
  <2>3. Answers(b, n) \subseteq {Visible(b, n)}
    BY <1>6, <2>1 DEF Answers
  <2>4. PICK d \in Answers(b, n) :
          read' = [read EXCEPT ![b] = [saw |-> d, is |-> Visible(b, n),
                                      missed |-> n \in drift[b]]]
    BY <1>7 DEF Select
  <2>5. SelectsAreCurrent'
    BY <2>3, <2>4 DEF SelectsAreCurrent
  <2>6. InStep(b)'
    BY <2>1, <2>2 DEF InStep, Exists, Visible
  <2>. QED BY <2>5, <2>6
<1>8. ASSUME NEW n \in Names, SelectFailed(b, n) PROVE InStep(b)' /\ SelectsAreCurrent'
  <2>1. Exists(b, n) /\ Aborted(b, {}) /\ {} \in SUBSET Names /\ dirty[b] = {}
    BY <1>8 DEF SelectFailed, CanRun
  <2>2. duck' = duck
    BY <1>6, <1>8, <2>1 DEF SelectFailed
  <2>3. \A m \in Names : Visible(b, m)' = Visible(b, m)
    BY <2>1, AbortAlone
  <2>4. read' = read
    BY <2>1 DEF Aborted
  <2>. QED BY <1>1, <2>2, <2>3, <2>4
<1>9. CASE UNCHANGED vars
  <2>1. \A n \in Names : Visible(b, n)' = Visible(b, n)
    BY <1>9 DEF vars, Visible
  <2>. QED BY <1>1, <1>9, <2>1 DEF vars
<1>. QED
  BY <1>2, <1>3, <1>4, <1>5, <1>7, <1>8, <1>9 DEF Next, Rollback, AlterOptions, DropView

\* In a session of its own, with one statement per transaction and definitions
\* changed by CREATE and DROP FOREIGN TABLE and CREATE OR REPLACE VIEW only, a
\* query always sees the definition that Postgres has.
THEOREM AloneIsCurrent ==
  ASSUME Uses = {}, NEW b \in Backends, Backends = {b}
  PROVE  Spec => []SelectsAreCurrent
<1>1. Init => StateOK /\ InStep(b) /\ SelectsAreCurrent
  <2>1. \A v \in Views : v \in Names
    BY DEF Names
  <2>. QED BY <2>1, InitState
         DEF Init, InStep, SelectsAreCurrent, Exists, Visible, Nothing
<1>2. StateOK /\ InStep(b) /\ SelectsAreCurrent /\ [Next]_vars
        => (StateOK /\ InStep(b) /\ SelectsAreCurrent)'
  BY NextState, NextInStep
<1>. QED
  BY <1>1, <1>2, PTL DEF Spec

=============================================================================
