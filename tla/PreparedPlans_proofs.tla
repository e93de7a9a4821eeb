------------------------ MODULE PreparedPlans_proofs ------------------------
(***************************************************************************)
(* Proofs about PreparedPlans, for any names, queries and search paths.    *)
(***************************************************************************)
EXTENDS PreparedPlans, TLAPS

USE PreparedAssumption

\* GetCachedPlan only changes the path of the plan.
LEMMA RevalidatedPlan ==
  ASSUME TypeOK, NEW n \in Names, pg[n] # None
  PROVE  /\ Revalidated(n) \in [Names -> Plan \cup {None}]
         /\ Revalidated(n)[n] = [text |-> pg[n].text, path |-> path]
         /\ [text |-> pg[n].text, path |-> path] \in Plan
         /\ \A m \in Names : m # n => Revalidated(n)[m] = pg[m]
<1>1. pg \in [Names -> Plan \cup {None}] /\ pg[n] \in Plan /\ path \in Paths
  BY DEF TypeOK
<1>2. [pg[n] EXCEPT !.path = path] = [text |-> pg[n].text, path |-> path]
  BY <1>1 DEF Plan
<1>3. [text |-> pg[n].text, path |-> path] \in Plan
  BY <1>1 DEF Plan
<1>4. Revalidated(n) = [pg EXCEPT ![n] = [pg[n] EXCEPT !.path = path]]
  BY DEF Revalidated
<1>. QED
  BY <1>1, <1>2, <1>3, <1>4

\* What EXECUTE may leave in DuckDB.
LEMMA ReplannedPlan ==
  ASSUME TypeOK, NEW n \in Names, pg[n] # None
  PROVE  /\ Replanned(n) \in [Names -> Plan \cup {None}]
         /\ NeedReplan(n) => Replanned(n)[n] = [text |-> pg[n].text, path |-> path]
         /\ ~NeedReplan(n) => Replanned(n) = duck
         /\ \A m \in Names : m # n => Replanned(n)[m] = duck[m]
<1>1. duck \in [Names -> Plan \cup {None}]
  BY DEF TypeOK
<1>2. [text |-> pg[n].text, path |-> path] \in Plan
  BY RevalidatedPlan
<1>. QED
  BY <1>1, <1>2 DEF Replanned

LEMMA NextType == TypeOK /\ [Next]_vars => TypeOK'
<1> SUFFICES ASSUME TypeOK, [Next]_vars PROVE TypeOK'
  OBVIOUS
<1>1. ASSUME NEW p \in Paths, SetSearchPath(p) PROVE TypeOK'
  BY <1>1 DEF SetSearchPath, TypeOK
<1>2. ASSUME NEW n \in Names, NEW t \in Texts, Prepare(n, t) PROVE TypeOK'
  BY <1>2 DEF Prepare, TypeOK, Plan
<1>3. ASSUME NEW n \in Names, Execute(n) PROVE TypeOK'
  <2>1. /\ pg[n] # None
        /\ pg' = Revalidated(n)
        /\ path' = path
    BY <1>3 DEF Execute
  <2>2. pg' \in [Names -> Plan \cup {None}]
    BY <2>1, RevalidatedPlan
  <2>3. Replanned(n) \in [Names -> Plan \cup {None}] /\ [text |-> pg[n].text, path |-> path] \in Plan
    BY <2>1, RevalidatedPlan, ReplannedPlan
  <2>4. CASE ExecuteFails(n)
    BY <2>1, <2>2, <2>4 DEF ExecuteFails, Missed, TypeOK
  <2>5. CASE ExecuteInDuckDb(n)
    <3>1. duck' \in [Names -> Plan \cup {None}] /\ duck'[n] \in Plan
      BY <2>3, <2>5 DEF ExecuteInDuckDb
    <3>. QED BY <2>1, <2>2, <2>3, <2>5, <3>1 DEF ExecuteInDuckDb, TypeOK
  <2>6. CASE ExecuteElsewhere(n)
    BY <2>1, <2>2, <2>3, <2>6 DEF ExecuteElsewhere, TypeOK
  <2>7. CASE UNCHANGED <<duck, lapsed, answer>>
    BY <2>1, <2>2, <2>7 DEF TypeOK
  <2>. QED BY <1>3, <2>4, <2>5, <2>6, <2>7 DEF Execute
<1>4. ASSUME NEW n \in Names, ExplainExecute(n) PROVE TypeOK'
  <2>1. pg' \in [Names -> Plan \cup {None}]
    BY <1>4, RevalidatedPlan DEF ExplainExecute
  <2>. QED BY <1>4, <2>1 DEF ExplainExecute, Missed, TypeOK
<1>5. ASSUME NEW n \in Names, Deallocate(n) PROVE TypeOK'
  BY <1>5 DEF Deallocate, DeallocateSent, TypeOK
<1>6. CASE DeallocateAll
  BY <1>6 DEF DeallocateAll, TypeOK
<1>7. CASE UNCHANGED vars
  BY <1>7 DEF vars, TypeOK
<1>. QED
  BY <1>1, <1>2, <1>3, <1>4, <1>5, <1>6, <1>7 DEF Next

LEMMA InitType == Init => TypeOK
BY DEF Init, TypeOK

\* The plans and the histories are well typed.
THEOREM TypeCorrect == Spec => []TypeOK
BY InitType, NextType, PTL DEF Spec

-----------------------------------------------------------------------------
(* PlansAgree, strengthened: a name that Postgres does not know is unknown *)
(* to DuckDB too, or else PREPARE would find an old plan there.            *)

AgreeAt(n) ==
  n \notin lapsed =>
    /\ pg[n] = None => duck[n] = None
    /\ pg[n] # None /\ duck[n] # None /\ <<pg[n].text, pg[n].path>> \in Foreign
         => duck[n] = pg[n]

AgreeInv == \A n \in Names : AgreeAt(n)

LEMMA NextAgree == TypeOK /\ AgreeInv /\ [Next]_vars => AgreeInv'
<1> SUFFICES ASSUME TypeOK, AgreeInv, [Next]_vars, NEW m \in Names
             PROVE  AgreeAt(m)'
  BY DEF AgreeInv
<1>1. /\ AgreeAt(m)
      /\ pg \in [Names -> Plan \cup {None}] /\ duck \in [Names -> Plan \cup {None}]
  BY DEF AgreeInv, TypeOK
<1>2. ASSUME NEW p \in Paths, SetSearchPath(p) PROVE AgreeAt(m)'
  BY <1>1, <1>2 DEF SetSearchPath, AgreeAt
<1>3. ASSUME NEW n \in Names, NEW t \in Texts, Prepare(n, t) PROVE AgreeAt(m)'
  BY <1>1, <1>3 DEF Prepare, AgreeAt
<1>4. ASSUME NEW n \in Names, Execute(n) PROVE AgreeAt(m)'
  <2>1. /\ pg[n] # None
        /\ pg' = Revalidated(n)
        /\ path' = path
    BY <1>4 DEF Execute
  <2>2. CASE m # n
    <3>1. pg'[m] = pg[m]
      BY <2>1, <2>2, RevalidatedPlan
    <3>2. duck' \in {duck, Replanned(n)} /\ lapsed' \in {lapsed, Missed(n), lapsed \ {n}}
      BY <1>4 DEF Execute, ExecuteFails, ExecuteInDuckDb, ExecuteElsewhere
    <3>3. duck'[m] = duck[m]
      <4>1. Replanned(n)[m] = duck[m]
        BY <2>1, <2>2, ReplannedPlan
      <4>2. duck' = duck \/ duck' = Replanned(n)
        BY <3>2
      <4>. QED BY <4>1, <4>2
    <3>4. m \in lapsed' <=> m \in lapsed
      BY <2>2, <3>2 DEF Missed
    <3>. QED BY <1>1, <3>1, <3>3, <3>4 DEF AgreeAt
  <2>3. CASE m = n
    <3>1. /\ pg'[m] = [text |-> pg[m].text, path |-> path]
          /\ pg'[m].text = pg[m].text /\ pg'[m].path = path
          /\ pg'[m] # None
      BY <2>1, <2>3, RevalidatedPlan DEF Plan
    <3>2. CASE NeedReplan(m)
      <4>1. CASE duck'[m] = [text |-> pg[m].text, path |-> path]
        BY <3>1, <4>1 DEF AgreeAt
      <4>2. CASE IsDuckDbQuery(m) /\ m \in lapsed'
        BY <4>2 DEF AgreeAt
      <4>3. CASE ~IsDuckDbQuery(m)
        BY <3>1, <4>3 DEF AgreeAt, IsDuckDbQuery
      <4>. QED
        BY <1>4, <2>1, <2>3, <3>2, <4>1, <4>2, <4>3, ReplannedPlan
           DEF Execute, ExecuteFails, ExecuteInDuckDb, ExecuteElsewhere, Missed
    <3>3. CASE ~NeedReplan(m)
      <4>1. duck' = duck /\ lapsed' = lapsed
        BY <1>4, <2>1, <2>3, <3>3, ReplannedPlan
           DEF Execute, ExecuteFails, ExecuteInDuckDb, ExecuteElsewhere, Missed
      <4>2. pg[m].path = path /\ pg[m] \in Plan
        BY <1>1, <2>1, <2>3, <3>3 DEF NeedReplan
      <4>3. pg'[m] = pg[m]
        BY <3>1, <4>2 DEF Plan
      <4>. QED BY <1>1, <4>1, <4>3 DEF AgreeAt
    <3>. QED BY <3>2, <3>3
  <2>. QED BY <2>2, <2>3
<1>5. ASSUME NEW n \in Names, ExplainExecute(n) PROVE AgreeAt(m)'
  <2>1. pg[n] # None /\ pg' = Revalidated(n) /\ duck' = duck /\ lapsed' = Missed(n)
    BY <1>5 DEF ExplainExecute
  <2>2. CASE m # n
    BY <1>1, <2>1, <2>2, RevalidatedPlan DEF AgreeAt, Missed
  <2>3. CASE m = n
    <3>1. /\ pg'[m] = [text |-> pg[m].text, path |-> path]
          /\ pg'[m].text = pg[m].text /\ pg'[m].path = path
          /\ pg'[m] # None
      BY <2>1, <2>3, RevalidatedPlan DEF Plan
    <3>2. CASE NeedReplan(m)
      BY <2>1, <2>3, <3>1, <3>2 DEF AgreeAt, Missed, IsDuckDbQuery
    <3>3. CASE ~NeedReplan(m)
      <4>1. pg[m].path = path /\ pg[m] \in Plan
        BY <1>1, <2>1, <2>3, <3>3 DEF NeedReplan
      <4>2. pg'[m] = pg[m]
        BY <3>1, <4>1 DEF Plan
      <4>. QED BY <1>1, <2>1, <2>3, <3>3, <4>2 DEF AgreeAt, Missed
    <3>. QED BY <3>2, <3>3
  <2>. QED BY <2>2, <2>3
<1>6. ASSUME NEW n \in Names, Deallocate(n) PROVE AgreeAt(m)'
  BY <1>1, <1>6 DEF Deallocate, DeallocateSent, AgreeAt
<1>7. CASE DeallocateAll
  BY <1>1, <1>7 DEF DeallocateAll, AgreeAt
<1>8. CASE UNCHANGED vars
  BY <1>1, <1>8 DEF vars, AgreeAt
<1>. QED
  BY <1>2, <1>3, <1>4, <1>5, <1>6, <1>7, <1>8 DEF Next

\* Postgres and DuckDB hold the same plan of a statement over DuckDB tables,
\* unless DuckDB missed a change for one of the named causes.
THEOREM PlansAlwaysAgree == Spec => []PlansAgree
<1>1. Init => AgreeInv
  BY DEF Init, AgreeInv, AgreeAt
<1>2. AgreeInv => PlansAgree
  BY DEF AgreeInv, AgreeAt, PlansAgree
<1>. QED
  BY <1>1, <1>2, InitType, NextType, NextAgree, PTL DEF Spec

-----------------------------------------------------------------------------
(* The answers.                                                            *)

LEMMA NextAnswer ==
  TypeOK /\ AgreeInv /\ StaleAnswersHaveCause /\ [Next]_vars => StaleAnswersHaveCause'
<1> SUFFICES ASSUME TypeOK, AgreeInv, StaleAnswersHaveCause, [Next]_vars
             PROVE  StaleAnswersHaveCause'
  OBVIOUS
<1>1. ASSUME NEW n \in Names, Execute(n) PROVE StaleAnswersHaveCause'
  <2>1. pg[n] # None /\ pg[n] \in Plan
    BY <1>1 DEF Execute, TypeOK
  <2>2. CASE IsDuckDbQuery(n) /\ ExecuteInDuckDb(n)
    <3>1. n \notin lapsed' => duck'[n] = [text |-> pg[n].text, path |-> path]
      <4>1. CASE NeedReplan(n)
        BY <2>1, <2>2, <4>1, ReplannedPlan DEF ExecuteInDuckDb
      <4>2. CASE ~NeedReplan(n)
        <5>1. duck'[n] = duck[n] /\ duck[n] # None /\ lapsed' = lapsed
          BY <2>1, <2>2, <4>2, ReplannedPlan DEF ExecuteInDuckDb
        <5>2. pg[n].path = path /\ <<pg[n].text, pg[n].path>> \in Foreign
          BY <2>2, <4>2 DEF NeedReplan, IsDuckDbQuery
        <5>3. n \notin lapsed => duck[n] = pg[n]
          BY <2>1, <5>1, <5>2 DEF AgreeInv, AgreeAt
        <5>4. pg[n] = [text |-> pg[n].text, path |-> path]
          BY <2>1, <5>2 DEF Plan
        <5>. QED BY <5>1, <5>3, <5>4
      <4>. QED BY <4>1, <4>2
    <3>. DEFINE r == [name |-> n, by |-> duck'[n], wanted |-> [text |-> pg[n].text, path |-> path],
                      missed |-> n \in lapsed']
    <3>2. r.by # r.wanted => r.missed
      BY <3>1
    <3>3. answer' = r
      BY <2>2 DEF ExecuteInDuckDb
    <3>. HIDE DEF r
    <3>. QED BY <3>2, <3>3, Zenon DEF StaleAnswersHaveCause
  <2>3. CASE answer' = answer
    BY <2>3 DEF StaleAnswersHaveCause
  <2>. QED BY <1>1, <2>2, <2>3 DEF Execute, ExecuteFails, ExecuteElsewhere
<1>2. CASE answer' = answer
  BY <1>2 DEF StaleAnswersHaveCause
<1>. QED
  BY <1>1, <1>2
     DEF Next, SetSearchPath, Prepare, ExplainExecute, Deallocate, DeallocateAll, vars

\* An EXECUTE that DuckDB answers for another query or path comes after a change
\* that DuckDB missed for one of the named causes.
THEOREM StaleAnswersAlwaysHaveCause == Spec => []StaleAnswersHaveCause
<1>1. Init => AgreeInv /\ StaleAnswersHaveCause
  BY DEF Init, AgreeInv, AgreeAt, StaleAnswersHaveCause
<1>. QED
  BY <1>1, InitType, NextType, NextAgree, NextAnswer, PTL DEF Spec

-----------------------------------------------------------------------------
(* A session that only sets the path, prepares, executes and deallocates.  *)

\* DuckDB misses nothing.
PlainInv == lapsed = {} /\ (answer # None => ~answer.missed)

LEMMA NextPlain ==
  ASSUME Uses = {}, PlainInv, [Next]_vars
  PROVE  PlainInv'
<1>1. ASSUME NEW n \in Names, Execute(n) PROVE PlainInv'
  <2>1. lapsed' = {}
    BY <1>1 DEF Execute, ExecuteFails, ExecuteInDuckDb, ExecuteElsewhere, PlainInv
  <2>2. CASE ExecuteInDuckDb(n)
    <3>. DEFINE r == [name |-> n, by |-> duck'[n], wanted |-> [text |-> pg[n].text, path |-> path],
                      missed |-> n \in lapsed']
    <3>1. ~r.missed
      BY <2>1
    <3>2. answer' = r
      BY <2>2 DEF ExecuteInDuckDb
    <3>. HIDE DEF r
    <3>. QED BY <2>1, <3>1, <3>2, Zenon DEF PlainInv
  <2>3. CASE answer' = answer
    BY <2>1, <2>3 DEF PlainInv
  <2>. QED BY <1>1, <2>2, <2>3 DEF Execute, ExecuteFails, ExecuteElsewhere
<1>2. CASE \E n \in Names : Deallocate(n)
  BY <1>2 DEF Deallocate, DeallocateSent, PlainInv
<1>3. CASE UNCHANGED <<lapsed, answer>>
  BY <1>3 DEF PlainInv
<1>. QED
  BY <1>1, <1>2, <1>3
     DEF Next, SetSearchPath, Prepare, ExplainExecute, DeallocateAll, vars

\* Without a failing EXECUTE, EXPLAIN EXECUTE and DEALLOCATE ALL, every answer
\* of DuckDB is for the statement's query and the current path.
THEOREM PlainSessionsAreCurrent ==
  ASSUME Uses = {}
  PROVE  Spec => []AnswersAreCurrent
<1>1. Init => PlainInv
  BY DEF Init, PlainInv
<1>2. PlainInv /\ [Next]_vars => PlainInv'
  BY NextPlain
<1>3. PlainInv /\ StaleAnswersHaveCause => AnswersAreCurrent
  BY DEF PlainInv, StaleAnswersHaveCause, AnswersAreCurrent
<1>. QED
  BY <1>1, <1>2, <1>3, StaleAnswersAlwaysHaveCause, PTL DEF Spec

=============================================================================
