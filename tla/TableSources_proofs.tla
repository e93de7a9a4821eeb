------------------------- MODULE TableSources_proofs -------------------------
(***************************************************************************)
(* Proofs about TableSources: options always reach DuckDB, and a query     *)
(* over one server reads its files with the user mapping it was planned    *)
(* with, unless something else was registered in between.                  *)
(***************************************************************************)
EXTENDS TableSources, TLAPS

Secrets == Mappings \cup {NoMapping}
Phases == {"idle", "starting", "open"}

\* Definitions of tables are of many kinds: only the domain is typed.
PerTable(f) == f = [t \in Tables |-> f[t]]

Types ==
  /\ handler \in Wrappers
  /\ mapping \in [Servers -> Secrets]
  /\ options \in [Tables -> SUBSET STRING]
  /\ PerTable(view)
  /\ secret \in Secrets
  /\ phase \in [Queries -> Phases]
  /\ plan \in [Queries -> [Tables -> Secrets]]
  /\ begun \in [Queries -> SUBSET Tables]
  /\ misread \in [Queries -> SUBSET Tables]
  /\ alone \in [Queries -> BOOLEAN]

\* What the phase of a query says of its scans.
PhaseInv == \A q \in Queries :
  /\ phase[q] = "idle" => begun[q] = {} /\ misread[q] = {} /\ alone[q]
  /\ phase[q] = "starting" => begun[q] \subseteq Uses[q] /\ begun[q] # Uses[q] /\ misread[q] = {}
  /\ phase[q] = "open" => begun[q] = Uses[q] /\ Uses[q] # {}

\* DuckDB's view of an existing table is that of the table.
ViewInv == \A t \in Tables : options[t] # NoTable =>
  /\ Valid(handler[ServerOf[t]], options[t])
  /\ view[t] \in {Missing, ViewOf(t, options[t])}

\* Scans planned together on one server have one mapping.
PlanInv == \A q \in Queries : \A t, u \in Tables :
  ServerOf[t] = ServerOf[u] => plan[q][t] = plan[q][u]

\* Once one of its scans has begun, and nothing else was registered, the mapping
\* of a query over one server is DuckDB's secret.
Kept(q) ==
  OneServer(q) /\ alone[q] /\ begun[q] # {} => \A t \in Uses[q] :
    plan[q][t] # NoMapping => secret = plan[q][t] /\ t \notin misread[q]

SecretInv == \A q \in Queries : Kept(q)

IInv == Types /\ PhaseInv /\ ViewInv /\ PlanInv /\ SecretInv

USE SourcesAssumption

LEMMA InitInv == Init => IInv
PROOF
<1> SUFFICES ASSUME Init PROVE IInv
  OBVIOUS
<1>1. Types
  BY DEF Init, Types, PerTable, Secrets, Phases, NoPlan, NoTable
<1>2. PhaseInv
  BY DEF Init, PhaseInv
<1>3. ViewInv
  BY DEF Init, ViewInv, NoTable
<1>4. PlanInv
  BY DEF Init, PlanInv, NoPlan
<1>5. SecretInv
  BY DEF Init, SecretInv, Kept
<1> QED BY <1>1, <1>2, <1>3, <1>4, <1>5 DEF IInv

\* A query whose own state stays is kept if it was disturbed or the secret stays.
LEMMA KeptFrame ==
  ASSUME NEW q, Kept(q),
         plan'[q] = plan[q], begun'[q] = begun[q], misread'[q] = misread[q],
         alone'[q] => alone[q],
         alone'[q] /\ begun[q] # {} => secret' = secret
  PROVE  Kept(q)'
BY DEF Kept, OneServer

-----------------------------------------------------------------------------
(* What several steps have in common.                                      *)

\* Changing a definition changes no other.
LEMMA PerTableExcept ==
  ASSUME NEW f, PerTable(f), NEW t \in Tables, NEW v
  PROVE  /\ PerTable([f EXCEPT ![t] = v])
         /\ [f EXCEPT ![t] = v][t] = v
         /\ \A u \in Tables \ {t} : [f EXCEPT ![t] = v][u] = f[u]
BY DEF PerTable

\* Closing queries keeps what holds of queries, if the others keep their secret.
LEMMA CloseKeeps ==
  ASSUME IInv,
         NEW S \in SUBSET Queries, NEW left \in [Queries -> BOOLEAN], Close(S, left),
         \A q \in Queries : left[q] => alone[q],
         \A q \in Queries : phase[q] = "idle" => left[q],
         \A q \in Queries \ S : left[q] /\ begun[q] # {} => secret' = secret
  PROVE  /\ PhaseInv' /\ PlanInv' /\ SecretInv'
         /\ phase' \in [Queries -> Phases] /\ plan' \in [Queries -> [Tables -> Secrets]]
         /\ begun' \in [Queries -> SUBSET Tables] /\ misread' \in [Queries -> SUBSET Tables]
         /\ alone' \in [Queries -> BOOLEAN]
PROOF
<1>1. /\ phase' \in [Queries -> Phases] /\ plan' \in [Queries -> [Tables -> Secrets]]
      /\ begun' \in [Queries -> SUBSET Tables] /\ misread' \in [Queries -> SUBSET Tables]
      /\ alone' \in [Queries -> BOOLEAN]
  BY DEF Close, IInv, Types, Phases, NoPlan, Secrets
<1>2. PhaseInv'
  <2> SUFFICES ASSUME NEW q \in Queries
               PROVE  PhaseInv!(q)'
    BY DEF PhaseInv
  <2>1. CASE q \in S
    BY <2>1 DEF Close
  <2>2. CASE q \notin S
    BY <2>2 DEF Close, IInv, PhaseInv
  <2> QED BY <2>1, <2>2
<1>3. PlanInv'
  BY DEF Close, IInv, PlanInv, Types, NoPlan
<1>4. ASSUME NEW q \in Queries
      PROVE  Kept(q)'
  <2>1. CASE q \in S
    BY <2>1 DEF Close, Kept
  <2>2. CASE q \notin S
    BY <2>2, KeptFrame DEF Close, IInv, SecretInv
  <2> QED BY <2>1, <2>2
<1> QED BY <1>1, <1>2, <1>3, <1>4 DEF SecretInv

\* Registering for no query leaves every query alone or disturbed for good.
LEMMA OthersKeepSecret ==
  ASSUME IInv, NEW t \in Tables, NEW m \in Secrets,
         SetSecret(t, m), alone' = Undisturbed(m, {}),
         UNCHANGED Portals
  PROVE  /\ PhaseInv' /\ PlanInv' /\ SecretInv'
         /\ secret' \in Secrets /\ alone' \in [Queries -> BOOLEAN]
PROOF
<1>1. secret' \in Secrets /\ alone' \in [Queries -> BOOLEAN]
  BY DEF SetSecret, IInv, Types, Undisturbed
<1>2. PhaseInv' /\ PlanInv'
  BY DEF IInv, PhaseInv, PlanInv, Portals, Undisturbed, Types
<1>3. ASSUME NEW q \in Queries
      PROVE  Kept(q)'
  <2>1. /\ plan'[q] = plan[q] /\ begun'[q] = begun[q] /\ misread'[q] = misread[q]
        /\ alone'[q] = (alone[q] /\ (m = NoMapping \/ begun[q] = {}))
    BY DEF Portals, Undisturbed
  <2>2. m = NoMapping => secret' = secret
    BY DEF SetSecret
  <2> QED BY <2>1, <2>2, KeptFrame DEF IInv, SecretInv
<1> QED BY <1>1, <1>2, <1>3 DEF SecretInv

\* Nothing is lost while queries and secret stay as they are.
LEMMA IdleKeeps ==
  ASSUME IInv, UNCHANGED <<secret, alone>>, UNCHANGED Portals
  PROVE  PhaseInv' /\ PlanInv' /\ SecretInv'
BY DEF IInv, PhaseInv, PlanInv, SecretInv, Kept, Portals, OneServer

-----------------------------------------------------------------------------
(* The steps.                                                               *)

LEMMA CreateKeeps ==
  ASSUME IInv, NEW t \in Tables, NEW o \in Offered[t],
         CreateTable(t, o) \/ CreateTableFails(t, o)
  PROVE  IInv'
PROOF
<1> DEFINE m == mapping[ServerOf[t]]
<1>1. m \in Secrets
  BY DEF IInv, Types
<1>2. /\ SetSecret(t, m) /\ alone' = Undisturbed(m, {}) /\ UNCHANGED Portals
      /\ UNCHANGED <<handler, mapping>>
      /\ Valid(handler[ServerOf[t]], o)
  BY DEF CreateTable, CreateTableFails, Create
<1>3. PhaseInv' /\ PlanInv' /\ SecretInv' /\ secret' \in Secrets /\ alone' \in [Queries -> BOOLEAN]
  <2> HIDE DEF m
  <2> QED BY <1>1, <1>2, OthersKeepSecret
<1>4. /\ \E v : view' = [view EXCEPT ![t] = v]
      /\ options' \in {options, [options EXCEPT ![t] = o]}
  BY DEF CreateTable, CreateTableFails
<1>5. Types'
  <2> DEFINE O == SUBSET STRING
  <2>1. o \in O /\ options \in [Tables -> O]
    BY DEF IInv, Types
  <2>2. options' \in [Tables -> O]
    <3> HIDE DEF O
    <3> QED BY <1>4, <2>1
  <2>3. PerTable(view')
    <3>1. PICK v : view' = [view EXCEPT ![t] = v]
      BY <1>4
    <3> QED BY <3>1, PerTableExcept DEF IInv, Types
  <2>4. /\ handler' \in Wrappers /\ mapping' \in [Servers -> Secrets]
        /\ phase' \in [Queries -> Phases] /\ plan' \in [Queries -> [Tables -> Secrets]]
        /\ begun' \in [Queries -> SUBSET Tables] /\ misread' \in [Queries -> SUBSET Tables]
    BY <1>2 DEF IInv, Types, Portals
  <2> QED BY <1>3, <2>2, <2>3, <2>4 DEF Types
<1>6. ViewInv'
  <2>0. PerTable(view) /\ DOMAIN options = Tables
    BY DEF IInv, Types
  <2>1. ASSUME NEW u \in Tables, u # t
        PROVE  view'[u] = view[u] /\ options'[u] = options[u]
    <3>1. PICK v : view' = [view EXCEPT ![t] = v]
      BY <1>4
    <3>2. view'[u] = view[u]
      BY <2>0, <2>1, <3>1, PerTableExcept
    <3>3. options'[u] = options[u]
      BY <1>4, <2>0, <2>1
    <3> QED BY <3>2, <3>3
  <2>2. CASE CreateTable(t, o)
    <3>0. view' = [view EXCEPT ![t] = ViewOf(t, o)]
      BY <2>2 DEF CreateTable
    <3>1. view'[t] = ViewOf(t, o)
      BY <2>0, <3>0, PerTableExcept
    <3>2. options' = [options EXCEPT ![t] = o]
      BY <2>2 DEF CreateTable
    <3>3. options'[t] = o
      BY <2>0, <3>2
    <3> QED BY <1>2, <2>1, <3>1, <3>3 DEF IInv, ViewInv, ViewOf
  <2>3. CASE CreateTableFails(t, o)
    <3>1. options'[t] = NoTable
      BY <2>3 DEF CreateTableFails, Create
    <3> QED BY <1>2, <2>1, <3>1 DEF IInv, ViewInv, ViewOf
  <2> QED BY <2>2, <2>3
<1> QED BY <1>3, <1>5, <1>6 DEF IInv

LEMMA RefusedKeeps ==
  ASSUME IInv, NEW t \in Tables, NEW o \in Offered[t], CreateTableRefused(t, o)
  PROVE  IInv'
PROOF
<1>1. PhaseInv' /\ PlanInv' /\ SecretInv'
  BY IdleKeeps DEF CreateTableRefused
<1>2. view' = [view EXCEPT ![t] = Missing] /\ PerTable(view)
      /\ UNCHANGED <<handler, mapping, options, secret, phase, plan, begun, misread, alone>>
  BY DEF IInv, Types, Portals, Catalog, CreateTableRefused
<1>3. Types'
  <2>1. PerTable(view')
    BY <1>2, PerTableExcept
  <2> QED BY <1>2, <2>1 DEF IInv, Types
<1>4. ViewInv'
  <2>1. \A u \in Tables : view'[u] \in {view[u], Missing}
    BY <1>2, PerTableExcept
  <2> QED BY <1>2, <2>1 DEF IInv, ViewInv, ViewOf
<1> QED BY <1>1, <1>3, <1>4 DEF IInv

LEMMA DropKeeps ==
  ASSUME IInv, NEW t \in Tables, DropTable(t)
  PROVE  IInv'
PROOF
<1>1. PhaseInv' /\ PlanInv' /\ SecretInv'
  BY IdleKeeps DEF DropTable
<1>2. Types'
  BY DEF IInv, Types, Portals, DropTable, NoTable
<1>3. ViewInv'
  BY DEF IInv, Types, ViewInv, DropTable, ViewOf
<1> QED BY <1>1, <1>2, <1>3 DEF IInv

LEMMA MappingKeeps ==
  ASSUME IInv, NEW s \in Servers, NEW m \in Secrets, ChangeMapping(s, m)
  PROVE  IInv'
PROOF
<1>1. PhaseInv' /\ PlanInv' /\ SecretInv'
  BY IdleKeeps DEF ChangeMapping
<1>2. Types'
  BY DEF IInv, Types, Portals, ChangeMapping
<1>3. ViewInv'
  BY DEF IInv, ViewInv, ChangeMapping, ViewOf
<1> QED BY <1>1, <1>2, <1>3 DEF IInv

LEMMA PlanKeeps ==
  ASSUME IInv, NEW q \in Queries, Plan(q)
  PROVE  IInv'
PROOF
<1>1. Types'
  <2>1. plan' \in [Queries -> [Tables -> Secrets]]
    BY DEF IInv, Types, Plan
  <2>2. phase' \in [Queries -> Phases]
    BY DEF IInv, Types, Plan, Phases
  <2> QED BY <2>1, <2>2 DEF IInv, Types, Plan, Catalog
<1>2. PhaseInv'
  BY DEF IInv, Types, PhaseInv, Plan
<1>3. ViewInv'
  BY DEF IInv, ViewInv, Plan, Catalog, ViewOf
<1>4. PlanInv'
  BY DEF IInv, Types, PlanInv, Plan
<1>5. ASSUME NEW r \in Queries
      PROVE  Kept(r)'
  <2>1. CASE r = q
    BY <2>1 DEF IInv, PhaseInv, Plan, Kept
  <2>2. CASE r # q
    <3>1. plan'[r] = plan[r]
      BY <2>2 DEF IInv, Types, Plan
    <3> QED BY <3>1, KeptFrame DEF IInv, SecretInv, Plan
  <2> QED BY <2>1, <2>2
<1> QED BY <1>1, <1>2, <1>3, <1>4, <1>5 DEF IInv, SecretInv

LEMMA BeginKeeps ==
  ASSUME IInv, NEW q \in Queries, NEW t \in Tables, BeginScan(q, t)
  PROVE  IInv'
PROOF
<1>1. /\ begun' = [begun EXCEPT ![q] = @ \cup {t}]
      /\ alone' = Undisturbed(plan[q][t], {q})
      /\ SetSecret(t, plan[q][t])
      /\ \E v : view' = [view EXCEPT ![t] = v]
      /\ UNCHANGED <<plan, misread, handler, mapping, options>>
  BY DEF BeginScan, Catalog
<1>2. Types'
  <2>1. secret' \in Secrets /\ begun' \in [Queries -> SUBSET Tables]
    BY <1>1 DEF IInv, Types, SetSecret
  <2>2. phase' \in [Queries -> Phases]
    BY DEF IInv, Types, BeginScan, Phases
  <2>3. alone' \in [Queries -> BOOLEAN]
    BY <1>1 DEF IInv, Types, Undisturbed
  <2>4. PerTable(view')
    <3>1. PICK v : view' = [view EXCEPT ![t] = v]
      BY <1>1
    <3> QED BY <3>1, PerTableExcept DEF IInv, Types
  <2> QED BY <1>1, <2>1, <2>2, <2>3, <2>4 DEF IInv, Types
<1>3. PhaseInv'
  <2> SUFFICES ASSUME NEW r \in Queries
               PROVE  PhaseInv!(r)'
    BY DEF PhaseInv
  <2>1. CASE r = q
    <3>1. /\ begun[q] \subseteq Uses[q] /\ misread[q] = {} /\ t \in Uses[q]
          /\ begun'[q] = begun[q] \cup {t} /\ misread'[q] = misread[q]
      BY <1>1 DEF IInv, Types, PhaseInv, BeginScan
    <3>2. phase'[q] = IF Uses[q] = begun'[q] THEN "open" ELSE "starting"
      BY DEF IInv, Types, BeginScan
    <3> QED BY <2>1, <3>1, <3>2
  <2>2. CASE r # q
    <3>1. /\ phase'[r] = phase[r] /\ begun'[r] = begun[r] /\ misread'[r] = misread[r]
      BY <1>1, <2>2 DEF IInv, Types, BeginScan
    <3>2. alone'[r] = (alone[r] /\ (plan[q][t] = NoMapping \/ begun[r] = {}))
      BY <1>1, <2>2 DEF Undisturbed
    <3> QED BY <3>1, <3>2 DEF IInv, PhaseInv
  <2> QED BY <2>1, <2>2
<1>4. ViewInv'
  BY DEF IInv, Types, ViewInv, BeginScan, Catalog, ViewOf
<1>5. PlanInv'
  BY <1>1 DEF IInv, PlanInv
<1>6. ASSUME NEW r \in Queries
      PROVE  Kept(r)'
  <2>1. CASE r = q
    <3>1. misread[q] = {} /\ t \in Uses[q]
      BY DEF IInv, PhaseInv, BeginScan
    <3>2. OneServer(q) => \A u \in Uses[q] : plan[q][u] = plan[q][t]
      BY <3>1 DEF IInv, PlanInv, OneServer
    <3> QED BY <1>1, <2>1, <3>1, <3>2 DEF Kept, SetSecret, OneServer
  <2>2. CASE r # q
    <3>1. /\ begun'[r] = begun[r]
          /\ alone'[r] = (alone[r] /\ (plan[q][t] = NoMapping \/ begun[r] = {}))
      BY <1>1, <2>2 DEF IInv, Types, Undisturbed
    <3>2. plan[q][t] = NoMapping => secret' = secret
      BY <1>1 DEF SetSecret
    <3> QED BY <1>1, <3>1, <3>2, KeptFrame DEF IInv, SecretInv
  <2> QED BY <2>1, <2>2
<1> QED BY <1>2, <1>3, <1>4, <1>5, <1>6 DEF IInv, SecretInv

LEMMA BeginFailsKeeps ==
  ASSUME IInv, NEW q \in Queries, NEW t \in Tables, BeginScanFails(q, t)
  PROVE  IInv'
PROOF
<1> DEFINE left == Undisturbed(plan[q][t], {q})
<1>1. /\ left \in [Queries -> BOOLEAN] /\ Close({q}, left)
      /\ \A r \in Queries : left[r] => alone[r]
      /\ \A r \in Queries : phase[r] = "idle" => left[r]
      /\ \A r \in Queries \ {q} : left[r] /\ begun[r] # {} => secret' = secret
  BY DEF IInv, Types, PhaseInv, Undisturbed, BeginScanFails, SetSecret
<1>2. /\ PhaseInv' /\ PlanInv' /\ SecretInv'
      /\ phase' \in [Queries -> Phases] /\ plan' \in [Queries -> [Tables -> Secrets]]
      /\ begun' \in [Queries -> SUBSET Tables] /\ misread' \in [Queries -> SUBSET Tables]
      /\ alone' \in [Queries -> BOOLEAN]
  <2> HIDE DEF left
  <2> QED BY <1>1, CloseKeeps
<1>3. Types'
  BY <1>2 DEF IInv, Types, BeginScanFails, Catalog, SetSecret
<1>4. ViewInv'
  BY DEF IInv, ViewInv, BeginScanFails, Catalog, ViewOf
<1> QED BY <1>2, <1>3, <1>4 DEF IInv

LEMMA OpenKeeps ==
  ASSUME IInv, NEW q \in Queries, NEW t \in Tables, OpenFiles(q, t)
  PROVE  IInv'
PROOF
<1>1. Types'
  BY DEF IInv, Types, OpenFiles, Catalog
<1>2. PhaseInv'
  BY DEF IInv, Types, PhaseInv, OpenFiles
<1>3. ViewInv'
  BY DEF IInv, ViewInv, OpenFiles, Catalog, ViewOf
<1>4. PlanInv'
  BY DEF IInv, PlanInv, OpenFiles
<1>5. ASSUME NEW r \in Queries
      PROVE  Kept(r)'
  <2>1. UNCHANGED <<secret, plan, begun, alone>>
    BY DEF OpenFiles
  <2>2. misread'[r] # misread[r] => /\ r = q /\ misread'[r] = misread[r] \cup {t}
                                    /\ secret # plan[q][t]
    BY DEF IInv, Types, OpenFiles
  <2>3. t \in Uses[q] /\ begun[q] # {}
    BY DEF IInv, PhaseInv, OpenFiles
  <2>4. CASE misread'[r] = misread[r]
    BY <2>1, <2>4, KeptFrame DEF IInv, SecretInv
  <2>5. CASE misread'[r] # misread[r]
    BY <2>1, <2>2, <2>3, <2>5 DEF IInv, SecretInv, Kept, OneServer
  <2> QED BY <2>4, <2>5
<1> QED BY <1>1, <1>2, <1>3, <1>4, <1>5 DEF IInv, SecretInv

LEMMA EndKeeps ==
  ASSUME IInv, NEW S \in SUBSET Queries, Close(S, alone), UNCHANGED Catalog,
         \/ UNCHANGED <<view, secret>>
         \/ S = Queries /\ secret' = NoMapping /\ view' = [t \in Tables |-> Missing]
  PROVE  IInv'
PROOF
<1>1. /\ alone \in [Queries -> BOOLEAN]
      /\ \A r \in Queries : phase[r] = "idle" => alone[r]
      /\ \A r \in Queries \ S : alone[r] /\ begun[r] # {} => secret' = secret
  BY DEF IInv, Types, PhaseInv
<1>2. /\ PhaseInv' /\ PlanInv' /\ SecretInv'
      /\ phase' \in [Queries -> Phases] /\ plan' \in [Queries -> [Tables -> Secrets]]
      /\ begun' \in [Queries -> SUBSET Tables] /\ misread' \in [Queries -> SUBSET Tables]
      /\ alone' \in [Queries -> BOOLEAN]
  BY <1>1, CloseKeeps
<1>3. Types'
  <2>1. PerTable(view') /\ secret' \in Secrets
    BY DEF IInv, Types, PerTable, Secrets
  <2> QED BY <1>2, <2>1 DEF IInv, Types, Catalog
<1>4. ViewInv'
  BY DEF IInv, ViewInv, Catalog, ViewOf
<1> QED BY <1>2, <1>3, <1>4 DEF IInv

LEMMA StepInv == IInv /\ [Next]_vars => IInv'
PROOF
<1> SUFFICES ASSUME IInv, [Next]_vars PROVE IInv'
  OBVIOUS
<1>1. ASSUME NEW t \in Tables, NEW o \in Offered[t],
             CreateTable(t, o) \/ CreateTableFails(t, o) \/ CreateTableRefused(t, o)
      PROVE  IInv'
  BY <1>1, CreateKeeps, RefusedKeeps
<1>2. ASSUME NEW t \in Tables, DropTable(t)
      PROVE  IInv'
  BY <1>2, DropKeeps
<1>3. ASSUME NEW s \in Servers, NEW m \in Secrets, ChangeMapping(s, m)
      PROVE  IInv'
  BY <1>3, MappingKeeps
<1>4. CASE Reconnect
  BY <1>4, EndKeeps DEF Reconnect
<1>5. ASSUME NEW q \in Queries, Plan(q)
      PROVE  IInv'
  BY <1>5, PlanKeeps
<1>6. ASSUME NEW q \in Queries, End(q)
      PROVE  IInv'
  <2>1. {q} \in SUBSET Queries
    OBVIOUS
  <2> QED BY <1>6, <2>1, EndKeeps DEF End
<1>7. ASSUME NEW q \in Queries, NEW t \in Tables,
             BeginScan(q, t) \/ BeginScanFails(q, t) \/ OpenFiles(q, t)
      PROVE  IInv'
  BY <1>7, BeginKeeps, BeginFailsKeeps, OpenKeeps
<1>8. CASE UNCHANGED vars
  <2>1. PhaseInv' /\ PlanInv' /\ SecretInv'
    BY <1>8, IdleKeeps DEF vars, Portals
  <2> QED BY <1>8, <2>1 DEF vars, IInv, Types, ViewInv, ViewOf
<1> QED BY <1>1, <1>2, <1>3, <1>4, <1>5, <1>6, <1>7, <1>8 DEF Next, Secrets

LEMMA InvAlways == Spec => []IInv
BY InitInv, StepInv, PTL DEF Spec

-----------------------------------------------------------------------------
(* Theorems.                                                                *)

\* TypeOK holds for all sets of servers, tables, mappings and queries.
THEOREM TypeCorrect == Spec => []TypeOK
PROOF
<1>1. IInv => TypeOK
  BY DEF IInv, Types, PhaseInv, ViewInv, TypeOK, Secrets, Phases
<1> QED BY <1>1, InvAlways, PTL

\* No builder drops an option that the validator of its handler knows.
LEMMA KnownArePassed ==
  \A h \in Handlers : Known[h] \ Arguments[h] \subseteq {"select", "preserve_casing"}
PROOF
<1>1. ASSUME NEW o \in Known["csv"]
      PROVE  o \in Arguments["csv"] \cup {"select", "preserve_casing"}
  BY SMTT(60) DEF Known, Arguments, CsvOption, CsvArguments
<1> QED BY <1>1 DEF Handlers, Known, Arguments, JsonOption, JsonArguments, ParquetOption,
  ParquetArguments, DeltaOption, DeltaArguments, IcebergOption, IcebergArguments,
  SpatialOption, SpatialArguments

\* Every option of an accepted table reaches DuckDB, whenever it is registered.
THEOREM OptionsAlwaysReachDuckDB == Spec => []OptionsReachDuckDB
PROOF
<1>1. ASSUME IInv, NEW t \in Tables, options[t] # NoTable
      PROVE  OptionsReachDuckDB!(t)!2
  <2> DEFINE h == handler[ServerOf[t]]
             v == IF view[t] = Missing THEN ViewOf(t, options[t]) ELSE view[t]
  <2>1. h \in Handlers /\ Valid(h, options[t])
    BY <1>1 DEF IInv, Types, ViewInv
  <2>2. v = ViewOf(t, options[t])
    BY <1>1 DEF IInv, ViewInv
  <2>3. v = [reader |-> Reader[h], args |-> options[t] \cap Arguments[h],
             select |-> h # "spatial" /\ "select" \in options[t]]
    BY <2>1, <2>2 DEF ViewOf, CreateView, Valid
  <2>4. h = "spatial" => "select" \notin options[t]
    BY <2>1 DEF Valid, Known, SpatialOption
  <2> HIDE DEF h, v
  <2>5. options[t] \ v.args \subseteq {"select", "preserve_casing"}
    BY <2>1, <2>3, KnownArePassed DEF Valid
  <2>6. v.reader = Reader[h] /\ v.args \subseteq options[t]
    BY <2>3
  <2>7. v.select = (h # "spatial" /\ "select" \in options[t])
    BY <2>3
  <2>8. v.select <=> "select" \in options[t]
    BY <2>4, <2>7, Zenon
  <2> QED BY <2>5, <2>6, <2>8 DEF v, h
<1>2. IInv => OptionsReachDuckDB
  BY <1>1 DEF OptionsReachDuckDB
<1> QED BY <1>2, InvAlways, PTL

\* A query over one server reads its files with the mapping it was planned with,
\* unless something else was registered after its first begin_scan.
THEOREM FilesAlwaysReadWithMapping == Spec => []FilesReadWithMapping
PROOF
<1>1. IInv => FilesReadWithMapping
  BY DEF IInv, PhaseInv, SecretInv, Kept, FilesReadWithMapping
<1> QED BY <1>1, InvAlways, PTL

=============================================================================
