----------------------------- MODULE LakeSession -----------------------------
(***************************************************************************)
(* What a backend of pg_lakehouse (src/datafusion) keeps between queries:  *)
(* one DataFusion session with the object stores and the table providers   *)
(* that planning, begin_scan, connect_table and arrow_schema put there,    *)
(* while foreign tables, user mappings and files change.                   *)
(*                                                                         *)
(* The module is one backend; changes of the catalog by others are seen as *)
(* if made here.  Servers keep their options, a user mapping is that of    *)
(* the current user.  A mapping is what the options say, a schema what a   *)
(* file of it would be inferred to have.  Rows are in LakeScan.            *)
(***************************************************************************)
EXTENDS Naturals, LakeStores

CONSTANTS
  Servers, HandlerOf,
  ServerOptions,   \* of each server, had it each handler
  Mappings, MappingOptions,  \* user mappings and the options they set
  Mapped,        \* those each server may be given
  Buckets, Urls,
  BucketOf,      \* scheme and host of a URL
  Directories,   \* the URLs that end in a slash
  Grants,        \* the mappings the service accepts for a bucket
  Schemas,
  Contents,      \* what may be found at each URL
  Gone,          \* of a URL: no file is there
  NoFields,      \* of a table: inferred from a directory without files
  Names, Offered,  \* tables and the definitions they may be given
  Absent, None,
  Inspected,       \* the server, URL and format of calls of arrow_schema
  Queries, Uses,   \* the tables of a query
  MaxOid

Extensions == {"avro", "csv", "json", "parquet"}

Defs == [server : Servers, url : Urls, extension : STRING, delta : BOOLEAN,
         columns : SUBSET Schemas]  \* those can_convert_to_attribute accepts

Store ==
  [server : Servers, mapping : Mappings, options : SUBSET STRING, lost : BOOLEAN]

Provider == [url : Urls, schema : Schemas \cup {NoFields}]

ASSUME SessionAssumption ==
  /\ HandlerOf \in [Servers -> Handlers]
  /\ ServerOptions \in [Servers -> [Handlers -> SUBSET STRING]]
  /\ \A s \in Servers, h \in Handlers : ValidServer(h, ServerOptions[s][h])
  /\ MappingOptions \in [Mappings -> SUBSET STRING]
  /\ Mapped \in [Servers -> SUBSET Mappings]
  /\ BucketOf \in [Urls -> Buckets]
  /\ Grants \in [Buckets -> SUBSET Mappings]
  /\ Offered \in [Names -> SUBSET Defs]
  /\ Uses \in [Queries -> SUBSET Names]
  /\ Contents \in [Urls -> SUBSET (Schemas \cup {Gone})]
  /\ Inspected \subseteq Servers \X Urls \X BOOLEAN
  /\ Gone \notin Schemas /\ NoFields \notin Schemas
  /\ None \notin Store /\ None \notin Provider
  /\ MaxOid \in Nat

VARIABLES
  table,     \* catalog: oid and definition of each table, or Absent
  oids,      \* catalog: the number of oids used
  mapping,   \* catalog: the user mapping of each server
  file,      \* the lake: the schema of the files at each URL, or Gone
  urls,      \* LakehouseObjectStoreRegistry.urls
  store,     \* its registry, by scheme and host
  provider,  \* LakehouseSchemaProvider.tables, by oid
  phase,     \* of a query
  todo,      \* its tables that the phase has yet to come to
  plan,      \* of its tables, the stores registered when it was planned
  misread,   \* history: its tables that were read with another store
  refused,   \* history: those whose begin_scan failed though store and file were good
  disturbed, \* history: those whose store was replaced by another since
  altered    \* history: the oids whose definition changed

Catalog == <<table, oids, mapping>>
Registry == <<urls, store>>
Portals == <<phase, todo, plan, misread, refused>>
vars == <<table, oids, mapping, file, urls, store, provider, phase, todo, plan, misread,
          refused, disturbed, altered>>

Phases == {"idle", "planning", "planned", "starting", "open", "scanning"}

Oids == 1..MaxOid

\* One backend: planning and begin_scan of a statement are not interrupted.
Busy == \E q \in Queries : phase[q] \in {"planning", "starting"}

\* Executors that hold locks on their tables.
Locking(q) == phase[q] \in {"planning", "starting", "open", "scanning"}

-----------------------------------------------------------------------------
(* Object stores.                                                           *)

\* The options that register_object_store of a wrapper hands to the service.
Passed(h, s, m) == (ServerOptions[s][h] \cup MappingOptions[m]) \cap Builder[h]

\* The store that it builds for a table of server s.
Built(s, m, delta) ==
  [server |-> s, mapping |-> m, options |-> Passed(HandlerOf[s], s, m),
   lost |-> Misrooted(HandlerOf[s], delta, MappingOptions[m])]

Def(n) == table[n].def
Bucket(n) == BucketOf[Def(n).url]
OwnStore(n) == Built(Def(n).server, mapping[Def(n).server], Def(n).delta)

\* Tables of open or planned queries that lose their store to x.
Disturbed(b, x) ==
  [q \in Queries |-> disturbed[q] \cup
     {n \in Uses[q] : plan[q][n] # None /\ Bucket(n) = b /\ plan[q][n] # x}]

\* Mutant: a URL that is there already keeps its store.
RegisterOnce(u, x) ==
  /\ urls' = urls \cup {u}
  /\ store' = IF u \in urls THEN store ELSE [store EXCEPT ![BucketOf[u]] = x]

\* register_store: the URL is noted whole, the store by scheme and host.
Register(u, x) ==
  /\ urls' = urls \cup {u}
  /\ store' = [store EXCEPT ![BucketOf[u]] = x]

-----------------------------------------------------------------------------
(* LakehouseSchemaProvider::table_impl.                                     *)

\* The store that the files are looked for in: its own, only if nothing ever was
\* registered for that URL.
StoreFor(n) == IF Def(n).url \in urls THEN store[Bucket(n)] ELSE OwnStore(n)

\* What infer_schema may find with it.
Inferred(n) ==
  LET s == StoreFor(n) u == Def(n).url IN
  IF Def(n).extension \notin Extensions \/ s.mapping \notin Grants[Bucket(n)] THEN {}
  ELSE IF s.lost \/ file[u] = Gone THEN IF u \in Directories THEN {NoFields} ELSE {}
  ELSE {file[u]}

\* can_convert_to_attribute for every field that has a column at its place.
Fit(n, s) == s = NoFields \/ s \in Def(n).columns

Cached(n) == provider[table[n].oid] # None

Connect(n) ==
  IF Def(n).url \in urls THEN UNCHANGED <<urls, store, disturbed>>
  ELSE /\ Register(Def(n).url, OwnStore(n))
       /\ disturbed' = Disturbed(Bucket(n), OwnStore(n))

\* Mutant: the provider is handed out and not kept.
LoadUncached(n) ==
  IF Cached(n) THEN UNCHANGED <<urls, store, disturbed, provider>>
  ELSE Connect(n) /\ ~(\A s \in Inferred(n) : ~Fit(n, s)) /\ UNCHANGED provider

\* Mutant: the provider is kept before its columns are checked.
LoadUnchecked(n) ==
  IF Cached(n) THEN UNCHANGED <<urls, store, disturbed, provider>>
  ELSE /\ Connect(n)
       /\ \E s \in Inferred(n) :
            provider' = [provider EXCEPT ![table[n].oid] = [url |-> Def(n).url, schema |-> s]]

Load(n) ==
  IF Cached(n) THEN UNCHANGED <<urls, store, disturbed, provider>>
  ELSE /\ Connect(n)
       /\ \E s \in Inferred(n) :
            /\ Fit(n, s)
            /\ provider' = [provider EXCEPT ![table[n].oid] = [url |-> Def(n).url, schema |-> s]]

\* An error, of the network perhaps, leaves the store and no provider.
LoadFails(n) ==
  /\ ~Cached(n)
  /\ Connect(n)
  /\ UNCHANGED provider

\* It has to fail.
Unloadable(n) == \A s \in Inferred(n) : ~Fit(n, s)

-----------------------------------------------------------------------------
(* The catalog and the lake.                                                *)

CreateTable(n, d) ==
  /\ ~Busy /\ table[n] = Absent /\ oids < MaxOid
  /\ table' = [table EXCEPT ![n] = [oid |-> oids + 1, def |-> d]]
  /\ oids' = oids + 1
  /\ UNCHANGED <<mapping, file, Registry, provider, Portals, disturbed, altered>>

\* Plans over a table that changes are thrown away.
Invalidate(n) ==
  LET gone == {q \in Queries : n \in Uses[q] /\ phase[q] = "planned"} IN
  /\ \A q \in Queries : n \in Uses[q] => ~Locking(q)
  /\ phase' = [q \in Queries |-> IF q \in gone THEN "idle" ELSE phase[q]]
  /\ plan' = [q \in Queries |-> IF q \in gone THEN [t \in Names |-> None] ELSE plan[q]]
  /\ disturbed' = [q \in Queries |-> IF q \in gone THEN {} ELSE disturbed[q]]
  /\ refused' = [q \in Queries |-> IF q \in gone THEN {} ELSE refused[q]]
  /\ UNCHANGED <<todo, misread>>

DropTable(n) ==
  /\ ~Busy /\ table[n] # Absent
  /\ Invalidate(n)
  /\ table' = [table EXCEPT ![n] = Absent]
  /\ UNCHANGED <<oids, mapping, file, Registry, provider, altered>>

\* ALTER FOREIGN TABLE, of its options or columns.
AlterTable(n, d) ==
  /\ ~Busy /\ table[n] # Absent /\ d # Def(n) /\ d.server = Def(n).server
  /\ Invalidate(n)
  /\ table' = [table EXCEPT ![n].def = d]
  /\ altered' = altered \cup {table[n].oid}
  /\ UNCHANGED <<oids, mapping, file, Registry, provider>>

ChangeMapping(s, m) ==
  /\ mapping[s] # m
  /\ mapping' = [mapping EXCEPT ![s] = m]
  /\ UNCHANGED <<table, oids, file, Registry, provider, Portals, disturbed, altered>>

ChangeFile(u, s) ==
  /\ file[u] # s
  /\ file' = [file EXCEPT ![u] = s]
  /\ UNCHANGED <<Catalog, Registry, provider, Portals, disturbed, altered>>

-----------------------------------------------------------------------------
(* Statements.                                                              *)

Plan(q) ==
  /\ ~Busy /\ phase[q] = "idle" /\ Uses[q] # {}
  /\ \A n \in Uses[q] : table[n] # Absent
  /\ phase' = [phase EXCEPT ![q] = "planning"]
  /\ todo' = [todo EXCEPT ![q] = Uses[q]]
  /\ UNCHANGED <<Catalog, file, Registry, provider, plan, misread, refused, disturbed, altered>>

\* Mutant: the store is left to table_impl.
PlanTableLazily(q, n) ==
  /\ phase[q] = "planning" /\ n \in todo[q]
  /\ Connect(n)
  /\ plan' = [plan EXCEPT ![q][n] = OwnStore(n)]
  /\ todo' = [todo EXCEPT ![q] = @ \ {n}]
  /\ phase' = [phase EXCEPT ![q] = IF todo[q] = {n} THEN "planned" ELSE "planning"]
  /\ UNCHANGED <<Catalog, file, provider, misread, refused, altered>>

\* The wrapper is made (new): it registers the store, whatever is there.
PlanTable(q, n) ==
  /\ phase[q] = "planning" /\ n \in todo[q]
  /\ Register(Def(n).url, OwnStore(n))
  /\ plan' = [plan EXCEPT ![q][n] = OwnStore(n)]
  /\ disturbed' = Disturbed(Bucket(n), OwnStore(n))
  /\ todo' = [todo EXCEPT ![q] = @ \ {n}]
  /\ phase' = [phase EXCEPT ![q] = IF todo[q] = {n} THEN "planned" ELSE "planning"]
  /\ UNCHANGED <<Catalog, file, provider, misread, refused, altered>>

\* The query is over, for good or until its plan is executed again.
Finish(q) ==
  /\ phase' = [phase EXCEPT ![q] = IF @ \in {"planning", "planned"} THEN "idle" ELSE "planned"]
  /\ todo' = [todo EXCEPT ![q] = {}]
  /\ plan' = [plan EXCEPT ![q] = IF phase'[q] = "idle" THEN [n \in Names |-> None] ELSE @]
  /\ misread' = [misread EXCEPT ![q] = {}]

\* The builder refuses its options, or the rest of planning fails; or a plan is
\* not needed any more.
Forget(q) ==
  /\ phase[q] \in {"planning", "planned"}
  /\ Finish(q)
  /\ refused' = [refused EXCEPT ![q] = {}]
  /\ disturbed' = [disturbed EXCEPT ![q] = {}]
  /\ UNCHANGED <<Catalog, file, Registry, provider, altered>>

\* ExecutorStart begins the scans, whether or not the hook will need them.
Start(q) ==
  /\ ~Busy /\ phase[q] = "planned"
  /\ phase' = [phase EXCEPT ![q] = "starting"]
  /\ todo' = [todo EXCEPT ![q] = Uses[q]]
  /\ refused' = [refused EXCEPT ![q] = {}]
  /\ UNCHANGED <<Catalog, file, Registry, provider, plan, misread, disturbed, altered>>

BeginScan(q, n) ==
  /\ phase[q] = "starting" /\ n \in todo[q]
  /\ Load(n)
  /\ todo' = [todo EXCEPT ![q] = @ \ {n}]
  /\ phase' = [phase EXCEPT ![q] = IF todo[q] = {n} THEN "open" ELSE "starting"]
  /\ UNCHANGED <<Catalog, file, plan, misread, refused, altered>>

\* The store the query was planned with would have done.
Loadable(q, n) ==
  /\ Def(n).extension \in Extensions
  /\ plan[q][n].mapping \in Grants[Bucket(n)] /\ ~plan[q][n].lost
  /\ file[Def(n).url] \in Def(n).columns

BeginScanFails(q, n) ==
  /\ phase[q] = "starting" /\ n \in todo[q]
  /\ LoadFails(n)
  /\ refused' = [refused EXCEPT ![q] = IF Unloadable(n) /\ Loadable(q, n) THEN {n} ELSE {}]
  /\ Finish(q)
  /\ UNCHANGED <<Catalog, file, altered>>

\* DataFusion looks up the store of a provider when a stream is made.
Misread(q, n) == store[BucketOf[provider[table[n].oid].url]] # plan[q][n]

\* The executor hook has DataFusion collect the answer from all tables.
Collect(q) ==
  /\ ~Busy /\ phase[q] = "open"
  /\ misread' = [misread EXCEPT ![q] = @ \cup {n \in Uses[q] : Misread(q, n)}]
  /\ UNCHANGED <<Catalog, file, Registry, provider, phase, todo, plan, refused, disturbed, altered>>

\* DataFusion cannot answer: the scans make their streams when first asked.
FallBack(q) ==
  /\ ~Busy /\ phase[q] = "open"
  /\ phase' = [phase EXCEPT ![q] = "scanning"]
  /\ todo' = [todo EXCEPT ![q] = Uses[q]]
  /\ UNCHANGED <<Catalog, file, Registry, provider, plan, misread, refused, disturbed, altered>>

CreateStream(q, n) ==
  /\ ~Busy /\ phase[q] = "scanning" /\ n \in todo[q]
  /\ todo' = [todo EXCEPT ![q] = @ \ {n}]
  /\ misread' = [misread EXCEPT ![q] = IF Misread(q, n) THEN @ \cup {n} ELSE @]
  /\ UNCHANGED <<Catalog, file, Registry, provider, phase, plan, refused, disturbed, altered>>

\* ExecutorEnd, or an error at any point.
End(q) ==
  /\ ~Busy /\ phase[q] \in {"open", "scanning"}
  /\ Finish(q)
  /\ UNCHANGED <<Catalog, file, Registry, provider, refused, disturbed, altered>>

-----------------------------------------------------------------------------
(* Functions, and the end of the backend.                                   *)

\* CALL connect_table: table_impl without a plan.
ConnectTable(n) ==
  /\ ~Busy /\ table[n] # Absent
  /\ Load(n) \/ LoadFails(n)
  /\ UNCHANGED <<Catalog, file, Portals, altered>>

\* arrow_schema of any URL with any server, which registers its store.
ArrowSchema(s, u, delta) ==
  /\ ~Busy
  /\ LET x == Built(s, mapping[s], delta) IN
     /\ Register(u, x)
     /\ disturbed' = Disturbed(BucketOf[u], x)
  /\ UNCHANGED <<Catalog, file, provider, Portals, altered>>

Reconnect ==
  /\ urls' = {}
  /\ store' = [b \in Buckets |-> None]
  /\ provider' = [o \in Oids |-> None]
  /\ phase' = [q \in Queries |-> "idle"]
  /\ todo' = [q \in Queries |-> {}]
  /\ plan' = [q \in Queries |-> [n \in Names |-> None]]
  /\ misread' = [q \in Queries |-> {}]
  /\ refused' = [q \in Queries |-> {}]
  /\ disturbed' = [q \in Queries |-> {}]
  /\ UNCHANGED <<Catalog, file, altered>>

-----------------------------------------------------------------------------
Init ==
  /\ table = [n \in Names |-> Absent]
  /\ oids = 0
  /\ mapping \in {m \in [Servers -> Mappings] : \A s \in Servers : m[s] \in Mapped[s]}
  /\ file \in {f \in [Urls -> Schemas \cup {Gone}] : \A u \in Urls : f[u] \in Contents[u]}
  /\ urls = {}
  /\ store = [b \in Buckets |-> None]
  /\ provider = [o \in Oids |-> None]
  /\ phase = [q \in Queries |-> "idle"]
  /\ todo = [q \in Queries |-> {}]
  /\ plan = [q \in Queries |-> [n \in Names |-> None]]
  /\ misread = [q \in Queries |-> {}]
  /\ refused = [q \in Queries |-> {}]
  /\ disturbed = [q \in Queries |-> {}]
  /\ altered = {}

Next ==
  \/ \E n \in Names : \E d \in Offered[n] : CreateTable(n, d) \/ AlterTable(n, d)
  \/ \E n \in Names : DropTable(n) \/ ConnectTable(n)
  \/ \E s \in Servers : \E m \in Mapped[s] : ChangeMapping(s, m)
  \/ \E u \in Urls : \E s \in Contents[u] : ChangeFile(u, s)
  \/ \E i \in Inspected : ArrowSchema(i[1], i[2], i[3])
  \/ \E q \in Queries : Plan(q) \/ Forget(q) \/ Start(q) \/ Collect(q) \/ FallBack(q) \/ End(q)
  \/ \E q \in Queries, n \in Names :
       PlanTable(q, n) \/ BeginScan(q, n) \/ BeginScanFails(q, n) \/ CreateStream(q, n)
  \/ Reconnect

Spec == Init /\ [][Next]_vars

-----------------------------------------------------------------------------
(* Correctness.                                                             *)

\* Every URL that was registered has a store, every query that reads its tables
\* has their providers and plans.
TypeOK ==
  /\ oids \in 0..MaxOid
  /\ mapping \in [Servers -> Mappings]
  /\ \A n \in Names : table[n] # Absent => table[n].oid \in 1..oids /\ Def(n) \in Offered[n]
  /\ \A u \in urls : store[BucketOf[u]] # None
  /\ phase \in [Queries -> Phases]
  /\ \A q \in Queries : todo[q] \subseteq Uses[q]
  /\ \A q \in Queries : \A n \in Uses[q] :
       /\ phase[q] # "idle" => table[n] # Absent
       /\ phase[q] \in {"planned", "starting", "open", "scanning"} => plan[q][n] # None
       /\ phase[q] \in {"open", "scanning"} => Cached(n)

\* A table is read at its own path, with a schema its own columns were checked
\* against, whatever tables of its name, or of its URL, there were before it in
\* the session, and whichever of its loads failed; unless ALTER FOREIGN TABLE
\* changed it, which the provider never learns.  (schema.rs: providers by oid,
\* kept only after the check.)
ProvidersAreOwn ==
  \A n \in Names : table[n] # Absent /\ Cached(n) /\ table[n].oid \notin altered =>
    LET p == provider[table[n].oid] IN p.url = Def(n).url /\ Fit(n, p.schema)

\* Whatever the handler, all options that count in a server and in the mapping it
\* has reach the service: none that a validator accepts is without effect.
StoresAreComplete ==
  \A s \in Servers, h \in Handlers :
    LET o == ServerOptions[s][h] \cup MappingOptions[mapping[s]] IN
    Passed(h, s, mapping[s]) = o \cap Known(h)

\* A query, however late it makes its streams, reads every table with the store
\* it was planned with - the options of the server and the mapping of that time
\* - unless another table of the bucket, or arrow_schema, replaced that store
\* by a different one in between.
StoresAreOwn ==
  \A q \in Queries : \A n \in misread[q] :
    n \in disturbed[q] \/ table[n].oid \in altered

\* A failure is forgotten: once the mapping or the file is mended, the next
\* query over the table gets through, although the store that failed was
\* registered; because planning registers again.
RetriesSucceed == \A q \in Queries : refused[q] \subseteq disturbed[q]

=============================================================================
