------------------------- MODULE LakeSession_proofs -------------------------
(***************************************************************************)
(* Proofs about LakeSession, for any servers, mappings, buckets, tables    *)
(* and queries: tables have providers of their own, queries the stores     *)
(* they were planned with, and a failed query can be tried again.          *)
(***************************************************************************)
EXTENDS LakeSession, TLAPS

\* The catalog: an oid is used once.
CatalogInv ==
  /\ oids \in 0..MaxOid
  /\ mapping \in [Servers -> Mappings]
  /\ table = [n \in Names |-> table[n]]
  /\ \A n \in Names : table[n] # Absent =>
       /\ table[n] = [oid |-> table[n].oid, def |-> table[n].def]
       /\ table[n].oid \in 1..oids /\ table[n].def \in Offered[n]
  /\ \A n, m \in Names : table[n] # Absent /\ table[m] # Absent /\ n # m =>
       table[n].oid # table[m].oid

\* The registry: a URL that is noted has a store.
RegistryInv ==
  /\ urls \subseteq Urls
  /\ store \in [Buckets -> Store \cup {None}]
  /\ \A u \in urls : store[BucketOf[u]] # None

\* The providers: none for an oid that is not used yet.
ProviderInv ==
  /\ provider \in [Oids -> Provider \cup {None}]
  /\ \A o \in Oids : o > oids => provider[o] = None

PortalTypes ==
  /\ phase \in [Queries -> Phases]
  /\ todo \in [Queries -> SUBSET Names]
  /\ plan \in [Queries -> [Names -> Store \cup {None}]]
  /\ misread \in [Queries -> SUBSET Names]
  /\ refused \in [Queries -> SUBSET Names]
  /\ disturbed \in [Queries -> SUBSET Names]

\* How far a query is, and what it has by then.
PhaseInv(q) ==
  /\ todo[q] \subseteq Uses[q] /\ misread[q] \subseteq Uses[q]
  /\ phase[q] \notin {"open", "scanning"} => misread[q] = {}
  /\ \A n \in Names : plan[q][n] # None => n \in Uses[q] /\ phase[q] # "idle"
  /\ \A n \in Uses[q] :
       /\ phase[q] # "idle" => table[n] # Absent
       /\ phase[q] \in {"planned", "starting", "open", "scanning"} => plan[q][n] # None
       /\ phase[q] = "planning" /\ n \notin todo[q] => plan[q][n] # None
       /\ phase[q] = "starting" /\ n \notin todo[q] => Cached(n)
       /\ phase[q] \in {"open", "scanning"} => Cached(n)

\* The stores of the tables of a planned query are there, if nobody replaced them.
StoreInv(q) ==
  \A n \in Names : plan[q][n] # None =>
    /\ Def(n).url \in urls
    /\ n \notin disturbed[q] => store[Bucket(n)] = plan[q][n]

HistoryInv(q) ==
  /\ refused[q] \subseteq disturbed[q]
  /\ \A n \in misread[q] : n \in disturbed[q] \/ table[n].oid \in altered

QueryInv(q) == PhaseInv(q) /\ StoreInv(q) /\ HistoryInv(q)

SessionInv ==
  /\ CatalogInv /\ RegistryInv /\ ProviderInv /\ ProvidersAreOwn /\ PortalTypes
  /\ \A q \in Queries : QueryInv(q)

-----------------------------------------------------------------------------
LEMMA TableConstants ==
  /\ \A n \in Names : \A d \in Offered[n] :
       /\ d.server \in Servers /\ d.url \in Urls /\ d.delta \in BOOLEAN
       /\ d.columns \in SUBSET Schemas
  /\ \A u \in Urls : BucketOf[u] \in Buckets
  /\ \A s \in Servers : Mapped[s] \subseteq Mappings
  /\ \A q \in Queries : Uses[q] \subseteq Names
BY SessionAssumption DEF Defs

LEMMA Distinct == None \notin Store /\ None \notin Provider /\ Gone \notin Schemas
BY SessionAssumption

\* The store that a wrapper builds is one.
LEMMA BuiltIsStore ==
  ASSUME NEW s \in Servers, NEW m \in Mappings, NEW delta \in BOOLEAN
  PROVE  Built(s, m, delta) \in Store
PROOF
<1>1. MappingOptions[m] \in SUBSET STRING /\ HandlerOf[s] \in Handlers
  BY SessionAssumption
<1>2. ServerOptions[s][HandlerOf[s]] \in SUBSET STRING
  BY <1>1, SessionAssumption
<1>3. Passed(HandlerOf[s], s, m) \in SUBSET STRING
  BY <1>1, <1>2 DEF Passed
<1>4. Misrooted(HandlerOf[s], delta, MappingOptions[m]) \in BOOLEAN
  BY DEF Misrooted
<1>. QED BY <1>3, <1>4 DEF Built, Store

LEMMA TableHasStore ==
  ASSUME CatalogInv, NEW n \in Names, table[n] # Absent
  PROVE  /\ Def(n) \in Offered[n] /\ Def(n).url \in Urls
         /\ Bucket(n) \in Buckets /\ OwnStore(n) \in Store
         /\ table[n].oid \in Oids
PROOF
<1>1. table[n].def \in Offered[n] /\ table[n].oid \in 1..oids /\ oids \in 0..MaxOid
  BY DEF CatalogInv
<1>2. Def(n).server \in Servers /\ Def(n).url \in Urls /\ Def(n).delta \in BOOLEAN
  BY <1>1, TableConstants DEF Def
<1>3. mapping[Def(n).server] \in Mappings
  BY <1>2 DEF CatalogInv
<1>4. OwnStore(n) \in Store
  BY <1>2, <1>3, BuiltIsStore DEF OwnStore
<1>5. table[n].oid \in Oids
  <2>1. MaxOid \in Nat
    BY SessionAssumption
  <2>. QED BY <1>1, <2>1 DEF Oids
<1>6. Bucket(n) \in Buckets
  BY <1>2, TableConstants DEF Bucket
<1>. QED BY <1>1, <1>2, <1>4, <1>5, <1>6 DEF Def

-----------------------------------------------------------------------------
(* What a registration does to queries.                                     *)

Registered(u, x) == Register(u, x) /\ disturbed' = Disturbed(BucketOf[u], x)

LEMMA RegisteredStores ==
  ASSUME CatalogInv, RegistryInv, PortalTypes, NEW u \in Urls, NEW x \in Store, Registered(u, x)
  PROVE  /\ RegistryInv'
         /\ urls \subseteq urls'
         /\ disturbed' \in [Queries -> SUBSET Names]
         /\ \A q \in Queries : disturbed[q] \subseteq disturbed'[q]
PROOF
<1>1. /\ urls' = urls \cup {u} /\ store' = [store EXCEPT ![BucketOf[u]] = x]
      /\ disturbed' = Disturbed(BucketOf[u], x)
  BY DEF Registered, Register
<1>2. BucketOf[u] \in Buckets /\ x # None
  BY TableConstants, Distinct
<1>3. RegistryInv'
  <2>1. store' \in [Buckets -> Store \cup {None}]
    BY <1>1 DEF RegistryInv
  <2>2. \A b \in Buckets : store'[b] = IF b = BucketOf[u] THEN x ELSE store[b]
    BY <1>1 DEF RegistryInv
  <2>3. \A v \in urls' : BucketOf[v] \in Buckets /\ store'[BucketOf[v]] # None
    BY <1>1, <1>2, <2>2, TableConstants DEF RegistryInv
  <2>. QED BY <1>1, <2>1, <2>3 DEF RegistryInv
<1>4. \A q \in Queries : disturbed'[q] = disturbed[q] \cup
        {n \in Uses[q] : plan[q][n] # None /\ Bucket(n) = BucketOf[u] /\ plan[q][n] # x}
  BY <1>1 DEF Disturbed
<1>5. disturbed' \in [Queries -> SUBSET Names]
  <2>1. \A q \in Queries : disturbed'[q] \in SUBSET Names
    BY <1>4, TableConstants DEF PortalTypes
  <2>2. disturbed' = [q \in Queries |-> disturbed'[q]]
    BY <1>1 DEF Disturbed
  <2>. QED BY <2>1, <2>2
<1>. QED BY <1>1, <1>3, <1>4, <1>5

\* A store that is replaced disturbs those who planned with another.
LEMMA RegisteredQuery ==
  ASSUME CatalogInv, RegistryInv, PortalTypes, NEW u \in Urls, NEW x \in Store, Registered(u, x),
         UNCHANGED table, NEW q \in Queries, PhaseInv(q), StoreInv(q),
         NEW n \in Names, plan[q][n] # None
  PROVE  /\ Def(n)'.url \in urls'
         /\ n \notin disturbed'[q] => store'[Bucket(n)'] = plan[q][n]
PROOF
<1>1. /\ urls' = urls \cup {u} /\ store' = [store EXCEPT ![BucketOf[u]] = x]
      /\ disturbed' = Disturbed(BucketOf[u], x)
  BY DEF Registered, Register
<1>2. Def(n)' = Def(n) /\ Bucket(n)' = Bucket(n)
  BY DEF Def, Bucket
<1>3. n \in Uses[q] /\ table[n] # Absent
  BY DEF PhaseInv
<1>4. Bucket(n) \in Buckets
  BY <1>3, TableHasStore
<1>5. disturbed'[q] = disturbed[q] \cup
        {t \in Uses[q] : plan[q][t] # None /\ Bucket(t) = BucketOf[u] /\ plan[q][t] # x}
  BY <1>1 DEF Disturbed
<1>6. Def(n).url \in urls /\ (n \notin disturbed[q] => store[Bucket(n)] = plan[q][n])
  BY DEF StoreInv
<1>7. ASSUME n \notin disturbed'[q] PROVE store'[Bucket(n)] = plan[q][n]
  <2>1. store'[Bucket(n)] = IF Bucket(n) = BucketOf[u] THEN x ELSE store[Bucket(n)]
    BY <1>1, <1>4 DEF RegistryInv
  <2>. QED BY <1>3, <1>5, <1>6, <1>7, <2>1
<1>. QED BY <1>1, <1>2, <1>6, <1>7

\* Nothing of a query changes but what others did to its stores and providers.
LEMMA QueryKept ==
  ASSUME NEW q \in Queries, PhaseInv(q), HistoryInv(q), StoreInv(q)', UNCHANGED table,
         phase'[q] = phase[q], todo'[q] = todo[q], plan'[q] = plan[q],
         misread'[q] = misread[q], refused'[q] = refused[q],
         disturbed[q] \subseteq disturbed'[q], altered \subseteq altered',
         \A n \in Uses[q] : table[n] # Absent /\ Cached(n) => Cached(n)'
  PROVE  QueryInv(q)'
PROOF
<1>1. PhaseInv(q)'
  BY DEF PhaseInv
<1>2. HistoryInv(q)'
  BY DEF HistoryInv
<1>. QED BY <1>1, <1>2 DEF QueryInv

LEMMA RegisterKept ==
  ASSUME SessionInv, NEW u \in Urls, NEW x \in Store, Registered(u, x), UNCHANGED <<table, plan>>
  PROVE  /\ RegistryInv'
         /\ urls \subseteq urls'
         /\ disturbed' \in [Queries -> SUBSET Names]
         /\ \A q \in Queries : disturbed[q] \subseteq disturbed'[q] /\ StoreInv(q)'
PROOF
<1>1. CatalogInv /\ RegistryInv /\ PortalTypes /\ \A q \in Queries : PhaseInv(q) /\ StoreInv(q)
  BY DEF SessionInv, QueryInv
<1>2. ASSUME NEW q \in Queries PROVE StoreInv(q)'
  <2>1. ASSUME NEW n \in Names, plan[q][n] # None
        PROVE  /\ Def(n)'.url \in urls'
               /\ n \notin disturbed'[q] => store'[Bucket(n)'] = plan[q][n]
    BY <1>1, <2>1, RegisteredQuery
  <2>. QED BY <2>1 DEF StoreInv
<1>. QED BY <1>1, <1>2, RegisteredStores

\* connect_table_provider's store: registered if its URL never was.
LEMMA ConnectKept ==
  ASSUME SessionInv, NEW n \in Names, table[n] # Absent, Connect(n), UNCHANGED <<table, plan>>
  PROVE  /\ RegistryInv'
         /\ disturbed' \in [Queries -> SUBSET Names]
         /\ \A q \in Queries : disturbed[q] \subseteq disturbed'[q] /\ StoreInv(q)'
PROOF
<1>1. CASE Def(n).url \in urls
  <2>1. UNCHANGED <<urls, store, disturbed>>
    BY <1>1 DEF Connect
  <2>2. RegistryInv'
    BY <2>1 DEF SessionInv, RegistryInv
  <2>3. \A q \in Queries : StoreInv(q)'
    BY <2>1 DEF SessionInv, QueryInv, StoreInv, Def, Bucket
  <2>. QED BY <2>1, <2>2, <2>3 DEF SessionInv, PortalTypes
<1>2. CASE Def(n).url \notin urls
  <2>1. Registered(Def(n).url, OwnStore(n))
    BY <1>2 DEF Connect, Registered, Bucket
  <2>2. Def(n).url \in Urls /\ OwnStore(n) \in Store
    BY TableHasStore DEF SessionInv
  <2>. QED BY <2>1, <2>2, RegisterKept
<1>. QED BY <1>1, <1>2

\* A provider that is kept is of its table's URL and fits its columns.
LEMMA LoadKept ==
  ASSUME SessionInv, NEW n \in Names, table[n] # Absent, Load(n),
         UNCHANGED <<table, oids, altered>>
  PROVE  /\ ProviderInv' /\ ProvidersAreOwn' /\ Cached(n)'
         /\ \A m \in Names : table[m] # Absent /\ Cached(m) => Cached(m)'
PROOF
<1>1. CASE Cached(n)
  <2>1. UNCHANGED provider
    BY <1>1 DEF Load
  <2>. QED BY <1>1, <2>1 DEF SessionInv, ProviderInv, ProvidersAreOwn, Cached, Fit, Def
<1>2. CASE ~Cached(n)
  <2>1. PICK s \in Inferred(n) :
          /\ Fit(n, s)
          /\ provider' = [provider EXCEPT ![table[n].oid] = [url |-> Def(n).url, schema |-> s]]
    BY <1>2 DEF Load
  <2> DEFINE x == [url |-> Def(n).url, schema |-> s]
  <2>2. Def(n) \in Offered[n] /\ Def(n).url \in Urls /\ table[n].oid \in Oids
    BY TableHasStore DEF SessionInv
  <2>3. s \in Schemas \cup {NoFields}
    <3>1. Def(n).columns \in SUBSET Schemas
      BY <2>2, TableConstants
    <3>. QED BY <2>1, <3>1 DEF Fit
  <2>4. x \in Provider /\ x # None
    BY <2>2, <2>3, Distinct DEF Provider
  <2>5. x.url = Def(n).url /\ x.schema = s
    OBVIOUS
  <2> HIDE DEF x
  <2>6. /\ provider' = [provider EXCEPT ![table[n].oid] = x]
        /\ provider' \in [Oids -> Provider \cup {None}]
        /\ \A o \in Oids : provider'[o] = IF o = table[n].oid THEN x ELSE provider[o]
    BY <2>1, <2>4 DEF SessionInv, ProviderInv, x
  <2>7. \A m \in Names : table[m] # Absent => table[m].oid \in Oids
    BY TableHasStore DEF SessionInv
  <2>8. ProviderInv'
    <3>1. table[n].oid \in 1..oids /\ oids \in 0..MaxOid /\ MaxOid \in Nat
      BY SessionAssumption DEF SessionInv, CatalogInv
    <3>2. \A o \in Oids : o > oids => o # table[n].oid
      BY <3>1 DEF Oids
    <3>. QED BY <2>6, <3>2 DEF SessionInv, ProviderInv
  <2>9. Cached(n)'
    BY <2>2, <2>4, <2>6 DEF Cached
  <2>10. ASSUME NEW m \in Names, table[m] # Absent, Cached(m) PROVE Cached(m)'
    BY <2>4, <2>6, <2>7, <2>10 DEF Cached
  <2>11. ASSUME NEW m \in Names, table[m] # Absent, Cached(m)', table[m].oid \notin altered
         PROVE  provider'[table[m].oid].url = Def(m).url /\ Fit(m, provider'[table[m].oid].schema)
    <3>1. CASE m = n
      BY <2>1, <2>2, <2>5, <2>6, <3>1
    <3>2. CASE m # n
      <4>1. table[m].oid # table[n].oid /\ table[m].oid \in Oids
        BY <2>7, <2>11, <3>2 DEF SessionInv, CatalogInv
      <4>2. provider'[table[m].oid] = provider[table[m].oid]
        BY <2>6, <4>1
      <4>3. Cached(m)
        BY <2>11, <4>2 DEF Cached
      <4>. QED BY <2>11, <4>2, <4>3 DEF SessionInv, ProvidersAreOwn
    <3>. QED BY <3>1, <3>2
  <2>12. ProvidersAreOwn'
    BY <2>11 DEF ProvidersAreOwn, Cached, Fit, Def
  <2>. QED BY <2>8, <2>9, <2>10, <2>12
<1>. QED BY <1>1, <1>2

\* The catalog and the providers stay as they are.
LEMMA CatalogKept ==
  ASSUME SessionInv, UNCHANGED <<table, oids, mapping>>
  PROVE  CatalogInv'
BY DEF SessionInv, CatalogInv

LEMMA ProvidersKept ==
  ASSUME SessionInv, UNCHANGED <<table, oids, provider, altered>>
  PROVE  ProviderInv' /\ ProvidersAreOwn'
BY DEF SessionInv, ProviderInv, ProvidersAreOwn, Cached, Fit, Def

LEMMA StoresKept ==
  ASSUME SessionInv, NEW q \in Queries, UNCHANGED <<table, urls, store>>,
         plan'[q] = plan[q], disturbed'[q] = disturbed[q]
  PROVE  StoreInv(q)'
BY DEF SessionInv, QueryInv, StoreInv, Def, Bucket

\* A step of one query.
LEMMA OtherQueryKept ==
  ASSUME SessionInv, NEW q \in Queries, UNCHANGED <<table, urls, store, provider, altered>>,
         phase'[q] = phase[q], todo'[q] = todo[q], plan'[q] = plan[q],
         misread'[q] = misread[q], refused'[q] = refused[q], disturbed'[q] = disturbed[q]
  PROVE  QueryInv(q)'
PROOF
<1>1. StoreInv(q)'
  BY StoresKept
<1>2. \A n \in Uses[q] : Cached(n) => Cached(n)'
  BY DEF Cached
<1>. QED BY <1>1, <1>2, QueryKept DEF SessionInv, QueryInv

LEMMA InitSession == Init => SessionInv
PROOF
<1> SUFFICES ASSUME Init PROVE SessionInv
  OBVIOUS
<1>1. CatalogInv
  <2>1. MaxOid \in Nat /\ mapping \in [Servers -> Mappings]
    BY SessionAssumption, TableConstants DEF Init
  <2>. QED BY <2>1 DEF Init, CatalogInv
<1>2. RegistryInv
  BY DEF Init, RegistryInv
<1>3. ProviderInv
  BY DEF Init, ProviderInv
<1>4. ProvidersAreOwn
  BY DEF Init, ProvidersAreOwn
<1>5. PortalTypes
  BY DEF Init, PortalTypes, Phases
<1>6. ASSUME NEW q \in Queries PROVE QueryInv(q)
  <2>1. PhaseInv(q)
    BY DEF Init, PhaseInv
  <2>2. StoreInv(q) /\ HistoryInv(q)
    BY DEF Init, StoreInv, HistoryInv
  <2>. QED BY <2>1, <2>2 DEF QueryInv
<1>. QED BY <1>1, <1>2, <1>3, <1>4, <1>5, <1>6 DEF SessionInv

-----------------------------------------------------------------------------
(* Steps that leave the catalog alone.                                      *)

\* A table is looked up without a plan, or a schema asked for: whatever store is
\* registered, the queries stay as they are.
LEMMA ConnectTableSession ==
  ASSUME SessionInv, NEW n \in Names, ConnectTable(n)
  PROVE  SessionInv'
PROOF
<1>1. /\ table[n] # Absent
      /\ Load(n) \/ LoadFails(n)
      /\ UNCHANGED <<table, oids, mapping, phase, todo, plan, misread, refused, altered>>
  BY DEF ConnectTable, Catalog, Portals
<1>2. /\ ProviderInv' /\ ProvidersAreOwn'
      /\ \A m \in Names : table[m] # Absent /\ Cached(m) => Cached(m)'
  <2>1. CASE Load(n)
    BY <1>1, <2>1, LoadKept
  <2>2. CASE LoadFails(n)
    BY <1>1, <2>2, ProvidersKept DEF LoadFails, Cached
  <2>. QED BY <1>1, <2>1, <2>2
<1>3. Connect(n) \/ UNCHANGED <<urls, store, disturbed>>
  BY <1>1 DEF Load, LoadFails
<1>4. /\ RegistryInv' /\ disturbed' \in [Queries -> SUBSET Names]
      /\ \A q \in Queries : disturbed[q] \subseteq disturbed'[q] /\ StoreInv(q)'
  <2>1. CASE Connect(n)
    BY <1>1, <2>1, ConnectKept
  <2>2. CASE UNCHANGED <<urls, store, disturbed>>
    BY <1>1, <2>2, StoresKept DEF SessionInv, RegistryInv, PortalTypes
  <2>. QED BY <1>3, <2>1, <2>2
<1>5. PortalTypes'
  BY <1>1, <1>4 DEF SessionInv, PortalTypes
<1>6. ASSUME NEW q \in Queries PROVE QueryInv(q)'
  BY <1>1, <1>2, <1>4, QueryKept, TableConstants DEF SessionInv, QueryInv
<1>7. CatalogInv'
  BY <1>1, CatalogKept
<1>. QED BY <1>2, <1>4, <1>5, <1>6, <1>7 DEF SessionInv

LEMMA ArrowSchemaSession ==
  ASSUME SessionInv, NEW s \in Servers, NEW u \in Urls, NEW delta \in BOOLEAN,
         ArrowSchema(s, u, delta)
  PROVE  SessionInv'
PROOF
<1>1. /\ Registered(u, Built(s, mapping[s], delta))
      /\ UNCHANGED <<table, oids, mapping, provider, phase, todo, plan, misread, refused, altered>>
  BY DEF ArrowSchema, Registered, Catalog, Portals
<1>2. Built(s, mapping[s], delta) \in Store
  BY BuiltIsStore DEF SessionInv, CatalogInv
<1>3. /\ RegistryInv' /\ disturbed' \in [Queries -> SUBSET Names]
      /\ \A q \in Queries : disturbed[q] \subseteq disturbed'[q] /\ StoreInv(q)'
  BY <1>1, <1>2, RegisterKept
<1>4. PortalTypes'
  BY <1>1, <1>3 DEF SessionInv, PortalTypes
<1>5. ASSUME NEW q \in Queries PROVE QueryInv(q)'
  BY <1>1, <1>3, QueryKept DEF SessionInv, QueryInv, Cached
<1>. QED BY <1>1, <1>3, <1>4, <1>5, CatalogKept, ProvidersKept DEF SessionInv

\* The catalog, the registry and the providers are the same.
LEMMA OnlyPortals ==
  ASSUME SessionInv, UNCHANGED <<table, oids, mapping, urls, store, provider, altered>>,
         PortalTypes', NEW q \in Queries, QueryInv(q)',
         \A r \in Queries \ {q} : /\ phase'[r] = phase[r] /\ todo'[r] = todo[r]
                                  /\ plan'[r] = plan[r] /\ misread'[r] = misread[r]
                                  /\ refused'[r] = refused[r] /\ disturbed'[r] = disturbed[r]
  PROVE  SessionInv'
PROOF
<1>1. CatalogInv' /\ ProviderInv' /\ ProvidersAreOwn'
  BY CatalogKept, ProvidersKept
<1>2. RegistryInv'
  BY DEF SessionInv, RegistryInv
<1>3. ASSUME NEW r \in Queries, r # q PROVE QueryInv(r)'
  BY <1>3, OtherQueryKept
<1>. QED BY <1>1, <1>2, <1>3 DEF SessionInv

LEMMA PlanSession ==
  ASSUME SessionInv, NEW q \in Queries, Plan(q)
  PROVE  SessionInv'
PROOF
<1>1. /\ phase[q] = "idle" /\ \A n \in Uses[q] : table[n] # Absent
      /\ phase' = [phase EXCEPT ![q] = "planning"] /\ todo' = [todo EXCEPT ![q] = Uses[q]]
      /\ UNCHANGED <<table, oids, mapping, urls, store, provider, altered,
                     plan, misread, refused, disturbed>>
  BY DEF Plan, Catalog, Registry
<1>2. PortalTypes' /\ phase'[q] = "planning" /\ todo'[q] = Uses[q]
  BY <1>1, TableConstants DEF SessionInv, PortalTypes, Phases
<1>3. PhaseInv(q)'
  BY <1>1, <1>2 DEF SessionInv, QueryInv, PhaseInv
<1>4. StoreInv(q)' /\ HistoryInv(q)'
  BY <1>1, StoresKept DEF SessionInv, QueryInv, HistoryInv
<1>5. QueryInv(q)'
  BY <1>3, <1>4 DEF QueryInv
<1>. QED BY <1>1, <1>2, <1>5, OnlyPortals DEF SessionInv, PortalTypes

LEMMA StartSession ==
  ASSUME SessionInv, NEW q \in Queries, Start(q)
  PROVE  SessionInv'
PROOF
<1>1. /\ phase[q] = "planned" /\ phase' = [phase EXCEPT ![q] = "starting"]
      /\ todo' = [todo EXCEPT ![q] = Uses[q]] /\ refused' = [refused EXCEPT ![q] = {}]
      /\ UNCHANGED <<table, oids, mapping, urls, store, provider, altered,
                     plan, misread, disturbed>>
  BY DEF Start, Catalog, Registry
<1>2. PortalTypes' /\ phase'[q] = "starting" /\ todo'[q] = Uses[q] /\ refused'[q] = {}
  BY <1>1, TableConstants DEF SessionInv, PortalTypes, Phases
<1>3. PhaseInv(q)'
  BY <1>1, <1>2 DEF SessionInv, QueryInv, PhaseInv
<1>4. StoreInv(q)'
  BY <1>1, StoresKept
<1>5. HistoryInv(q)'
  BY <1>1, <1>2 DEF SessionInv, QueryInv, HistoryInv
<1>6. QueryInv(q)'
  BY <1>3, <1>4, <1>5 DEF QueryInv
<1>. QED BY <1>1, <1>2, <1>6, OnlyPortals DEF SessionInv, PortalTypes

\* A query that begins to read has its providers.
LEMMA FallBackSession ==
  ASSUME SessionInv, NEW q \in Queries, FallBack(q)
  PROVE  SessionInv'
PROOF
<1>1. /\ phase[q] = "open" /\ phase' = [phase EXCEPT ![q] = "scanning"]
      /\ todo' = [todo EXCEPT ![q] = Uses[q]]
      /\ UNCHANGED <<table, oids, mapping, urls, store, provider, altered,
                     plan, misread, refused, disturbed>>
  BY DEF FallBack, Catalog, Registry
<1>2. PortalTypes' /\ phase'[q] = "scanning" /\ todo'[q] = Uses[q]
  BY <1>1, TableConstants DEF SessionInv, PortalTypes, Phases
<1>3. PhaseInv(q)'
  BY <1>1, <1>2 DEF SessionInv, QueryInv, PhaseInv, Cached
<1>4. StoreInv(q)'
  BY <1>1, StoresKept
<1>5. HistoryInv(q)'
  BY <1>1, <1>2 DEF SessionInv, QueryInv, HistoryInv
<1>6. QueryInv(q)'
  BY <1>3, <1>4, <1>5 DEF QueryInv
<1>. QED BY <1>1, <1>2, <1>6, OnlyPortals DEF SessionInv, PortalTypes

\* The end of a query, for good or not.
LEMMA FinishKept ==
  ASSUME SessionInv, NEW q \in Queries, Finish(q), phase[q] # "idle",
         phase[q] = "starting" \/ phase[q] \in {"open", "scanning", "planning", "planned"},
         refused' \in [Queries -> SUBSET Names], disturbed' \in [Queries -> SUBSET Names],
         refused'[q] \subseteq disturbed'[q],
         UNCHANGED table, plan'[q] # [n \in Names |-> None] => StoreInv(q)'
  PROVE  PortalTypes' /\ QueryInv(q)'
PROOF
<1>1. /\ phase' = [phase EXCEPT ![q] = IF @ \in {"planning", "planned"} THEN "idle" ELSE "planned"]
      /\ todo' = [todo EXCEPT ![q] = {}] /\ misread' = [misread EXCEPT ![q] = {}]
      /\ plan' = [plan EXCEPT ![q] = IF phase'[q] = "idle" THEN [n \in Names |-> None] ELSE @]
  BY DEF Finish
<1>2. /\ phase'[q] = IF phase[q] \in {"planning", "planned"} THEN "idle" ELSE "planned"
      /\ todo'[q] = {} /\ misread'[q] = {}
      /\ plan'[q] = IF phase'[q] = "idle" THEN [n \in Names |-> None] ELSE plan[q]
  BY <1>1 DEF SessionInv, PortalTypes
<1>3. PortalTypes'
  BY <1>1 DEF SessionInv, PortalTypes, Phases
<1>4. PhaseInv(q)'
  BY <1>2, TableConstants DEF SessionInv, QueryInv, PhaseInv
<1>5. StoreInv(q)'
  BY DEF StoreInv
<1>6. HistoryInv(q)'
  BY <1>2 DEF HistoryInv
<1>. QED BY <1>3, <1>4, <1>5, <1>6 DEF QueryInv

LEMMA ForgetSession ==
  ASSUME SessionInv, NEW q \in Queries, Forget(q)
  PROVE  SessionInv'
PROOF
<1>1. /\ phase[q] \in {"planning", "planned"} /\ Finish(q)
      /\ refused' = [refused EXCEPT ![q] = {}] /\ disturbed' = [disturbed EXCEPT ![q] = {}]
      /\ UNCHANGED <<table, oids, mapping, urls, store, provider, altered>>
  BY DEF Forget, Catalog, Registry
<1>2. /\ refused' \in [Queries -> SUBSET Names] /\ disturbed' \in [Queries -> SUBSET Names]
      /\ refused'[q] = {} /\ disturbed'[q] = {}
  BY <1>1 DEF SessionInv, PortalTypes
<1>3. plan'[q] = [n \in Names |-> None]
  BY <1>1 DEF Finish, SessionInv, PortalTypes
<1>4. PortalTypes' /\ QueryInv(q)'
  BY <1>1, <1>2, <1>3, FinishKept
<1>5. \A r \in Queries \ {q} : /\ phase'[r] = phase[r] /\ todo'[r] = todo[r]
                               /\ plan'[r] = plan[r] /\ misread'[r] = misread[r]
                               /\ refused'[r] = refused[r] /\ disturbed'[r] = disturbed[r]
  BY <1>1 DEF Finish, SessionInv, PortalTypes
<1>. QED BY <1>1, <1>4, <1>5, OnlyPortals

LEMMA EndSession ==
  ASSUME SessionInv, NEW q \in Queries, End(q)
  PROVE  SessionInv'
PROOF
<1>1. /\ phase[q] \in {"open", "scanning"} /\ Finish(q)
      /\ UNCHANGED <<table, oids, mapping, urls, store, provider, altered, refused, disturbed>>
  BY DEF End, Catalog, Registry
<1>2. plan'[q] = plan[q]
  BY <1>1 DEF Finish, SessionInv, PortalTypes
<1>3. refused' \in [Queries -> SUBSET Names] /\ disturbed' \in [Queries -> SUBSET Names]
      /\ refused'[q] \subseteq disturbed'[q]
  BY <1>1 DEF SessionInv, PortalTypes, QueryInv, HistoryInv
<1>4. StoreInv(q)'
  BY <1>1, <1>2, StoresKept
<1>5. PortalTypes' /\ QueryInv(q)'
  BY <1>1, <1>3, <1>4, FinishKept
<1>6. \A r \in Queries \ {q} : /\ phase'[r] = phase[r] /\ todo'[r] = todo[r]
                               /\ plan'[r] = plan[r] /\ misread'[r] = misread[r]
                               /\ refused'[r] = refused[r] /\ disturbed'[r] = disturbed[r]
  BY <1>1 DEF Finish, SessionInv, PortalTypes
<1>. QED BY <1>1, <1>5, <1>6, OnlyPortals

\* A table is read with another store than planned only if its store was replaced.
LEMMA MisreadHasCause ==
  ASSUME SessionInv, NEW q \in Queries, phase[q] \in {"open", "scanning"}, NEW n \in Uses[q],
         Misread(q, n)
  PROVE  n \in disturbed[q] \/ table[n].oid \in altered
PROOF
<1>1. n \in Names /\ table[n] # Absent /\ Cached(n) /\ plan[q][n] # None
  BY TableConstants DEF SessionInv, QueryInv, PhaseInv
<1>2. n \notin disturbed[q] => store[Bucket(n)] = plan[q][n]
  BY <1>1 DEF SessionInv, QueryInv, StoreInv
<1>3. table[n].oid \notin altered => provider[table[n].oid].url = Def(n).url
  BY <1>1 DEF SessionInv, ProvidersAreOwn
<1>. QED BY <1>2, <1>3 DEF Misread, Bucket

LEMMA CollectSession ==
  ASSUME SessionInv, NEW q \in Queries, Collect(q)
  PROVE  SessionInv'
PROOF
<1>1. /\ phase[q] = "open"
      /\ misread' = [misread EXCEPT ![q] = @ \cup {n \in Uses[q] : Misread(q, n)}]
      /\ UNCHANGED <<table, oids, mapping, urls, store, provider, altered,
                     phase, todo, plan, refused, disturbed>>
  BY DEF Collect, Catalog, Registry
<1>2. PortalTypes' /\ misread'[q] = misread[q] \cup {n \in Uses[q] : Misread(q, n)}
  BY <1>1, TableConstants DEF SessionInv, PortalTypes
<1>3. PhaseInv(q)'
  BY <1>1, <1>2 DEF SessionInv, QueryInv, PhaseInv, Cached
<1>4. StoreInv(q)'
  BY <1>1, StoresKept
<1>5. \A n \in misread'[q] : n \in disturbed[q] \/ table[n].oid \in altered
  BY <1>1, <1>2, MisreadHasCause DEF SessionInv, QueryInv, HistoryInv
<1>6. QueryInv(q)'
  BY <1>1, <1>3, <1>4, <1>5 DEF QueryInv, HistoryInv, SessionInv
<1>. QED BY <1>1, <1>2, <1>6, OnlyPortals DEF SessionInv, PortalTypes

LEMMA CreateStreamSession ==
  ASSUME SessionInv, NEW q \in Queries, NEW n \in Names, CreateStream(q, n)
  PROVE  SessionInv'
PROOF
<1>1. /\ phase[q] = "scanning" /\ n \in todo[q] /\ todo' = [todo EXCEPT ![q] = @ \ {n}]
      /\ misread' = [misread EXCEPT ![q] = IF Misread(q, n) THEN @ \cup {n} ELSE @]
      /\ UNCHANGED <<table, oids, mapping, urls, store, provider, altered,
                     phase, plan, refused, disturbed>>
  BY DEF CreateStream, Catalog, Registry
<1>2. n \in Uses[q]
  BY <1>1 DEF SessionInv, QueryInv, PhaseInv
<1>3. /\ PortalTypes' /\ todo'[q] = todo[q] \ {n}
      /\ misread'[q] = IF Misread(q, n) THEN misread[q] \cup {n} ELSE misread[q]
  BY <1>1, TableConstants DEF SessionInv, PortalTypes
<1>4. PhaseInv(q)'
  BY <1>1, <1>2, <1>3 DEF SessionInv, QueryInv, PhaseInv, Cached
<1>5. StoreInv(q)'
  BY <1>1, StoresKept
<1>6. \A m \in misread'[q] : m \in disturbed[q] \/ table[m].oid \in altered
  BY <1>1, <1>2, <1>3, MisreadHasCause DEF SessionInv, QueryInv, HistoryInv
<1>7. QueryInv(q)'
  BY <1>1, <1>4, <1>5, <1>6 DEF QueryInv, HistoryInv, SessionInv
<1>. QED BY <1>1, <1>3, <1>7, OnlyPortals DEF SessionInv, PortalTypes

\* A wrapper is made: its store is there, and the one its query was planned with.
LEMMA PlanTableSession ==
  ASSUME SessionInv, NEW q \in Queries, NEW n \in Names, PlanTable(q, n)
  PROVE  SessionInv'
PROOF
<1>1. /\ phase[q] = "planning" /\ n \in todo[q]
      /\ Registered(Def(n).url, OwnStore(n))
      /\ plan' = [plan EXCEPT ![q][n] = OwnStore(n)]
      /\ todo' = [todo EXCEPT ![q] = @ \ {n}]
      /\ phase' = [phase EXCEPT ![q] = IF todo[q] = {n} THEN "planned" ELSE "planning"]
      /\ UNCHANGED <<table, oids, mapping, provider, altered, misread, refused>>
  BY DEF PlanTable, Registered, Bucket, Catalog
<1>2. n \in Uses[q] /\ table[n] # Absent /\ QueryInv(q)
  BY <1>1 DEF SessionInv, QueryInv, PhaseInv
<1>3. /\ Def(n).url \in Urls /\ Bucket(n) \in Buckets /\ OwnStore(n) \in Store
      /\ OwnStore(n) # None
  BY <1>2, TableHasStore, Distinct DEF SessionInv
<1>4. /\ RegistryInv' /\ urls \subseteq urls' /\ disturbed' \in [Queries -> SUBSET Names]
      /\ \A r \in Queries : disturbed[r] \subseteq disturbed'[r]
  BY <1>1, <1>3, RegisteredStores DEF SessionInv
<1>5. /\ \A m \in Names : plan'[q][m] = IF m = n THEN OwnStore(n) ELSE plan[q][m]
      /\ \A r \in Queries \ {q} : plan'[r] = plan[r]
      /\ plan' \in [Queries -> [Names -> Store \cup {None}]]
  BY <1>1, <1>3 DEF SessionInv, PortalTypes
<1>6. /\ phase'[q] = IF todo[q] = {n} THEN "planned" ELSE "planning"
      /\ todo'[q] = todo[q] \ {n}
      /\ phase' \in [Queries -> Phases] /\ todo' \in [Queries -> SUBSET Names]
  BY <1>1 DEF SessionInv, PortalTypes, Phases
<1>7. PortalTypes'
  BY <1>1, <1>4, <1>5, <1>6 DEF SessionInv, PortalTypes
<1>8. PhaseInv(q)'
  BY <1>1, <1>2, <1>3, <1>5, <1>6 DEF QueryInv, PhaseInv
<1>9. Def(n)' = Def(n) /\ Bucket(n)' = Bucket(n)
  BY <1>1 DEF Def, Bucket
<1>10. Def(n).url \in urls' /\ store'[Bucket(n)] = OwnStore(n)
  BY <1>1, <1>3 DEF Registered, Register, Bucket, SessionInv, RegistryInv
<1>11. ASSUME NEW r \in Queries, NEW m \in Names, plan[r][m] # None
       PROVE  /\ Def(m)'.url \in urls'
              /\ m \notin disturbed'[r] => store'[Bucket(m)'] = plan[r][m]
  BY <1>1, <1>3, <1>11, RegisteredQuery DEF SessionInv, QueryInv
<1>12. StoreInv(q)'
  <2>1. ASSUME NEW m \in Names, plan'[q][m] # None
        PROVE  /\ Def(m)'.url \in urls'
               /\ m \notin disturbed'[q] => store'[Bucket(m)'] = plan'[q][m]
    <3>1. CASE m = n
      BY <1>5, <1>9, <1>10, <3>1
    <3>2. CASE m # n
      BY <1>5, <1>11, <2>1, <3>2
    <3>. QED BY <3>1, <3>2
  <2>. QED BY <2>1 DEF StoreInv
<1>13. HistoryInv(q)'
  BY <1>1, <1>2, <1>4 DEF QueryInv, HistoryInv
<1>14. ASSUME NEW r \in Queries, r # q PROVE QueryInv(r)'
  <2>1. StoreInv(r)'
    BY <1>5, <1>11, <1>14 DEF StoreInv
  <2>2. phase'[r] = phase[r] /\ todo'[r] = todo[r]
    BY <1>1, <1>14 DEF SessionInv, PortalTypes
  <2>. QED BY <1>1, <1>4, <1>5, <1>14, <2>1, <2>2, QueryKept DEF SessionInv, QueryInv, Cached
<1>15. CatalogInv' /\ ProviderInv' /\ ProvidersAreOwn'
  BY <1>1, CatalogKept, ProvidersKept
<1>. QED BY <1>4, <1>7, <1>8, <1>12, <1>13, <1>14, <1>15 DEF SessionInv, QueryInv

LEMMA BeginScanSession ==
  ASSUME SessionInv, NEW q \in Queries, NEW n \in Names, BeginScan(q, n)
  PROVE  SessionInv'
PROOF
<1>1. /\ phase[q] = "starting" /\ n \in todo[q] /\ Load(n)
      /\ todo' = [todo EXCEPT ![q] = @ \ {n}]
      /\ phase' = [phase EXCEPT ![q] = IF todo[q] = {n} THEN "open" ELSE "starting"]
      /\ UNCHANGED <<table, oids, mapping, altered, plan, misread, refused>>
  BY DEF BeginScan, Catalog
<1>2. n \in Uses[q] /\ table[n] # Absent /\ QueryInv(q)
  BY <1>1 DEF SessionInv, QueryInv, PhaseInv
<1>3. /\ ProviderInv' /\ ProvidersAreOwn' /\ Cached(n)'
      /\ \A m \in Names : table[m] # Absent /\ Cached(m) => Cached(m)'
  BY <1>1, <1>2, LoadKept
<1>4. /\ RegistryInv' /\ disturbed' \in [Queries -> SUBSET Names]
      /\ \A r \in Queries : disturbed[r] \subseteq disturbed'[r] /\ StoreInv(r)'
  <2>1. CASE Connect(n)
    BY <1>1, <1>2, <2>1, ConnectKept
  <2>2. CASE UNCHANGED <<urls, store, disturbed>>
    BY <1>1, <2>2, StoresKept DEF SessionInv, RegistryInv, PortalTypes
  <2>. QED BY <1>1, <2>1, <2>2 DEF Load
<1>5. /\ phase'[q] = IF todo[q] = {n} THEN "open" ELSE "starting"
      /\ todo'[q] = todo[q] \ {n}
      /\ phase' \in [Queries -> Phases] /\ todo' \in [Queries -> SUBSET Names]
  BY <1>1 DEF SessionInv, PortalTypes, Phases
<1>6. PortalTypes'
  BY <1>1, <1>4, <1>5 DEF SessionInv, PortalTypes
<1>7. PhaseInv(q)'
  <2>1. \A m \in Uses[q] \ todo'[q] : Cached(m)'
    BY <1>1, <1>2, <1>3, <1>5, TableConstants DEF QueryInv, PhaseInv
  <2>. QED BY <1>1, <1>2, <1>5, <2>1 DEF QueryInv, PhaseInv
<1>8. HistoryInv(q)'
  BY <1>1, <1>2, <1>4 DEF QueryInv, HistoryInv
<1>9. ASSUME NEW r \in Queries, r # q PROVE QueryInv(r)'
  <2>1. phase'[r] = phase[r] /\ todo'[r] = todo[r]
    BY <1>1, <1>9 DEF SessionInv, PortalTypes
  <2>. QED BY <1>1, <1>3, <1>4, <2>1, QueryKept, TableConstants DEF SessionInv, QueryInv
<1>10. CatalogInv'
  BY <1>1, CatalogKept
<1>. QED BY <1>3, <1>4, <1>6, <1>7, <1>8, <1>9, <1>10 DEF SessionInv, QueryInv

\* With the store that its query was planned with, a good file is inferred and fits.
LEMMA LoadableIsInferred ==
  ASSUME NEW q \in Queries, NEW n \in Names, table[n] # Absent, CatalogInv,
         Def(n).url \in urls, store[Bucket(n)] = plan[q][n], Loadable(q, n)
  PROVE  ~Unloadable(n)
PROOF
<1>1. StoreFor(n) = plan[q][n]
  BY DEF StoreFor
<1>2. file[Def(n).url] # Gone
  BY TableHasStore, TableConstants, Distinct DEF Loadable
<1>3. /\ Def(n).extension \in Extensions
      /\ plan[q][n].mapping \in Grants[Bucket(n)] /\ ~plan[q][n].lost
      /\ file[Def(n).url] \in Def(n).columns
  BY DEF Loadable
<1>4. file[Def(n).url] \in Inferred(n)
  BY <1>1, <1>2, <1>3 DEF Inferred
<1>5. Fit(n, file[Def(n).url])
  BY <1>3 DEF Fit
<1>. QED BY <1>4, <1>5 DEF Unloadable

LEMMA BeginScanFailsSession ==
  ASSUME SessionInv, NEW q \in Queries, NEW n \in Names, BeginScanFails(q, n)
  PROVE  SessionInv'
PROOF
<1>1. /\ phase[q] = "starting" /\ n \in todo[q] /\ Connect(n) /\ Finish(q)
      /\ refused' = [refused EXCEPT
                       ![q] = IF Unloadable(n) /\ Loadable(q, n) THEN {n} ELSE {}]
      /\ UNCHANGED <<table, oids, mapping, provider, altered>>
  BY DEF BeginScanFails, LoadFails, Catalog
<1>2. n \in Uses[q] /\ table[n] # Absent /\ plan[q][n] # None /\ CatalogInv
  BY <1>1 DEF SessionInv, QueryInv, PhaseInv
<1>3. plan' = plan
  <2>1. plan' = [plan EXCEPT ![q] = IF phase'[q] = "idle" THEN [m \in Names |-> None] ELSE @]
    BY <1>1 DEF Finish
  <2>2. phase'[q] = "planned"
    BY <1>1 DEF Finish, SessionInv, PortalTypes
  <2>3. plan' = [plan EXCEPT ![q] = plan[q]]
    BY <2>1, <2>2
  <2>. QED BY <2>3 DEF SessionInv, PortalTypes
<1>4. /\ RegistryInv' /\ disturbed' \in [Queries -> SUBSET Names]
      /\ \A r \in Queries : disturbed[r] \subseteq disturbed'[r] /\ StoreInv(r)'
  BY <1>1, <1>2, <1>3, ConnectKept
<1>5. refused' \in [Queries -> SUBSET Names]
      /\ refused'[q] = IF Unloadable(n) /\ Loadable(q, n) THEN {n} ELSE {}
  BY <1>1 DEF SessionInv, PortalTypes
<1>6. refused'[q] \subseteq disturbed'[q]
  <2>1. Def(n).url \in urls /\ (n \notin disturbed[q] => store[Bucket(n)] = plan[q][n])
    BY <1>2 DEF SessionInv, QueryInv, StoreInv
  <2>2. n \notin disturbed[q] => ~(Unloadable(n) /\ Loadable(q, n))
    BY <1>2, <2>1, LoadableIsInferred
  <2>. QED BY <1>4, <1>5, <2>2
<1>7. PortalTypes' /\ QueryInv(q)'
  BY <1>1, <1>4, <1>5, <1>6, FinishKept
<1>8. ASSUME NEW r \in Queries, r # q PROVE QueryInv(r)'
  <2>1. /\ phase'[r] = phase[r] /\ todo'[r] = todo[r] /\ misread'[r] = misread[r]
        /\ refused'[r] = refused[r]
    BY <1>1, <1>8 DEF Finish, SessionInv, PortalTypes
  <2>. QED BY <1>1, <1>3, <1>4, <2>1, QueryKept DEF SessionInv, QueryInv, Cached
<1>. QED BY <1>1, <1>4, <1>7, <1>8, CatalogKept, ProvidersKept DEF SessionInv

-----------------------------------------------------------------------------
(* Steps of the catalog, the lake and the backend.                          *)

OwnProvider(m) ==
  table[m] # Absent /\ Cached(m) /\ table[m].oid \notin altered =>
    /\ provider[table[m].oid].url = Def(m).url
    /\ Fit(m, provider[table[m].oid].schema)

LEMMA OwnProviders == ProvidersAreOwn <=> \A m \in Names : OwnProvider(m)
BY DEF ProvidersAreOwn, OwnProvider

\* The table is the same, and so is its provider.
LEMMA OwnKept ==
  ASSUME NEW m \in Names, OwnProvider(m), table'[m] = table[m], UNCHANGED provider,
         altered \subseteq altered'
  PROVE  OwnProvider(m)'
BY DEF OwnProvider, Cached, Fit, Def

\* A query without a plan needs nothing.
LEMMA IdleKept ==
  ASSUME NEW q \in Queries, phase'[q] = "idle", \A m \in Names : plan'[q][m] = None,
         misread'[q] = {}, todo'[q] \subseteq Uses[q], refused'[q] \subseteq disturbed'[q]
  PROVE  QueryInv(q)'
PROOF
<1>1. PhaseInv(q)'
  BY TableConstants DEF PhaseInv
<1>2. StoreInv(q)' /\ HistoryInv(q)'
  BY DEF StoreInv, HistoryInv
<1>. QED BY <1>1, <1>2 DEF QueryInv

\* Nor does one that does not use the table.
LEMMA UnusedKept ==
  ASSUME SessionInv, NEW n \in Names, NEW q \in Queries, n \notin Uses[q],
         \A m \in Names \ {n} : table'[m] = table[m],
         UNCHANGED <<urls, store, provider>>, altered \subseteq altered',
         phase'[q] = phase[q], todo'[q] = todo[q], plan'[q] = plan[q],
         misread'[q] = misread[q], refused'[q] = refused[q], disturbed'[q] = disturbed[q]
  PROVE  QueryInv(q)'
PROOF
<1>1. PhaseInv(q) /\ StoreInv(q) /\ HistoryInv(q)
  BY DEF SessionInv, QueryInv
<1>2. \A m \in Uses[q] : m \in Names /\ table'[m] = table[m]
  BY TableConstants
<1>3. \A m \in Uses[q] : Cached(m)' <=> Cached(m)
  BY <1>2 DEF Cached
<1>4. PhaseInv(q)'
  BY <1>1, <1>2, <1>3 DEF PhaseInv
<1>5. StoreInv(q)'
  <2>1. ASSUME NEW m \in Names, plan[q][m] # None
        PROVE  /\ Def(m)'.url \in urls
               /\ m \notin disturbed[q] => store[Bucket(m)'] = plan[q][m]
    <3>1. m \in Uses[q]
      BY <1>1, <2>1 DEF PhaseInv
    <3>2. Def(m)' = Def(m) /\ Bucket(m)' = Bucket(m)
      BY <1>2, <3>1 DEF Def, Bucket
    <3>. QED BY <1>1, <2>1, <3>2 DEF StoreInv
  <2>. QED BY <2>1 DEF StoreInv
<1>6. HistoryInv(q)'
  BY <1>1, <1>2 DEF HistoryInv, PhaseInv
<1>. QED BY <1>4, <1>5, <1>6 DEF QueryInv

\* Plans over a table that changes are gone.
LEMMA InvalidatedQueries ==
  ASSUME SessionInv, NEW n \in Names, Invalidate(n),
         \A m \in Names \ {n} : table'[m] = table[m],
         UNCHANGED <<urls, store, provider>>, altered \subseteq altered'
  PROVE  PortalTypes' /\ \A q \in Queries : QueryInv(q)'
PROOF
<1> DEFINE Over(q) == n \in Uses[q] /\ phase[q] = "planned"
<1>1. /\ \A q \in Queries : n \in Uses[q] => ~Locking(q)
      /\ phase' = [q \in Queries |-> IF Over(q) THEN "idle" ELSE phase[q]]
      /\ plan' = [q \in Queries |-> IF Over(q) THEN [t \in Names |-> None] ELSE plan[q]]
      /\ disturbed' = [q \in Queries |-> IF Over(q) THEN {} ELSE disturbed[q]]
      /\ refused' = [q \in Queries |-> IF Over(q) THEN {} ELSE refused[q]]
      /\ UNCHANGED <<todo, misread>>
  BY DEF Invalidate
<1> HIDE DEF Over
<1>2. PortalTypes'
  BY <1>1 DEF SessionInv, PortalTypes, Phases
<1>3. ASSUME NEW q \in Queries PROVE QueryInv(q)'
  <2>1. PhaseInv(q) /\ StoreInv(q) /\ HistoryInv(q)
    BY DEF SessionInv, QueryInv
  <2>2. CASE n \notin Uses[q]
    <3>1. ~Over(q)
      BY <2>2 DEF Over
    <3>. QED BY <1>1, <2>2, <3>1, UnusedKept
  <2>3. CASE Over(q)
    <3>1. misread[q] = {}
      BY <2>1, <2>3 DEF PhaseInv, Over
    <3>2. todo[q] \subseteq Uses[q]
      BY <2>1 DEF PhaseInv
    <3>3. /\ phase'[q] = "idle" /\ \A m \in Names : plan'[q][m] = None
          /\ refused'[q] = {} /\ disturbed'[q] = {}
      BY <1>1, <2>3
    <3>. QED BY <1>1, <3>1, <3>2, <3>3, IdleKept
  <2>4. CASE n \in Uses[q] /\ ~Over(q)
    <3>1. phase[q] = "idle"
      BY <1>1, <2>4 DEF Over, Locking, SessionInv, PortalTypes, Phases
    <3>2. misread[q] = {} /\ todo[q] \subseteq Uses[q] /\ \A m \in Names : plan[q][m] = None
      BY <2>1, <3>1 DEF PhaseInv
    <3>3. refused[q] \subseteq disturbed[q]
      BY <2>1 DEF HistoryInv
    <3>. QED BY <1>1, <2>4, <3>1, <3>2, <3>3, IdleKept
  <2>. QED BY <2>2, <2>3, <2>4
<1>. QED BY <1>2, <1>3

LEMMA CreateTableSession ==
  ASSUME SessionInv, NEW n \in Names, NEW d \in Offered[n], CreateTable(n, d)
  PROVE  SessionInv'
PROOF
<1>1. /\ table[n] = Absent /\ oids < MaxOid
      /\ table' = [table EXCEPT ![n] = [oid |-> oids + 1, def |-> d]] /\ oids' = oids + 1
      /\ UNCHANGED <<mapping, urls, store, provider, phase, todo, plan, misread, refused,
                     disturbed, altered>>
  BY DEF CreateTable, Registry, Portals
<1>2. oids \in 0..MaxOid /\ MaxOid \in Nat
  BY SessionAssumption DEF SessionInv, CatalogInv
<1>3. oids + 1 \in 1..MaxOid /\ oids + 1 \in 0..MaxOid
  BY <1>1, <1>2
<1> DEFINE x == [oid |-> oids + 1, def |-> d]
<1>4. x.oid = oids + 1 /\ x.def = d /\ x = [oid |-> x.oid, def |-> x.def]
  OBVIOUS
<1> HIDE DEF x
<1>5. table'[n] = x /\ \A m \in Names \ {n} : table'[m] = table[m]
  BY <1>1 DEF SessionInv, CatalogInv, x
<1>6. \A m \in Names : m # n /\ table[m] # Absent => table[m].oid \in 1..oids
  BY DEF SessionInv, CatalogInv
<1>7. \A m \in Names : m # n /\ table[m] # Absent => table[m].oid # oids + 1
  BY <1>2, <1>6
<1>8. CatalogInv'
  <2>1. table' = [m \in Names |-> table'[m]]
    BY <1>1 DEF SessionInv, CatalogInv
  <2>2. oids + 1 \in 1..oids' /\ 1..oids \subseteq 1..oids'
    BY <1>1, <1>2
  <2>3. ASSUME NEW m \in Names, table'[m] # Absent
        PROVE  /\ table'[m] = [oid |-> table'[m].oid, def |-> table'[m].def]
               /\ table'[m].oid \in 1..oids' /\ table'[m].def \in Offered[m]
    <3>1. CASE m = n
      BY <1>4, <1>5, <2>2, <3>1
    <3>2. CASE m # n
      BY <1>5, <2>2, <2>3, <3>2 DEF SessionInv, CatalogInv
    <3>. QED BY <3>1, <3>2
  <2>4. ASSUME NEW m \in Names, NEW k \in Names, table'[m] # Absent, table'[k] # Absent, m # k
        PROVE  table'[m].oid # table'[k].oid
    <3>1. CASE m = n
      BY <1>4, <1>5, <1>7, <2>4, <3>1
    <3>2. CASE k = n
      BY <1>4, <1>5, <1>7, <2>4, <3>2
    <3>3. CASE m # n /\ k # n
      BY <1>5, <2>4, <3>3 DEF SessionInv, CatalogInv
    <3>. QED BY <3>1, <3>2, <3>3
  <2>. QED BY <1>1, <1>3, <2>1, <2>3, <2>4 DEF SessionInv, CatalogInv
<1>9. ProviderInv'
  <2>1. \A o \in Oids : o > oids' => o > oids
    BY <1>1, <1>2 DEF Oids
  <2>. QED BY <1>1, <2>1 DEF SessionInv, ProviderInv
<1>10. ProvidersAreOwn'
  <2>1. ASSUME NEW m \in Names PROVE OwnProvider(m)'
    <3>1. CASE m = n
      <4>1. oids + 1 \in Oids /\ oids + 1 > oids
        BY <1>2, <1>3 DEF Oids
      <4>2. provider[oids + 1] = None
        BY <4>1 DEF SessionInv, ProviderInv
      <4>3. ~Cached(m)'
        BY <1>1, <1>4, <1>5, <3>1, <4>2 DEF Cached
      <4>. QED BY <4>3 DEF OwnProvider
    <3>2. CASE m # n
      <4>1. table'[m] = table[m]
        BY <1>5, <3>2
      <4>. QED BY <1>1, <4>1, OwnKept, OwnProviders DEF SessionInv
    <3>. QED BY <3>1, <3>2
  <2>. QED BY <2>1 DEF ProvidersAreOwn, OwnProvider, Cached, Fit, Def
<1>11. RegistryInv' /\ PortalTypes'
  BY <1>1 DEF SessionInv, RegistryInv, PortalTypes
<1>12. ASSUME NEW q \in Queries PROVE QueryInv(q)'
  <2>1. CASE n \in Uses[q]
    <3>1. phase[q] = "idle"
      BY <1>1, <2>1 DEF SessionInv, QueryInv, PhaseInv
    <3>2. /\ misread[q] = {} /\ todo[q] \subseteq Uses[q]
          /\ \A m \in Names : plan[q][m] = None
          /\ refused[q] \subseteq disturbed[q]
      BY <3>1 DEF SessionInv, QueryInv, PhaseInv, HistoryInv
    <3>. QED BY <1>1, <3>1, <3>2, IdleKept
  <2>2. CASE n \notin Uses[q]
    BY <1>1, <1>5, <2>2, UnusedKept
  <2>. QED BY <2>1, <2>2
<1>. QED BY <1>8, <1>9, <1>10, <1>11, <1>12 DEF SessionInv

LEMMA DropTableSession ==
  ASSUME SessionInv, NEW n \in Names, DropTable(n)
  PROVE  SessionInv'
PROOF
<1>1. /\ Invalidate(n) /\ table' = [table EXCEPT ![n] = Absent]
      /\ UNCHANGED <<oids, mapping, urls, store, provider, altered>>
  BY DEF DropTable, Registry
<1>2. table'[n] = Absent /\ \A m \in Names \ {n} : table'[m] = table[m]
  BY <1>1 DEF SessionInv, CatalogInv
<1>3. CatalogInv'
  BY <1>1, <1>2 DEF SessionInv, CatalogInv
<1>4. ProvidersAreOwn'
  <2>1. ASSUME NEW m \in Names PROVE OwnProvider(m)'
    <3>1. CASE m = n
      BY <1>2, <3>1 DEF OwnProvider
    <3>2. CASE m # n
      <4>1. table'[m] = table[m]
        BY <1>2, <3>2
      <4>. QED BY <1>1, <4>1, OwnKept, OwnProviders DEF SessionInv
    <3>. QED BY <3>1, <3>2
  <2>. QED BY <2>1 DEF ProvidersAreOwn, OwnProvider, Cached, Fit, Def
<1>5. ProviderInv' /\ RegistryInv'
  BY <1>1 DEF SessionInv, ProviderInv, RegistryInv
<1>. QED BY <1>1, <1>2, <1>3, <1>4, <1>5, InvalidatedQueries DEF SessionInv

LEMMA AlterTableSession ==
  ASSUME SessionInv, NEW n \in Names, NEW d \in Offered[n], AlterTable(n, d)
  PROVE  SessionInv'
PROOF
<1>1. /\ table[n] # Absent /\ Invalidate(n) /\ table' = [table EXCEPT ![n].def = d]
      /\ altered' = altered \cup {table[n].oid}
      /\ UNCHANGED <<oids, mapping, urls, store, provider>>
  BY DEF AlterTable, Registry
<1>2. /\ table'[n] = [table[n] EXCEPT !.def = d] /\ \A m \in Names \ {n} : table'[m] = table[m]
      /\ table' = [m \in Names |-> table'[m]]
  BY <1>1 DEF SessionInv, CatalogInv
<1>3. table'[n] = [oid |-> table[n].oid, def |-> d]
  <2>1. table[n] = [oid |-> table[n].oid, def |-> table[n].def]
    BY <1>1 DEF SessionInv, CatalogInv
  <2>. QED BY <1>2, <2>1
<1>4. table'[n].oid = table[n].oid /\ table'[n].def = d
  BY <1>3
<1>5. CatalogInv'
  <2>1. ASSUME NEW m \in Names, table'[m] # Absent
        PROVE  /\ table'[m] = [oid |-> table'[m].oid, def |-> table'[m].def]
               /\ table'[m].oid \in 1..oids /\ table'[m].def \in Offered[m]
    <3>1. CASE m = n
      BY <1>1, <1>3, <1>4, <3>1 DEF SessionInv, CatalogInv
    <3>2. CASE m # n
      BY <1>2, <2>1, <3>2 DEF SessionInv, CatalogInv
    <3>. QED BY <3>1, <3>2
  <2>2. ASSUME NEW m \in Names, NEW k \in Names, table'[m] # Absent, table'[k] # Absent, m # k
        PROVE  table'[m].oid # table'[k].oid
    <3>1. table'[m].oid = table[m].oid /\ table'[k].oid = table[k].oid
      BY <1>2, <1>4
    <3>2. table[m] # Absent /\ table[k] # Absent
      BY <1>1, <1>2, <2>2
    <3>. QED BY <2>2, <3>1, <3>2 DEF SessionInv, CatalogInv
  <2>. QED BY <1>1, <1>2, <2>1, <2>2 DEF SessionInv, CatalogInv
<1>6. ProvidersAreOwn'
  <2>1. ASSUME NEW m \in Names PROVE OwnProvider(m)'
    <3>1. CASE m = n
      BY <1>1, <1>4, <3>1 DEF OwnProvider
    <3>2. CASE m # n
      <4>1. table'[m] = table[m] /\ altered \subseteq altered'
        BY <1>1, <1>2, <3>2
      <4>. QED BY <1>1, <4>1, OwnKept, OwnProviders DEF SessionInv
    <3>. QED BY <3>1, <3>2
  <2>. QED BY <2>1 DEF ProvidersAreOwn, OwnProvider, Cached, Fit, Def
<1>7. ProviderInv' /\ RegistryInv'
  BY <1>1 DEF SessionInv, ProviderInv, RegistryInv
<1>. QED BY <1>1, <1>2, <1>5, <1>6, <1>7, InvalidatedQueries DEF SessionInv

\* Changes of mappings and files reach nothing that is kept.
LEMMA EnvironmentSession ==
  ASSUME SessionInv, mapping' \in [Servers -> Mappings],
         UNCHANGED <<table, oids, urls, store, provider, phase, todo, plan, misread, refused,
                     disturbed, altered>>
  PROVE  SessionInv'
PROOF
<1>1. CatalogInv' /\ RegistryInv' /\ PortalTypes'
  BY DEF SessionInv, CatalogInv, RegistryInv, PortalTypes
<1>2. ASSUME NEW q \in Queries PROVE QueryInv(q)'
  BY OtherQueryKept
<1>. QED BY <1>1, <1>2, ProvidersKept DEF SessionInv

LEMMA ReconnectSession ==
  ASSUME SessionInv, Reconnect
  PROVE  SessionInv'
PROOF
<1>1. CatalogInv'
  BY DEF Reconnect, Catalog, SessionInv, CatalogInv
<1>2. RegistryInv' /\ ProviderInv'
  BY DEF Reconnect, Catalog, RegistryInv, ProviderInv
<1>3. ProvidersAreOwn'
  <2>1. \A n \in Names : table[n] # Absent => table[n].oid \in Oids
    BY TableHasStore DEF SessionInv
  <2>. QED BY <2>1 DEF Reconnect, Catalog, ProvidersAreOwn, Cached
<1>4. PortalTypes'
  BY DEF Reconnect, PortalTypes, Phases
<1>5. ASSUME NEW q \in Queries PROVE QueryInv(q)'
  BY IdleKept DEF Reconnect
<1>. QED BY <1>1, <1>2, <1>3, <1>4, <1>5 DEF SessionInv

LEMMA NextSession == SessionInv /\ [Next]_vars => SessionInv'
PROOF
<1> SUFFICES ASSUME SessionInv, [Next]_vars PROVE SessionInv'
  OBVIOUS
<1>1. ASSUME NEW n \in Names, NEW d \in Offered[n], CreateTable(n, d) \/ AlterTable(n, d)
      PROVE  SessionInv'
  BY <1>1, CreateTableSession, AlterTableSession
<1>2. ASSUME NEW n \in Names, DropTable(n) \/ ConnectTable(n) PROVE SessionInv'
  BY <1>2, DropTableSession, ConnectTableSession
<1>3. ASSUME NEW s \in Servers, NEW m \in Mapped[s], ChangeMapping(s, m) PROVE SessionInv'
  <2>1. mapping' \in [Servers -> Mappings]
    BY <1>3, TableConstants DEF ChangeMapping, SessionInv, CatalogInv
  <2>. QED BY <1>3, <2>1, EnvironmentSession DEF ChangeMapping, Registry, Portals
<1>4. ASSUME NEW u \in Urls, NEW s \in Contents[u], ChangeFile(u, s) PROVE SessionInv'
  BY <1>4, EnvironmentSession
     DEF ChangeFile, Catalog, Registry, Portals, SessionInv, CatalogInv
<1>5. ASSUME NEW i \in Inspected, ArrowSchema(i[1], i[2], i[3]) PROVE SessionInv'
  <2>1. i[1] \in Servers /\ i[2] \in Urls /\ i[3] \in BOOLEAN
    BY SessionAssumption
  <2>. QED BY <1>5, <2>1, ArrowSchemaSession
<1>6. ASSUME NEW q \in Queries,
             Plan(q) \/ Forget(q) \/ Start(q) \/ Collect(q) \/ FallBack(q) \/ End(q)
      PROVE  SessionInv'
  BY <1>6, PlanSession, ForgetSession, StartSession, CollectSession, FallBackSession, EndSession
<1>7. ASSUME NEW q \in Queries, NEW n \in Names,
             PlanTable(q, n) \/ BeginScan(q, n) \/ BeginScanFails(q, n) \/ CreateStream(q, n)
      PROVE  SessionInv'
  BY <1>7, PlanTableSession, BeginScanSession, BeginScanFailsSession, CreateStreamSession
<1>8. CASE Reconnect
  BY <1>8, ReconnectSession
<1>9. CASE UNCHANGED vars
  BY <1>9, EnvironmentSession DEF vars, SessionInv, CatalogInv
<1>. QED BY <1>1, <1>2, <1>3, <1>4, <1>5, <1>6, <1>7, <1>8, <1>9 DEF Next

LEMMA SessionInvariant == Spec => []SessionInv
PROOF
BY InitSession, NextSession, PTL DEF Spec

-----------------------------------------------------------------------------
(* Theorems.                                                                *)

\* Whoever reads a table has its provider and the store of its plan at hand: a URL
\* that is noted always has a store.
THEOREM TypeCorrect == Spec => []TypeOK
PROOF
<1>1. SessionInv => TypeOK
  BY DEF SessionInv, CatalogInv, RegistryInv, PortalTypes, QueryInv, PhaseInv, TypeOK, Def
<1>. QED BY <1>1, SessionInvariant, PTL

\* However tables come and go, no table is read by the provider of another.
THEOREM ProvidersAlwaysOwn == Spec => []ProvidersAreOwn
PROOF
<1>1. SessionInv => ProvidersAreOwn
  BY DEF SessionInv
<1>. QED BY <1>1, SessionInvariant, PTL

\* Queries read with the stores they were planned with, in whatever order tables
\* are planned, loaded and read, unless one of their bucket was replaced.
THEOREM StoresAlwaysOwn == Spec => []StoresAreOwn
PROOF
<1>1. SessionInv => StoresAreOwn
  BY DEF SessionInv, QueryInv, HistoryInv, StoresAreOwn
<1>. QED BY <1>1, SessionInvariant, PTL

\* No failure of an earlier query stands in the way of a later one.
THEOREM RetriesAlwaysSucceed == Spec => []RetriesSucceed
PROOF
<1>1. SessionInv => RetriesSucceed
  BY DEF SessionInv, QueryInv, HistoryInv, RetriesSucceed
<1>. QED BY <1>1, SessionInvariant, PTL

\* No option that a validator accepts or a builder reads gets lost.
THEOREM StoresAlwaysComplete == Spec => []StoresAreComplete
PROOF
<1>1. \A h \in Handlers : Builder[h] = Known(h)
  BY DEF Handlers, Builder, Known, S3Builder, GcsBuilder, AzblobBuilder, AzdlsBuilder,
         ServerOption, S3ServerOption, GcsServerOption, AzblobServerOption, AzdlsServerOption,
         MappingOption, S3MappingOption, GcsMappingOption, AzblobMappingOption,
         AzdlsMappingOption
<1>2. StoresAreComplete
  BY <1>1 DEF StoresAreComplete, Passed
<1>. QED BY <1>2, PTL

=============================================================================
