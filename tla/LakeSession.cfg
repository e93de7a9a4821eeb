CONSTANTS
  s1 = s1  s2 = s2
  m1 = m1  m2 = m2
  b1 = b1  b2 = b2
  u1 = u1  u2 = u2
  k1 = k1  k2 = k2
  t1 = t1  t2 = t2
  q1 = q1  q2 = q2
  Servers = {s1, s2}
  HandlerOf <- MCHandlerOf
  Mapped <- MCMapped
  ServerOptions <- MCServerOptions
  Mappings = {m1, m2}
  MappingOptions <- MCMappingOptions
  Buckets = {b1, b2}
  Urls = {u1, u2}
  BucketOf <- MCBucketOf
  Directories = {u2}
  Grants <- MCGrants
  Schemas = {k1, k2}
  Gone = Gone
  Contents <- MCContents
  Inspected <- MCInspected
  NoFields = NoFields
  Names = {t1, t2}
  Offered <- MCOffered
  Absent = Absent
  None = None
  Queries = {q1, q2}
  Uses <- MCUses
  MaxOid = 2
SPECIFICATION Spec
INVARIANTS
  TypeOK
  ProvidersAreOwn
  StoresAreComplete
  StoresAreOwn
  RetriesSucceed
CHECK_DEADLOCK FALSE
