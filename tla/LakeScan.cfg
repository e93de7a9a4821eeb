CONSTANTS
  a = a  b = b
  p1 = p1  p2 = p2
  s1 = s1  s2 = s2  s3 = s3
  Schemas = {a, b}
  Initially <- MCInitially
  Changing <- MCChanging
  Paths <- MCPaths
  Unqualified = Unqualified
  Portals = {p1, p2}
  Refs <- MCRefs
  Answer <- MCAnswer
  Scans = {s1, s2, s3}
  PortalOf <- MCPortalOf
  Rows <- MCRows
  BatchSize = 2
  Rescanned = {s3}
  Cursors = {p1}
  MaxRuns = 2
  None = None
SPECIFICATION FairSpec
INVARIANTS
  TypeOK
  PushdownExact
  PassesAreTails
PROPERTIES
  ScansArePrivate
  RunsEnd
CHECK_DEADLOCK FALSE
