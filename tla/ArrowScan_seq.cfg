SPECIFICATION FairSpec
CONSTANTS
  p1 = p1
  p2 = p2
  p3 = p3
  s1 = s1
  s2 = s2
  s3 = s3
  None = None
  Portals = {p1, p2, p3}
  Scans = {s1, s2, s3}
  PortalOf <- SeqPortalOf
  Pushable = {p1, p3}
  Prepared = {p3}
  Cursors = {}
  Rescanned = {}
  Rows <- SeqRows
  BatchSize = 2
  MaxRuns = 1
  Nested = FALSE
INVARIANTS
  TypeOK
  NeverLost
PROPERTIES
  ScansArePrivate
  RunsEnd
CHECK_DEADLOCK FALSE
