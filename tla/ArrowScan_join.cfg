SPECIFICATION Spec
CONSTANTS
  p1 = p1
  p2 = p2
  p3 = p3
  s1 = s1
  s2 = s2
  s3 = s3
  None = None
  Portals = {p1}
  Scans = {s1, s2}
  PortalOf <- JoinPortalOf
  Pushable = {p1}
  Prepared = {}
  Cursors = {}
  Rescanned = {s1}
  Rows <- JoinRows
  BatchSize = 2
  MaxRuns = 2
  Nested = FALSE
INVARIANTS
  FallbackExact
CHECK_DEADLOCK FALSE
