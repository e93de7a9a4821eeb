SPECIFICATION Spec
CONSTANTS
  p1 = p1
  p2 = p2
  p3 = p3
  s1 = s1
  s2 = s2
  s3 = s3
  None = None
  Portals = {p1, p2, p3}
  Scans = {s1, s2}
  PortalOf <- NestPortalOf
  Pushable = {p2, p3}
  Prepared = {p3}
  Cursors = {p1}
  Rescanned = {s2}
  Rows <- NestRows
  BatchSize = 2
  MaxRuns = 2
  Nested = TRUE
INVARIANTS
  PushdownExact
  LeakOnlyAfterError
  SoleScanSafe
CHECK_DEADLOCK FALSE
