SPECIFICATION Spec
CONSTANTS
  b1 = b1
  b2 = b2
  t1 = t1
  t2 = t2
  v1 = v1
  d1 = d1
  d2 = d2
  None = None
  Backends = {b1, b2}
  Tables = {t1}
  Views = {v1}
  Over <- ViewOver
  Defs = {d1, d2}
  Uses = {"alter", "blocks", "dropview", "failreplace"}
SYMMETRY Sessions
INVARIANTS
  TypeOK
  StaleHasCause
  StaleReadsHaveCause
