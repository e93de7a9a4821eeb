CONSTANTS
  s1 = s1  s2 = s2
  t1 = t1  t2 = t2  t3 = t3
  q1 = q1  q2 = q2
  m1 = m1  m2 = m2
  Servers = {s1, s2}
  Tables = {t1, t2, t3}
  Queries = {q1, q2}
  Mappings = {m1, m2}
  NoMapping = NoMapping
  ServerOf <- MCServerOf
  Wrappers <- MCWrappers
  Offered <- MCOffered
  Uses <- MCUses
SPECIFICATION Spec
INVARIANTS
  TypeOK
  OptionsReachDuckDB
  FilesReadWithMapping
SYMMETRY Symmetry
