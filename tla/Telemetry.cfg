CONSTANTS
  u1 = u1  u2 = u2  u3 = u3
  Interval = 2
  Uuids = {u1, u2, u3}
  MaxTime = 4
  MaxRemovals = 1
  MaxFaults = 1
  None = None
  Garbage = Garbage
SPECIFICATION FairSpec
INVARIANTS
  TypeOK
  DeployedOnce
  DisabledIsSilent
PROPERTIES
  DirectoryChecksApart
  WorkerEnds
