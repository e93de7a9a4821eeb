CONSTANTS
  x1 = x1
  x2 = x2
  Files <- MCFiles
  Tables <- MCTables
  PgTypes = {"INT2", "NUMERIC", "TEXT", "TIMESTAMPTZ"}
  Numbers <- MCNumbers
  Texts = {x1, x2}
  Utf8Texts = {x1}
  Days <- MCDays
  Moments <- MCMoments
  Half <- MCHalf
  Held <- MCHeld
  Printed <- MCPrinted
  JsonTexts = {}
  UuidTexts = {}
  PgSpans = {}
  PgDates <- MCPgDates
  PgStamps <- MCPgStamps
  Wall <- MCWall
  Instant <- MCInstant
SPECIFICATION LakeSpec
INVARIANTS
  LakeTypeOK
  AcceptedIsReadable
  ColumnsAreOwn
  ValuesAreKept
