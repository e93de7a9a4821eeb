SPECIFICATION Spec
CONSTANTS
  x1 = x1
  j1 = j1
  u1 = u1
  Sources <- MCSources
  PgTypes <- MCPgTypes
  Half <- MCHalf
  Held <- MCHeld
  Printed <- MCPrinted
  Texts = {x1, j1, u1}
  JsonTexts = {j1}
  UuidTexts = {u1}
  Fields <- MCFields
  Decimals <- MCDecimals
  Days <- MCDays
  PgSpans <- MCPgSpans
  PgDates <- MCPgDates
  PgStamps <- MCPgStamps
  Wall <- MCWall
  Instant <- MCInstant
  Moments <- MCMoments
  Spans <- MCSpans
  MaxLen = 2
INVARIANTS
  TypeOK
  NumbersAreKept
  
  InstantsAreKept
  ElementsAreKept
