---------------------------- MODULE Cells_proofs ----------------------------
(***************************************************************************)
(* What is read of a column, by either extension: numbers, texts, lists    *)
(* and instants survive their conversion, for every integer width, float   *)
(* format and time zone.                                                   *)
(***************************************************************************)
EXTENDS Columns, LakeCells, WellFoundedInduction, TLAPS

NumTargets == DOMAIN IntBits \cup DOMAIN RealBits \cup {"NUMERIC"}

LEMMA SmallRemainder ==
  ASSUME NEW b \in Int, b > 0, NEW x \in 0 .. b - 1
  PROVE  x % b = x
  OBVIOUS

\* A cast between integers, and one from a float, keep what is in range.
LEMMA CastKeeps ==
  ASSUME NEW w \in Widths, NEW i \in Int, InRange(i, w)
  PROVE  Wrap(i, w) = i /\ Clamp(i, w) = i
<1>1. Half[w] \in Nat \ {0}
  BY CellsAssumption
<1>2. i + Half[w] \in 0 .. 2 * Half[w] - 1
  BY <1>1 DEF InRange
<1>3. (i + Half[w]) % (2 * Half[w]) = i + Half[w]
  <2>1. PICK b \in Int : b = 2 * Half[w]
    BY <1>1
  <2> QED
    BY <1>1, <1>2, <2>1, SmallRemainder
<1> QED
  BY <1>1, <1>3 DEF InRange, Wrap, Clamp

\* Whole numbers are whole: rounding and truncating them changes nothing.
LEMMA EvenIsWhole ==
  ASSUME NEW n \in Int, n % 2 = 0
  PROVE  /\ 2 * (n \div 2) = n
         /\ Truncated(n) = n \div 2
         /\ Rounded(n) = n \div 2
  BY DEF Truncated, Rounded

\* A number of the set is the one nearest to itself.
LEMMA NearestIsSelf ==
  ASSUME NEW S \in SUBSET Int, NEW n \in S
  PROVE  Nearest(n, S) = n
<1> DEFINE Best(m) == \A k \in S : (m - n) * (m - n) <= (k - n) * (k - n)
<1>1. Best(n)
  <2> SUFFICES ASSUME NEW k \in S PROVE (n - n) * (n - n) <= (k - n) * (k - n)
    OBVIOUS
  <2>1. PICK d \in Int : d = k - n
    OBVIOUS
  <2>2. 0 <= d * d
    BY <2>1
  <2> QED
    BY <2>1, <2>2
<1>2. ASSUME NEW m \in S, Best(m) PROVE m = n
  <2>1. (m - n) * (m - n) <= (n - n) * (n - n)
    BY <1>2
  <2>2. PICK d \in Int : d = m - n
    OBVIOUS
  <2>3. d * d <= 0
    BY <2>1, <2>2
  <2>4. d = 0
    BY <2>3
  <2> QED
    BY <2>2, <2>4
<1>3. Nearest(n, S) \in S /\ Best(Nearest(n, S))
  BY <1>1 DEF Nearest
<1> QED
  BY <1>2, <1>3

-----------------------------------------------------------------------------
\* The values of a column that are numbers.
LEMMA NumberValues ==
  ASSUME NEW s, NEW v \in Values(s), v.type = "num"
  PROVE  LET name == ArrowOf(s).name IN
         /\ name \in NumTypes
         /\ v.val \in Int
         /\ v = Num(v.val)
         /\ name \in IntTypes => v.val % 2 = 0
<1> DEFINE name == ArrowOf(s).name
<1>1. v \in ScalarValues(s.base, name)
  <2>1. \A S : v \notin Tagged("list", S) /\ v \notin Tagged("struct", S)
    BY DEF Tagged, Value
  <2>2. /\ \A S : v \notin Lists(S)
        /\ v \notin Structs
    BY <2>1 DEF Lists, Structs
  <2> QED
    BY <2>2 DEF Values
<1>2. CASE name \in DOMAIN SignedBits
  <2> DEFINE h == Half[SignedBits[name]]
  <2>1. h \in Nat
    BY <1>2, CellsAssumption DEF SignedBits, Widths
  <2>2. v \in Nums({2 * i : i \in -h .. h - 1})
    BY <1>1, <1>2 DEF ScalarValues, SignedBits, UnsignedBits, FloatBits
  <2> HIDE DEF h
  <2>3. PICK i \in Int : v = Num(2 * i)
    BY <2>1, <2>2 DEF Nums
  <2> QED
    BY <1>2, <2>3 DEF Num, Value, NumTypes, IntTypes
<1>3. CASE name \in DOMAIN UnsignedBits
  <2> DEFINE h == Half[UnsignedBits[name]]
  <2>1. h \in Nat
    BY <1>3, CellsAssumption DEF UnsignedBits, Widths
  <2>2. name \notin DOMAIN SignedBits
    BY <1>3 DEF SignedBits, UnsignedBits
  <2>3. v \in Nums({2 * i : i \in 0 .. 2 * h - 1})
    BY <1>1, <1>3, <2>2 DEF ScalarValues, SignedBits, UnsignedBits, FloatBits
  <2> HIDE DEF h
  <2>4. PICK i \in Int : v = Num(2 * i)
    BY <2>1, <2>3 DEF Nums
  <2> QED
    BY <1>3, <2>4 DEF Num, Value, NumTypes, IntTypes
<1>4. CASE name \in DOMAIN FloatBits
  <2>1. PICK n \in Int : v = Num(n)
    BY <1>1, <1>4, CellsAssumption
    DEF ScalarValues, Nums, SignedBits, UnsignedBits, FloatBits, FloatWidths
  <2> QED
    BY <1>4, <2>1 DEF Num, Value, NumTypes, IntTypes, SignedBits, UnsignedBits, FloatBits
<1>5. CASE name = "Decimal128"
  <2>1. PICK n \in Int : v = Num(n)
    BY <1>1, <1>5, ColumnsAssumption
    DEF ScalarValues, Nums, SignedBits, UnsignedBits, FloatBits
  <2> QED
    BY <1>5, <2>1 DEF Num, Value, NumTypes, IntTypes, SignedBits, UnsignedBits
<1>6. CASE name \notin NumTypes
  BY <1>1, <1>6 DEF ScalarValues, Tagged, Value, NumTypes, IntTypes
<1> QED
  BY <1>2, <1>3, <1>4, <1>5, <1>6 DEF NumTypes, IntTypes

\* Of the types a number can be read into, only those of numbers.
LEMMA NumberTargets ==
  ASSUME NEW a \in NumTypes, NEW t, a \in Accepts(t)
  PROVE  t \in NumTargets
  BY DEF Accepts, NumTypes, IntTypes, SignedBits, UnsignedBits, FloatBits, NumTargets,
         IntBits, RealBits, ArrayElem

\* A number the target type can hold is converted to itself: by casts between
\* numbers, to floats and to decimals.
LEMMA IntCellKeeps ==
  ASSUME NEW a, NEW n \in Int, NEW w \in Widths, n % 2 = 0, InRange(n \div 2, w)
  PROVE  IntCell(a, n, w) = Num(n)
<1>1. Wrap(n \div 2, w) = n \div 2 /\ Clamp(n \div 2, w) = n \div 2
  BY CastKeeps
<1>2. 2 * (n \div 2) = n /\ Truncated(n) = n \div 2 /\ Rounded(n) = n \div 2
  BY EvenIsWhole
<1>. QED BY <1>1, <1>2 DEF IntCell

LEMMA RealCellKeeps ==
  ASSUME NEW w \in FloatWidths, NEW n \in Held[w]
  PROVE  RealCell(n, w) = Num(n)
<1>1. Held[w] \in SUBSET Int
  BY CellsAssumption
<1>. QED BY <1>1, NearestIsSelf DEF RealCell

LEMMA NumericCellKeeps ==
  ASSUME NEW a, NEW n \in Int, a \in DOMAIN FloatBits => n \in Printed[FloatBits[a]]
  PROVE  NumericCell(a, n) = Num(n)
<1>1. a \in DOMAIN FloatBits => Printed[FloatBits[a]] \in SUBSET Int
  BY CellsAssumption DEF FloatBits, FloatWidths
<1>. QED BY <1>1, NearestIsSelf DEF NumericCell

LEMMA ConversionKeeps ==
  ASSUME NEW a, NEW n \in Int, NEW t \in NumTargets, Fits(a.name, n, t)
  PROVE  ValueCell(a, Num(n), t) = Num(n)
<1> DEFINE v == Num(n)
<1>0. v.val = n
  BY DEF Num, Value
<1>1. CASE t \in DOMAIN IntBits
  <2>1. IntBits[t] \in Widths
    BY <1>1 DEF IntBits, Widths
  <2>2. n % 2 = 0 /\ InRange(n \div 2, IntBits[t])
    BY <1>1 DEF Fits, IntBits, RealBits
  <2>3. IntCell(a.name, n, IntBits[t]) = Num(n)
    BY <2>1, <2>2, IntCellKeeps
  <2>4. ValueCell(a, v, t) = IntCell(a.name, v.val, IntBits[t])
    BY <1>1 DEF ValueCell, IntBits, RealBits, ArrayElem
  <2> QED
    BY <1>0, <2>3, <2>4
<1>2. CASE t \in DOMAIN RealBits
  <2>1. t \notin DOMAIN IntBits
    BY <1>2 DEF IntBits, RealBits
  <2>2. RealBits[t] \in FloatWidths
    BY <1>2 DEF RealBits, FloatWidths
  <2>4. n \in Held[RealBits[t]]
    BY <1>2, <2>1 DEF Fits, IntBits, RealBits
  <2>3. ValueCell(a, v, t) = RealCell(v.val, RealBits[t])
    BY <1>2, <2>1 DEF ValueCell, IntBits, RealBits, ArrayElem
  <2> QED
    BY <1>0, <2>2, <2>3, <2>4, RealCellKeeps
<1>3. CASE t = "NUMERIC"
  <2>1. a.name \in DOMAIN FloatBits => n \in Printed[FloatBits[a.name]]
    BY <1>3 DEF Fits, IntBits, RealBits
  <2>2. t \notin DOMAIN IntBits /\ t \notin DOMAIN RealBits
    BY <1>3 DEF IntBits, RealBits
  <2>3. ValueCell(a, v, t) = NumericCell(a.name, v.val)
    BY <1>3, <2>2 DEF ValueCell, IntBits, RealBits, ArrayElem
  <2> QED
    BY <1>0, <2>1, <2>3, NumericCellKeeps
<1> QED
  BY <1>1, <1>2, <1>3 DEF NumTargets

-----------------------------------------------------------------------------
\* What was read is a value of the present file, converted to the present type.
SeenInv ==
  \/ seen = NotRead
  \/ /\ seen.value \in Values(source) \cup {Null}
     /\ seen.cell = GetCell(ArrowOf(source), seen.value, pgtype)

LEMMA InitSeen == Init => SeenInv
  BY DEF Init, SeenInv

\* A table of unknown type is not read, and `auto` tells the truth.
HistoryInv ==
  /\ source \in Sources
  /\ pgtype = NoType => seen = NotRead /\ ~auto
  /\ auto => pgtype = AutoType(source)

LEMMA InitHistory == Init => HistoryInv
  BY DEF Init, HistoryInv

LEMMA NextHistory == HistoryInv /\ [Next]_vars => HistoryInv'
<1> SUFFICES ASSUME HistoryInv, [Next]_vars PROVE HistoryInv'
  OBVIOUS
<1>1. CASE CreateAuto
  BY <1>1 DEF CreateAuto, HistoryInv
<1>2. ASSUME NEW t \in PgTypes, CreateDeclared(t) PROVE HistoryInv'
  BY <1>2 DEF CreateDeclared, HistoryInv
<1>3. CASE Drop
  BY <1>3 DEF Drop, HistoryInv
<1>4. ASSUME NEW s \in Sources, ReplaceFile(s) PROVE HistoryInv'
  BY <1>4 DEF ReplaceFile, HistoryInv
<1>5. ASSUME NEW v \in Values(source) \cup {Null}, Read(v) PROVE HistoryInv'
  BY <1>5 DEF Read, HistoryInv
<1>6. CASE UNCHANGED vars
  BY <1>6 DEF vars, HistoryInv
<1> QED
  BY <1>1, <1>2, <1>3, <1>4, <1>5, <1>6 DEF Next

LEMMA NextSeen == HistoryInv /\ SeenInv /\ [Next]_vars => SeenInv'
<1> SUFFICES ASSUME HistoryInv, SeenInv, [Next]_vars PROVE SeenInv'
  OBVIOUS
<1>1. CASE CreateAuto
  BY <1>1 DEF CreateAuto, HistoryInv, SeenInv
<1>2. ASSUME NEW t \in PgTypes, CreateDeclared(t) PROVE SeenInv'
  BY <1>2 DEF CreateDeclared, HistoryInv, SeenInv
<1>3. CASE Drop
  BY <1>3 DEF Drop, SeenInv
<1>4. ASSUME NEW s \in Sources, ReplaceFile(s) PROVE SeenInv'
  BY <1>4 DEF ReplaceFile, SeenInv
<1>5. ASSUME NEW v \in Values(source) \cup {Null}, Read(v) PROVE SeenInv'
  BY <1>5 DEF Read, SeenInv
<1>6. CASE UNCHANGED vars
  BY <1>6 DEF vars, SeenInv
<1> QED
  BY <1>1, <1>2, <1>3, <1>4, <1>5, <1>6 DEF Next

LEMMA SeenIsConverted == Spec => [](HistoryInv /\ SeenInv)
  BY InitHistory, NextHistory, InitSeen, NextSeen, PTL DEF Spec

\* A number that fits the column is read as itself (get_cell, all casts).
THEOREM NumbersAlwaysKept == Spec => []NumbersAreKept
<1>1. SeenInv => NumbersAreKept
  <2> SUFFICES ASSUME SeenInv, Got("num"), Fits(ArrowOf(source).name, seen.value.val, pgtype)
               PROVE  seen.cell = seen.value
    BY DEF NumbersAreKept
  <2> DEFINE a == ArrowOf(source)
             v == seen.value
  <2>1. v.type = "num" /\ seen.cell # Fail
    BY DEF Got
  <2>2. v \in Values(source) /\ seen.cell = GetCell(a, v, pgtype)
    BY <2>1 DEF SeenInv, NotRead, Unread, Null
  <2>3. /\ a.name \in NumTypes /\ v.val \in Int /\ v = Num(v.val)
        /\ a.name \in IntTypes => v.val % 2 = 0
    BY <2>1, <2>2, NumberValues
  <2>4. a.name \in Accepts(pgtype) /\ v # Null
    BY <2>1, <2>2 DEF GetCell, Null
  <2>5. pgtype \in NumTargets
    BY <2>3, <2>4, NumberTargets
  <2>6. ValueCell(a, Num(v.val), pgtype) = Num(v.val)
    BY <2>3, <2>5, ConversionKeeps
  <2> QED
    BY <2>2, <2>3, <2>4, <2>6 DEF GetCell
<1> QED
  BY <1>1, SeenIsConverted, PTL

-----------------------------------------------------------------------------
(* Dates and instants.                                                      *)

\* What Postgres makes of a date or a reading: itself from the year 1 on, and
\* one before that otherwise.
LEMMA MadeKeeps ==
  ASSUME NEW type, type \notin {"null", "fail"}, NEW d \in Dates \cup Readings, NEW S,
         Made(type, d, S) # Fail
  PROVE  /\ Made(type, d, S).type = type
         /\ Made(type, d, S).val \in S
         /\ EraKept(d, Made(type, d, S).val)
<1> DEFINE made == [d EXCEPT !.year = PgYear(@)]
<1>1. Made(type, d, S) = Value(type, made) /\ made \in S /\ d.year # 0
  BY DEF Made
<1>2. d.year \in Int
  BY DEF Dates, Readings
<1>3. made.year = PgYear(d.year)
  BY DEF Dates, Readings
<1>4. d.year >= 1 => made = d
  BY <1>2 DEF PgYear, Dates, Readings
<1>5. d.year < 1 => made.year < 1
  BY <1>1, <1>2, <1>3 DEF PgYear
<1> HIDE DEF made
<1>. QED BY <1>1, <1>2, <1>4, <1>5 DEF Value, EraKept

\* The arms of get_cell for them.
LEMMA MomentArms ==
  ASSUME NEW a, NEW v
  PROVE  /\ ValueCell(a, v, "DATE") = Made("date", v.val, PgDates)
         /\ ValueCell(a, v, "INTERVAL") = IntervalCell(v)
         /\ ValueCell(a, v, "TIMESTAMP") = TimestampCell(a.name, v)
         /\ ValueCell(a, v, "TIMESTAMPTZ") = TimestamptzCell(a.name, v)
<1>1. \A t \in {"DATE", "INTERVAL", "TIMESTAMP", "TIMESTAMPTZ"} :
        t \notin DOMAIN IntBits \cup DOMAIN RealBits \cup DOMAIN ArrayElem
  BY DEF IntBits, RealBits, ArrayElem
<1>. QED BY <1>1 DEF ValueCell, DateCell

LEMMA MadeOutcome ==
  ASSUME NEW type, NEW d, NEW S
  PROVE  Made(type, d, S) = Fail \/ \E x : Made(type, d, S) = Value(type, x)
  BY DEF Made

LEMMA InstantOutcome ==
  ASSUME NEW local
  PROVE  InstantCell(local) = Fail \/
           \E x \in PgStamps : InstantCell(local) = Value("stamp", x)
  BY CellsAssumption DEF InstantCell

\* The values of a column that are dates or times.
LEMMA MomentValues ==
  ASSUME NEW s, NEW v \in Values(s), v.type \in {"date", "time"}
  PROVE  /\ v.type = "date" => v.val \in Dates
         /\ v.type = "time" => v.val.sec \in Readings
<1>1. \A S : /\ v \notin Tagged("struct", S) /\ v \notin Tagged("bool", S)
            /\ v \notin Tagged("list", S) /\ v \notin Tagged("text", S)
            /\ v \notin Tagged("bytes", S) /\ v \notin Tagged("span", S) /\ v \notin Nums(S)
  BY DEF Tagged, Nums, Num, Value
<1>2. v \notin Structs /\ \A S : v \notin Lists(S)
  BY <1>1 DEF Structs, Lists
<1>3. PICK base, name : v \in ScalarValues(base, name)
  BY <1>2 DEF Values
<1>4. v \in Tagged("date", Days) \cup Tagged("time", Moments)
  BY <1>1, <1>3 DEF ScalarValues
<1>5. v.val \in (IF v.type = "date" THEN Days ELSE Moments)
  BY <1>4 DEF Tagged, Value
<1>. QED BY <1>5, CellsAssumption

\* An instant goes through the reading that clocks show at it, and comes back
\* as itself or as another instant of that reading.
LEMMA InstantKept ==
  ASSUME NEW sec, sec \in DOMAIN Wall => Wall[sec].year >= 1, NEW v, v.val.sec = sec,
         TimestamptzCell("TimestampTz", v) # Fail
  PROVE  \/ TimestamptzCell("TimestampTz", v).val = sec
         \/ \E i \in DOMAIN Wall : i # sec /\ Wall[i] = Wall[sec]
<1>1. sec \in DOMAIN Wall /\ TimestamptzCell("TimestampTz", v) = InstantCell(StampCell(Wall[sec]))
  BY DEF TimestamptzCell
<1> DEFINE local == Wall[sec]
<1>2. local \in Readings /\ local.year >= 1
  BY <1>1, CellsAssumption
<1>3. StampCell(local) # Fail /\ StampCell(local).val \in DOMAIN Instant
      /\ InstantCell(StampCell(local)) = Value("stamp", Instant[StampCell(local).val])
  BY <1>1 DEF InstantCell
<1>4. StampCell(local).val = local
  BY <1>2, <1>3, MadeKeeps DEF StampCell, EraKept
<1>5. TimestamptzCell("TimestampTz", v).val = Instant[local] /\ local \in DOMAIN Instant
  BY <1>1, <1>3, <1>4 DEF Value
<1>6. Instant[local] \in DOMAIN Wall /\ Wall[Instant[local]] = local
  BY <1>1, <1>5, CellsAssumption
<1>. QED BY <1>5, <1>6

\* From the year 1 on a date and a time stamp are read to the second, whatever the
\* time zone, except for readings that clocks show twice; none before that is
\* moved into the common era (datetime.rs).
THEOREM InstantsAlwaysKept == Spec => []InstantsAreKept
<1>1. SeenInv => InstantsAreKept
  <2> DEFINE name == ArrowOf(source).name
             sec == seen.value.val.sec
  <2> SUFFICES ASSUME SeenInv PROVE InstantsAreKept
    OBVIOUS
  <2>1. ASSUME Got("date") \/ Got("time")
        PROVE  /\ seen.value \in Values(source)
               /\ seen.cell = ValueCell(ArrowOf(source), seen.value, pgtype)
               /\ seen.cell # Fail
    BY <2>1 DEF SeenInv, Got, NotRead, Unread, Null, GetCell
  <2>2. ASSUME Got("date"), pgtype = "DATE" PROVE EraKept(seen.value.val, seen.cell.val)
    <3>1. seen.cell = Made("date", seen.value.val, PgDates)
      BY <2>1, <2>2, MomentArms
    <3>. QED BY <2>1, <2>2, <3>1, MomentValues, MadeKeeps DEF Got
  <2>3. ASSUME Got("time"), name = "Timestamp", pgtype = "TIMESTAMP"
        PROVE  EraKept(sec, seen.cell.val)
    <3>1. seen.cell = Made("stamp", sec, PgStamps)
      BY <2>1, <2>3, MomentArms DEF TimestampCell, StampCell
    <3>. QED BY <2>1, <2>3, <3>1, MomentValues, MadeKeeps DEF Got
  <2>4. ASSUME Got("time"), name = "TimestampTz", pgtype = "TIMESTAMPTZ", Wall[sec].year >= 1
        PROVE  seen.cell.val = sec \/ \E i \in DOMAIN Wall : i # sec /\ Wall[i] = Wall[sec]
    <3>1. seen.cell = TimestamptzCell("TimestampTz", seen.value)
      BY <2>1, <2>4, MomentArms
    <3>. QED BY <2>1, <2>4, <3>1, InstantKept
  <2>. QED BY <2>2, <2>3, <2>4 DEF InstantsAreKept
<1> QED
  BY <1>1, SeenIsConverted, PTL

-----------------------------------------------------------------------------
(* Lists and nulls.                                                        *)

\* The values of lists are those of columns of lists.
LEMMA ListValues ==
  ASSUME NEW s, NEW v \in Values(s), v.type = "list"
  PROVE  ArrowOf(s).name = "List"
<1>1. \A S : v \notin Tagged("struct", S) /\ v \notin Tagged("bool", S)
            /\ v \notin Tagged("text", S) /\ v \notin Tagged("bytes", S)
            /\ v \notin Tagged("date", S) /\ v \notin Tagged("time", S)
            /\ v \notin Tagged("span", S) /\ v \notin Nums(S)
  BY DEF Tagged, Nums, Num, Value
<1>2. v \notin Structs
  BY <1>1 DEF Structs
<1>3. \A base, name : v \notin ScalarValues(base, name)
  BY <1>1 DEF ScalarValues
<1>. QED
  BY <1>2, <1>3 DEF Values

\* Structs are values of a column of structs, or in lists of them.
LEMMA ScalarsAreFlat ==
  ASSUME NEW base, NEW name, NEW v \in ScalarValues(base, name)
  PROVE  v.type \notin {"struct", "list", "null"}
<1>1. \A type, S : v \in Tagged(type, S) => v.type = type
  BY DEF Tagged, Value
<1>2. \A S : v \in Nums(S) => v.type = "num"
  BY DEF Nums, Num, Value
<1>. QED BY <1>1, <1>2 DEF ScalarValues

LEMMA StructSources ==
  ASSUME NEW s \in Sources, ArrowOf(s).name = "Struct" \/ ArrowOf(s).elem = "Struct"
  PROVE  ArrowOf(s).fields = Fields
<1>1. s.base \in Words /\ s.suf \in Suffixes
  BY ColumnsAssumption DEF TypeNames
<1>2. ArrowName(s.pre, s.base) # "Struct"
  BY <1>1 DEF ArrowName, Words, Refused
<1>3. CASE s.base = "STRUCT"
  BY <1>3 DEF ArrowOf, StructOf, ListOfStructs
<1>4. CASE s.base # "STRUCT"
  BY <1>1, <1>2, <1>4 DEF ArrowOf, Scalar, ListOf, Suffixes
<1>. QED BY <1>3, <1>4

LEMMA StructValues ==
  ASSUME NEW s, NEW v \in Values(s), v.type = "struct"
  PROVE  v \in Structs /\ ArrowOf(s).name = "Struct"
<1>1. \A S : v \notin Lists(S)
  BY DEF Lists, Tagged, Value
<1>2. \A base, name : v \notin ScalarValues(base, name)
  BY ScalarsAreFlat
<1>. QED BY <1>1, <1>2 DEF Values

\* The elements of a list.
LEMMA ListElements ==
  ASSUME NEW S, NEW v \in Lists(S)
  PROVE  v.type = "list" /\ \A i \in DOMAIN v.val : v.val[i] \in S \cup {Null}
<1>1. PICK n \in 0 .. MaxLen : \E f \in [1 .. n -> S \cup {Null}] : v = Value("list", f)
  BY DEF Lists, Tagged
<1>2. PICK f \in [1 .. n -> S \cup {Null}] : v = Value("list", f)
  BY <1>1
<1>. QED BY <1>2 DEF Value

LEMMA StructElements ==
  ASSUME NEW s, NEW v \in Values(s), v.type = "list", NEW i \in DOMAIN v.val,
         v.val[i].type = "struct"
  PROVE  v.val[i] \in Structs /\ ArrowOf(s).elem = "Struct"
<1>1. v \in Lists(IF ArrowOf(s).elem = "Struct" THEN Structs
                  ELSE ScalarValues(s.base, ArrowOf(s).elem))
  BY ListValues DEF Values
<1>2. v.val[i] # Null
  BY DEF Null
<1>. QED BY <1>1, <1>2, ListElements, ScalarsAreFlat

\* An outcome with a value is neither null nor a failure.
LEMMA ValueIsValue ==
  ASSUME NEW type, type \notin {"null", "fail"}, NEW x
  PROVE  Value(type, x) \notin {Null, Fail} /\ Value(type, x).val = x
  BY DEF Value, Null, Fail

LEMMA NumIsValue ==
  ASSUME NEW n
  PROVE  Num(n) \notin {Null, Fail}
  BY DEF Num, Value, Null, Fail

LEMMA FailIsNotNull == Fail # Null
  BY DEF Fail, Null

LEMMA ObjectNotNull ==
  ASSUME NEW fields, NEW v
  PROVE  ObjectCell(fields, v) # Null
  BY ValueIsValue, FailIsNotNull DEF ObjectCell

\* get_struct_value leaves out the null fields, and only them.
LEMMA ObjectKeeps ==
  ASSUME NEW x \in Structs, ObjectCell(Fields, x) # Fail
  PROVE  FieldsKept(ObjectCell(Fields, x), x)
<1>1. DOMAIN x.val = DOMAIN Fields
  BY DEF Structs, Tagged, Value
<1> DEFINE object == [f \in {g \in DOMAIN Fields : x.val[g] # Null}
                        |-> FieldCell(Fields[f], x.val[f])]
<1>2. ObjectCell(Fields, x) = Value("object", object)
  BY DEF ObjectCell
<1>3. DOMAIN object = {g \in DOMAIN Fields : x.val[g] # Null}
  OBVIOUS
<1> HIDE DEF object
<1>. QED BY <1>1, <1>2, <1>3 DEF FieldsKept, Value

\* get_list_value keeps the places of a list, and its nulls at their places.
LEMMA JsonListKeeps ==
  ASSUME NEW a, NEW v, v # Null, JsonListCell(a, v) # Fail
  PROVE  /\ JsonListCell(a, v) # Null
         /\ DOMAIN JsonListCell(a, v).val = DOMAIN v.val
         /\ \A i \in DOMAIN v.val : JsonListCell(a, v).val[i] = Null <=> v.val[i] = Null
         /\ a.elem = "Struct" =>
              \A i \in DOMAIN v.val : v.val[i] # Null =>
                /\ JsonListCell(a, v).val[i] = ObjectCell(a.fields, v.val[i])
                /\ ObjectCell(a.fields, v.val[i]) # Fail
<1>1. CASE a.elem \in JsonElems
  BY <1>1 DEF JsonListCell, JsonElems, SignedBits
<1>2. CASE a.elem \notin JsonElems
  <2> DEFINE objects == [i \in DOMAIN v.val |->
                           IF v.val[i] = Null THEN Null ELSE ObjectCell(a.fields, v.val[i])]
  <2>1. JsonListCell(a, v) = Value("list", objects) /\ \A i \in DOMAIN objects : objects[i] # Fail
    BY <1>2 DEF JsonListCell
  <2>2. JsonListCell(a, v) # Null /\ JsonListCell(a, v).val = objects
    BY <2>1, ValueIsValue
  <2>3. \A i \in DOMAIN v.val : objects[i] = Null <=> v.val[i] = Null
    BY ObjectNotNull
  <2>4. \A i \in DOMAIN v.val : v.val[i] # Null =>
          objects[i] = ObjectCell(a.fields, v.val[i])
    OBVIOUS
  <2>5. DOMAIN objects = DOMAIN v.val
    OBVIOUS
  <2> HIDE DEF objects
  <2>. QED BY <2>1, <2>2, <2>3, <2>4, <2>5
<1>. QED BY <1>1, <1>2

\* The target types, and which arm of get_cell reads them.
NumberCells(t) == t \in NumTargets
TimeCells(t) == t \in {"DATE", "INTERVAL", "TIMESTAMP", "TIMESTAMPTZ"}
TextCells(t) == t \in {"TEXT", "BYTEA", "UUID"}
JsonCells(t) == t \in {"JSON", "JSONB"}
PlainCells(t) == t \in {"BOOL", "TIME"}
ArrayCells(t) == t \in DOMAIN ArrayElem

LEMMA TargetKinds ==
  ASSUME NEW t, NEW name, name \in Accepts(t)
  PROVE  \/ NumberCells(t) \/ TimeCells(t) \/ TextCells(t)
         \/ JsonCells(t) \/ PlainCells(t) \/ ArrayCells(t)
  BY DEF Accepts, NumberCells, TimeCells, TextCells, JsonCells, PlainCells, ArrayCells,
         NumTargets, IntBits, RealBits

LEMMA NumberNotNull ==
  ASSUME NEW a, NEW v, NEW t, NumberCells(t)
  PROVE  ValueCell(a, v, t) # Null
<1>1. \A w : IntCell(a.name, v.val, w) # Null /\ RealCell(v.val, w) # Null
  BY NumIsValue, FailIsNotNull DEF IntCell, RealCell
<1>2. NumericCell(a.name, v.val) # Null
  BY NumIsValue DEF NumericCell
<1>3. CASE t \in DOMAIN IntBits
  BY <1>1, <1>3 DEF ValueCell, IntBits, RealBits, ArrayElem
<1>4. CASE t \in DOMAIN RealBits
  BY <1>1, <1>4 DEF ValueCell, IntBits, RealBits, ArrayElem
<1>5. CASE t = "NUMERIC"
  BY <1>2, <1>5 DEF ValueCell, IntBits, RealBits, ArrayElem
<1>. QED BY <1>3, <1>4, <1>5 DEF NumberCells, NumTargets

LEMMA TimeNotNull ==
  ASSUME NEW a, NEW v, v # Null, NEW t, TimeCells(t)
  PROVE  ValueCell(a, v, t) # Null
<1>1. \A d, S : Made("stamp", d, S) # Null /\ Made("date", d, S) # Null
  BY MadeOutcome, ValueIsValue, FailIsNotNull
<1>2. \A local : InstantCell(local) # Null
  BY InstantOutcome, ValueIsValue, FailIsNotNull
<1>3. DateCell(v) # Null /\ TimestampCell(a.name, v) # Null
  <2>1. MidnightCell(v) # Null
    BY ValueIsValue, FailIsNotNull DEF MidnightCell
  <2>. QED BY <1>1, <2>1 DEF DateCell, TimestampCell, StampCell
<1>4. TimestamptzCell(a.name, v) # Null
  BY <1>2, FailIsNotNull DEF TimestamptzCell
<1>5. IntervalCell(v) # Null
  BY ValueIsValue, FailIsNotNull DEF IntervalCell
<1>. QED
  BY <1>3, <1>4, <1>5 DEF TimeCells, ValueCell, IntBits, RealBits, ArrayElem

\* A text or a binary keeps its bytes, whatever column it is read into.
LEMMA TextKept ==
  ASSUME NEW a, NEW v, NEW t, TextCells(t), ValueCell(a, v, t) # Fail
  PROVE  ValueCell(a, v, t) # Null /\ ValueCell(a, v, t).val = v.val
<1>1. ValueCell(a, v, t) \in {Value("text", v.val), Value("bytes", v.val),
                              Value("uuid", v.val), Fail}
  BY DEF TextCells, ValueCell, IntBits, RealBits, ArrayElem
<1>. QED BY <1>1, ValueIsValue

LEMMA JsonKept ==
  ASSUME NEW a, NEW v, v # Null, NEW t, JsonCells(t), a.name \in Accepts(t),
         ValueCell(a, v, t) # Fail
  PROVE  /\ ValueCell(a, v, t) # Null
         /\ a.name = "Utf8" => ValueCell(a, v, t).val = v.val
         /\ a.name = "List" =>
              /\ DOMAIN ValueCell(a, v, t).val = DOMAIN v.val
              /\ \A i \in DOMAIN v.val : ValueCell(a, v, t).val[i] = Null <=> v.val[i] = Null
         /\ a.name = "Struct" => ValueCell(a, v, t) = ObjectCell(a.fields, v)
         /\ a.name = "List" /\ a.elem = "Struct" =>
              \A i \in DOMAIN v.val : v.val[i] # Null =>
                /\ ValueCell(a, v, t).val[i] = ObjectCell(a.fields, v.val[i])
                /\ ObjectCell(a.fields, v.val[i]) # Fail
<1>1. ValueCell(a, v, t) = JsonCell(a, v)
  BY DEF JsonCells, ValueCell, IntBits, RealBits, ArrayElem
<1>2. a.name \in {"Struct", "Utf8", "List"}
  BY DEF JsonCells, Accepts, RealBits
<1>3. CASE a.name = "Utf8"
  BY <1>1, <1>3, ValueIsValue, FailIsNotNull DEF JsonCell
<1>4. CASE a.name = "Struct"
  BY <1>1, <1>4, ObjectNotNull DEF JsonCell
<1>5. CASE a.name = "List"
  <2>1. JsonCell(a, v) = JsonListCell(a, v)
    BY <1>5 DEF JsonCell
  <2>. QED BY <1>1, <1>5, <2>1, JsonListKeeps
<1>. QED BY <1>2, <1>3, <1>4, <1>5

LEMMA ArrayKept ==
  ASSUME NEW a, NEW v, NEW t, ArrayCells(t) \/ PlainCells(t), ValueCell(a, v, t) # Fail
  PROVE  ValueCell(a, v, t) = v
<1>1. CASE PlainCells(t)
  BY <1>1 DEF PlainCells, ValueCell, IntBits, RealBits, ArrayElem
<1>2. CASE ArrayCells(t)
  <2>1. ValueCell(a, v, t) = ArrayCell(a, v, t)
    BY <1>2 DEF ArrayCells, ValueCell, IntBits, RealBits, ArrayElem
  <2>. QED BY <2>1 DEF ArrayCell
<1>. QED BY <1>1, <1>2

LEMMA CellNotNull ==
  ASSUME NEW a, NEW v, v # Null, NEW t, a.name \in Accepts(t)
  PROVE  ValueCell(a, v, t) # Null
<1>1. NumberCells(t) \/ TimeCells(t) => ValueCell(a, v, t) # Null
  BY NumberNotNull, TimeNotNull
<1>2. TextCells(t) => ValueCell(a, v, t) # Null
  BY TextKept, FailIsNotNull
<1>3. JsonCells(t) => ValueCell(a, v, t) # Null
  BY JsonKept, FailIsNotNull
<1>4. PlainCells(t) \/ ArrayCells(t) => ValueCell(a, v, t) # Null
  BY ArrayKept, FailIsNotNull
<1>. QED BY <1>1, <1>2, <1>3, <1>4, TargetKinds

\* The value and the cell just read.
LEMMA SeenCell ==
  ASSUME SeenInv, seen.cell # Fail, seen # NotRead
  PROVE  /\ seen.value \in Values(source) \cup {Null}
         /\ ArrowOf(source).name \in Accepts(pgtype)
         /\ seen.value = Null => seen.cell = Null
         /\ seen.value # Null => seen.cell = ValueCell(ArrowOf(source), seen.value, pgtype)
  BY DEF SeenInv, GetCell

\* A list keeps its length, its order and the places of its nulls, null is read
\* for null only, and of a struct only null fields are left out (get_cell,
\* get_list_value, get_struct_value, get_primitive_list_value).
THEOREM ElementsAlwaysKept == Spec => []ElementsAreKept
<1>1. HistoryInv /\ SeenInv => ElementsAreKept
  <2> SUFFICES ASSUME HistoryInv, SeenInv PROVE ElementsAreKept
    OBVIOUS
  <2>1. CASE seen = NotRead
    BY <2>1 DEF ElementsAreKept, NotRead, Unread, Got, Null
  <2>2. CASE seen.cell = Fail
    BY <2>2 DEF ElementsAreKept, Got
  <2>3. CASE seen # NotRead /\ seen.cell # Fail
    <3> DEFINE a == ArrowOf(source)
               v == seen.value
    <3>1. /\ v \in Values(source) \cup {Null} /\ a.name \in Accepts(pgtype)
          /\ v = Null => seen.cell = Null
          /\ v # Null => seen.cell = ValueCell(a, v, pgtype)
      BY <2>3, SeenCell
    <3>2. seen.cell = Null <=> v = Null
      BY <3>1, CellNotNull
    <3>3. ASSUME v.type = "list"
          PROVE  /\ DOMAIN seen.cell.val = DOMAIN v.val
                 /\ \A i \in DOMAIN v.val : seen.cell.val[i] = Null <=> v.val[i] = Null
      <4>1. v # Null
        BY <3>3 DEF Null
      <4>2. a.name = "List"
        BY <3>1, <3>3, <4>1, ListValues
      <4>3. JsonCells(pgtype) \/ ArrayCells(pgtype)
        BY <3>1, <4>2 DEF Accepts, JsonCells, ArrayCells, NumTypes, IntTypes, SignedBits,
                          UnsignedBits, FloatBits, RealBits
      <4>. QED BY <2>3, <3>1, <4>1, <4>2, <4>3, JsonKept, ArrayKept
    <3>4. source \in Sources
      BY DEF HistoryInv
    <3>5. ASSUME v.type = "struct" PROVE FieldsKept(seen.cell, v)
      <4>1. v # Null
        BY <3>5 DEF Null
      <4>2. v \in Structs /\ a.name = "Struct" /\ a.fields = Fields
        BY <3>1, <3>4, <3>5, <4>1, StructValues, StructSources
      <4>3. JsonCells(pgtype)
        BY <3>1, <4>2 DEF Accepts, JsonCells, NumTypes, IntTypes, SignedBits,
                          UnsignedBits, FloatBits, RealBits
      <4>4. seen.cell = ObjectCell(Fields, v)
        BY <2>3, <3>1, <4>1, <4>2, <4>3, JsonKept
      <4>. QED BY <2>3, <4>2, <4>4, ObjectKeeps
    <3>6. ASSUME v.type = "list", NEW i \in DOMAIN v.val, v.val[i].type = "struct"
          PROVE  FieldsKept(seen.cell.val[i], v.val[i])
      <4>1. v # Null /\ v.val[i] # Null
        BY <3>6 DEF Null
      <4>2. v.val[i] \in Structs /\ a.elem = "Struct" /\ a.name = "List" /\ a.fields = Fields
        BY <3>1, <3>4, <3>6, <4>1, StructElements, StructSources, ListValues
      <4>3. JsonCells(pgtype) \/ ArrayCells(pgtype)
        BY <3>1, <4>2 DEF Accepts, JsonCells, ArrayCells, NumTypes, IntTypes, SignedBits,
                          UnsignedBits, FloatBits, RealBits
      <4>4. ~ArrayCells(pgtype)
        BY <2>3, <3>1, <4>1, <4>2
        DEF ArrayCells, ValueCell, IntBits, RealBits, ArrayElem, ArrayCell
      <4>5. seen.cell.val[i] = ObjectCell(Fields, v.val[i]) /\ ObjectCell(Fields, v.val[i]) # Fail
        BY <2>3, <3>1, <4>1, <4>2, <4>3, <4>4, JsonKept
      <4>. QED BY <4>2, <4>5, ObjectKeeps
    <3>. QED BY <3>2, <3>3, <3>5, <3>6 DEF ElementsAreKept, Got
  <2>. QED BY <2>1, <2>2, <2>3
<1>. QED
  BY <1>1, SeenIsConverted, PTL

-----------------------------------------------------------------------------
(* The type of a cell.                                                      *)

\* `as` ends in the range of its type, from an integer and from a float.
LEMMA WrapInRange ==
  ASSUME NEW i \in Int, NEW w \in Widths
  PROVE  Wrap(i, w) \in Int /\ InRange(Wrap(i, w), w)
<1>1. PICK h \in Nat \ {0} : h = Half[w]
  BY CellsAssumption
<1>2. PICK b \in Nat \ {0} : b = 2 * h
  BY <1>1
<1>3. PICK j \in Int : j = i + h
  BY <1>1
<1>4. j % b \in 0 .. b - 1
  BY <1>2, <1>3
<1>. QED BY <1>1, <1>2, <1>3, <1>4 DEF Wrap, InRange

LEMMA ClampInRange ==
  ASSUME NEW i \in Int, NEW w \in Widths
  PROVE  Clamp(i, w) \in Int /\ InRange(Clamp(i, w), w)
<1>1. Half[w] \in Nat \ {0}
  BY CellsAssumption
<1>. QED BY <1>1 DEF Clamp, InRange

LEMMA Doubled ==
  ASSUME NEW i \in Int
  PROVE  (2 * i) % 2 = 0 /\ (2 * i) \div 2 = i
  OBVIOUS

LEMMA IntCellTyped ==
  ASSUME NEW a \in NumTypes, NEW n \in Int, NEW w \in Widths, IntCell(a, n, w) # Fail
  PROVE  /\ IntCell(a, n, w).type = "num"
         /\ IntCell(a, n, w).val % 2 = 0
         /\ InRange(IntCell(a, n, w).val \div 2, w)
<1>1. n \div 2 \in Int /\ Truncated(n) \in Int /\ Rounded(n) \in Int
  BY DEF Truncated, Rounded
<1>2. \E i \in Int : InRange(i, w) /\ IntCell(a, n, w) = Num(2 * i)
  BY <1>1, WrapInRange, ClampInRange DEF IntCell
<1>. QED BY <1>2, Doubled DEF Num, Value

LEMMA LeastNumber ==
  ASSUME NEW T, T \subseteq Nat, T # {}
  PROVE  \E x \in T : \A y \in T : x <= y
<1>1. PICK x \in T : \A y \in T : <<y, x>> \notin OpToRel(<, Nat)
  BY NatLessThanWellFounded, WFMin
<1>2. \A y \in T : ~(y < x)
  BY <1>1 DEF OpToRel
<1>. QED BY <1>2

\* Among numbers there is one nearest to any.
LEMMA NearestIsIn ==
  ASSUME NEW S \in SUBSET Int, S # {}, NEW n \in Int
  PROVE  Nearest(n, S) \in S
<1> DEFINE Far(m) == (m - n) * (m - n)
           T == {Far(m) : m \in S}
<1>1. T \subseteq Nat
  <2> SUFFICES ASSUME NEW m \in S PROVE Far(m) \in Nat
    OBVIOUS
  <2>1. PICK d \in Int : d = m - n
    OBVIOUS
  <2>2. d * d \in Nat
    OBVIOUS
  <2>. QED BY <2>1, <2>2
<1>2. T # {}
  OBVIOUS
<1>3. PICK x \in T : \A y \in T : x <= y
  <2> HIDE DEF T
  <2>. QED BY <1>1, <1>2, LeastNumber
<1>4. PICK m \in S : x = Far(m)
  OBVIOUS
<1>5. \A k \in S : Far(m) <= Far(k)
  BY <1>3, <1>4
<1>. QED BY <1>5 DEF Nearest

LEMMA RealCellTyped ==
  ASSUME NEW n \in Int, NEW w \in FloatWidths
  PROVE  RealCell(n, w).type = "num" /\ RealCell(n, w).val \in Held[w]
<1>1. Held[w] \in SUBSET Int /\ Held[w] # {}
  BY CellsAssumption DEF FloatWidths
<1>. QED BY <1>1, NearestIsIn DEF RealCell, Num, Value

\* The values of a type are of that type.
LEMMA ScalarKinds ==
  ASSUME NEW base, NEW name, NEW v \in ScalarValues(base, name)
  PROVE  /\ name \in NumTypes => v.type = "num"
         /\ name = "Boolean" => v.type = "bool"
         /\ name = "Utf8" => v.type = "text"
         /\ name = "Time64" => v.type = "time"
<1>1. \A type, S : v \in Tagged(type, S) => v.type = type
  BY DEF Tagged, Value
<1>2. \A S : v \in Nums(S) => v.type = "num"
  BY DEF Nums, Num, Value
<1>. QED
  BY <1>1, <1>2 DEF ScalarValues, NumTypes, IntTypes, SignedBits, UnsignedBits, FloatBits

\* What the numbers of a column are, by the type of the column.
LEMMA NumberKinds ==
  ASSUME NEW c, NEW t
  PROVE  /\ t \in DOMAIN IntBits =>
              (IsScalar(c, t) <=>
                 c.type = "num" /\ c.val % 2 = 0 /\ InRange(c.val \div 2, IntBits[t]))
         /\ t \in DOMAIN RealBits =>
              (IsScalar(c, t) <=> c.type = "num" /\ c.val \in Held[RealBits[t]])
<1>1. CASE t \in DOMAIN IntBits
  <2>1. t \notin DOMAIN RealBits
    BY <1>1 DEF IntBits, RealBits
  <2>2. IsScalar(c, t) <=>
          c.type = "num" /\ c.val % 2 = 0 /\ InRange(c.val \div 2, IntBits[t])
    BY <1>1 DEF IsScalar, IntBits, RealBits
  <2>. QED BY <2>1, <2>2
<1>2. CASE t \in DOMAIN RealBits
  <2>1. t \notin DOMAIN IntBits
    BY <1>2 DEF IntBits, RealBits
  <2>2. IsScalar(c, t) <=> c.type = "num" /\ c.val \in Held[RealBits[t]]
    BY <1>2 DEF IsScalar, IntBits, RealBits
  <2>. QED BY <2>1, <2>2
<1>. QED BY <1>1, <1>2

\* The elements of an array are values of the type its elements have in Postgres.
LEMMA ElementTyped ==
  ASSUME NEW base, NEW t \in DOMAIN ArrayElem, NEW e \in ScalarValues(base, ArrayElem[t])
  PROVE  IsScalar(e, ElementType[t])
<1> DEFINE name == ArrayElem[t]
<1>1. CASE t = "BOOLARRAY"
  BY <1>1, ScalarKinds DEF ArrayElem, ElementType, IsScalar, IntBits, RealBits
<1>2. CASE t = "TEXTARRAY"
  BY <1>2, ScalarKinds DEF ArrayElem, ElementType, IsScalar, IntBits, RealBits
<1>3. CASE t \in {"INT2ARRAY", "INT4ARRAY", "INT8ARRAY"}
  <2> DEFINE w == SignedBits[name]
  <2>1. /\ name \in DOMAIN SignedBits /\ w \in Widths
        /\ ElementType[t] \in DOMAIN IntBits /\ IntBits[ElementType[t]] = w
    BY <1>3 DEF ArrayElem, ElementType, SignedBits, IntBits, Widths
  <2>2. Half[w] \in Nat
    BY <2>1, CellsAssumption
  <2>3. e \in Nums({2 * i : i \in -Half[w] .. Half[w] - 1})
    BY <2>1 DEF ScalarValues, SignedBits, UnsignedBits, FloatBits
  <2> HIDE DEF name, w
  <2>4. PICK i \in -Half[w] .. Half[w] - 1 : e = Num(2 * i)
    BY <2>3 DEF Nums
  <2>5. e.type = "num" /\ e.val % 2 = 0 /\ InRange(e.val \div 2, w)
    BY <2>2, <2>4, Doubled DEF Num, Value, InRange
  <2>. QED BY <2>1, <2>5, NumberKinds
<1>4. CASE t \in {"FLOAT4ARRAY", "FLOAT8ARRAY"}
  <2>1. /\ name \in DOMAIN FloatBits
        /\ ElementType[t] \in DOMAIN RealBits /\ ElementType[t] \notin DOMAIN IntBits
        /\ RealBits[ElementType[t]] = FloatBits[name]
    BY <1>4 DEF ArrayElem, ElementType, FloatBits, IntBits, RealBits
  <2>2. e \in Nums(Held[FloatBits[name]])
    BY <2>1 DEF ScalarValues, SignedBits, UnsignedBits, FloatBits
  <2>3. e.type = "num" /\ e.val \in Held[FloatBits[name]]
    BY <2>2 DEF Nums, Num, Value
  <2>. QED BY <2>1, <2>3, NumberKinds
<1>. QED BY <1>1, <1>2, <1>3, <1>4 DEF ArrayElem

\* What get_cell makes of a value of the file is of the type of the column.
LEMMA NumberTyped ==
  ASSUME NEW s, NEW v \in Values(s), NEW t, NumberCells(t),
         ArrowOf(s).name \in Accepts(t), ValueCell(ArrowOf(s), v, t) # Fail
  PROVE  IsCell(ValueCell(ArrowOf(s), v, t), t)
<1> DEFINE name == ArrowOf(s).name
           cell == ValueCell(ArrowOf(s), v, t)
<1>1. name \in NumTypes /\ t \notin DOMAIN ArrayElem
  BY DEF Accepts, NumberCells, NumTargets, IntBits, RealBits, ArrayElem
<1>2. v \in ScalarValues(s.base, name)
  BY <1>1 DEF Values, NumTypes, IntTypes, SignedBits, UnsignedBits, FloatBits
<1>3. v.val \in Int /\ v.type = "num"
  BY <1>1, <1>2, ScalarKinds, NumberValues
<1>4. CASE t \in DOMAIN IntBits
  <2>1. cell = IntCell(name, v.val, IntBits[t])
    BY <1>4 DEF ValueCell, IntBits, RealBits, ArrayElem
  <2>2. IntBits[t] \in Widths
    BY <1>4 DEF IntBits, Widths
  <2>. QED BY <1>1, <1>3, <1>4, <2>1, <2>2, IntCellTyped, NumberKinds DEF IsCell
<1>5. CASE t \in DOMAIN RealBits
  <2>1. cell = RealCell(v.val, RealBits[t]) /\ t \notin DOMAIN IntBits
    BY <1>5 DEF ValueCell, IntBits, RealBits, ArrayElem
  <2>2. RealBits[t] \in FloatWidths
    BY <1>5 DEF RealBits, FloatWidths
  <2>. QED BY <1>1, <1>3, <1>5, <2>1, <2>2, RealCellTyped, NumberKinds DEF IsCell
<1>6. CASE t = "NUMERIC"
  <2>1. cell = NumericCell(name, v.val) /\ t \notin DOMAIN IntBits /\ t \notin DOMAIN RealBits
    BY <1>6 DEF ValueCell, IntBits, RealBits, ArrayElem
  <2>2. cell.type = "num"
    BY <2>1 DEF NumericCell, Num, Value
  <2>. QED BY <1>1, <1>6, <2>1, <2>2 DEF IsCell, IsScalar
<1>. QED BY <1>4, <1>5, <1>6 DEF NumberCells, NumTargets

LEMMA TimeTyped ==
  ASSUME NEW a, NEW v, NEW t, TimeCells(t), ValueCell(a, v, t) # Fail
  PROVE  IsCell(ValueCell(a, v, t), t)
<1>1. t \notin DOMAIN IntBits \cup DOMAIN RealBits \cup DOMAIN ArrayElem
  BY DEF TimeCells, IntBits, RealBits, ArrayElem
<1>2. \A type, d, S : Made(type, d, S) # Fail =>
        \E x \in S : Made(type, d, S) = Value(type, x)
  BY DEF Made
<1>3. CASE t = "DATE"
  BY <1>1, <1>2, <1>3, MomentArms DEF IsCell, IsScalar, Value
<1>4. CASE t = "INTERVAL"
  <2>1. \E x \in PgSpans : IntervalCell(v) = Value("span", x)
    BY <1>4, MomentArms DEF IntervalCell
  <2>. QED BY <1>1, <1>4, <2>1, MomentArms DEF IsCell, IsScalar, Value
<1>5. CASE t \in {"TIMESTAMP", "TIMESTAMPTZ"}
  <2>1. \A reading : StampCell(reading) # Fail =>
          \E x \in PgStamps : StampCell(reading) = Value("stamp", x)
    BY <1>2 DEF StampCell
  <2>2. \E x \in PgStamps : ValueCell(a, v, t) = Value("stamp", x)
    BY <1>5, <2>1, MomentArms, InstantOutcome DEF TimestampCell, TimestamptzCell, MidnightCell
  <2>. QED BY <1>1, <1>5, <2>2 DEF IsCell, IsScalar, Value
<1>. QED BY <1>3, <1>4, <1>5 DEF TimeCells

LEMMA TextTyped ==
  ASSUME NEW a, NEW v, NEW t, TextCells(t), ValueCell(a, v, t) # Fail
  PROVE  IsCell(ValueCell(a, v, t), t)
<1>1. t \notin DOMAIN IntBits \cup DOMAIN RealBits \cup DOMAIN ArrayElem
  BY DEF TextCells, IntBits, RealBits, ArrayElem
<1>2. /\ t = "TEXT" => ValueCell(a, v, t) = Value("text", v.val)
      /\ t = "BYTEA" => ValueCell(a, v, t) = Value("bytes", v.val)
      /\ t = "UUID" => v.val \in UuidTexts /\ ValueCell(a, v, t) = Value("uuid", v.val)
  BY <1>1 DEF TextCells, ValueCell
<1>. QED BY <1>1, <1>2 DEF TextCells, IsCell, IsScalar, Value

LEMMA JsonTyped ==
  ASSUME NEW s, NEW v \in Values(s), NEW t, JsonCells(t),
         ArrowOf(s).name \in Accepts(t), ValueCell(ArrowOf(s), v, t) # Fail
  PROVE  IsCell(ValueCell(ArrowOf(s), v, t), t)
<1> DEFINE a == ArrowOf(s)
<1>1. t \notin DOMAIN IntBits \cup DOMAIN RealBits \cup DOMAIN ArrayElem
  BY DEF JsonCells, IntBits, RealBits, ArrayElem
<1>2. ValueCell(a, v, t) = JsonCell(a, v)
  BY <1>1 DEF JsonCells, ValueCell
<1>3. a.name \in {"Struct", "Utf8", "List"}
  BY DEF JsonCells, Accepts, RealBits
<1>4. CASE a.name = "Utf8"
  BY <1>1, <1>2, <1>4 DEF JsonCell, JsonCells, IsCell, IsScalar, Value
<1>5. CASE a.name = "Struct"
  <2>1. JsonCell(a, v) = ObjectCell(a.fields, v)
    BY <1>5 DEF JsonCell
  <2>2. JsonCell(a, v).type = "object"
    BY <1>2, <2>1 DEF ObjectCell, Value
  <2>. QED BY <1>1, <1>2, <2>2 DEF JsonCells, IsCell, IsScalar
<1>6. CASE a.name = "List"
  <2>1. v.type = "list"
    BY <1>6, ListElements DEF Values
  <2>2. JsonCell(a, v).type = "list"
    BY <1>2, <1>6, <2>1 DEF JsonCell, JsonListCell, Value
  <2>. QED BY <1>1, <1>2, <2>2 DEF JsonCells, IsCell, IsScalar
<1>. QED BY <1>3, <1>4, <1>5, <1>6

LEMMA PlainTyped ==
  ASSUME NEW s, NEW v \in Values(s), NEW t, PlainCells(t),
         ArrowOf(s).name \in Accepts(t), ValueCell(ArrowOf(s), v, t) # Fail
  PROVE  IsCell(ValueCell(ArrowOf(s), v, t), t)
<1>1. t \notin DOMAIN IntBits \cup DOMAIN RealBits \cup DOMAIN ArrayElem
  BY DEF PlainCells, IntBits, RealBits, ArrayElem
<1>2. ArrowOf(s).name = IF t = "BOOL" THEN "Boolean" ELSE "Time64"
  <2>1. CASE t = "BOOL"
    BY <2>1 DEF Accepts, RealBits, ArrayElem
  <2>2. CASE t = "TIME"
    BY <2>2 DEF Accepts, RealBits, ArrayElem
  <2>. QED BY <2>1, <2>2 DEF PlainCells
<1>3. v \in ScalarValues(s.base, ArrowOf(s).name)
  BY <1>2 DEF Values
<1>4. v.type = IF t = "BOOL" THEN "bool" ELSE "time"
  BY <1>2, <1>3, ScalarKinds DEF PlainCells
<1>. QED BY <1>1, <1>4, ArrayKept DEF PlainCells, IsCell, IsScalar

LEMMA ArrayTyped ==
  ASSUME NEW s, NEW v \in Values(s), NEW t, ArrayCells(t),
         ArrowOf(s).name \in Accepts(t), ValueCell(ArrowOf(s), v, t) # Fail
  PROVE  IsCell(ValueCell(ArrowOf(s), v, t), t)
<1> DEFINE a == ArrowOf(s)
<1>1. t \in DOMAIN ArrayElem
  BY DEF ArrayCells
<1>2. ValueCell(a, v, t) = ArrayCell(a, v, t)
  BY <1>1 DEF ValueCell, IntBits, RealBits, ArrayElem
<1>3. a.elem = ArrayElem[t] /\ ValueCell(a, v, t) = v
  BY <1>2 DEF ArrayCell
<1>4. a.name = "List" /\ a.elem # "Struct"
  BY <1>1, <1>3 DEF Accepts, ArrayElem, RealBits
<1>5. v \in Lists(ScalarValues(s.base, ArrayElem[t]))
  BY <1>3, <1>4 DEF Values
<1>6. /\ v.type = "list"
      /\ \A i \in DOMAIN v.val : v.val[i] = Null \/ IsScalar(v.val[i], ElementType[t])
  BY <1>1, <1>5, ListElements, ElementTyped
<1>. QED BY <1>1, <1>3, <1>6 DEF IsCell

\* Whatever is in the file, a cell is of the type of its column and within its
\* bounds: integers in their width, floats of their format, dates and intervals
\* that Postgres has, arrays of their element type (get_cell).
THEOREM TypeCorrect == Spec => []TypeOK
<1>1. HistoryInv /\ SeenInv => TypeOK
  <2> SUFFICES ASSUME HistoryInv, SeenInv, seen # NotRead, seen.cell \notin {Null, Fail}
               PROVE  IsCell(seen.cell, pgtype)
    BY DEF HistoryInv, TypeOK, NotRead
  <2> DEFINE a == ArrowOf(source)
             v == seen.value
  <2>1. /\ v \in Values(source) /\ a.name \in Accepts(pgtype)
        /\ seen.cell = ValueCell(a, v, pgtype) /\ seen.cell # Fail
    BY SeenCell
  <2>2. CASE NumberCells(pgtype)
    BY <2>1, <2>2, NumberTyped
  <2>3. CASE TimeCells(pgtype)
    BY <2>1, <2>3, TimeTyped
  <2>4. CASE TextCells(pgtype)
    BY <2>1, <2>4, TextTyped
  <2>5. CASE JsonCells(pgtype)
    BY <2>1, <2>5, JsonTyped
  <2>6. CASE PlainCells(pgtype)
    BY <2>1, <2>6, PlainTyped
  <2>7. CASE ArrayCells(pgtype)
    BY <2>1, <2>7, ArrayTyped
  <2>. QED BY <2>1, <2>2, <2>3, <2>4, <2>5, <2>6, <2>7, TargetKinds
<1>. QED BY <1>1, SeenIsConverted, PTL

-----------------------------------------------------------------------------
(* The translation of type names.                                          *)

TypeName(pre, base, suf) == [pre |-> pre, base |-> base, suf |-> suf]
Replaced(p, word, new, name) == Replace(p, word, new)[name]

\* One replacement.
LEMMA OneReplacement ==
  \A pre, base, suf, p, word, new :
    pre \in Prefixes /\ base \in Words /\ suf \in Suffixes =>
    Replaced(p, word, new, TypeName(pre, base, suf)) =
      IF base # word \/ p \notin {Bare, pre} THEN TypeName(pre, base, suf)
      ELSE TypeName(IF p = Bare THEN pre ELSE Bare, new, suf)
<1> SUFFICES ASSUME NEW pre \in Prefixes, NEW base \in Words, NEW suf \in Suffixes,
                    NEW p, NEW word, NEW new
             PROVE  Replaced(p, word, new, TypeName(pre, base, suf)) =
                      IF base # word \/ p \notin {Bare, pre} THEN TypeName(pre, base, suf)
                      ELSE TypeName(IF p = Bare THEN pre ELSE Bare, new, suf)
  OBVIOUS
<1>. DEFINE n == TypeName(pre, base, suf)
<1>1. n \in TypeNames /\ n.pre = pre /\ n.base = base /\ n.suf = suf
  BY DEF TypeName, TypeNames
<1>2. Replaced(p, word, new, n) =
        IF n.base = word /\ p \in {Bare, n.pre}
        THEN [pre |-> IF p = Bare THEN n.pre ELSE Bare, base |-> new, suf |-> n.suf]
        ELSE n
  BY <1>1 DEF Replace, Replaced
<1>. QED BY <1>1, <1>2 DEF TypeName

LEMMA KnownNames ==
  /\ {Bare, "U"} \subseteq Prefixes
  /\ {"TINYINT", "SMALLINT", "INTEGER", "BIGINT", "HUGEINT",
      "NUMERIC", "DECIMAL", "FLOAT", "DOUBLE", "DOUBLE_PRECISION"} \subseteq Words
  BY DEF Prefixes, Words

LEMMA IntegerSteps ==
  \A s : IntegersReplaced(s) =
        Replaced("U", "HUGEINT", "NUMERIC",
        Replaced(Bare, "HUGEINT", "NUMERIC",
        Replaced("U", "BIGINT", "NUMERIC",
        Replaced("U", "INTEGER", "BIGINT",
        Replaced("U", "SMALLINT", "INTEGER",
        Replaced("U", "TINYINT", "SMALLINT",
        Replaced(Bare, "TINYINT", "SMALLINT", s)))))))
  BY Zenon DEF IntegersReplaced, Replaced

LEMMA TranslationSteps ==
  \A s : Translated(s) =
        Replaced("WKB_", "BLOB", "TEXT",
        Replaced(Bare, "GEOMETRY", "TEXT",
        Replaced(Bare, "TIMETZ", "TIME",
        Replaced(Bare, "TIMESTAMP_NS", "TIMESTAMP",
        Replaced(Bare, "TIMESTAMP_MS", "TIMESTAMP",
        Replaced(Bare, "TIMESTAMP_S", "TIMESTAMP",
        Replaced(Bare, "DOUBLE", "DOUBLE_PRECISION",
        Replaced(Bare, "BLOB", "TEXT", IntegersReplaced(s)))))))))
  BY Zenon DEF Translated, Replaced

\* Integers are as wide in Postgres, but for those of a byte; the others keep
\* their kind ...
LEMMA NumbersTranslated ==
  ASSUME NEW suf \in Suffixes
  PROVE  /\ Translated(TypeName(Bare, "TINYINT", suf)) = TypeName(Bare, "SMALLINT", suf)
         /\ Translated(TypeName(Bare, "SMALLINT", suf)) = TypeName(Bare, "SMALLINT", suf)
         /\ Translated(TypeName(Bare, "INTEGER", suf)) = TypeName(Bare, "INTEGER", suf)
         /\ Translated(TypeName(Bare, "BIGINT", suf)) = TypeName(Bare, "BIGINT", suf)
         /\ Translated(TypeName(Bare, "HUGEINT", suf)) = TypeName(Bare, "NUMERIC", suf)
         /\ Translated(TypeName(Bare, "DECIMAL", suf)) = TypeName(Bare, "DECIMAL", suf)
         /\ Translated(TypeName(Bare, "FLOAT", suf)) = TypeName(Bare, "FLOAT", suf)
         /\ Translated(TypeName(Bare, "DOUBLE", suf)) = TypeName(Bare, "DOUBLE_PRECISION", suf)
  BY OneReplacement, KnownNames, IntegerSteps, TranslationSteps, SMT DEF Bare

\* ... and unsigned integers get the next width; those of a byte pass through
\* two rules.
LEMMA UnsignedTranslated ==
  ASSUME NEW suf \in Suffixes
  PROVE  /\ Translated(TypeName("U", "TINYINT", suf)) = TypeName(Bare, "INTEGER", suf)
         /\ Translated(TypeName("U", "SMALLINT", suf)) = TypeName(Bare, "INTEGER", suf)
         /\ Translated(TypeName("U", "INTEGER", suf)) = TypeName(Bare, "BIGINT", suf)
         /\ Translated(TypeName("U", "BIGINT", suf)) = TypeName(Bare, "NUMERIC", suf)
         /\ Translated(TypeName("U", "HUGEINT", suf)) = TypeName("U", "NUMERIC", suf)
  BY OneReplacement, KnownNames, IntegerSteps, TranslationSteps, SMT DEF Bare

-----------------------------------------------------------------------------
(* Columns taken over from a file.                                         *)

\* The type of the values of a number, and the Postgres type it is given.
NumberTypes ==
  {<<"UInt8", "INT4">>, <<"UInt16", "INT4">>, <<"UInt32", "INT8">>, <<"UInt64", "NUMERIC">>,
   <<"Int8", "INT2">>, <<"Int16", "INT2">>, <<"Int32", "INT4">>, <<"Int64", "INT8">>,
   <<"Decimal128", "NUMERIC">>, <<"Float32", "FLOAT8">>, <<"Float64", "FLOAT8">>}

\* Numbers stand in columns of plain types.
LEMMA NumberNames ==
  ASSUME NEW s \in Sources, ArrowOf(s).name \in NumTypes
  PROVE  /\ s = TypeName(s.pre, s.base, Bare)
         /\ ArrowOf(s).name = ArrowName(s.pre, s.base)
         /\ s.base \in {"TINYINT", "SMALLINT", "INTEGER", "BIGINT", "HUGEINT"} \/
            s.base \in {"DECIMAL", "FLOAT", "DOUBLE"}
         /\ s.pre = "U" => s.base \in {"TINYINT", "SMALLINT", "INTEGER", "BIGINT", "HUGEINT"}
         /\ s.pre \in {Bare, "U"}
<1>1. s \in TypeNames
  BY ColumnsAssumption
<1>2. s.base # "STRUCT" /\ s.suf = Bare
  BY <1>1 DEF ArrowOf, Scalar, ListOf, StructOf, ListOfStructs, TypeNames, Suffixes, NumTypes,
              IntTypes, SignedBits, UnsignedBits, FloatBits
<1>3. ArrowOf(s).name = ArrowName(s.pre, s.base)
  <2>1. ArrowOf(s) = Scalar(ArrowName(s.pre, s.base))
    BY <1>2 DEF ArrowOf, Bare
  <2>. QED BY <2>1 DEF Scalar
<1>4. s.base \in Words
  BY <1>1 DEF TypeNames
<1>5. s.base \in {"TINYINT", "SMALLINT", "INTEGER", "BIGINT", "HUGEINT"} \/
      s.base \in {"DECIMAL", "FLOAT", "DOUBLE"}
  BY <1>3, <1>4 DEF ArrowName, Words, Refused, NumTypes, IntTypes, SignedBits, UnsignedBits,
                    FloatBits
<1>6. s = TypeName(s.pre, s.base, s.suf) /\ s.pre \in Prefixes
  BY <1>1 DEF TypeNames, TypeName
<1>7. /\ s.pre = "U" => s.base \in {"TINYINT", "SMALLINT", "INTEGER", "BIGINT", "HUGEINT"}
      /\ s.pre = "WKB_" => s.base = "BLOB"
  BY ColumnsAssumption
<1>8. s.pre \in {Bare, "U"}
  BY <1>5, <1>6, <1>7 DEF Prefixes
<1>. QED BY <1>2, <1>3, <1>5, <1>6, <1>7, <1>8

LEMMA NumberTranslation ==
  ASSUME NEW s \in Sources, ArrowOf(s).name \in NumTypes, AutoType(s) # NoType
  PROVE  <<ArrowOf(s).name, AutoType(s)>> \in NumberTypes
<1>1. AutoType(s) = PgTypeOf(Translated(s))
  BY NumberNames DEF AutoType, Refused
<1>2. Bare \in Suffixes
  BY DEF Suffixes
<1>3. \A pre, base : PgTypeOf(TypeName(pre, base, Bare)) = IF pre = Bare THEN PgScalar(base) ELSE NoType
  BY DEF PgTypeOf, TypeName
<1>4. CASE s.pre = "U"
  <2>1. ArrowOf(s).name = ArrowName("U", s.base) /\ s = TypeName("U", s.base, Bare)
    BY <1>4, NumberNames
  <2>2. CASE s.base = "TINYINT"
    BY <1>1, <1>2, <1>3, <2>1, <2>2, UnsignedTranslated DEF ArrowName, PgScalar, NumberTypes
  <2>3. CASE s.base = "SMALLINT"
    BY <1>1, <1>2, <1>3, <2>1, <2>3, UnsignedTranslated DEF ArrowName, PgScalar, NumberTypes
  <2>4. CASE s.base = "INTEGER"
    BY <1>1, <1>2, <1>3, <2>1, <2>4, UnsignedTranslated DEF ArrowName, PgScalar, NumberTypes
  <2>5. CASE s.base = "BIGINT"
    BY <1>1, <1>2, <1>3, <2>1, <2>5, UnsignedTranslated DEF ArrowName, PgScalar, NumberTypes
  <2>6. CASE s.base = "HUGEINT"
    BY <1>1, <1>2, <1>3, <2>1, <2>6, UnsignedTranslated DEF NoType, Bare
  <2>. QED BY <1>4, <2>2, <2>3, <2>4, <2>5, <2>6, NumberNames
<1>5. CASE s.pre = Bare
  <2>1. ArrowOf(s).name = ArrowName(Bare, s.base) /\ s = TypeName(Bare, s.base, Bare)
    BY <1>5, NumberNames
  <2>2. CASE s.base = "TINYINT"
    BY <1>1, <1>2, <1>3, <2>1, <2>2, NumbersTranslated DEF ArrowName, PgScalar, NumberTypes, Bare
  <2>3. CASE s.base = "SMALLINT"
    BY <1>1, <1>2, <1>3, <2>1, <2>3, NumbersTranslated DEF ArrowName, PgScalar, NumberTypes, Bare
  <2>4. CASE s.base = "INTEGER"
    BY <1>1, <1>2, <1>3, <2>1, <2>4, NumbersTranslated DEF ArrowName, PgScalar, NumberTypes, Bare
  <2>5. CASE s.base = "BIGINT"
    BY <1>1, <1>2, <1>3, <2>1, <2>5, NumbersTranslated DEF ArrowName, PgScalar, NumberTypes, Bare
  <2>6. CASE s.base = "HUGEINT"
    BY <1>1, <1>2, <1>3, <2>1, <2>6, NumbersTranslated DEF ArrowName, PgScalar, NumberTypes, Bare
  <2>7. CASE s.base = "DECIMAL"
    BY <1>1, <1>2, <1>3, <2>1, <2>7, NumbersTranslated DEF ArrowName, PgScalar, NumberTypes, Bare
  <2>8. CASE s.base = "FLOAT"
    BY <1>1, <1>2, <1>3, <2>1, <2>8, NumbersTranslated DEF ArrowName, PgScalar, NumberTypes, Bare
  <2>9. CASE s.base = "DOUBLE"
    BY <1>1, <1>2, <1>3, <2>1, <2>9, NumbersTranslated DEF ArrowName, PgScalar, NumberTypes, Bare
  <2>. QED BY <2>2, <2>3, <2>4, <2>5, <2>6, <2>7, <2>8, <2>9, NumberNames
<1>. QED BY <1>4, <1>5, NumberNames

\* The numbers of a type are those its width or format holds.
LEMMA NumberRanges ==
  ASSUME NEW s, NEW v \in Values(s), v.type = "num"
  PROVE  LET name == ArrowOf(s).name
             n == v.val
         IN /\ name \in DOMAIN SignedBits => InRange(n \div 2, SignedBits[name])
            /\ name \in DOMAIN UnsignedBits =>
                 0 <= n \div 2 /\ n \div 2 < 2 * Half[UnsignedBits[name]]
            /\ name \in DOMAIN FloatBits => n \in Held[FloatBits[name]]
<1> DEFINE name == ArrowOf(s).name
<1>1. v \in ScalarValues(s.base, name)
  <2>1. \A S : v \notin Tagged("list", S) /\ v \notin Tagged("struct", S)
    BY DEF Tagged, Value
  <2>2. /\ \A S : v \notin Lists(S)
        /\ v \notin Structs
    BY <2>1 DEF Lists, Structs
  <2> QED
    BY <2>2 DEF Values
<1>2. ASSUME name \in DOMAIN SignedBits PROVE InRange(v.val \div 2, SignedBits[name])
  <2> DEFINE h == Half[SignedBits[name]]
  <2>1. h \in Nat
    BY <1>2, CellsAssumption DEF SignedBits, Widths
  <2>2. v \in Nums({2 * i : i \in -h .. h - 1})
    BY <1>1, <1>2 DEF ScalarValues, SignedBits, UnsignedBits, FloatBits
  <2> HIDE DEF h
  <2>3. PICK i \in -h .. h - 1 : v = Num(2 * i)
    BY <2>1, <2>2 DEF Nums
  <2>4. v.val \div 2 = i
    <3>1. v.val = 2 * i
      BY <2>3 DEF Num, Value
    <3>. QED BY <2>1, <3>1
  <2>. QED BY <2>1, <2>4 DEF InRange, h
<1>3. ASSUME name \in DOMAIN UnsignedBits
      PROVE  0 <= v.val \div 2 /\ v.val \div 2 < 2 * Half[UnsignedBits[name]]
  <2> DEFINE h == Half[UnsignedBits[name]]
  <2>1. h \in Nat
    BY <1>3, CellsAssumption DEF UnsignedBits, Widths
  <2>2. name \notin DOMAIN SignedBits
    BY <1>3 DEF SignedBits, UnsignedBits
  <2>3. v \in Nums({2 * i : i \in 0 .. 2 * h - 1})
    BY <1>1, <1>3, <2>2 DEF ScalarValues, SignedBits, UnsignedBits, FloatBits
  <2> HIDE DEF h
  <2>4. PICK i \in 0 .. 2 * h - 1 : v = Num(2 * i)
    BY <2>1, <2>3 DEF Nums
  <2>5. v.val \div 2 = i
    <3>1. v.val = 2 * i
      BY <2>4 DEF Num, Value
    <3>. QED BY <2>1, <3>1
  <2>. QED BY <2>1, <2>5 DEF h
<1>4. ASSUME name \in DOMAIN FloatBits PROVE v.val \in Held[FloatBits[name]]
  <2>1. PICK n \in Held[FloatBits[name]] : v = Num(n)
    BY <1>1, <1>4 DEF ScalarValues, Nums, SignedBits, UnsignedBits, FloatBits
  <2>. QED BY <2>1 DEF Num, Value
<1>. QED BY <1>2, <1>3, <1>4

\* The type a number is given has room for it: a byte gets two, and an unsigned
\* integer the next width.
LEMMA RoomForNumbers ==
  ASSUME NEW a, NEW t, <<a, t>> \in NumberTypes, NEW n \in Int,
         a \in IntTypes => n % 2 = 0,
         a \in DOMAIN SignedBits => InRange(n \div 2, SignedBits[a]),
         a \in DOMAIN UnsignedBits => 0 <= n \div 2 /\ n \div 2 < 2 * Half[UnsignedBits[a]],
         a \in DOMAIN FloatBits => n \in Held[FloatBits[a]]
  PROVE  t \in NumTargets /\ Fits(a, n, t)
<1>1. /\ Half[8] \in Nat /\ Half[16] \in Nat /\ Half[32] \in Nat /\ Half[64] \in Nat
      /\ 2 * Half[8] <= Half[16] /\ 2 * Half[16] <= Half[32] /\ 2 * Half[32] <= Half[64]
      /\ 2 * Half[8] <= Half[32]
  BY CellsAssumption DEF Widths
<1>2. ASSUME NEW w \in {16, 32, 64}, t \in DOMAIN IntBits, IntBits[t] = w, a \in IntTypes,
             InRange(n \div 2, w)
      PROVE  t \in NumTargets /\ Fits(a, n, t)
  BY <1>2 DEF Fits, NumTargets, RealBits, IntBits
<1>3. CASE a = "UInt8" /\ t = "INT4"
  BY <1>1, <1>2, <1>3 DEF InRange, IntBits, IntTypes, UnsignedBits
<1>4. CASE a = "UInt16" /\ t = "INT4"
  BY <1>1, <1>2, <1>4 DEF InRange, IntBits, IntTypes, UnsignedBits
<1>5. CASE a = "UInt32" /\ t = "INT8"
  BY <1>1, <1>2, <1>5 DEF InRange, IntBits, IntTypes, UnsignedBits
<1>6. CASE a = "Int8" /\ t = "INT2"
  BY <1>1, <1>2, <1>6 DEF InRange, IntBits, IntTypes, SignedBits
<1>7. CASE a = "Int16" /\ t = "INT2"
  BY <1>2, <1>7 DEF IntBits, IntTypes, SignedBits
<1>8. CASE a = "Int32" /\ t = "INT4"
  BY <1>2, <1>8 DEF IntBits, IntTypes, SignedBits
<1>9. CASE a = "Int64" /\ t = "INT8"
  BY <1>2, <1>9 DEF IntBits, IntTypes, SignedBits
<1>10. CASE a \in {"UInt64", "Decimal128"} /\ t = "NUMERIC"
  BY <1>10 DEF Fits, NumTargets, RealBits, IntBits, FloatBits
<1>11. CASE a \in {"Float32", "Float64"} /\ t = "FLOAT8"
  <2>1. n \in Held[64]
    BY <1>11, CellsAssumption DEF FloatBits
  <2>. QED BY <1>11, <2>1 DEF Fits, NumTargets, RealBits, IntBits
<1>. QED
  BY <1>3, <1>4, <1>5, <1>6, <1>7, <1>8, <1>9, <1>10, <1>11 DEF NumberTypes

\* Texts and bytes are the values of the types for them.
LEMMA TextValues ==
  ASSUME NEW s, NEW v \in Values(s), v.type \in {"text", "bytes"}
  PROVE  ArrowOf(s).name \in {"Utf8", "Binary"}
<1>1. \A S : v \notin Tagged("struct", S) /\ v \notin Tagged("bool", S)
            /\ v \notin Tagged("list", S) /\ v \notin Tagged("date", S)
            /\ v \notin Tagged("time", S) /\ v \notin Tagged("span", S) /\ v \notin Nums(S)
  BY DEF Tagged, Nums, Num, Value
<1>2. v \notin Structs /\ \A S : v \notin Lists(S)
  BY <1>1 DEF Structs, Lists
<1>3. ArrowOf(s).name \notin {"Utf8", "Binary"} => v \notin ScalarValues(s.base, ArrowOf(s).name)
  BY <1>1 DEF ScalarValues
<1>. QED
  BY <1>2, <1>3 DEF Values

LEMMA TextTargets ==
  ASSUME NEW name \in {"Utf8", "Binary"}, NEW t, name \in Accepts(t)
  PROVE  TextCells(t) \/ (JsonCells(t) /\ name = "Utf8")
  BY DEF Accepts, TextCells, JsonCells, RealBits, NumTypes, IntTypes, SignedBits, UnsignedBits,
         FloatBits

\* What a column taken over from its file reads is what is in the file: no number
\* wraps or is rounded, no text loses bytes (duckdb_type_to_pg with get_cell).
THEOREM AutoColumnsAlwaysExact == Spec => []AutoColumnsAreExact
<1>1. HistoryInv /\ SeenInv => AutoColumnsAreExact
  <2> SUFFICES ASSUME HistoryInv, SeenInv, auto, Got("num") \/ Got("text") \/ Got("bytes")
               PROVE  seen.cell.val = seen.value.val
    BY DEF AutoColumnsAreExact
  <2> DEFINE a == ArrowOf(source)
             v == seen.value
  <2>1. v.type \in {"num", "text", "bytes"} /\ seen.cell # Fail
    BY DEF Got
  <2>2. v # Null /\ seen # NotRead
    BY <2>1 DEF Null, NotRead, Unread
  <2>3. /\ v \in Values(source) /\ a.name \in Accepts(pgtype)
        /\ seen.cell = ValueCell(a, v, pgtype)
    BY <2>1, <2>2, SeenCell
  <2>4. CASE v.type = "num"
    <3>1. /\ a.name \in NumTypes /\ v.val \in Int /\ v = Num(v.val)
          /\ a.name \in IntTypes => v.val % 2 = 0
      BY <2>3, <2>4, NumberValues
    <3>2. source \in Sources /\ pgtype = AutoType(source) /\ pgtype # NoType
      BY <2>2 DEF HistoryInv
    <3>3. <<a.name, pgtype>> \in NumberTypes
      BY <3>1, <3>2, NumberTranslation
    <3>4. pgtype \in NumTargets /\ Fits(a.name, v.val, pgtype)
      BY <2>3, <2>4, <3>1, <3>3, NumberRanges, RoomForNumbers
    <3>. QED BY <2>3, <3>1, <3>4, ConversionKeeps
  <2>5. CASE v.type \in {"text", "bytes"}
    <3>1. a.name \in {"Utf8", "Binary"}
      BY <2>3, <2>5, TextValues
    <3>2. TextCells(pgtype) \/ (JsonCells(pgtype) /\ a.name = "Utf8")
      BY <2>3, <3>1, TextTargets
    <3>. QED BY <2>1, <2>2, <2>3, <3>2, TextKept, JsonKept
  <2>. QED BY <2>1, <2>4, <2>5
<1>. QED
  BY <1>1, SeenIsConverted, PTL

-----------------------------------------------------------------------------
(* pg_lakehouse: the columns of a table and the fields of its provider.    *)

\* Files and definitions are sequences of records, with a name only once.
Columned(s) ==
  /\ \E n \in Nat : DOMAIN s = 1 .. n
  /\ \A i \in DOMAIN s : s[i] = [name |-> s[i].name, type |-> s[i].type]

LEMMA DefinitionsAreColumned ==
  ASSUME NEW f \in Files \cup Tables
  PROVE  /\ Columned(f)
         /\ \A i, j \in DOMAIN f : f[i].name = f[j].name => i = j
<1>1. f \in Seq([name : STRING, type : STRING])
  BY LakeAssumption
<1>2. DOMAIN f = 1 .. Len(f) /\ Len(f) \in Nat
  BY <1>1
<1>3. \A i \in DOMAIN f : f[i] = [name |-> f[i].name, type |-> f[i].type]
  <2>1. \A S : f \in Seq(S) => \A i \in 1 .. Len(f) : f[i] \in S
    OBVIOUS
  <2>2. \A i \in DOMAIN f : f[i] \in [name : STRING, type : STRING]
    BY <1>1, <1>2, <2>1
  <2>. QED BY <2>2
<1>4. \A i, j \in DOMAIN f : f[i].name = f[j].name => i = j
  BY LakeAssumption
<1>. QED BY <1>2, <1>3, <1>4 DEF Columned

\* The columns that are left of a table differ in their names.  As long as it is
\* not altered, its columns are those the provider's fields were checked for.
TableInv ==
  /\ Columned(table)
  /\ \A i, j \in DOMAIN table :
       table[i] # Dropped /\ table[j] # Dropped /\ table[i].name = table[j].name => i = j
  /\ ~altered => \A i \in DOMAIN provider \cap DOMAIN table : CanConvert(provider[i], table[i])

\* What a query answered: a value of the field, converted to the column's type.
AnswerInv ==
  answer # NoAnswer =>
    /\ answer.value \in FieldValues(answer.arrow)
    /\ answer.cell = LakeCell(answer.arrow, answer.value, answer.type)
    /\ answer.how = "collect" \/ answer.inPlace => answer.own
    /\ answer.checked /\ answer.own => answer.type \in SupportedAttributes(answer.arrow)

LakeInv == LakeTypeOK /\ TableInv /\ AnswerInv

LEMMA NoFieldsNoTable ==
  NoTable = NoProvider /\ DOMAIN NoTable = {} /\ Columned(NoTable)
  BY DEF NoTable, NoProvider, Columned

LEMMA InitLake == LakeInit => LakeInv
<1> SUFFICES ASSUME LakeInit PROVE LakeInv
  OBVIOUS
<1>1. LakeTypeOK
  BY NoFieldsNoTable DEF LakeInit, LakeTypeOK
<1>2. TableInv
  BY NoFieldsNoTable DEF LakeInit, TableInv
<1>. QED BY <1>1, <1>2 DEF LakeInv, LakeInit, AnswerInv

\* Changes of the catalog, the file and the session, between queries.
LEMMA ChangeKeepsTables ==
  ASSUME LakeTypeOK, TableInv, Change, answer = NoAnswer
  PROVE  LakeTypeOK' /\ TableInv'
<1>1. ASSUME NEW d \in Tables, CreateTable(d) PROVE LakeTypeOK' /\ TableInv'
  <2>1. provider = NoProvider
    BY <1>1 DEF CreateTable, LakeTypeOK
  <2>2. LakeTypeOK'
    BY <1>1, <2>1, NoFieldsNoTable DEF CreateTable, LakeTypeOK
  <2>3. TableInv'
    BY <1>1, <2>1, NoFieldsNoTable, DefinitionsAreColumned DEF CreateTable, TableInv
  <2>. QED BY <2>2, <2>3
<1>2. CASE DropTable
  BY <1>2, NoFieldsNoTable DEF DropTable, LakeTypeOK, TableInv
<1>3. ASSUME NEW i \in DOMAIN table, DropColumn(i) PROVE LakeTypeOK' /\ TableInv'
  <2>1. /\ DOMAIN table' = DOMAIN table /\ table'[i] = Dropped
        /\ \A j \in DOMAIN table : j # i => table'[j] = table[j]
        /\ altered' /\ table' # NoTable
    BY <1>3, NoFieldsNoTable DEF DropColumn
  <2>2. LakeTypeOK'
    BY <1>3, <2>1 DEF DropColumn, LakeTypeOK
  <2>3. Columned(table')
    BY <2>1 DEF TableInv, Columned, Dropped
  <2>. QED BY <2>1, <2>2, <2>3 DEF TableInv
<1>4. ASSUME NEW i \in DOMAIN table, NEW t \in PgTypes, AlterType(i, t)
      PROVE  LakeTypeOK' /\ TableInv'
  <2>1. table[i] = [name |-> table[i].name, type |-> table[i].type]
    BY DEF TableInv, Columned
  <2>2. /\ DOMAIN table' = DOMAIN table
        /\ table'[i] = [name |-> table[i].name, type |-> t]
        /\ \A j \in DOMAIN table : j # i => table'[j] = table[j]
        /\ altered' /\ table' # NoTable /\ table[i] # Dropped
    BY <1>4, <2>1, NoFieldsNoTable DEF AlterType
  <2>3. \A j \in DOMAIN table : table'[j] # Dropped => table[j] # Dropped
    BY <2>2
  <2>4. \A j \in DOMAIN table : table'[j].name = table[j].name
    BY <2>2
  <2>5. LakeTypeOK'
    BY <1>4, <2>2, <2>3, <2>4 DEF AlterType, LakeTypeOK
  <2>6. Columned(table')
    BY <2>2 DEF TableInv, Columned
  <2>. QED BY <2>2, <2>3, <2>4, <2>5, <2>6 DEF TableInv
<1>5. ASSUME NEW f \in Files, ReplaceLakeFile(f) PROVE LakeTypeOK' /\ TableInv'
  BY <1>5 DEF ReplaceLakeFile, LakeTypeOK, TableInv
<1>6. CASE Reconnect
  BY <1>6, NoFieldsNoTable DEF Reconnect, LakeTypeOK, TableInv
<1>7. CASE Load
  BY <1>7 DEF Load, Loads, CanConvert, LakeTypeOK, TableInv
<1>. QED
  BY <1>1, <1>2, <1>3, <1>4, <1>5, <1>6, <1>7 DEF Change

\* A field that bears the name of a column was checked against it: it stands at
\* the column's place, or no name would be there twice.
LEMMA OwnFieldIsChecked ==
  ASSUME LakeTypeOK, TableInv, ~altered,
         NEW k \in DOMAIN provider, NEW i \in DOMAIN table, table[i] # Dropped,
         provider[k].name = table[i].name
  PROVE  table[i].type \in SupportedAttributes(provider[k].type)
<1>1. provider \in Files
  BY NoFieldsNoTable DEF LakeTypeOK
<1>2. PICK m \in Nat : DOMAIN provider = 1 .. m
  BY <1>1, DefinitionsAreColumned DEF Columned
<1>3. PICK n \in Nat : DOMAIN table = 1 .. n
  BY DEF TableInv, Columned
<1>4. CASE i \in DOMAIN provider
  <2>1. provider[i].name = table[i].name
    BY <1>4 DEF LakeTypeOK
  <2>2. k = i
    BY <1>1, <1>4, <2>1, DefinitionsAreColumned
  <2>. QED BY <1>4, <2>2 DEF TableInv, CanConvert
<1>5. CASE i \notin DOMAIN provider
  <2>1. k \in DOMAIN table
    BY <1>2, <1>3, <1>5
  <2>2. CanConvert(provider[k], table[k])
    BY <2>1 DEF TableInv
  <2>3. table[k] # Dropped
    <3>1. "dropped" \notin SupportedAttributes(provider[k].type)
      BY DEF SupportedAttributes, IntOrReal
    <3>. QED BY <2>2, <3>1 DEF CanConvert, Dropped
  <2>4. k = i
    BY <2>1, <2>2, <2>3 DEF TableInv, CanConvert
  <2>. QED BY <1>5, <2>4
<1>. QED BY <1>4, <1>5

LEMMA CellIsAnswer ==
  ASSUME LakeTypeOK, TableInv, NEW how \in {"collect", "scan"}, NEW target,
         NEW i \in DOMAIN table, table[i] # Dropped, NEW k \in DOMAIN provider,
         NEW v \in FieldValues(provider[k].type),
         how = "collect" => provider[k].name = table[i].name,
         (\A j \in DOMAIN target : target[j] = j) => how = "collect" \/ k = i,
         answer' = Cell(how, target, i, k, v)
  PROVE  AnswerInv' /\ answer' # NoAnswer
<1>1. /\ answer'.how = how /\ answer'.checked = ~altered
      /\ answer'.own = (provider[k].name = table[i].name)
      /\ answer'.inPlace = (\A j \in DOMAIN target : target[j] = j)
      /\ answer'.arrow = provider[k].type /\ answer'.type = table[i].type
      /\ answer'.value = v
      /\ answer'.cell = LakeCell(provider[k].type, v, table[i].type)
  BY DEF Cell
<1>2. answer' # NoAnswer
  BY <1>1 DEF NoAnswer
<1>3. how = "collect" \/ (\A j \in DOMAIN target : target[j] = j) =>
        provider[k].name = table[i].name
  BY DEF LakeTypeOK
<1>4. ~altered /\ provider[k].name = table[i].name =>
        table[i].type \in SupportedAttributes(provider[k].type)
  BY OwnFieldIsChecked
<1>. QED BY <1>1, <1>2, <1>3, <1>4 DEF AnswerInv

LEMMA QueryAnswers ==
  ASSUME LakeInv, Query
  PROVE  LakeInv'
<1>1. LakeTypeOK /\ TableInv
  BY DEF LakeInv
<1>2. ASSUME UNCHANGED <<file, table, provider, altered>>, AnswerInv', DOMAIN provider # {}
      PROVE  LakeInv'
  <2>1. provider # NoProvider
    BY <1>2, NoFieldsNoTable
  <2>2. LakeTypeOK'
    BY <1>1, <1>2, <2>1 DEF LakeTypeOK
  <2>3. TableInv'
    BY <1>1, <1>2 DEF TableInv
  <2>. QED BY <1>2, <2>2, <2>3 DEF LakeInv
<1>3. ASSUME NEW i \in DOMAIN table, Collect(i) PROVE LakeInv'
  <2>1. PICK k \in DOMAIN provider :
          /\ provider[k].name = table[i].name
          /\ \E v \in FieldValues(provider[k].type) : answer' = Cell("collect", <<i>>, i, k, v)
    BY <1>3 DEF Collect
  <2>2. PICK v \in FieldValues(provider[k].type) : answer' = Cell("collect", <<i>>, i, k, v)
    BY <2>1
  <2>3. AnswerInv'
    BY <1>1, <1>3, <2>1, <2>2, CellIsAnswer DEF Collect
  <2>. QED BY <1>2, <1>3, <2>3 DEF Collect
<1>4. ASSUME NEW target \in Targets, NEW j \in DOMAIN target, IterScan(target, j)
      PROVE  LakeInv'
  <2>1. target[j] \in DOMAIN table /\ table[target[j]] # Dropped
    BY DEF Targets
  <2>2. PICK v \in FieldValues(provider[j].type) :
          answer' = Cell("scan", target, target[j], j, v)
    BY <1>4 DEF IterScan
  <2>3. j \in DOMAIN provider
    BY <1>4 DEF IterScan
  <2>4. AnswerInv'
    BY <1>1, <2>1, <2>2, <2>3, CellIsAnswer
  <2>. QED BY <1>2, <1>4, <2>3, <2>4 DEF IterScan
<1>. QED BY <1>3, <1>4 DEF Query

LEMMA NextLake == LakeInv /\ [LakeNext]_lakeVars => LakeInv'
<1> SUFFICES ASSUME LakeInv, [LakeNext]_lakeVars PROVE LakeInv'
  OBVIOUS
<1>1. CASE answer = NoAnswer /\ Change
  <2>1. LakeTypeOK' /\ TableInv'
    BY <1>1, ChangeKeepsTables DEF LakeInv
  <2>2. answer' = NoAnswer
    BY <1>1 DEF Change, CreateTable, DropTable, DropColumn, AlterType, ReplaceLakeFile,
                Reconnect, Load
  <2>. QED BY <2>1, <2>2 DEF LakeInv, AnswerInv
<1>2. CASE Query
  BY <1>2, QueryAnswers
<1>3. CASE Deliver
  <2>1. LakeTypeOK' /\ TableInv'
    BY <1>3 DEF Deliver, LakeInv, LakeTypeOK, TableInv
  <2>. QED BY <1>3, <2>1 DEF Deliver, LakeInv, AnswerInv
<1>4. CASE UNCHANGED lakeVars
  BY <1>4 DEF lakeVars, LakeInv, LakeTypeOK, TableInv, AnswerInv
<1>. QED BY <1>1, <1>2, <1>3, <1>4 DEF LakeNext

LEMMA LakeInvariant == LakeSpec => []LakeInv
  BY InitLake, NextLake, PTL DEF LakeSpec

\* A provider stands for a file and a table, and its fields are at the places
\* of their columns, whatever is altered (the providers of the session, ALTER).
THEOREM LakeTypeCorrect == LakeSpec => []LakeTypeOK
<1>1. LakeInv => LakeTypeOK
  BY DEF LakeInv
<1>. QED BY <1>1, LakeInvariant, PTL

\* DataFusion's answers, and scans of the leading columns, take each column from
\* the field of its name (write_batches_to_slots, iter_scan_impl).
THEOREM ColumnsAreAlwaysOwn == LakeSpec => []ColumnsAreOwn
<1>1. LakeInv => ColumnsAreOwn
  BY DEF LakeInv, AnswerInv, ColumnsAreOwn, Answered
<1>. QED BY <1>1, LakeInvariant, PTL

-----------------------------------------------------------------------------
(* pg_lakehouse: what get_cell makes of a value.                           *)

\* The outcomes of get_cell for a type that is read are values, null or a failure.
LEMMA OutcomeIsNoMismatch ==
  ASSUME NEW a, NEW v \in FieldValues(a), NEW t, a \in Readable(t)
  PROVE  LakeCell(a, v, t) # Mismatch
<1>1. \A type, x : Value(type, x) = Mismatch => type = "mismatch"
  BY DEF Value, Mismatch
<1>2. Fail # Mismatch /\ Null # Mismatch
  BY DEF Fail, Null, Mismatch
<1>3. v # Mismatch
  <2>1. \A S : /\ Mismatch \notin Tagged("bool", S) /\ Mismatch \notin Tagged("text", S)
              /\ Mismatch \notin Tagged("date", S) /\ Mismatch \notin Tagged("time", S)
              /\ Mismatch \notin {Num(n) : n \in S}
    BY <1>1 DEF Tagged, Num
  <2>. QED BY <1>2, <2>1 DEF FieldValues
<1>4. NumberCell(a, v.val, t) # Mismatch
  <2>1. \A n : Num(n) # Mismatch
    BY <1>1 DEF Num
  <2>2. /\ \A w : IntCell(a, v.val, w) # Mismatch /\ RealCell(v.val, w) # Mismatch
        /\ NumericCell(a, v.val) # Mismatch
    BY <1>2, <2>1 DEF IntCell, RealCell, NumericCell
  <2>. QED BY <1>2, <2>2 DEF NumberCell, IntegerCell, FloatCell, DecimalCell
<1>5. TextCell(a, v) # Mismatch
  BY <1>2, <1>3 DEF TextCell
<1>6. DateCell(v) # Mismatch
  BY <1>1, <1>2, MadeOutcome DEF DateCell
<1>7. MomentCell(a, v, t) # Mismatch
  <2>1. \A reading : StampCell(reading) # Mismatch
    BY <1>1, <1>2, MadeOutcome DEF StampCell
  <2>2. \A local : InstantCell(local) # Mismatch
    BY <1>1, <1>2, InstantOutcome
  <2>. QED BY <1>2, <2>1, <2>2 DEF MomentCell, TimestamptzCell
<1>. QED
  BY <1>2, <1>3, <1>4, <1>5, <1>6, <1>7 DEF LakeCell

\* The two lists of types, compared pair by pair.
LEMMA SupportedIsReadable ==
  ASSUME NEW a, NEW t \in SupportedAttributes(a)
  PROVE  a \in Readable(t) \/ (a = "Int64" /\ t = "INT2")
<1>1. CASE a \in NumTypes
  BY <1>1 DEF SupportedAttributes, Readable, IntOrReal, NumTypes, IntTypes, SignedBits,
              UnsignedBits, FloatBits
<1>2. CASE a \notin NumTypes
  BY <1>2 DEF SupportedAttributes, Readable, IntOrReal
<1>. QED BY <1>1, <1>2

\* What can_convert_to_attribute accepted, get_cell reads, but for 64 bit integers
\* in an INT2 column.
THEOREM AcceptedIsAlwaysReadable == LakeSpec => []AcceptedIsReadable
<1>1. LakeInv => AcceptedIsReadable
  BY OutcomeIsNoMismatch, SupportedIsReadable
  DEF LakeInv, AnswerInv, AcceptedIsReadable, Answered
<1>. QED BY <1>1, LakeInvariant, PTL

LEMMA FieldNumbers ==
  ASSUME NEW a, NEW v \in FieldValues(a), v.type = "num"
  PROVE  v.val \in Int /\ v = Num(v.val) /\ a \in NumTypes
<1>1. \A S : /\ v \notin Tagged("bool", S) /\ v \notin Tagged("text", S)
            /\ v \notin Tagged("date", S) /\ v \notin Tagged("time", S)
  BY DEF Tagged, Value
<1>2. a \in NumTypes /\ v \in {Num(n) : n \in Numbers[a]}
  BY <1>1 DEF FieldValues, Null
<1>3. Numbers[a] \in SUBSET Int
  BY <1>2, LakeAssumption
<1>4. PICK n \in Int : v = Num(n)
  BY <1>2, <1>3
<1>. QED BY <1>2, <1>4 DEF Num, Value

LEMMA LakeNumberKept ==
  ASSUME NEW a, NEW n \in Int, NEW t \in IntOrReal, Holds(a, n, t), ~BeyondSigned(a, n)
  PROVE  NumberCell(a, n, t) = Num(n)
<1>1. CASE t \in DOMAIN IntBits
  <2>1. IntBits[t] \in Widths
    BY <1>1 DEF IntBits, Widths
  <2>2. n % 2 = 0 /\ InRange(n \div 2, IntBits[t])
    BY <1>1 DEF Holds, IntBits, RealBits
  <2>3. NumberCell(a, n, t) = IntCell(a, n, IntBits[t])
    BY <1>1 DEF NumberCell, IntegerCell, IntBits, RealBits
  <2>. QED BY <2>1, <2>2, <2>3, IntCellKeeps
<1>2. CASE t \in DOMAIN RealBits
  <2>1. RealBits[t] \in FloatWidths
    BY <1>2 DEF RealBits, FloatWidths
  <2>2. t \notin DOMAIN IntBits
    BY <1>2 DEF RealBits, IntBits
  <2>3. n \in Held[RealBits[t]]
    BY <1>2, <2>2 DEF Holds, IntBits, RealBits
  <2>4. NumberCell(a, n, t) = RealCell(n, RealBits[t])
    BY <1>2, <2>2 DEF NumberCell, FloatCell, IntBits, RealBits
  <2>. QED BY <2>1, <2>3, <2>4, RealCellKeeps
<1>3. CASE t = "NUMERIC"
  <2>1. a \in DOMAIN FloatBits => n \in Printed[FloatBits[a]]
    BY <1>3 DEF Holds, IntBits, RealBits
  <2>2. NumberCell(a, n, t) = NumericCell(a, n)
    BY <1>3 DEF NumberCell, DecimalCell, IntBits, RealBits
  <2>. QED BY <2>1, <2>2, NumericCellKeeps
<1>. QED BY <1>1, <1>2, <1>3 DEF IntOrReal, IntBits, RealBits

LEMMA LakeNumbersKept == LakeInv => LakeNumbersAreKept
<1> SUFFICES ASSUME LakeInv, Answered, answer.type \in IntOrReal, answer.value.type = "num",
                    answer.cell # Mismatch,
                    Holds(answer.arrow, answer.value.val, answer.type)
             PROVE  \/ answer.cell = answer.value
                    \/ answer.cell = Fail /\ BeyondSigned(answer.arrow, answer.value.val)
  BY DEF LakeNumbersAreKept
<1> DEFINE a == answer.arrow
           v == answer.value
           t == answer.type
<1>1. v \in FieldValues(a) /\ answer.cell = LakeCell(a, v, t)
  BY DEF LakeInv, AnswerInv, Answered
<1>2. v.val \in Int /\ v = Num(v.val) /\ v # Null
  BY <1>1, FieldNumbers DEF Null
<1>3. answer.cell = NumberCell(a, v.val, t)
  BY <1>1, <1>2 DEF LakeCell, IntOrReal
<1>4. CASE BeyondSigned(a, v.val)
  BY <1>3, <1>4 DEF NumberCell
<1>5. CASE ~BeyondSigned(a, v.val)
  BY <1>2, <1>3, <1>5, LakeNumberKept
<1>. QED BY <1>4, <1>5

LEMMA FieldMoments ==
  ASSUME NEW a, NEW v \in FieldValues(a), v # Null
  PROVE  /\ a \in {"Date32", "Date64"} => v.val \in Dates
         /\ a \in {"Timestamp", "TimestampTz"} => v.val.sec \in Readings
<1>1. CASE a \in {"Date32", "Date64"}
  <2>1. v \in Tagged("date", Days)
    BY <1>1 DEF FieldValues, NumTypes, IntTypes, SignedBits, UnsignedBits, FloatBits
  <2>2. v.val \in Days
    BY <2>1 DEF Tagged, Value
  <2>. QED BY <1>1, <2>2, CellsAssumption
<1>2. CASE a \in {"Timestamp", "TimestampTz"}
  <2>1. v \in Tagged("time", Moments)
    BY <1>2 DEF FieldValues, NumTypes, IntTypes, SignedBits, UnsignedBits, FloatBits
  <2>2. v.val \in Moments
    BY <2>1 DEF Tagged, Value
  <2>. QED BY <1>2, <2>2, CellsAssumption
<1>. QED BY <1>1, <1>2

LEMMA LakeMomentsKept == LakeInv => MomentsAreKept
<1> SUFFICES ASSUME LakeInv, Answered, answer.cell \notin {Null, Fail, Mismatch}
             PROVE  MomentsAreKept
  BY DEF MomentsAreKept, Returned
<1> DEFINE a == answer.arrow
           v == answer.value
           t == answer.type
           sec == v.val.sec
<1>1. /\ answer.cell = LakeCell(a, v, t) /\ a \in Readable(t) /\ v # Null
      /\ v \in FieldValues(a)
  BY DEF LakeInv, AnswerInv, Answered, LakeCell
<1>2. t = "TIME" => answer.cell = v
  BY <1>1 DEF LakeCell, IntOrReal
<1>3. ASSUME t = "DATE" PROVE EraKept(v.val, answer.cell.val)
  <2>1. answer.cell = Made("date", v.val, PgDates)
    BY <1>1, <1>3 DEF LakeCell, IntOrReal, DateCell
  <2>2. a \in {"Date32", "Date64"}
    BY <1>1, <1>3 DEF Readable, IntOrReal
  <2>. QED BY <1>1, <2>1, <2>2, FieldMoments, MadeKeeps
<1>4. ASSUME t \in {"TIMESTAMP", "TIMESTAMPTZ"}
      PROVE  answer.cell = MomentCell(a, v, t) /\ a \in {"Timestamp", "TimestampTz"}
  BY <1>1, <1>4 DEF LakeCell, IntOrReal, Readable
<1>5. ASSUME t = "TIMESTAMP" PROVE EraKept(sec, answer.cell.val)
  <2>1. answer.cell = Made("stamp", sec, PgStamps)
    BY <1>4, <1>5 DEF MomentCell, StampCell
  <2>. QED BY <1>1, <1>4, <1>5, <2>1, FieldMoments, MadeKeeps
<1>6. ASSUME t = "TIMESTAMPTZ", a = "TimestampTz", Wall[sec].year >= 1
      PROVE  answer.cell.val = sec \/ \E i \in DOMAIN Wall : i # sec /\ Wall[i] = Wall[sec]
  <2>1. answer.cell = TimestamptzCell("TimestampTz", v)
    BY <1>4, <1>6 DEF MomentCell
  <2>. QED BY <1>6, <2>1, InstantKept
<1>. QED BY <1>2, <1>3, <1>5, <1>6 DEF MomentsAreKept, Returned

\* Numbers and moments are read as they are, or refused (get_cell with the casts
\* of arrow-rs, datetime.rs).
THEOREM ValuesAreAlwaysKept == LakeSpec => []ValuesAreKept
<1>1. LakeInv => ValuesAreKept
  BY LakeNumbersKept, LakeMomentsKept DEF ValuesAreKept
<1>. QED BY <1>1, LakeInvariant, PTL

=============================================================================
