------------------------------- MODULE Cells -------------------------------
(***************************************************************************)
(* The conversion of one Arrow value to one Postgres value, by the type of *)
(* the Postgres column (get_cell of src/schema/cell.rs, with               *)
(* src/schema/datetime.rs).                                                *)
(*                                                                         *)
(* A number is counted in halves, so that there are fractions.  Integer    *)
(* widths and float formats are parameters; the arithmetic of Rust's `as`  *)
(* is kept.  Arrow types DuckDB does not produce (half floats, 64 bit      *)
(* dates and offsets, 32 bit times, intervals other than months, days and  *)
(* nanoseconds) and special floats are left out, and a nested type holds   *)
(* scalars, or structs of scalars in a list.                               *)
(***************************************************************************)
EXTENDS Integers, Sequences

CONSTANTS
  PgTypes,    \* Postgres types a column may be given
  Texts,      \* the values of texts and binaries, of dates ...
  Days,
  Moments,    \* ... and of times: a clock reading, and a part of a second
  Half,       \* w bits hold the integers from -Half[w] to Half[w] - 1
  Held,       \* the numbers a float of w bits holds ...
  Printed,    \* ... and those among them its decimal digits tell apart
  JsonTexts,  \* texts that are JSON documents
  UuidTexts,  \* texts that are UUIDs
  PgSpans,    \* intervals that Postgres accepts ...
  PgDates,    \* ... dates, and clock readings
  PgStamps,
  Wall,       \* what clocks in the time zone show at an instant
  Instant     \* the instant Postgres takes a clock reading for

Widths == {8, 16, 32, 64}
FloatWidths == {32, 64}

Dates == [year : Int, day : Nat]
Readings == [year : Int, day : Nat, time : Nat]

\* A wider integer has at least one bit more, and a double holds every float.
\* Postgres takes what clocks show for an instant at which they show it.
ASSUME CellsAssumption ==
  /\ Half \in [Widths -> Nat \ {0}]
  /\ \A v, w \in Widths : v < w => 2 * Half[v] <= Half[w]
  /\ Held \in [FloatWidths -> SUBSET Int]
  /\ Held[32] \subseteq Held[64] /\ Held[32] # {}
  /\ Printed \in [FloatWidths -> SUBSET Int]
  /\ Days \cup PgDates \subseteq Dates /\ PgStamps \subseteq Readings
  /\ \A m \in Moments : m.sec \in Readings
  /\ \A i \in DOMAIN Wall : Wall[i] \in Readings
  /\ DOMAIN Instant \subseteq PgStamps
  /\ \A r \in DOMAIN Instant : Instant[r] \in PgStamps
  /\ \A i \in DOMAIN Wall :
       Wall[i] \in DOMAIN Instant =>
         Instant[Wall[i]] \in DOMAIN Wall /\ Wall[Instant[Wall[i]]] = Wall[i]

\* The outcomes of a conversion, besides a value.
Null == [type |-> "null"]
Fail == [type |-> "fail"]

Value(type, val) == [type |-> type, val |-> val]
Num(n) == Value("num", n)
Tagged(type, S) == {Value(type, x) : x \in S}

-----------------------------------------------------------------------------
(* Arrow types: a name, and the types inside a list or a struct.           *)

SignedBits == [Int8 |-> 8, Int16 |-> 16, Int32 |-> 32, Int64 |-> 64]
UnsignedBits == [UInt8 |-> 8, UInt16 |-> 16, UInt32 |-> 32, UInt64 |-> 64]
FloatBits == [Float32 |-> 32, Float64 |-> 64]

IntTypes == DOMAIN SignedBits \cup DOMAIN UnsignedBits
NumTypes == IntTypes \cup DOMAIN FloatBits \cup {"Decimal128"}

Scalar(name) == [name |-> name, elem |-> "none", fields |-> << >>]
ListOf(elem) == [name |-> "List", elem |-> elem, fields |-> << >>]
StructOf(fields) == [name |-> "Struct", elem |-> "none", fields |-> fields]
ListOfStructs(fields) == [name |-> "List", elem |-> "Struct", fields |-> fields]

\* Postgres types that hold numbers, and arrays with their exact element type.
IntBits == [INT2 |-> 16, INT4 |-> 32, INT8 |-> 64]
RealBits == [FLOAT4 |-> 32, FLOAT8 |-> 64]
ArrayElem == [BOOLARRAY |-> "Boolean", TEXTARRAY |-> "Utf8", INT2ARRAY |-> "Int16",
              INT4ARRAY |-> "Int32", INT8ARRAY |-> "Int64",
              FLOAT4ARRAY |-> "Float32", FLOAT8ARRAY |-> "Float64"]

\* The Arrow types a column of type t can be read from.  BIGINT is among them
\* for INT2, but is read as another type there, which panics.
Accepts(t) ==
  CASE t = "BOOL" -> {"Boolean"}
    [] t = "BYTEA" -> {"Binary", "Utf8"}
    [] t = "INT2" -> NumTypes \ {"Int64"}
    [] t \in {"INT4", "INT8", "NUMERIC"} \cup DOMAIN RealBits -> NumTypes
    [] t = "TEXT" -> {"Utf8", "Binary"}
    [] t = "DATE" -> {"Date32"}
    [] t = "INTERVAL" -> {"Interval"}
    [] t \in {"JSON", "JSONB"} -> {"Struct", "Utf8", "List"}
    [] t = "TIME" -> {"Time64"}
    [] t \in {"TIMESTAMP", "TIMESTAMPTZ"} -> {"Timestamp", "TimestampTz", "Date32"}
    [] t = "UUID" -> {"Utf8"}
    [] t \in DOMAIN ArrayElem -> {"List"}
    [] OTHER -> {}

-----------------------------------------------------------------------------
(* Numbers.                                                                 *)

InRange(i, w) == -Half[w] <= i /\ i < Half[w]

\* `as` between integers keeps the low bits; from a float it drops the fraction
\* and stops at the ends of the range.
Wrap(i, w) == ((i + Half[w]) % (2 * Half[w])) - Half[w]
Truncated(n) == IF n >= 0 THEN n \div 2 ELSE -((-n) \div 2)
Clamp(i, w) == IF i < -Half[w] THEN -Half[w] ELSE IF i >= Half[w] THEN Half[w] - 1 ELSE i

\* Postgres rounds a NUMERIC to an integer, halves away from zero.
Rounded(n) == IF n >= 0 THEN (n + 1) \div 2 ELSE -((1 - n) \div 2)

Nearest(n, S) ==
  CHOOSE m \in S : \A k \in S : (m - n) * (m - n) <= (k - n) * (k - n)

\* Mutant: whole numbers are cut to half the width first.
IntCellNarrowed(a, n, w) == Num(2 * Wrap(Wrap(n \div 2, 8), w))

IntCell(a, n, w) ==
  IF a \in IntTypes THEN Num(2 * Wrap(n \div 2, w))
  ELSE IF a \in DOMAIN FloatBits THEN Num(2 * Clamp(Truncated(n), w))
  ELSE IF InRange(Rounded(n), w) THEN Num(2 * Rounded(n)) ELSE Fail

RealCell(n, w) == Num(Nearest(n, Held[w]))

\* A float becomes NUMERIC through its printed form.
NumericCell(a, n) ==
  IF a \in DOMAIN FloatBits THEN Num(Nearest(n, Printed[FloatBits[a]])) ELSE Num(n)

-----------------------------------------------------------------------------
(* Dates and times.  Years are counted as chrono does, in which 0 is the year  *)
(* before 1; an instant is what clocks show in UTC.  [sec, frac] is a time.     *)

\* Mutant: the years before the common era are not told apart.
YearUnsigned(y) == IF y < 0 THEN -y ELSE y

\* Postgres takes the years below zero for those before the common era, the
\* first of which is -1.
PgYear(y) == IF y < 0 THEN y + 1 ELSE y

\* A date or reading that Postgres makes of year, month and so on; it refuses the
\* year 0 and days that the year it takes does not have.
Made(type, d, S) ==
  LET made == [d EXCEPT !.year = PgYear(@)] IN
  IF d.year # 0 /\ made \in S THEN Value(type, made) ELSE Fail

DateCell(v) == Made("date", v.val, PgDates)

\* Fractions of a second are divided away, as integers.
StampCell(reading) == Made("stamp", reading, PgStamps)

Midnight(d) == [year |-> d.year, day |-> d.day, time |-> 0]

\* A date becomes one of Postgres first, which then takes its midnight.
MidnightCell(v) ==
  LET date == DateCell(v) IN
  IF date # Fail /\ Midnight(date.val) \in PgStamps
  THEN Value("stamp", Midnight(date.val)) ELSE Fail

TimestampCell(a, v) == IF a = "Date32" THEN MidnightCell(v) ELSE StampCell(v.val.sec)

\* The instant of what was made of a clock reading.
InstantCell(local) ==
  IF local = Fail \/ local.val \notin DOMAIN Instant THEN Fail
  ELSE Value("stamp", Instant[local.val])

\* Mutant: the clock reading is stored as if it were an instant.
LocalTimestamptzCell(a, v) ==
  IF a # "TimestampTz" THEN InstantCell(TimestampCell(a, v))
  ELSE IF v.val.sec \in DOMAIN Wall THEN StampCell(Wall[v.val.sec]) ELSE Fail

\* An instant becomes a clock reading in DuckDB's time zone, and Postgres makes
\* an instant of it again.
TimestamptzCell(a, v) ==
  IF a # "TimestampTz" THEN InstantCell(TimestampCell(a, v))
  ELSE IF v.val.sec \in DOMAIN Wall THEN InstantCell(StampCell(Wall[v.val.sec])) ELSE Fail

\* [months, days, part]: nanoseconds, of which two stand for a microsecond,
\* become microseconds.  Interval::new refuses what Postgres has no interval for.
IntervalCell(v) ==
  LET span == [v.val EXCEPT !.part = Truncated(@)] IN
  IF span \in PgSpans THEN Value("span", span) ELSE Fail

-----------------------------------------------------------------------------
(* Lists, structs and JSON.                                                *)

JsonFields == {"Boolean", "Decimal128", "Utf8"} \cup IntTypes \cup DOMAIN FloatBits
JsonElems == {"Boolean", "Utf8"} \cup DOMAIN SignedBits

\* A DECIMAL in a struct passes through a double.
FieldCell(name, v) == IF name = "Decimal128" THEN RealCell(v.val, 64) ELSE v

\* A null field is left out of the object.
ObjectCell(fields, v) ==
  IF \E f \in DOMAIN fields : fields[f] \notin JsonFields THEN Fail
  ELSE Value("object", [f \in {g \in DOMAIN fields : v.val[g] # Null}
                          |-> FieldCell(fields[f], v.val[f])])

\* Mutant: null elements are left out of a JSON list, as null fields are.
JsonListDense(a, v) ==
  IF a.elem \in JsonElems
  THEN Value("list", SelectSeq(v.val, LAMBDA e : e # Null)) ELSE Fail

JsonListCell(a, v) ==
  LET objects == [i \in DOMAIN v.val |->
                    IF v.val[i] = Null THEN Null ELSE ObjectCell(a.fields, v.val[i])]
  IN IF a.elem \in JsonElems THEN v
     ELSE IF a.elem # "Struct" \/ \E i \in DOMAIN objects : objects[i] = Fail THEN Fail
     ELSE Value("list", objects)

JsonCell(a, v) ==
  CASE a.name = "Utf8" -> IF v.val \in JsonTexts THEN Value("json", v.val) ELSE Fail
    [] a.name = "Struct" -> ObjectCell(a.fields, v)
    [] a.name = "List" -> JsonListCell(a, v)

\* Mutant: the type of the elements is not looked at.
ArrayCellUnchecked(a, v, t) == v

ArrayCell(a, v, t) == IF a.elem = ArrayElem[t] THEN v ELSE Fail

-----------------------------------------------------------------------------
\* What is left of a value v of Arrow type a in a column of type t.
ValueCell(a, v, t) ==
  CASE t \in DOMAIN IntBits -> IntCell(a.name, v.val, IntBits[t])
    [] t \in DOMAIN RealBits -> RealCell(v.val, RealBits[t])
    [] t = "NUMERIC" -> NumericCell(a.name, v.val)
    [] t = "TEXT" -> Value("text", v.val)
    [] t = "BYTEA" -> Value("bytes", v.val)
    [] t = "DATE" -> DateCell(v)
    [] t = "INTERVAL" -> IntervalCell(v)
    [] t = "TIMESTAMP" -> TimestampCell(a.name, v)
    [] t = "TIMESTAMPTZ" -> TimestamptzCell(a.name, v)
    [] t = "UUID" -> IF v.val \in UuidTexts THEN Value("uuid", v.val) ELSE Fail
    [] t \in {"JSON", "JSONB"} -> JsonCell(a, v)
    [] t \in DOMAIN ArrayElem -> ArrayCell(a, v, t)
    [] t \in {"BOOL", "TIME"} -> v

\* get_cell: the types are matched before the value is looked at.
GetCell(a, v, t) ==
  IF a.name \notin Accepts(t) THEN Fail
  ELSE IF v = Null THEN Null ELSE ValueCell(a, v, t)

-----------------------------------------------------------------------------
\* From the year 1 on a date, or a reading, is read as itself; an earlier one may
\* not be, but it is not moved into the common era.
EraKept(d, made) == IF d.year >= 1 THEN made = d ELSE made.year < 1
=============================================================================
