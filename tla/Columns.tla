------------------------------ MODULE Columns ------------------------------
(***************************************************************************)
(* One column of a foreign table: the DuckDB type it has in the file, the  *)
(* Postgres type the table gives it, and the values that queries read.     *)
(*                                                                         *)
(* A table created without columns takes them over from DuckDB, with types *)
(* translated by substituting words in their names (src/fdw/trigger.rs);   *)
(* a table may also declare its columns.  Values are converted by Cells.   *)
(* Files may be replaced at any time, by files of other types.             *)
(*                                                                         *)
(* The name of a DuckDB type is a record: a prefix, a word and a suffix.   *)
(* TIMETZ and TIMESTAMPTZ stand for the names "... WITH TIME ZONE".        *)
(***************************************************************************)
EXTENDS Cells

CONSTANTS
  Sources,   \* DuckDB types of the column
  Fields,    \* field names and Arrow types of STRUCT
  Decimals,  \* the values of DECIMAL and of integers beyond 64 bits
  Spans,     \* the values of intervals
  MaxLen     \* bound on the length of lists

\* No prefix, or no suffix.
Bare == "BARE"

\* Types no column can take over; and the words of all names, DuckDB's types
\* first and then those of Postgres that replace them.
Refused == {"INVALID", "MAP", "ENUM", "UNION", "BIT"}
Words ==
  {"TINYINT", "SMALLINT", "INTEGER", "BIGINT", "HUGEINT", "DECIMAL", "FLOAT", "DOUBLE", "BOOLEAN",
   "VARCHAR", "UUID", "JSON", "BLOB", "GEOMETRY", "DATE", "TIME", "TIMETZ", "TIMESTAMP",
   "TIMESTAMP_S", "TIMESTAMP_MS", "TIMESTAMP_NS", "TIMESTAMPTZ", "INTERVAL", "STRUCT"}
    \cup Refused \cup {"NUMERIC", "TEXT", "DOUBLE_PRECISION"}

Prefixes == {Bare, "U", "WKB_"}
Suffixes == {Bare, "[]", "[3]"}
TypeNames == [pre : Prefixes, base : Words, suf : Suffixes]

\* Only integers are unsigned, and only blobs hold well known bytes.
ASSUME ColumnsAssumption ==
  /\ Sources \subseteq TypeNames
  /\ \A s \in Sources :
       /\ s.pre = "U" => s.base \in {"TINYINT", "SMALLINT", "INTEGER", "BIGINT", "HUGEINT"}
       /\ s.pre = "WKB_" => s.base = "BLOB"
  /\ Decimals \subseteq Int
  /\ MaxLen \in Nat

VARIABLES
  source,  \* the type of the column in the file
  pgtype,  \* its type in the foreign table, or NoType before there is one
  auto,    \* history: pgtype was derived from the present source
  seen     \* history: the value last read, and what became of it

vars == <<source, pgtype, auto, seen>>

NoType == "NONE"
Unread == [type |-> "unread"]
NotRead == [value |-> Unread, cell |-> Unread]

-----------------------------------------------------------------------------
(* DuckDB: the Arrow type and the values of a type.                        *)

ArrowName(pre, base) ==
  CASE base = "TINYINT" -> IF pre = "U" THEN "UInt8" ELSE "Int8"
    [] base = "SMALLINT" -> IF pre = "U" THEN "UInt16" ELSE "Int16"
    [] base = "INTEGER" -> IF pre = "U" THEN "UInt32" ELSE "Int32"
    [] base = "BIGINT" -> IF pre = "U" THEN "UInt64" ELSE "Int64"
    [] base \in {"HUGEINT", "DECIMAL"} -> "Decimal128"
    [] base = "FLOAT" -> "Float32"
    [] base = "DOUBLE" -> "Float64"
    [] base = "BOOLEAN" -> "Boolean"
    [] base \in {"VARCHAR", "UUID", "JSON"} -> "Utf8"
    [] base \in {"BLOB", "GEOMETRY"} -> "Binary"
    [] base = "DATE" -> "Date32"
    [] base \in {"TIME", "TIMETZ"} -> "Time64"
    [] base \in {"TIMESTAMP", "TIMESTAMP_S", "TIMESTAMP_MS", "TIMESTAMP_NS"} -> "Timestamp"
    [] base = "TIMESTAMPTZ" -> "TimestampTz"
    [] base = "INTERVAL" -> "Interval"
    [] OTHER -> base

ArrowOf(s) ==
  IF s.base = "STRUCT"
  THEN IF s.suf = "[]" THEN ListOfStructs(Fields) ELSE StructOf(Fields)
  ELSE CASE s.suf = Bare -> Scalar(ArrowName(s.pre, s.base))
         [] s.suf = "[]" -> ListOf(ArrowName(s.pre, s.base))
         [] s.suf = "[3]" -> Scalar("FixedSizeList")

Nums(S) == {Num(n) : n \in S}

\* JSON and UUID columns hold texts of their kind.
ScalarValues(base, name) ==
  CASE name \in DOMAIN SignedBits ->
         LET h == Half[SignedBits[name]] IN Nums({2 * i : i \in -h .. h - 1})
    [] name \in DOMAIN UnsignedBits ->
         LET h == Half[UnsignedBits[name]] IN Nums({2 * i : i \in 0 .. 2 * h - 1})
    [] name \in DOMAIN FloatBits -> Nums(Held[FloatBits[name]])
    [] name = "Decimal128" -> Nums(Decimals)
    [] name = "Boolean" -> Tagged("bool", BOOLEAN)
    [] name = "Utf8" ->
         Tagged("text", CASE base = "JSON" -> JsonTexts [] base = "UUID" -> UuidTexts [] OTHER -> Texts)
    [] name = "Binary" -> Tagged("bytes", Texts)
    [] name = "Date32" -> Tagged("date", Days)
    [] name \in {"Time64", "Timestamp", "TimestampTz"} -> Tagged("time", Moments)
    [] name = "Interval" -> Tagged("span", Spans)
    [] OTHER -> {}

Lists(S) == Tagged("list", UNION {[1 .. n -> S \cup {Null}] : n \in 0 .. MaxLen})

Structs == Tagged("struct", {r \in [DOMAIN Fields -> {Null} \cup
                                      UNION {ScalarValues(Bare, Fields[f]) : f \in DOMAIN Fields}] :
                               \A f \in DOMAIN Fields :
                                 r[f] \in {Null} \cup ScalarValues(Bare, Fields[f])})

Values(s) ==
  LET a == ArrowOf(s) IN
  CASE a.name = "List" ->
         Lists(IF a.elem = "Struct" THEN Structs ELSE ScalarValues(s.base, a.elem))
    [] a.name = "Struct" -> Structs
    [] OTHER -> ScalarValues(s.base, a.name)

-----------------------------------------------------------------------------
(* The translation of type names.                                          *)

\* One call of `replace`, of a word after a prefix.  Without a prefix it acts
\* wherever the word stands and leaves what comes before it: UTINYINT becomes
\* USMALLINT, and WKB_BLOB WKB_TEXT.
Replace(pre, word, new) ==
  [name \in TypeNames |->
     IF name.base = word /\ pre \in {Bare, name.pre}
     THEN [pre |-> IF pre = Bare THEN name.pre ELSE Bare, base |-> new, suf |-> name.suf]
     ELSE name]

\* Mutant: unsigned integers become signed ones of the same size.
IntegersSameSize(s) ==
  LET tiny == Replace(Bare, "TINYINT", "SMALLINT")[s]
      usmall == Replace("U", "SMALLINT", "INTEGER")[tiny]
      uint == Replace("U", "INTEGER", "INTEGER")[usmall]
      ubig == Replace("U", "BIGINT", "NUMERIC")[uint]
  IN Replace(Bare, "HUGEINT", "NUMERIC")[ubig]

\* The calls of `replace`, in their order: for the integers ...
IntegersReplaced(s) ==
  LET tiny == Replace(Bare, "TINYINT", "SMALLINT")[s]
      utiny == Replace("U", "TINYINT", "SMALLINT")[tiny]
      usmall == Replace("U", "SMALLINT", "INTEGER")[utiny]
      uint == Replace("U", "INTEGER", "BIGINT")[usmall]
      ubig == Replace("U", "BIGINT", "NUMERIC")[uint]
      huge == Replace(Bare, "HUGEINT", "NUMERIC")[ubig]
  IN Replace("U", "HUGEINT", "NUMERIC")[huge]

\* ... and for the other types.
Translated(s) ==
  LET blob == Replace(Bare, "BLOB", "TEXT")[IntegersReplaced(s)]
      double == Replace(Bare, "DOUBLE", "DOUBLE_PRECISION")[blob]
      seconds == Replace(Bare, "TIMESTAMP_S", "TIMESTAMP")[double]
      millis == Replace(Bare, "TIMESTAMP_MS", "TIMESTAMP")[seconds]
      nanos == Replace(Bare, "TIMESTAMP_NS", "TIMESTAMP")[millis]
      timetz == Replace(Bare, "TIMETZ", "TIME")[nanos]
      geometry == Replace(Bare, "GEOMETRY", "TEXT")[timetz]
  IN Replace("WKB_", "BLOB", "TEXT")[geometry]

\* The Postgres type of a name, as its parser finds it; one without cells is
\* OTHER.  The size of an array says nothing to Postgres.
PgArray(base) ==
  CASE base = "BOOLEAN" -> "BOOLARRAY"
    [] base \in {"VARCHAR", "TEXT"} -> "TEXTARRAY"
    [] base = "SMALLINT" -> "INT2ARRAY"
    [] base = "INTEGER" -> "INT4ARRAY"
    [] base = "BIGINT" -> "INT8ARRAY"
    [] base \in {"FLOAT", "DOUBLE_PRECISION"} -> "FLOAT8ARRAY"
    [] OTHER -> "OTHER"

PgScalar(base) ==
  CASE base = "BOOLEAN" -> "BOOL"
    [] base = "SMALLINT" -> "INT2"
    [] base = "INTEGER" -> "INT4"
    [] base = "BIGINT" -> "INT8"
    [] base \in {"FLOAT", "DOUBLE_PRECISION"} -> "FLOAT8"
    [] base \in {"NUMERIC", "DECIMAL"} -> "NUMERIC"
    [] base \in {"VARCHAR", "TEXT"} -> "TEXT"
    [] OTHER -> base

PgTypeOf(name) ==
  IF name.pre # Bare THEN NoType
  ELSE IF name.suf = Bare THEN PgScalar(name.base) ELSE PgArray(name.base)

\* duckdb_type_to_pg and the ALTER TABLE made of it; NoType if it fails.
AutoType(s) ==
  IF s.base \in Refused THEN NoType
  ELSE IF s.base = "STRUCT" THEN "JSONB"
  ELSE PgTypeOf(Translated(s))

-----------------------------------------------------------------------------
Init ==
  /\ source \in Sources
  /\ pgtype = NoType
  /\ auto = FALSE
  /\ seen = NotRead

\* CREATE FOREIGN TABLE without columns; it fails if the type is not known.
CreateAuto ==
  /\ pgtype = NoType
  /\ AutoType(source) # NoType
  /\ pgtype' = AutoType(source)
  /\ auto' = TRUE
  /\ UNCHANGED <<source, seen>>

\* CREATE FOREIGN TABLE with columns takes any type.
CreateDeclared(t) ==
  /\ pgtype = NoType
  /\ pgtype' = t
  /\ UNCHANGED <<source, auto, seen>>

Drop ==
  /\ pgtype # NoType
  /\ pgtype' = NoType
  /\ auto' = FALSE
  /\ seen' = NotRead
  /\ UNCHANGED source

\* The file is replaced; the table stays as it is.
ReplaceFile(s) ==
  /\ s # source
  /\ source' = s
  /\ auto' = FALSE
  /\ seen' = NotRead
  /\ UNCHANGED pgtype

\* A scan, or the executor hook, reads a value of the file.
Read(v) ==
  /\ pgtype # NoType
  /\ seen' = [value |-> v, cell |-> GetCell(ArrowOf(source), v, pgtype)]
  /\ UNCHANGED <<source, pgtype, auto>>

Next ==
  \/ CreateAuto
  \/ \E t \in PgTypes : CreateDeclared(t)
  \/ Drop
  \/ \E s \in Sources : ReplaceFile(s)
  \/ \E v \in Values(source) \cup {Null} : Read(v)

Spec == Init /\ [][Next]_vars

-----------------------------------------------------------------------------
(* Correctness.  A statement that fails has told no lie; seen.cell = Fail.  *)

\* A Postgres value of type t, other than null.
IsScalar(c, t) ==
  CASE t \in DOMAIN IntBits ->
         c.type = "num" /\ c.val % 2 = 0 /\ InRange(c.val \div 2, IntBits[t])
    [] t \in DOMAIN RealBits -> c.type = "num" /\ c.val \in Held[RealBits[t]]
    [] t = "NUMERIC" -> c.type = "num"
    [] t = "BOOL" -> c.type = "bool"
    [] t = "TEXT" -> c.type = "text"
    [] t = "BYTEA" -> c.type = "bytes"
    [] t = "UUID" -> c.type = "uuid" /\ c.val \in UuidTexts
    [] t = "DATE" -> c.type = "date" /\ c.val \in PgDates
    [] t = "INTERVAL" -> c.type = "span" /\ c.val \in PgSpans
    [] t = "TIME" -> c.type = "time"
    [] t \in {"TIMESTAMP", "TIMESTAMPTZ"} -> c.type = "stamp" /\ c.val \in PgStamps
    [] t \in {"JSON", "JSONB"} ->
         c.type \in {"object", "list"} \/ (c.type = "json" /\ c.val \in JsonTexts)
    [] OTHER -> FALSE

ElementType ==
  [BOOLARRAY |-> "BOOL", TEXTARRAY |-> "TEXT", INT2ARRAY |-> "INT2", INT4ARRAY |-> "INT4",
   INT8ARRAY |-> "INT8", FLOAT4ARRAY |-> "FLOAT4", FLOAT8ARRAY |-> "FLOAT8"]

IsCell(c, t) ==
  IF t \notin DOMAIN ArrayElem THEN IsScalar(c, t)
  ELSE /\ c.type = "list"
       /\ \A i \in DOMAIN c.val : c.val[i] = Null \/ IsScalar(c.val[i], ElementType[t])

\* Whatever the file holds by now, Postgres gets values of the column's own type
\* and within its bounds: get_cell never hands over an integer, a date or an
\* array of another type, which Postgres would take for one of this type.
TypeOK ==
  /\ source \in Sources
  /\ pgtype = NoType => seen = NotRead
  /\ seen.cell \in {Unread, Null, Fail} \/ IsCell(seen.cell, pgtype)

Got(type) == seen.value.type = type /\ seen.cell # Fail

\* The number n, of type a in the file, is one that type t can hold.
Fits(a, n, t) ==
  CASE t \in DOMAIN IntBits -> n % 2 = 0 /\ InRange(n \div 2, IntBits[t])
    [] t \in DOMAIN RealBits -> n \in Held[RealBits[t]]
    [] t = "NUMERIC" -> a \in DOMAIN FloatBits => n \in Printed[FloatBits[a]]

\* A number that the column's type can hold is read as that number, whatever
\* type it has in the file (signed, unsigned, float or decimal, of any width).
NumbersAreKept ==
  Got("num") /\ Fits(ArrowOf(source).name, seen.value.val, pgtype) => seen.cell = seen.value

\* Columns taken over from the file can hold what is in the file: their numbers
\* and texts are read as they are, never wrapped, rounded or reinterpreted.
AutoColumnsAreExact ==
  auto /\ (Got("num") \/ Got("text") \/ Got("bytes")) => seen.cell.val = seen.value.val

\* Dates, and time stamps to the second, are read as they are from the year 1 on,
\* and earlier ones never as later ones: without a time zone on both sides as
\* the reading it is, with one as the instant it is, unless clocks show that
\* reading twice.  (Years before 1 are off by one or refused, datetime.rs.)
InstantsAreKept ==
  LET name == ArrowOf(source).name
      sec == seen.value.val.sec
  IN /\ Got("date") /\ pgtype = "DATE" => EraKept(seen.value.val, seen.cell.val)
     /\ Got("time") /\ name = "Timestamp" /\ pgtype = "TIMESTAMP" => EraKept(sec, seen.cell.val)
     /\ Got("time") /\ name = "TimestampTz" /\ pgtype = "TIMESTAMPTZ" /\ Wall[sec].year >= 1
          => \/ seen.cell.val = sec
             \/ \E i \in DOMAIN Wall : i # sec /\ Wall[i] = Wall[sec]

\* An object has the fields of the struct that are not null.
FieldsKept(object, struct) ==
  DOMAIN object.val = {f \in DOMAIN struct.val : struct.val[f] # Null}

\* A list keeps its length and order, and its nulls stay where they are, in an
\* array as in JSON, and so do the fields of structs; null is never read for a
\* value nor a value for null.
ElementsAreKept ==
  /\ seen.cell # Fail => (seen.cell = Null <=> seen.value = Null)
  /\ Got("struct") => FieldsKept(seen.cell, seen.value)
  /\ Got("list") =>
       /\ DOMAIN seen.cell.val = DOMAIN seen.value.val
       /\ \A i \in DOMAIN seen.value.val :
            /\ seen.cell.val[i] = Null <=> seen.value.val[i] = Null
            /\ seen.value.val[i].type = "struct" =>
                 FieldsKept(seen.cell.val[i], seen.value.val[i])

=============================================================================
