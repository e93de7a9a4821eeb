----------------------------- MODULE LakeCells -----------------------------
(***************************************************************************)
(* The columns of one foreign table of pg_lakehouse (src/datafusion) and   *)
(* of its file: the check of their types when the table is loaded          *)
(* (schema/attribute.rs), and the values that queries read, by way of      *)
(* DataFusion or of a scan of the wrapper (schema/cell.rs, datetime.rs).   *)
(*                                                                         *)
(* The arithmetic of casts, and numbers as halves, are those of Cells.     *)
(* Half floats are left out; large texts and binaries are as the others,   *)
(* units of time are fractions, and the time zone of the session is that   *)
(* of the files.                                                           *)
(***************************************************************************)
EXTENDS Cells

CONSTANTS
  Files,     \* schemas of the file: sequences of [name, type]
  Tables,    \* definitions of the table: likewise
  Numbers,   \* the numbers of every type
  Utf8Texts  \* the binaries that are valid UTF-8

ASSUME LakeAssumption ==
  /\ Numbers \in [NumTypes -> SUBSET Int]
  /\ Files \cup Tables \subseteq Seq([name : STRING, type : STRING])
  /\ \A f \in Files \cup Tables : \A i, j \in DOMAIN f : f[i].name = f[j].name => i = j

VARIABLES
  file,      \* schema of the file
  table,     \* columns of the table in the catalog, or NoTable
  provider,  \* schema of its provider in the session, or NoProvider
  altered,   \* history: columns changed since it was loaded
  answer     \* the cell just read

lakeVars == <<file, table, provider, altered, answer>>

NoTable == <<>>
NoProvider == <<>>
Dropped == [name |-> "dropped", type |-> "dropped"]  \* the entry of a dropped column remains
NoAnswer == [how |-> "none"]

\* The array is not of a type that is read for the column, by an error or a panic.
Mismatch == [type |-> "mismatch"]

-----------------------------------------------------------------------------
(* can_convert_to_attribute.                                                *)

IntOrReal == {"INT2", "INT4", "INT8", "FLOAT4", "FLOAT8", "NUMERIC"}

SupportedAttributes(a) ==
  CASE a = "Binary" -> {"TEXT", "VARCHAR", "BPCHAR", "BYTEA"}
    [] a = "Boolean" -> {"BOOL"}
    [] a = "Utf8" -> {"TEXT", "VARCHAR", "BPCHAR"}
    [] a \in NumTypes -> IntOrReal
    [] a \in {"Date32", "Date64"} -> {"DATE"}
    [] a \in {"Time32", "Time64"} -> {"TIME"}
    [] a = "Timestamp" -> {"TIMESTAMP"}
    [] a = "TimestampTz" -> {"TIMESTAMPTZ"}
    [] OTHER -> {}

\* Mutant: the names are not compared.
CanConvertUnnamed(field, attribute) == attribute.type \in SupportedAttributes(field.type)

CanConvert(field, attribute) ==
  /\ field.name = attribute.name
  /\ attribute.type \in SupportedAttributes(field.type)

\* Fields without a column at their place are ignored, and columns without a field.
Loads == \A i \in DOMAIN file \cap DOMAIN table : CanConvert(file[i], table[i])

-----------------------------------------------------------------------------
(* get_cell.                                                                *)

\* Mutant: one pair of types is forgotten.
ReadableButUInt32(t) ==
  CASE t \in IntOrReal -> NumTypes \ {"UInt32"}
    [] t \in {"TEXT", "VARCHAR", "BPCHAR", "BYTEA"} -> {"Utf8", "Binary"}
    [] OTHER -> {"Boolean", "Date32", "Date64", "Time32", "Time64", "Timestamp", "TimestampTz"}

\* INT2 reads 64 bit integers as if they had 8, which panics.
Readable(t) ==
  CASE t = "BOOL" -> {"Boolean"}
    [] t = "INT2" -> NumTypes \ {"Int64"}
    [] t \in IntOrReal \ {"INT2"} -> NumTypes
    [] t \in {"TEXT", "VARCHAR", "BPCHAR", "BYTEA"} -> {"Utf8", "Binary"}
    [] t = "DATE" -> {"Date32", "Date64"}
    [] t = "TIME" -> {"Time32", "Time64"}
    [] t \in {"TIMESTAMP", "TIMESTAMPTZ"} -> {"Timestamp", "TimestampTz"}
    [] OTHER -> {}

\* get_uint_value takes unsigned integers through 64 bits with a sign.
BeyondSigned(a, n) == a = "UInt64" /\ ~InRange(n \div 2, 64)

\* The arms of get_cell for INT2, INT4 and INT8, for FLOAT4 and FLOAT8, and for NUMERIC.
IntegerCell(a, n, t) == IntCell(a, n, IntBits[t])
FloatCell(n, t) == RealCell(n, RealBits[t])
DecimalCell(a, n) == NumericCell(a, n)

NumberCell(a, n, t) ==
  IF BeyondSigned(a, n) THEN Fail
  ELSE CASE t \in DOMAIN IntBits -> IntegerCell(a, n, t)
         [] t \in DOMAIN RealBits -> FloatCell(n, t)
         [] OTHER -> DecimalCell(a, n)

\* get_binary_value; BYTEA gets the text as its bytes.
TextCell(a, v) == IF a = "Binary" /\ v.val \notin Utf8Texts THEN Fail ELSE v

\* Mutant: the reading of UTC is taken for that of the zone.
MomentCellUtc(a, v, t) ==
  IF t = "TIMESTAMP" THEN StampCell(v.val.sec) ELSE InstantCell(StampCell(v.val.sec))

\* datetime.rs: the reading in UTC, or in the zone of the file which Postgres
\* makes an instant of again; no fractions.
MomentCell(a, v, t) ==
  IF t = "TIMESTAMP" THEN StampCell(v.val.sec) ELSE TimestamptzCell(a, v)

\* Of a value v of Arrow type a in a column of type t.
LakeCell(a, v, t) ==
  IF a \notin Readable(t) THEN Mismatch
  ELSE IF v = Null THEN Null
  ELSE CASE t \in IntOrReal -> NumberCell(a, v.val, t)
         [] t \in {"TEXT", "VARCHAR", "BPCHAR", "BYTEA"} -> TextCell(a, v)
         [] t = "DATE" -> DateCell(v)
         [] t \in {"TIMESTAMP", "TIMESTAMPTZ"} -> MomentCell(a, v, t)
         [] OTHER -> v

\* What a field of type a may hold.
FieldValues(a) == {Null} \cup
  CASE a \in NumTypes -> {Num(n) : n \in Numbers[a]}
    [] a = "Boolean" -> Tagged("bool", BOOLEAN)
    [] a \in {"Utf8", "Binary"} -> Tagged("text", IF a = "Utf8" THEN Utf8Texts ELSE Texts)
    [] a \in {"Date32", "Date64"} -> Tagged("date", Days)
    [] a \in {"Time32", "Time64", "Timestamp", "TimestampTz"} -> Tagged("time", Moments)
    [] OTHER -> {}

-----------------------------------------------------------------------------
(* The catalog, the file and the session.                                  *)

CreateTable(d) ==
  /\ table = NoTable
  /\ table' = d
  /\ UNCHANGED <<file, provider, altered, answer>>

\* The next table has another oid, so no provider.
DropTable ==
  /\ table # NoTable
  /\ table' = NoTable /\ provider' = NoProvider /\ altered' = FALSE
  /\ UNCHANGED <<file, answer>>

AlterType(i, t) ==
  /\ table[i] # Dropped /\ table[i].type # t
  /\ table' = [table EXCEPT ![i].type = t]
  /\ altered' = TRUE
  /\ UNCHANGED <<file, provider, answer>>

DropColumn(i) ==
  /\ table[i] # Dropped
  /\ table' = [table EXCEPT ![i] = Dropped]
  /\ altered' = TRUE
  /\ UNCHANGED <<file, provider, answer>>

\* A provider keeps its schema and DataFusion casts what it finds to it.
ReplaceLakeFile(f) ==
  /\ f # file
  /\ file' = f
  /\ UNCHANGED <<table, provider, altered, answer>>

Reconnect ==
  /\ provider' = NoProvider /\ altered' = FALSE
  /\ UNCHANGED <<file, table, answer>>

\* table_impl.
Load ==
  /\ table # NoTable /\ provider = NoProvider
  /\ Loads
  /\ provider' = file /\ altered' = FALSE
  /\ UNCHANGED <<file, table, answer>>

-----------------------------------------------------------------------------
(* Queries.  One cell of a result is looked at.                            *)

\* Field k is read for column i, by a query whose columns are target.
Cell(how, target, i, k, v) ==
  [how |-> how, checked |-> ~altered,
   own |-> provider[k].name = table[i].name,
   inPlace |-> \A j \in DOMAIN target : target[j] = j,
   arrow |-> provider[k].type, type |-> table[i].type, value |-> v,
   cell |-> LakeCell(provider[k].type, v, table[i].type)]

\* write_batches_to_slots: DataFusion returns the columns that the query names.
Collect(i) ==
  /\ table[i] # Dropped
  /\ \E k \in DOMAIN provider : provider[k].name = table[i].name /\
       \E v \in FieldValues(provider[k].type) : answer' = Cell("collect", <<i>>, i, k, v)
  /\ UNCHANGED <<file, table, provider, altered>>

\* iter_scan_impl: the stream has all fields of the file, and the j-th column that
\* the query uses is read from the j-th of them; a query that uses more columns
\* than there are fields fails.
IterScan(target, j) ==
  /\ j \in DOMAIN provider
  /\ \E v \in FieldValues(provider[j].type) : answer' = Cell("scan", target, target[j], j, v)
  /\ UNCHANGED <<file, table, provider, altered>>

\* The columns that a query uses, in the order the planner lists them.
Targets ==
  LET live == {i \in DOMAIN table : table[i] # Dropped} IN
  UNION {{s \in [1..n -> live] : \A j, k \in 1..n : s[j] = s[k] => j = k} : n \in 1..Len(table)}

\* The client has the row.
Deliver ==
  /\ answer' = NoAnswer
  /\ UNCHANGED <<file, table, provider, altered>>

-----------------------------------------------------------------------------
LakeInit ==
  /\ file \in Files
  /\ table = NoTable /\ provider = NoProvider
  /\ altered = FALSE
  /\ answer = NoAnswer

Change ==
  \/ \E d \in Tables : CreateTable(d)
  \/ DropTable
  \/ \E i \in DOMAIN table : DropColumn(i) \/ \E t \in PgTypes : AlterType(i, t)
  \/ \E f \in Files : ReplaceLakeFile(f)
  \/ Reconnect
  \/ Load

Query ==
  \/ \E i \in DOMAIN table : Collect(i)
  \/ \E target \in Targets : \E j \in DOMAIN target : IterScan(target, j)

LakeNext ==
  \/ answer = NoAnswer /\ (Change \/ Query)
  \/ answer # NoAnswer /\ Deliver

LakeSpec == LakeInit /\ [][LakeNext]_lakeVars

-----------------------------------------------------------------------------
(* Correctness.                                                             *)

\* What is read is of a table that was loaded; the columns of a provider have the
\* places they have in the table, whatever was altered since.
LakeTypeOK ==
  /\ file \in Files
  /\ provider # NoProvider => provider \in Files /\ table # NoTable
  /\ answer # NoAnswer => provider # NoProvider
  /\ \A i \in DOMAIN provider \cap DOMAIN table :
       table[i] # Dropped => provider[i].name = table[i].name

Answered == answer # NoAnswer
Returned(types) == Answered /\ answer.cell \notin {Null, Fail, Mismatch} /\ answer.type \in types

\* Both lists of types agree: what can_convert_to_attribute accepted, get_cell
\* reads, if the table was not altered since - except 64 bit integers in an INT2
\* column, and unless a scan takes another column's field.
AcceptedIsReadable ==
  Answered /\ answer.checked /\ answer.own /\ answer.cell = Mismatch =>
    answer.arrow = "Int64" /\ answer.type = "INT2"

\* A query that DataFusion answers reads each column from the field of its name,
\* and so does a scan if the query uses the leading columns in their order.
ColumnsAreOwn == Answered /\ (answer.how = "collect" \/ answer.inPlace) => answer.own

\* The number n, of type a in the file, is one that type t can hold.
Holds(a, n, t) ==
  CASE t \in DOMAIN IntBits -> n % 2 = 0 /\ InRange(n \div 2, IntBits[t])
    [] t \in DOMAIN RealBits -> n \in Held[RealBits[t]]
    [] OTHER -> a \in DOMAIN FloatBits => n \in Printed[FloatBits[a]]

\* A number that the column can hold is read as that number or refused; refused
\* only if it is beyond the integers with a sign.
LakeNumbersAreKept ==
  Answered /\ answer.type \in IntOrReal /\ answer.value.type = "num" =>
    (answer.cell # Mismatch /\ Holds(answer.arrow, answer.value.val, answer.type) =>
       \/ answer.cell = answer.value
       \/ answer.cell = Fail /\ BeyondSigned(answer.arrow, answer.value.val))

\* From the year 1 on (earlier years are off by one or refused): a time stamp with
\* a zone is read as the same instant, unless clocks show its reading twice; one
\* without, in a column without, as the same reading; a date as the same date.
\* A time of day is the same to the fraction.
MomentsAreKept ==
  LET sec == answer.value.val.sec IN
  /\ Returned({"TIME"}) => answer.cell = answer.value
  /\ Returned({"DATE"}) => EraKept(answer.value.val, answer.cell.val)
  /\ Returned({"TIMESTAMP"}) => EraKept(sec, answer.cell.val)
  /\ Returned({"TIMESTAMPTZ"}) /\ answer.arrow = "TimestampTz" /\ Wall[sec].year >= 1 =>
       answer.cell.val = sec \/ \E i \in DOMAIN Wall : i # sec /\ Wall[i] = Wall[sec]

\* Whatever the types in the file and in the table, a value that is read is the
\* value that is there: numbers and moments, as above.
ValuesAreKept == LakeNumbersAreKept /\ MomentsAreKept

=============================================================================
