---------------------------- MODULE MCLakeCells ----------------------------
(***************************************************************************)
(* Files of one column of every Arrow type, tables of one column of every  *)
(* Postgres type; and files and tables of two columns, in either order.    *)
(***************************************************************************)
EXTENDS LakeCells, TLC

CONSTANTS x1, x2

F(name, type) == [name |-> name, type |-> type]

ArrowTypes == NumTypes \cup {"Boolean", "Utf8", "Binary", "Date32", "Date64", "Time32",
                             "Time64", "Timestamp", "TimestampTz", "List"}

MCPgTypes == IntOrReal \cup {"BOOL", "TEXT", "VARCHAR", "BPCHAR", "BYTEA", "DATE", "TIME",
                             "TIMESTAMP", "TIMESTAMPTZ", "UUID"}

MCFiles == {<<F("a", t)>> : t \in ArrowTypes}
           \cup {<<F("a", "Int32"), F("b", "Int16")>>, <<F("b", "Utf8"), F("a", "Int32")>>}
MCTables == {<<F("a", t)>> : t \in MCPgTypes}
            \cup {<<F("a", "INT4"), F("b", "INT8")>>, <<F("b", "TEXT"), F("a", "INT2")>>}

\* Integers of 1, 2, 3 and 4 bits; floats with fractions near zero, even
\* numbers above, and one beyond every integer.
MCHalf == 8 :> 1 @@ 16 :> 2 @@ 32 :> 4 @@ 64 :> 8
Evens(k) == {2 * i : i \in -k .. k}
MCHeld == 32 :> (-3 .. 3) \cup Evens(5) \cup {-40, 40} @@ 64 :> (-7 .. 7) \cup Evens(9) \cup {-40, 40}
MCPrinted == 32 :> (-3 .. 3) \cup {8, 40} @@ 64 :> (-7 .. 7) \cup Evens(8)

MCNumbers == [t \in NumTypes |->
  CASE t \in DOMAIN SignedBits ->
         {2 * i : i \in -MCHalf[SignedBits[t]] .. MCHalf[SignedBits[t]] - 1}
    [] t \in DOMAIN UnsignedBits -> {2 * i : i \in 0 .. 2 * MCHalf[UnsignedBits[t]] - 1}
    [] t \in DOMAIN FloatBits -> MCHeld[FloatBits[t]]
    [] OTHER -> {-41, -1, 3, 15}]

\* Years of two seconds, but the leap year -2 has one more and year 1 goes on.
R(y, t) == [year |-> y, day |-> 0, time |-> t]
MCReading(i) ==
  IF i < -4 THEN R(-2, i + 7) ELSE IF i < -2 THEN R(-1, i + 4) ELSE IF i < 0 THEN R(0, i + 2)
  ELSE R(1, i)
MCPgStamps == {MCReading(i) : i \in -4 .. 5}
Index(r) == CHOOSE i \in -7 .. 5 : MCReading(i) = r

\* Clocks show reading 1 at the instants 1 and 2; Postgres takes the later one.
MCWall == [r \in {MCReading(i) : i \in -7 .. 5} |->
             IF Index(r) <= 1 THEN r ELSE MCReading(Index(r) - 1)]
MCInstant == [r \in MCPgStamps |->
                IF Index(r) \in 1 .. 4 THEN MCReading(Index(r) + 1) ELSE r]
MCMoments == [sec : {MCReading(i) : i \in {-7, -5, -3, -1, 0, 1, 2, 3}} \cup {R(9, 0)},
              frac : {0, 1}]

\* The leap year has a day that others have not.
D(y, d) == [year |-> y, day |-> d]
MCPgDates == {D(-1, 0), D(0, 0), D(1, 0)}
MCDays == {D(-2, 0), D(-2, 1), D(0, 0), D(1, 0), D(9, 0)}
=============================================================================
