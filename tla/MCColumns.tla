----------------------------- MODULE MCColumns -----------------------------
(* Small instances of Columns.                                             *)
EXTENDS Columns, TLC

CONSTANTS x1, j1, u1

Type(pre, base, suf) == [pre |-> pre, base |-> base, suf |-> suf]

Signed == {"TINYINT", "SMALLINT", "INTEGER", "BIGINT"}
Plain == Signed \cup {"HUGEINT", "DECIMAL", "FLOAT", "DOUBLE", "BOOLEAN", "VARCHAR", "UUID",
                      "JSON", "BLOB", "GEOMETRY", "DATE", "TIME", "TIMETZ", "TIMESTAMP",
                      "TIMESTAMP_MS", "TIMESTAMPTZ", "INTERVAL"}

MCSources ==
  {Type(Bare, b, Bare) : b \in Plain \cup {"STRUCT", "MAP"}}
    \cup {Type("U", b, Bare) : b \in Signed \cup {"HUGEINT"}}
    \cup {Type("WKB_", "BLOB", Bare)}
    \cup {Type(Bare, b, "[]") : b \in Signed \cup {"DECIMAL", "FLOAT", "BOOLEAN", "VARCHAR", "UUID",
                                                   "DATE", "STRUCT"}}
    \cup {Type("U", "TINYINT", "[]")}
    \cup {Type(Bare, "INTEGER", "[3]")}

MCPgTypes ==
  DOMAIN IntBits \cup DOMAIN RealBits \cup DOMAIN ArrayElem
    \cup {"BOOL", "BYTEA", "NUMERIC", "TEXT", "DATE", "INTERVAL", "JSON", "JSONB", "TIME",
          "TIMESTAMP", "TIMESTAMPTZ", "UUID", "OTHER"}

\* Integers of 1, 2, 3 and 4 bits; floats with fractions near zero, even
\* numbers above, and one beyond every integer.
MCHalf == 8 :> 1 @@ 16 :> 2 @@ 32 :> 4 @@ 64 :> 8
Evens(k) == {2 * i : i \in -k .. k}
MCHeld == 32 :> (-3 .. 3) \cup Evens(5) \cup {-40, 40} @@ 64 :> (-7 .. 7) \cup Evens(9) \cup {-40, 40}
MCPrinted == 32 :> (-3 .. 3) \cup {8, 40} @@ 64 :> (-7 .. 7) \cup Evens(8)

MCFields == [a |-> "Boolean", b |-> "Decimal128"]
MCDecimals == {-41, -1, 3, 15}

\* Years of two seconds, but the leap year -2 has one more and year 1 goes on.
R(y, t) == [year |-> y, day |-> 0, time |-> t]
MCReading(i) ==
  IF i < -4 THEN R(-2, i + 7) ELSE IF i < -2 THEN R(-1, i + 4) ELSE IF i < 0 THEN R(0, i + 2)
  ELSE R(1, i)
MCPgStamps == {MCReading(i) : i \in -4 .. 5}
Index(r) == CHOOSE i \in -7 .. 5 : MCReading(i) = r

\* Clocks show reading 1 at the instants 1 and 2; Postgres takes the later one.
MCWall == [r \in {MCReading(i) : i \in -7 .. 5} |->
             IF Index(r) <= 1 THEN r ELSE MCReading(Index(r) - 1)]
MCInstant == [r \in MCPgStamps |->
                IF Index(r) \in 1 .. 4 THEN MCReading(Index(r) + 1) ELSE r]
MCMoments == [sec : {MCReading(i) : i \in {-7, -5, -3, -1, 0, 1, 2, 3}} \cup {R(9, 0)},
              frac : {0, 1}]

\* The leap year has a day that others have not.
D(y, d) == [year |-> y, day |-> d]
MCPgDates == {D(-1, 0), D(0, 0), D(1, 0)}
MCDays == {D(-2, 0), D(-2, 1), D(0, 0), D(1, 0), D(9, 0)}

MCSpans == [months : {0, 1}, days : {0}, part : {-2, 0, 4}]

\* Not with signs that differ.
MCPgSpans == {s \in [months : {0, 1}, days : {0}, part : -2 .. 4] : s.months = 0 \/ s.part >= 0}
=============================================================================
