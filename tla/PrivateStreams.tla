--------------------------- MODULE PrivateStreams ---------------------------
(***************************************************************************)
(* What the executor of Postgres expects of foreign scans: each scan reads *)
(* a stream of its own, in order and without gaps, and reports its end     *)
(* when it has returned every row.  src/fdw/base.rs keeps this promise     *)
(* only as far as nobody else uses the stream of the connection.           *)
(***************************************************************************)
EXTENDS Integers, Sequences

CONSTANTS Scans, Rows

VARIABLES emitted, eof

streamVars == <<emitted, eof>>

Init ==
  /\ emitted = [s \in Scans |-> <<>>]
  /\ eof = [s \in Scans |-> FALSE]

Give(s) ==
  /\ ~eof[s]
  /\ Len(emitted[s]) < Rows[s]
  /\ emitted' = [emitted EXCEPT ![s] = Append(@, <<s, Len(emitted[s]) + 1>>)]
  /\ UNCHANGED eof

Finish(s) ==
  /\ ~eof[s]
  /\ Len(emitted[s]) = Rows[s]
  /\ eof' = [eof EXCEPT ![s] = TRUE]
  /\ UNCHANGED emitted

Next == \E s \in Scans : Give(s) \/ Finish(s)

Spec == Init /\ [][Next]_streamVars

=============================================================================
