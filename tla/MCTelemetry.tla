---------------------------- MODULE MCTelemetry ----------------------------
(* Two intervals, three uuids, and a file that is lost once, not found     *)
(* once and not read once.                                                 *)
EXTENDS Telemetry
CONSTANTS u1, u2, u3
=============================================================================
