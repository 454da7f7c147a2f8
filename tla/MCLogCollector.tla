--------------------------- MODULE MCLogCollector ---------------------------
(* LogCollector for TLC: two lines in the file that is there at the start,   *)
(* the second of which may be written in two parts, and half a line in the   *)
(* file that follows it.                                                     *)
EXTENDS LogCollector

TwoLines == <<{3, 4}, {1}>>
=============================================================================
