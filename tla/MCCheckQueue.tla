---------------------------- MODULE MCCheckQueue ----------------------------
(* CheckQueue with a few threads for TLC. *)
EXTENDS CheckQueue

CONSTANTS w1, w2, m1, m2
=============================================================================
