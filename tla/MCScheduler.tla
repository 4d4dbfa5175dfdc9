---------------------------- MODULE MCScheduler ----------------------------
(* Scheduler with a few threads for TLC. *)
EXTENDS Scheduler, TLC

CONSTANTS t1, t2, c1, c2
=============================================================================
