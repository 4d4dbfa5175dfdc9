-------------------------- MODULE MCAsyncRPCQueue --------------------------
(* Instances of AsyncRPCQueue small enough for TLC. *)
EXTENDS AsyncRPCQueue, TLC

CONSTANTS op1, op2, w1, w2

Symmetry == Permutations(Ops) \cup Permutations(Workers)
=============================================================================
