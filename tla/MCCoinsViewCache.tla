-------------------------- MODULE MCCoinsViewCache --------------------------
(* Instances of CoinsViewCache small enough for TLC. *)
EXTENDS CoinsViewCache, TLC

CONSTANTS o1, o2, c1, c2, c3, n1, n2, r0, r1, r2, b0, b1, b2

\* Outpoints, the spendable coins, nullifiers and non-empty roots are
\* interchangeable, and so are the blocks.
Symmetry == Permutations(Outpoints) \cup Permutations(CoinValues \ Unspendable)
            \cup Permutations(Nullifiers) \cup Permutations(Anchors \ {EmptyRoot})
            \cup Permutations(Blocks)
=============================================================================
