---------------------------- MODULE MCChainState ----------------------------
(* A block tree for ChainState: G - a1 - a2 - a3, and the rivals b1 - b2. *)
EXTENDS ChainState, TLC

CONSTANTS G, a1, a2, a3, b1, b2

MCBlocks == {G, a1, a2, a3, b1, b2}
MCPath ==
    (G :> <<G>>) @@ (a1 :> <<G, a1>>) @@ (a2 :> <<G, a1, a2>>) @@ (a3 :> <<G, a1, a2, a3>>) @@
    (b1 :> <<G, b1>>) @@ (b2 :> <<G, b1, b2>>)
MCProof == [x \in MCBlocks |-> 1]
MCAddr == (G :> 0) @@ (a1 :> 3) @@ (a2 :> 1) @@ (a3 :> 5) @@ (b1 :> 2) @@ (b2 :> 4)
=============================================================================
