---------------------------- MODULE MCChainFlush ----------------------------
(* A block tree for ChainFlush: B0 - B1 - B2 - B3, and R2, B2's rival. *)
EXTENDS ChainFlush, TLC

CONSTANTS B0, B1, B2, B3, R2, o1, o2, o3, o4, v1, v2, v3, v4, n1, n2, k1, k2, k3

MCBlocks == {B0, B1, B2, B3, R2}
MCParent == (B0 :> Null) @@ (B1 :> B0) @@ (B2 :> B1) @@ (B3 :> B2) @@ (R2 :> B1)
MCnHeight == (B0 :> 0) @@ (B1 :> 1) @@ (B2 :> 2) @@ (B3 :> 3) @@ (R2 :> 2)

Tx(coinbase, vin, vout, anchors, nullifiers, commitments) ==
    [coinbase |-> coinbase, vin |-> vin, vout |-> vout, anchors |-> anchors,
     nullifiers |-> nullifiers, commitments |-> commitments]
Coinbase(vout) == Tx(TRUE, {}, vout, {}, {}, <<>>)
Pay(vin, vout) == Tx(FALSE, vin, vout, {}, {}, <<>>)
JoinSplit(vin, anchor, nullifiers, commitments) ==
    Tx(FALSE, vin, <<>>, {anchor}, nullifiers, commitments)

\* B2 spends B1's coin and, in a second transaction, an output of its own; B3
\* shields what B2 left; R2 has the first transaction of B2 and reveals the
\* nullifier of its third.  B1, B2 and B3 add a commitment each.  v4 is
\* unspendable.
MCTxs ==
    (B0 :> <<Coinbase(o4 :> v4)>>) @@
    (B1 :> <<Coinbase(o1 :> v1), JoinSplit({}, <<>>, {}, <<k1>>)>>) @@
    (B2 :> <<Pay({o1}, o2 :> v2), Pay({o2}, (o3 :> v3) @@ (o4 :> v4)),
             JoinSplit({}, <<k1>>, {n1}, <<k2>>)>>) @@
    (B3 :> <<JoinSplit({o3}, <<k1>>, {n2}, <<k3>>)>>) @@
    (R2 :> <<Pay({o1}, o2 :> v2), JoinSplit({}, <<k1>>, {n1}, <<>>)>>)

\* Every root that appending the commitments of some of these blocks gives.
MCAnchors == {s \o t \o u : s \in {<<>>, <<k1>>}, t \in {<<>>, <<k2>>}, u \in {<<>>, <<k3>>}}
MCEmptyRoot == <<>>
=============================================================================
