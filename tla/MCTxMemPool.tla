---------------------------- MODULE MCTxMemPool ----------------------------
(***************************************************************************)
(* TxMemPool with a few transactions for TLC: b spends a, c spends both    *)
(* and is final from height 2; e spends what a does; d spends a and the    *)
(* coinbase k1; s is shielded and spends a, f spends s and a.              *)
(***************************************************************************)
EXTENDS TxMemPool, TLC

MCTx == {"a", "b", "c", "d", "e", "f", "s", "k1", "k2"}
MCBase == {<<"base", 1>>}
MCVin == [t \in MCTx |->
    CASE t \in {"a", "e"} -> <<<<"base", 1>>>>
      [] t = "b" -> <<<<"a", 1>>>>
      [] t = "c" -> <<<<"a", 2>>, <<"b", 1>>>>
      [] t = "d" -> <<<<"k1", 1>>, <<"a", 3>>>>
      [] t = "s" -> <<<<"a", 5>>>>
      [] t = "f" -> <<<<"s", 1>>, <<"a", 4>>>>
      [] OTHER -> <<>>]
MCSize == [t \in MCTx |-> IF t \in {"c", "e"} THEN 2 ELSE 1]
MCFee == "a" :> 1 @@ "b" :> 2 @@ "c" :> 2 @@ "e" :> 4 @@ [t \in MCTx |-> 1]
MCLock == [t \in MCTx |-> IF t = "c" THEN 1 ELSE 0]
MCBlocks == {<<"k1">>, <<"k1", "a">>, <<"k1", "a", "b">>, <<"k1", "a", "s">>,
             <<"k2">>, <<"k2", "e">>, <<"k2", "b">>}
MCFiles == {[entries |-> <<<<"a", 0>>, <<"b", 2>>>>, applied |-> FALSE, deltas |-> <<<<"e", 1>>>>]}
MCDeltas == {<<"b", 2>>}
NoFile == {[entries |-> <<>>, applied |-> FALSE, deltas |-> <<>>]}
=============================================================================
