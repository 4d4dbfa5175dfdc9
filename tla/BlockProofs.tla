---------------------------- MODULE BlockProofs -----------------------------
(***************************************************************************)
(* What the operators of BlockEffects compute, for any tree of blocks and  *)
(* any transactions in them: the chain of a block, its coins and its roots *)
(* and what connecting, undoing or rolling forward a block does to a coin. *)
(***************************************************************************)
EXTENDS BlockFacts, WellFoundedInduction, TLAPS

-----------------------------------------------------------------------------
(* Induction and recursion, along the naturals and along the tree. *)

\* What holds at 0 and goes from each number to the next one holds up to n.
LEMMA InductionTo ==
    ASSUME NEW S, NEW n \in Nat, 0 \in S,
           \A i \in 0 .. n - 1 : i \in S => i + 1 \in S
    PROVE  \A i \in 0 .. n : i \in S
<1> DEFINE Bad == {i \in 0 .. n : i \notin S}
           R == OpToRel(<, Nat)
<1>1. SUFFICES ASSUME Bad # {} PROVE FALSE
  OBVIOUS
<1>2. Bad \in SUBSET Nat
  OBVIOUS
<1>w. IsWellFoundedOn(R, Nat)
  BY Zenon, NatLessThanWellFounded
<1> HIDE DEF R
<1>3. PICK i \in Bad : \A j \in Bad : ~ (<<j, i>> \in R)
  <2> HIDE DEF Bad
  <2> QED BY Zenon, <1>1, <1>2, <1>w, WFMin
<1>4. i \in 0 .. n /\ i # 0
  BY <1>3
<1>5. <<i - 1, i>> \in R
  BY <1>4 DEF R, OpToRel
<1>6. i - 1 \in S
  BY <1>3, <1>4, <1>5
<1>7. (i - 1) + 1 \in S
  BY <1>4, <1>6
<1> QED BY <1>3, <1>4, <1>7

Rounds(V, n) == [V \X (1 .. n) -> V]
IsLoop(f, V, x, n, step) ==
    /\ f \in [0 .. n -> V]
    /\ f[0] = x
    /\ \A i \in 1 .. n : f[i] = step[<<f[i - 1], i>>]

\* A loop has a value after each of its rounds.
LEMMA LoopExists ==
    ASSUME NEW V, NEW x \in V, NEW n \in Nat, NEW step \in Rounds(V, n)
    PROVE  \E f : IsLoop(f, V, x, n, step)
<1> DEFINE Good(f, k) == /\ f \in [0 .. n -> V]
                         /\ f[0] = x
                         /\ \A i \in 1 .. k : f[i] = step[<<f[i - 1], i>>]
           S == {k \in 0 .. n : \E f : Good(f, k)}
<1>1. 0 \in S
  <2>1. Good([i \in 0 .. n |-> x], 0)
    OBVIOUS
  <2> HIDE DEF Good
  <2> QED BY <2>1
<1>2. ASSUME NEW k \in 0 .. n - 1, k \in S PROVE k + 1 \in S
  <2>1. PICK f : Good(f, k)
    BY <1>2
  <2> DEFINE g == [f EXCEPT ![k + 1] = step[<<f[k], k + 1>>]]
  <2>2. f[k] \in V /\ k + 1 \in 1 .. n
    BY <2>1
  <2>3. step[<<f[k], k + 1>>] \in V
    BY <2>2 DEF Rounds
  <2>4. g \in [0 .. n -> V] /\ g[0] = x
    BY <2>1, <2>2, <2>3
  <2>5. ASSUME NEW i \in 1 .. k + 1 PROVE g[i] = step[<<g[i - 1], i>>]
    <3>1. i - 1 \in 0 .. n /\ i \in 0 .. n /\ i - 1 # k + 1
      BY <2>2
    <3>2. g[i - 1] = f[i - 1]
      BY <2>1, <3>1
    <3>3. CASE i = k + 1
      BY <2>1, <3>1, <3>2, <3>3
    <3>4. CASE i # k + 1
      BY <2>1, <3>1, <3>2, <3>4
    <3> QED BY <3>3, <3>4
  <2>6. Good(g, k + 1)
    BY <2>4, <2>5
  <2> HIDE DEF Good, g
  <2> QED BY <2>2, <2>6
<1> HIDE DEF S
<1>3. \A i \in 0 .. n : i \in S
  BY <1>1, <1>2, InductionTo
<1>4. n \in S
  BY <1>3
<1>5. PICK f : Good(f, n)
  BY <1>4 DEF S
<1>6. IsLoop(f, V, x, n, step)
  BY <1>5 DEF IsLoop
<1> QED BY <1>6

\* A block's parent is a node of the tree, one height below it.
LEMMA ParentOf ==
    ASSUME NEW b \in Blocks
    PROVE  /\ Parent[b] \in Nodes
           /\ nHeight[b] \in Nat
           /\ Parent[b] = Null => nHeight[b] = 0
           /\ Parent[b] # Null => Parent[b] \in Blocks /\ nHeight[b] = nHeight[Parent[b]] + 1
BY TreeAssumption DEF Nodes

\* What holds of the root and goes from each parent to its children holds of
\* every block.
LEMMA TreeInduction ==
    ASSUME NEW S, Null \in S,
           \A b \in Blocks : Parent[b] \in S => b \in S
    PROVE  \A b \in Nodes : b \in S
<1> DEFINE T == {k \in Nat : \A b \in Blocks : nHeight[b] <= k => b \in S}
<1>1. 0 \in T
  <2>1. ASSUME NEW b \in Blocks, nHeight[b] <= 0 PROVE b \in S
    <3>1. Parent[b] = Null
      <4>1. CASE Parent[b] # Null
        BY <2>1, <4>1, ParentOf DEF Nodes
      <4> QED BY <4>1
    <3> QED BY <3>1
  <2> QED BY <2>1
<1>2. ASSUME NEW k \in Nat, k \in T PROVE k + 1 \in T
  <2>1. ASSUME NEW b \in Blocks, nHeight[b] <= k + 1 PROVE b \in S
    <3>1. CASE Parent[b] = Null
      BY <3>1
    <3>2. CASE Parent[b] # Null
      <4>1. Parent[b] \in Blocks /\ nHeight[b] = nHeight[Parent[b]] + 1
        BY <3>2, ParentOf
      <4>2. nHeight[Parent[b]] <= k
        BY <2>1, <4>1, ParentOf
      <4>3. Parent[b] \in S
        BY <1>2, <4>1, <4>2
      <4> QED BY <4>3
    <3> QED BY <3>1, <3>2
  <2> QED BY <2>1
<1> HIDE DEF T
<1>3. ASSUME NEW b \in Blocks PROVE b \in S
  <2>1. nHeight[b] \in Nat
    BY ParentOf
  <2>2. \A k \in 0 .. nHeight[b] : k \in T
    <3>1. \A k \in 0 .. nHeight[b] - 1 : k \in T => k + 1 \in T
      BY <1>2, <2>1
    <3> QED BY <1>1, <2>1, <3>1, InductionTo
  <2>3. nHeight[b] \in T
    BY <2>1, <2>2
  <2>4. nHeight[b] <= nHeight[b]
    BY <2>1
  <2> QED BY <2>3, <2>4 DEF T
<1> QED BY <1>3 DEF Nodes

Children(V) == [Blocks \X V -> V]
IsTree(f, V, x, step) ==
    /\ f \in [Nodes -> V]
    /\ f[Null] = x
    /\ \A b \in Blocks : f[b] = step[<<b, f[Parent[b]]>>]

\* A function of the blocks may be defined from its value at the parent.
LEMMA TreeRecursion ==
    ASSUME NEW V, NEW x \in V, NEW step \in Children(V)
    PROVE  \E f : IsTree(f, V, x, step)
<1> DEFINE Good(f, k) == /\ f \in [Nodes -> V]
                         /\ f[Null] = x
                         /\ \A b \in Blocks : nHeight[b] < k => f[b] = step[<<b, f[Parent[b]]>>]
           S == {k \in Nat : \E f : Good(f, k)}
<1>1. 0 \in S
  <2>1. Good([b \in Nodes |-> x], 0)
    BY ParentOf DEF Nodes
  <2> QED BY <2>1
<1>2. ASSUME NEW k \in Nat, k \in S PROVE k + 1 \in S
  <2>1. PICK f : Good(f, k)
    BY <1>2
  <2> DEFINE g == [b \in Nodes |-> IF b \in Blocks THEN step[<<b, f[Parent[b]]>>] ELSE x]
  <2>2. \A b \in Blocks : f[Parent[b]] \in V
    BY <2>1, ParentOf
  <2>3. g \in [Nodes -> V] /\ g[Null] = x
    BY <2>2, CoinsAssumption DEF Nodes, Children
  <2>4. ASSUME NEW b \in Blocks, nHeight[b] < k + 1 PROVE g[b] = step[<<b, g[Parent[b]]>>]
    <3>1. g[Parent[b]] = f[Parent[b]]
      <4>1. CASE Parent[b] = Null
        BY <2>1, <2>3, <4>1
      <4>2. CASE Parent[b] # Null
        <5>1. Parent[b] \in Blocks /\ nHeight[Parent[b]] < k
          BY <2>4, <4>2, ParentOf
        <5> QED BY <2>1, <5>1 DEF Nodes
      <4> QED BY <4>1, <4>2
    <3> QED BY <3>1 DEF Nodes
  <2>5. Good(g, k + 1)
    BY <2>3, <2>4
  <2> HIDE DEF Good, g
  <2> QED BY <2>5
<1> HIDE DEF S
<1>3. \A k \in Nat : k \in S
  <2>1. ASSUME NEW k \in Nat PROVE k \in S
    <3>1. \A i \in 0 .. k - 1 : i \in S => i + 1 \in S
      BY <1>2
    <3>2. \A i \in 0 .. k : i \in S
      BY <1>1, <3>1, InductionTo
    <3> QED BY <3>2
  <2> QED BY <2>1
<1>4. \A k \in Nat : \E f : Good(f, k)
  BY <1>3 DEF S
<1>5. ASSUME NEW f, NEW g, NEW j \in Nat, NEW k \in Nat, Good(f, j), Good(g, k)
      PROVE  \A b \in Blocks : nHeight[b] < j /\ nHeight[b] < k => f[b] = g[b]
  <2> DEFINE T == {b \in Nodes : b \in Blocks /\ nHeight[b] < j /\ nHeight[b] < k => f[b] = g[b]}
  <2>1. Null \in T
    BY CoinsAssumption DEF Nodes
  <2>2. ASSUME NEW b \in Blocks, Parent[b] \in T PROVE b \in T
    <3>1. SUFFICES ASSUME nHeight[b] < j, nHeight[b] < k PROVE f[b] = g[b]
      BY DEF Nodes
    <3>2. f[Parent[b]] = g[Parent[b]]
      <4>1. CASE Parent[b] = Null
        BY <1>5, <4>1
      <4>2. CASE Parent[b] # Null
        BY <2>2, <3>1, <4>2, ParentOf
      <4> QED BY <4>1, <4>2
    <3> QED BY Zenon, <1>5, <3>1, <3>2
  <2> HIDE DEF T
  <2>3. \A b \in Nodes : b \in T
    BY <2>1, <2>2, TreeInduction
  <2> QED BY <2>3 DEF T, Nodes
<1> DEFINE F(k) == CHOOSE f : Good(f, k)
           h == [b \in Nodes |-> IF b \in Blocks THEN F(nHeight[b] + 1)[b] ELSE x]
<1>6. \A k \in Nat : Good(F(k), k)
  BY Zenon, <1>4
<1> HIDE DEF F
<1>7. \A b \in Blocks : nHeight[b] + 1 \in Nat /\ nHeight[b] < nHeight[b] + 1
  BY ParentOf
<1>8. h \in [Nodes -> V] /\ h[Null] = x
  BY <1>6, <1>7, CoinsAssumption DEF Nodes
<1>9. ASSUME NEW b \in Blocks PROVE h[b] = step[<<b, h[Parent[b]]>>]
  <2> DEFINE f == F(nHeight[b] + 1)
  <2>1. Good(f, nHeight[b] + 1)
    BY <1>6, <1>7
  <2>2. h[b] = f[b] /\ f[b] = step[<<b, f[Parent[b]]>>]
    BY <1>7, <2>1 DEF Nodes
  <2>3. f[Parent[b]] = h[Parent[b]]
    <3>1. CASE Parent[b] = Null
      BY <1>8, <2>1, <3>1
    <3>2. CASE Parent[b] # Null
      <4>1. Parent[b] \in Blocks /\ nHeight[Parent[b]] < nHeight[b] + 1
        BY <3>2, ParentOf
      <4> DEFINE g == F(nHeight[Parent[b]] + 1)
      <4>2. Good(g, nHeight[Parent[b]] + 1) /\ h[Parent[b]] = g[Parent[b]]
        BY Zenon, <1>6, <1>7, <4>1 DEF Nodes
      <4> HIDE DEF f, g, Good, h
      <4> QED BY <1>5, <1>7, <2>1, <4>1, <4>2
    <3> QED BY <3>1, <3>2
  <2> QED BY <2>2, <2>3
<1>10. IsTree(h, V, x, step)
  BY <1>8, <1>9 DEF IsTree
<1> QED BY <1>10

-----------------------------------------------------------------------------
(* What the recursive definitions compute. *)

\* The ancestors of a block are its own and those of its parent.
LEMMA AncestorsAre ==
    /\ Ancestors \in [Nodes -> SUBSET Blocks]
    /\ Ancestors[Null] = {}
    /\ \A b \in Blocks : Ancestors[b] = Ancestors[Parent[b]] \cup {b}
<1> DEFINE Def(f) == f = [b \in Blocks \cup {Null} |->
                             IF b = Null THEN {} ELSE f[Parent[b]] \cup {b}]
           V == SUBSET Blocks
           step == [p \in Blocks \X V |-> p[2] \cup {p[1]}]
<1>1. step \in Children(V) /\ {} \in V
  BY DEF Children
<1>2. \E f : Def(f)
  <2>1. PICK f : IsTree(f, V, {}, step)
    <3> HIDE DEF V, step
    <3> QED BY <1>1, TreeRecursion
  <2>2. \A b \in Blocks : f[b] = f[Parent[b]] \cup {b}
    BY Zenon, <2>1, ParentOf DEF IsTree
  <2>3. Def(f)
    BY <2>1, <2>2, CoinsAssumption DEF Nodes, IsTree
  <2> QED BY <2>3
<1>3. Def(Ancestors)
  BY Zenon, <1>2 DEF Ancestors
<1>4. /\ Ancestors[Null] = {}
      /\ \A b \in Blocks : Ancestors[b] = Ancestors[Parent[b]] \cup {b}
  BY <1>3, CoinsAssumption
<1> DEFINE S == {b \in Nodes : Ancestors[b] \in V}
<1>5. Null \in S /\ \A b \in Blocks : Parent[b] \in S => b \in S
  BY <1>4 DEF Nodes
<1> HIDE DEF S
<1>6. \A b \in Nodes : b \in S
  BY <1>5, TreeInduction
<1>7. \A b \in Nodes : Ancestors[b] \in V
  BY <1>6 DEF S
<1> QED BY Zenon, <1>3, <1>4, <1>7 DEF Nodes

\* A block's transactions, and the outpoints they make.
LEMMA TxsOf ==
    ASSUME NEW b \in Blocks
    PROVE  /\ Len(Txs[b]) \in Nat
           /\ \A i \in 1 .. Len(Txs[b]) :
                 /\ Txs[b][i].vin \subseteq Outpoints
                 /\ DOMAIN Txs[b][i].vout \subseteq Outpoints
                 /\ \A o \in DOMAIN Txs[b][i].vout : Txs[b][i].vout[o] \in CoinValues
                 /\ Txs[b][i].nullifiers \subseteq Nullifiers
                 /\ Txs[b][i].coinbase \in BOOLEAN
           /\ \A i, j \in 1 .. Len(Txs[b]) : \A o :
                 o \in DOMAIN Txs[b][i].vout /\ o \in DOMAIN Txs[b][j].vout => i = j
<1>1. Len(Txs[b]) \in Nat
  BY ChainAssumption
<1>2. \A i \in 1 .. Len(Txs[b]) :
         /\ Txs[b][i].vin \subseteq Outpoints
         /\ DOMAIN Txs[b][i].vout \subseteq Outpoints
         /\ \A o \in DOMAIN Txs[b][i].vout : Txs[b][i].vout[o] \in CoinValues
         /\ Txs[b][i].nullifiers \subseteq Nullifiers
         /\ Txs[b][i].coinbase \in BOOLEAN
  BY ChainAssumption
<1>3. \A i \in 1 .. Len(Txs[b]) : \A j \in 1 .. i - 1 :
         DOMAIN Txs[b][i].vout \cap DOMAIN Txs[b][j].vout = {}
  BY ChainAssumption
<1>4. ASSUME NEW i \in 1 .. Len(Txs[b]), NEW j \in 1 .. Len(Txs[b]), NEW o,
             o \in DOMAIN Txs[b][i].vout, o \in DOMAIN Txs[b][j].vout
      PROVE  i = j
  <2>1. CASE j < i
    <3>1. j \in 1 .. i - 1
      BY <1>1, <2>1
    <3> QED BY <1>3, <1>4, <3>1
  <2>2. CASE i < j
    <3>1. i \in 1 .. j - 1
      BY <1>1, <2>2
    <3> QED BY <1>3, <1>4, <3>1
  <2> QED BY <1>1, <2>1, <2>2
<1> QED BY <1>1, <1>2, <1>4

\* A transaction leaves spendable coins.
LEMMA AfterTxType ==
    ASSUME NEW b \in Blocks, NEW i \in 1 .. Len(Txs[b]), NEW coins \in [Outpoints -> Plain]
    PROVE  AfterTx(coins, Txs[b][i]) \in [Outpoints -> Plain]
BY TxsOf DEF AfterTx, Plain

\* The coins after each transaction of a block.
LEMMA CoinsAfterAre ==
    ASSUME NEW b \in Blocks, NEW coins \in [Outpoints -> Plain]
    PROVE  /\ CoinsAfter(coins, b) \in [0 .. Len(Txs[b]) -> [Outpoints -> Plain]]
           /\ CoinsAfter(coins, b)[0] = coins
           /\ \A i \in 1 .. Len(Txs[b]) :
                 CoinsAfter(coins, b)[i] = AfterTx(CoinsAfter(coins, b)[i - 1], Txs[b][i])
<1> DEFINE n == Len(Txs[b])
           V == [Outpoints -> Plain]
           Def(f) == f = [i \in 0 .. n |-> IF i = 0 THEN coins
                                           ELSE AfterTx(f[i - 1], Txs[b][i])]
           step == [p \in V \X (1 .. n) |-> AfterTx(p[1], Txs[b][p[2]])]
           T == CoinsAfter(coins, b)
<1>1. n \in Nat
  BY TxsOf
<1>2. step \in Rounds(V, n)
  BY AfterTxType DEF Rounds
<1>3. \E f : Def(f)
  <2>1. PICK f : IsLoop(f, V, coins, n, step)
    <3> HIDE DEF V, step, n
    <3>1. coins \in V
      BY DEF V
    <3> QED BY <1>1, <1>2, <3>1, LoopExists
  <2>2. ASSUME NEW i \in 1 .. n PROVE f[i] = AfterTx(f[i - 1], Txs[b][i])
    <3>1. i - 1 \in 0 .. n
      BY <1>1
    <3>2. f[i - 1] \in V
      BY <2>1, <3>1 DEF IsLoop
    <3> HIDE DEF V
    <3> QED BY Zenon, <2>1, <3>2 DEF IsLoop
  <2>3. Def(f)
    <3> HIDE DEF n, V
    <3> QED BY <1>1, <2>1, <2>2 DEF IsLoop
  <2> HIDE DEF Def
  <2> QED BY <2>3
<1>4. Def(T)
  BY <1>3 DEF CoinsAfter, Loop
<1> HIDE DEF n, T
<1>5. T[0] = coins /\ \A i \in 1 .. n : T[i] = AfterTx(T[i - 1], Txs[b][i])
  BY <1>1, <1>4
<1> DEFINE S == {i \in 0 .. n : T[i] \in V}
<1>6. 0 \in S
  BY <1>1, <1>5
<1>7. ASSUME NEW i \in 0 .. n - 1, i \in S PROVE i + 1 \in S
  <2>1. i + 1 \in 1 .. n /\ (i + 1) - 1 = i
    BY <1>1
  <2>2. T[i + 1] = AfterTx(T[i], Txs[b][i + 1])
    BY <1>5, <2>1
  <2> QED BY <1>1, <1>7, <2>1, <2>2, AfterTxType DEF n
<1> HIDE DEF S
<1>8. \A i \in 0 .. n : i \in S
  BY <1>1, <1>6, <1>7, InductionTo
<1>9. T \in [0 .. n -> V]
  BY <1>4, <1>8 DEF S
<1> QED BY <1>5, <1>9 DEF n, T

\* The coins of a chain are those of the chain without its last block, and
\* what the transactions of that block change.
LEMMA ChainCoinsAre ==
    /\ CC \in [Nodes -> [Outpoints -> Plain]]
    /\ CC[Null] = EmptyDB.coins
    /\ \A b \in Blocks :
          CC[b] = IF IsGenesis(b) THEN CC[Null]
                  ELSE CoinsAfter(CC[Parent[b]], b)[Len(Txs[b])]
<1> DEFINE Def(f) == f = [b \in Blocks \cup {Null} |->
                             IF b = Null THEN EmptyDB.coins
                             ELSE IF IsGenesis(b) THEN f[Null]
                             ELSE CoinsAfter(f[Parent[b]], b)[Len(Txs[b])]]
           V == [Outpoints -> Plain]
           x == EmptyDB.coins
           After(b, v) == IF IsGenesis(b) THEN x ELSE CoinsAfter(v, b)[Len(Txs[b])]
           step == [p \in Blocks \X V |-> After(p[1], p[2])]
<1>1. x \in V
  BY DEF EmptyDB, Plain
<1>2. \A b \in Blocks : \A v \in V : After(b, v) \in V
  <2> HIDE DEF x
  <2>1. ASSUME NEW b \in Blocks, NEW v \in V PROVE CoinsAfter(v, b)[Len(Txs[b])] \in V
    <3>1. Len(Txs[b]) \in 0 .. Len(Txs[b])
      BY TxsOf
    <3> QED BY <3>1, CoinsAfterAre
  <2> HIDE DEF V
  <2> QED BY <1>1, <2>1
<1> HIDE DEF After, V
<1>3. step \in Children(V)
  BY <1>2 DEF Children
<1>4. \E f : Def(f)
  <2>1. PICK f : IsTree(f, V, x, step)
    <3> HIDE DEF step, x
    <3> QED BY <1>1, <1>3, TreeRecursion
  <2>2. \A b \in Blocks : f[b] = After(b, f[Parent[b]])
    BY Zenon, <2>1, ParentOf DEF IsTree
  <2>3. Def(f)
    BY <2>1, <2>2, CoinsAssumption DEF Nodes, After, IsTree
  <2> HIDE DEF Def
  <2> QED BY <2>3
<1>5. Def(CC)
  BY Zenon, <1>4 DEF CC, ChainCoins
<1>6. CC[Null] = x /\ \A b \in Blocks : CC[b] = After(b, CC[Parent[b]])
  BY <1>5, CoinsAssumption DEF After
<1> DEFINE S == {b \in Nodes : CC[b] \in V}
<1>7. Null \in S /\ \A b \in Blocks : Parent[b] \in S => b \in S
  BY <1>1, <1>2, <1>6 DEF Nodes
<1> HIDE DEF S
<1>8. \A b \in Nodes : b \in S
  BY <1>7, TreeInduction
<1>9. CC \in [Nodes -> V]
  BY Zenon, <1>5, <1>8 DEF S, Nodes
<1>10. \A b \in Blocks :
          CC[b] = IF IsGenesis(b) THEN CC[Null]
                  ELSE CoinsAfter(CC[Parent[b]], b)[Len(Txs[b])]
  BY <1>5, CoinsAssumption
<1> QED BY <1>6, <1>9, <1>10 DEF V

-----------------------------------------------------------------------------
(* What one transaction does to one entry. *)

\* The entries whose flags are right over a base that has coin there.
Entries(coin) ==
    {e \in CoinEntries \cup {NoEntry} :
        e # NoEntry => /\ DIRTY \notin e.flags => e.coin = coin
                       /\ FRESH \in e.flags => DIRTY \in e.flags /\ e.coin # Spent /\ coin = Spent}

\* What a transaction makes of a coin, and what undoing it does.
TxCoin(v, tx, o) ==
    IF o \in DOMAIN tx.vout /\ tx.vout[o] \notin Unspendable THEN tx.vout[o]
    ELSE IF o \in tx.vin THEN Spent ELSE v

UndoCoin(v, tx, o, prevout) ==
    IF o \in tx.vin THEN prevout
    ELSE IF o \in DOMAIN tx.vout /\ tx.vout[o] \notin Unspendable THEN Spent ELSE v

\* FetchCoin is invisible (FetchEntry).
LEMMA FetchEntryDoes ==
    ASSUME NEW coin \in AllCoins, NEW e \in Entries(coin)
    PROVE  /\ FetchEntry(e, coin) \in Entries(coin)
           /\ EntryCoin(FetchEntry(e, coin), coin) = EntryCoin(e, coin)
<1>1. CASE e = NoEntry /\ coin # Spent
  <2> DEFINE f == [coin |-> coin, flags |-> {}]
  <2>1. f \in CoinEntries /\ f # NoEntry
    BY CoinsAssumption DEF CoinEntries, Flags, AllCoins
  <2>2. FetchEntry(e, coin) = f
    BY <1>1 DEF FetchEntry
  <2> QED BY <1>1, <2>1, <2>2 DEF Entries, EntryCoin, DIRTY, FRESH
<1>2. CASE ~ (e = NoEntry /\ coin # Spent)
  BY <1>2 DEF FetchEntry
<1> QED BY <1>1, <1>2

\* SpendCoin leaves the coin spent (SpendEntry).
LEMMA SpendEntryDoes ==
    ASSUME NEW coin \in AllCoins, NEW e \in Entries(coin)
    PROVE  /\ SpendEntry(e, coin) \in Entries(coin)
           /\ EntryCoin(SpendEntry(e, coin), coin) = Spent
<1> DEFINE f == FetchEntry(e, coin)
<1>1. f \in Entries(coin)
  BY FetchEntryDoes
<1>2. f = NoEntry => coin = Spent
  BY CoinsAssumption DEF FetchEntry, CoinEntries, Flags, AllCoins
<1>3. SpendEntry(e, coin) = IF f = NoEntry THEN NoEntry
                            ELSE IF FRESH \in f.flags THEN NoEntry
                            ELSE [coin |-> Spent, flags |-> f.flags \cup {DIRTY}]
  BY DEF SpendEntry
<1> HIDE DEF f
<1>4. CASE f = NoEntry \/ FRESH \in f.flags
  <2>1. SpendEntry(e, coin) = NoEntry
    BY <1>3, <1>4
  <2>2. coin = Spent
    BY <1>1, <1>2, <1>4 DEF Entries
  <2> QED BY <2>1, <2>2 DEF Entries, EntryCoin
<1>5. CASE f # NoEntry /\ FRESH \notin f.flags
  <2> DEFINE g == [coin |-> Spent, flags |-> f.flags \cup {DIRTY}]
  <2>1. SpendEntry(e, coin) = g
    BY <1>3, <1>5
  <2>2. g \in CoinEntries /\ FRESH \notin g.flags /\ DIRTY \in g.flags
    BY <1>1, <1>5 DEF Entries, CoinEntries, Flags, DIRTY, FRESH
  <2>3. g # NoEntry /\ g.coin = Spent
    BY <2>2, CoinsAssumption
  <2> HIDE DEF g
  <2> QED BY <2>1, <2>2, <2>3 DEF Entries, EntryCoin
<1> QED BY <1>4, <1>5

\* AddCoin puts the coin there unless it is unspendable, and the FRESH flag
\* is right if the base or the cache had no coin there (AddEntry).
LEMMA AddEntryDoes ==
    ASSUME NEW coin \in AllCoins, NEW e \in Entries(coin), NEW new \in CoinValues,
           NEW po \in BOOLEAN, po \/ coin = Spent \/ EntryCoin(e, coin) = Spent
    PROVE  /\ AddEntry(e, new, po) \in Entries(coin)
           /\ EntryCoin(AddEntry(e, new, po), coin) =
                 IF new \in Unspendable THEN EntryCoin(e, coin) ELSE new
<1>1. CASE new \in Unspendable
  BY <1>1 DEF AddEntry
<1>2. CASE new \notin Unspendable
  <2> DEFINE old == IF e = NoEntry THEN [coin |-> Spent, flags |-> {}] ELSE e
             fresh == ~po /\ DIRTY \notin old.flags
             g == [coin |-> new,
                   flags |-> old.flags \cup {DIRTY} \cup (IF fresh THEN {FRESH} ELSE {})]
  <2>1. AddEntry(e, new, po) = g
    BY <1>2 DEF AddEntry
  <2>2. old.flags \in Flags
    BY DEF Entries, CoinEntries, Flags
  <2>3. g \in CoinEntries /\ DIRTY \in g.flags /\ g.coin = new
    BY <2>2 DEF CoinEntries, Flags, DIRTY, FRESH
  <2>4. g # NoEntry /\ new # Spent
    BY <2>3, CoinsAssumption
  <2>5. FRESH \in g.flags => FRESH \in old.flags \/ fresh
    BY DEF DIRTY, FRESH
  <2>6. FRESH \in old.flags => coin = Spent
    BY DEF Entries
  <2>7. fresh => coin = Spent
    <3>1. ASSUME fresh, coin # Spent PROVE FALSE
      <4>1. EntryCoin(e, coin) = Spent
        BY <3>1
      <4>2. e # NoEntry
        BY <3>1, <4>1 DEF EntryCoin
      <4>3. e.coin = Spent /\ DIRTY \notin e.flags
        BY <3>1, <4>1, <4>2 DEF EntryCoin
      <4>4. e.coin = coin
        BY <4>2, <4>3 DEF Entries
      <4> QED BY <3>1, <4>3, <4>4
    <3> QED BY <3>1
  <2> HIDE DEF g, fresh, old
  <2>8. g \in Entries(coin)
    BY <2>3, <2>4, <2>5, <2>6, <2>7 DEF Entries
  <2> QED BY <1>2, <2>1, <2>3, <2>4, <2>8 DEF EntryCoin
<1> QED BY <1>1, <1>2

\* HaveCoin and AddCoin put the coin there, whatever was there (CheckAndAdd).
LEMMA CheckAndAddDoes ==
    ASSUME NEW coin \in AllCoins, NEW e \in Entries(coin), NEW new \in CoinValues
    PROVE  /\ CheckAndAdd(e, coin, new) \in Entries(coin)
           /\ EntryCoin(CheckAndAdd(e, coin, new), coin) =
                 IF new \in Unspendable THEN EntryCoin(e, coin) ELSE new
<1> DEFINE f == FetchEntry(e, coin)
           po == EntryCoin(e, coin) # Spent
<1>1. f \in Entries(coin) /\ EntryCoin(f, coin) = EntryCoin(e, coin)
  BY FetchEntryDoes
<1>2. po \in BOOLEAN /\ (po \/ coin = Spent \/ EntryCoin(f, coin) = Spent)
  BY <1>1
<1>3. CheckAndAdd(e, coin, new) = AddEntry(f, new, po)
  BY DEF CheckAndAdd
<1> HIDE DEF f, po
<1> QED BY <1>1, <1>2, <1>3, AddEntryDoes

\* UpdateCoins on one outpoint, where BIP30 holds.
LEMMA UpdateCoinsDoes ==
    ASSUME NEW b \in Blocks, NEW i \in 1 .. Len(Txs[b]), NEW o \in Outpoints,
           NEW coin \in AllCoins, NEW e \in Entries(coin),
           o \in DOMAIN Txs[b][i].vout => coin = Spent
    PROVE  /\ UpdateCoins(e, coin, Txs[b][i], o) \in Entries(coin)
           /\ EntryCoin(UpdateCoins(e, coin, Txs[b][i], o), coin) =
                 TxCoin(EntryCoin(e, coin), Txs[b][i], o)
<1> DEFINE tx == Txs[b][i]
           s == IF o \in tx.vin THEN SpendEntry(e, coin) ELSE e
<1>1. /\ s \in Entries(coin)
      /\ EntryCoin(s, coin) = IF o \in tx.vin THEN Spent ELSE EntryCoin(e, coin)
  BY SpendEntryDoes
<1>2. UpdateCoins(e, coin, tx, o) =
         IF o \in DOMAIN tx.vout THEN AddEntry(s, tx.vout[o], tx.coinbase) ELSE s
  BY DEF UpdateCoins
<1> HIDE DEF s
<1>3. CASE o \in DOMAIN tx.vout
  <2>1. tx.vout[o] \in CoinValues /\ tx.coinbase \in BOOLEAN /\ coin = Spent
    BY <1>3, TxsOf
  <2> QED BY <1>1, <1>2, <1>3, <2>1, AddEntryDoes DEF TxCoin
<1>4. CASE o \notin DOMAIN tx.vout
  BY <1>1, <1>2, <1>4 DEF TxCoin
<1> QED BY <1>3, <1>4

\* One transaction of RollforwardBlock on one outpoint.
LEMMA RollforwardDoes ==
    ASSUME NEW b \in Blocks, NEW i \in 1 .. Len(Txs[b]), NEW o \in Outpoints,
           NEW coin \in AllCoins, NEW e \in Entries(coin)
    PROVE  /\ Rollforward(e, coin, Txs[b][i], o) \in Entries(coin)
           /\ EntryCoin(Rollforward(e, coin, Txs[b][i], o), coin) =
                 TxCoin(EntryCoin(e, coin), Txs[b][i], o)
<1> DEFINE tx == Txs[b][i]
           s == IF o \in tx.vin THEN SpendEntry(e, coin) ELSE e
<1>1. /\ s \in Entries(coin)
      /\ EntryCoin(s, coin) = IF o \in tx.vin THEN Spent ELSE EntryCoin(e, coin)
  BY SpendEntryDoes
<1>2. Rollforward(e, coin, tx, o) =
         IF o \in DOMAIN tx.vout THEN CheckAndAdd(s, coin, tx.vout[o]) ELSE s
  BY DEF Rollforward
<1> HIDE DEF s
<1>3. CASE o \in DOMAIN tx.vout
  <2>1. tx.vout[o] \in CoinValues
    BY <1>3, TxsOf
  <2> QED BY <1>1, <1>2, <1>3, <2>1, CheckAndAddDoes DEF TxCoin
<1>4. CASE o \notin DOMAIN tx.vout
  BY <1>1, <1>2, <1>4 DEF TxCoin
<1> QED BY <1>3, <1>4

\* One transaction of DisconnectBlock on one outpoint, where the undo data
\* have a coin if the transaction spent one.
LEMMA DisconnectTxDoes ==
    ASSUME NEW b \in Blocks, NEW i \in 1 .. Len(Txs[b]), NEW o \in Outpoints,
           NEW coin \in AllCoins, NEW e \in Entries(coin), NEW prevout,
           o \in Txs[b][i].vin => prevout \in CoinValues \ Unspendable
    PROVE  /\ DisconnectTx(e, coin, Txs[b][i], o, prevout) \in Entries(coin)
           /\ EntryCoin(DisconnectTx(e, coin, Txs[b][i], o, prevout), coin) =
                 UndoCoin(EntryCoin(e, coin), Txs[b][i], o, prevout)
<1> DEFINE tx == Txs[b][i]
           s == SpendOutput(e, coin, tx, o)
           out == o \in DOMAIN tx.vout /\ tx.vout[o] \notin Unspendable
<1>1. /\ s \in Entries(coin)
      /\ EntryCoin(s, coin) = IF out THEN Spent ELSE EntryCoin(e, coin)
  BY SpendEntryDoes DEF SpendOutput
<1>2. DisconnectTx(e, coin, tx, o, prevout) =
         IF o \in tx.vin THEN CheckAndAdd(s, coin, prevout) ELSE s
  BY DEF DisconnectTx
<1> HIDE DEF s
<1>3. CASE o \in tx.vin
  BY <1>1, <1>2, <1>3, CheckAndAddDoes DEF UndoCoin
<1>4. CASE o \notin tx.vin
  BY <1>1, <1>2, <1>4 DEF UndoCoin
<1> QED BY <1>3, <1>4

-----------------------------------------------------------------------------
(* What a block does to one entry, transaction by transaction. *)

UpdateLoop(e, coin, b, o) ==
    Loop(LAMBDA x, i : UpdateCoins(x, coin, Txs[b][i], o), e, Len(Txs[b]))

RollforwardLoop(e, coin, b, o) ==
    Loop(LAMBDA x, i : Rollforward(x, coin, Txs[b][i], o), e, Len(Txs[b]))

UndoLoop(e, coin, b, o, q) ==
    Loop(LAMBDA x, i : DisconnectTx(x, coin, Txs[b][Len(Txs[b]) + 1 - i], o, q),
         e, Len(Txs[b]))

\* What the first value has and every round keeps, every value has.
LEMMA LoopTyped ==
    ASSUME NEW V, NEW n \in Nat, NEW f, f[0] \in V,
           \A i \in 1 .. n : f[i - 1] \in V => f[i] \in V
    PROVE  \A i \in 0 .. n : f[i] \in V
<1> DEFINE S == {i \in 0 .. n : f[i] \in V}
<1>1. 0 \in S
  OBVIOUS
<1>2. ASSUME NEW i \in 0 .. n - 1, i \in S PROVE i + 1 \in S
  <2>1. i + 1 \in 1 .. n /\ (i + 1) - 1 = i
    OBVIOUS
  <2> QED BY <1>2, <2>1
<1> HIDE DEF S
<1>3. \A i \in 0 .. n : i \in S
  BY <1>1, <1>2, InductionTo
<1> QED BY <1>3 DEF S

\* The loop of ConnectBlock on one entry (Updated).
LEMMA UpdateLoopIs ==
    ASSUME NEW b \in Blocks, NEW o \in Outpoints, NEW coin \in AllCoins,
           NEW e \in Entries(coin),
           \A i \in 1 .. Len(Txs[b]) : o \in DOMAIN Txs[b][i].vout => coin = Spent
    PROVE  /\ UpdateLoop(e, coin, b, o) \in [0 .. Len(Txs[b]) -> Entries(coin)]
           /\ UpdateLoop(e, coin, b, o)[0] = e
           /\ \A i \in 1 .. Len(Txs[b]) :
                 UpdateLoop(e, coin, b, o)[i] =
                    UpdateCoins(UpdateLoop(e, coin, b, o)[i - 1], coin, Txs[b][i], o)
<1> DEFINE n == Len(Txs[b])
           V == Entries(coin)
           Def(f) == f = [i \in 0 .. n |-> IF i = 0 THEN e
                                           ELSE UpdateCoins(f[i - 1], coin, Txs[b][i], o)]
           step == [p \in V \X (1 .. n) |-> UpdateCoins(p[1], coin, Txs[b][p[2]], o)]
           T == UpdateLoop(e, coin, b, o)
<1>1. n \in Nat
  BY TxsOf
<1>t. \A x \in V : \A i \in 1 .. n : UpdateCoins(x, coin, Txs[b][i], o) \in V
  BY UpdateCoinsDoes
<1>2. step \in Rounds(V, n)
  <2> HIDE DEF V
  <2> QED BY <1>t DEF Rounds
<1>3. \E f : Def(f)
  <2>1. PICK f : IsLoop(f, V, e, n, step)
    <3> HIDE DEF V, step, n
    <3>1. e \in V
      BY DEF V
    <3> QED BY <1>1, <1>2, <3>1, LoopExists
  <2>2. ASSUME NEW i \in 1 .. n PROVE f[i] = UpdateCoins(f[i - 1], coin, Txs[b][i], o)
    <3>1. i - 1 \in 0 .. n
      BY <1>1
    <3>2. f[i - 1] \in V
      BY <2>1, <3>1 DEF IsLoop
    <3> HIDE DEF V
    <3> QED BY Zenon, <2>1, <3>2 DEF IsLoop
  <2>3. Def(f)
    <3> HIDE DEF n, V
    <3> QED BY <1>1, <2>1, <2>2 DEF IsLoop
  <2> HIDE DEF Def
  <2> QED BY <2>3
<1>4. Def(T)
  BY Zenon, <1>3 DEF UpdateLoop, Loop
<1> HIDE DEF n, T, V
<1>5. T[0] = e /\ \A i \in 1 .. n : T[i] = UpdateCoins(T[i - 1], coin, Txs[b][i], o)
  BY <1>1, <1>4
<1>6. \A i \in 0 .. n : T[i] \in V
  BY Zenon, <1>1, <1>5, <1>t, LoopTyped DEF V
<1> QED BY Zenon, <1>4, <1>5, <1>6 DEF n, T, V

\* The loop of RollforwardBlock on one entry.
LEMMA RollforwardLoopIs ==
    ASSUME NEW b \in Blocks, NEW o \in Outpoints, NEW coin \in AllCoins,
           NEW e \in Entries(coin)
    PROVE  /\ RollforwardLoop(e, coin, b, o) \in [0 .. Len(Txs[b]) -> Entries(coin)]
           /\ RollforwardLoop(e, coin, b, o)[0] = e
           /\ \A i \in 1 .. Len(Txs[b]) :
                 RollforwardLoop(e, coin, b, o)[i] =
                    Rollforward(RollforwardLoop(e, coin, b, o)[i - 1], coin, Txs[b][i], o)
<1> DEFINE n == Len(Txs[b])
           V == Entries(coin)
           Def(f) == f = [i \in 0 .. n |-> IF i = 0 THEN e
                                           ELSE Rollforward(f[i - 1], coin, Txs[b][i], o)]
           step == [p \in V \X (1 .. n) |-> Rollforward(p[1], coin, Txs[b][p[2]], o)]
           T == RollforwardLoop(e, coin, b, o)
<1>1. n \in Nat
  BY TxsOf
<1>t. \A x \in V : \A i \in 1 .. n : Rollforward(x, coin, Txs[b][i], o) \in V
  BY RollforwardDoes
<1>2. step \in Rounds(V, n)
  <2> HIDE DEF V
  <2> QED BY <1>t DEF Rounds
<1>3. \E f : Def(f)
  <2>1. PICK f : IsLoop(f, V, e, n, step)
    <3> HIDE DEF V, step, n
    <3>1. e \in V
      BY DEF V
    <3> QED BY <1>1, <1>2, <3>1, LoopExists
  <2>2. ASSUME NEW i \in 1 .. n PROVE f[i] = Rollforward(f[i - 1], coin, Txs[b][i], o)
    <3>1. i - 1 \in 0 .. n
      BY <1>1
    <3>2. f[i - 1] \in V
      BY <2>1, <3>1 DEF IsLoop
    <3> HIDE DEF V
    <3> QED BY Zenon, <2>1, <3>2 DEF IsLoop
  <2>3. Def(f)
    <3> HIDE DEF n, V
    <3> QED BY <1>1, <2>1, <2>2 DEF IsLoop
  <2> HIDE DEF Def
  <2> QED BY <2>3
<1>4. Def(T)
  BY <1>3 DEF RollforwardLoop, Loop
<1> HIDE DEF n, T, V
<1>5. T[0] = e /\ \A i \in 1 .. n : T[i] = Rollforward(T[i - 1], coin, Txs[b][i], o)
  BY <1>1, <1>4
<1>6. \A i \in 0 .. n : T[i] \in V
  BY Zenon, <1>1, <1>5, <1>t, LoopTyped DEF V
<1> QED BY Zenon, <1>4, <1>5, <1>6 DEF n, T, V

\* The loop of DisconnectBlock on one entry (Undone).
LEMMA UndoLoopIs ==
    ASSUME NEW b \in Blocks, NEW o \in Outpoints, NEW coin \in AllCoins,
           NEW e \in Entries(coin), NEW q,
           \A i \in 1 .. Len(Txs[b]) : o \in Txs[b][i].vin => q \in CoinValues \ Unspendable
    PROVE  /\ UndoLoop(e, coin, b, o, q) \in [0 .. Len(Txs[b]) -> Entries(coin)]
           /\ UndoLoop(e, coin, b, o, q)[0] = e
           /\ \A i \in 1 .. Len(Txs[b]) :
                 UndoLoop(e, coin, b, o, q)[i] =
                    DisconnectTx(UndoLoop(e, coin, b, o, q)[i - 1], coin, Txs[b][Len(Txs[b]) + 1 - i], o, q)
<1> DEFINE n == Len(Txs[b])
           V == Entries(coin)
           Def(f) == f = [i \in 0 .. n |-> IF i = 0 THEN e
                                           ELSE DisconnectTx(f[i - 1], coin, Txs[b][Len(Txs[b]) + 1 - i], o, q)]
           step == [p \in V \X (1 .. n) |-> DisconnectTx(p[1], coin, Txs[b][Len(Txs[b]) + 1 - p[2]], o, q)]
           T == UndoLoop(e, coin, b, o, q)
<1>1. n \in Nat
  BY TxsOf
<1>t. \A x \in V : \A i \in 1 .. n : DisconnectTx(x, coin, Txs[b][Len(Txs[b]) + 1 - i], o, q) \in V
  <2>1. \A i \in 1 .. n : Len(Txs[b]) + 1 - i \in 1 .. n
    BY <1>1
  <2> QED BY Zenon, <2>1, DisconnectTxDoes
<1>2. step \in Rounds(V, n)
  <2> HIDE DEF V
  <2> QED BY <1>t DEF Rounds
<1>3. \E f : Def(f)
  <2>1. PICK f : IsLoop(f, V, e, n, step)
    <3> HIDE DEF V, step, n
    <3>1. e \in V
      BY DEF V
    <3> QED BY <1>1, <1>2, <3>1, LoopExists
  <2>2. ASSUME NEW i \in 1 .. n PROVE f[i] = DisconnectTx(f[i - 1], coin, Txs[b][Len(Txs[b]) + 1 - i], o, q)
    <3>1. i - 1 \in 0 .. n
      BY <1>1
    <3>2. f[i - 1] \in V
      BY <2>1, <3>1 DEF IsLoop
    <3> HIDE DEF V
    <3> QED BY Zenon, <2>1, <3>2 DEF IsLoop
  <2>3. Def(f)
    <3> HIDE DEF n, V
    <3> QED BY <1>1, <2>1, <2>2 DEF IsLoop
  <2> HIDE DEF Def
  <2> QED BY <2>3
<1>4. Def(T)
  BY Zenon, <1>3 DEF UndoLoop, Loop
<1> HIDE DEF n, T, V
<1>5. T[0] = e /\ \A i \in 1 .. n : T[i] = DisconnectTx(T[i - 1], coin, Txs[b][Len(Txs[b]) + 1 - i], o, q)
  BY <1>1, <1>4
<1>6. \A i \in 0 .. n : T[i] \in V
  BY Zenon, <1>1, <1>5, <1>t, LoopTyped DEF V
<1> QED BY Zenon, <1>4, <1>5, <1>6 DEF n, T, V

-----------------------------------------------------------------------------
(* What a block does to the coin of one outpoint. *)

\* The coin of an outpoint after a transaction (AfterTx).
LEMMA CoinStep ==
    ASSUME NEW b \in Blocks, NEW coins \in [Outpoints -> Plain], NEW o \in Outpoints,
           NEW i \in 1 .. Len(Txs[b])
    PROVE  CoinsAfter(coins, b)[i][o] = TxCoin(CoinsAfter(coins, b)[i - 1][o], Txs[b][i], o)
<1> DEFINE T == CoinsAfter(coins, b)
<1>1. T[i] = AfterTx(T[i - 1], Txs[b][i])
  BY CoinsAfterAre
<1> HIDE DEF T
<1>2. T[i][o] = TxCoin(T[i - 1][o], Txs[b][i], o)
  BY <1>1 DEF AfterTx, TxCoin
<1> QED BY <1>2 DEF T

\* A loop that does to a coin what the transactions do ends with the chain's
\* coin, or leaves one that the chain leaves too, whatever it began with.
LEMMA Forward ==
    ASSUME NEW b \in Blocks, NEW coins \in [Outpoints -> Plain], NEW o \in Outpoints,
           NEW w, \A i \in 1 .. Len(Txs[b]) : w[i] = TxCoin(w[i - 1], Txs[b][i], o)
    PROVE  \A i \in 0 .. Len(Txs[b]) :
              \/ w[i] = CoinsAfter(coins, b)[i][o]
              \/ w[i] = w[0] /\ CoinsAfter(coins, b)[i][o] = coins[o]
<1> DEFINE n == Len(Txs[b])
           T == CoinsAfter(coins, b)
           S == {i \in 0 .. n : w[i] = T[i][o] \/ (w[i] = w[0] /\ T[i][o] = coins[o])}
<1>1. n \in Nat /\ T[0] = coins
  BY TxsOf, CoinsAfterAre
<1>2. \A i \in 1 .. n : T[i][o] = TxCoin(T[i - 1][o], Txs[b][i], o)
  BY CoinStep
<1> HIDE DEF T, n
<1>3. 0 \in S
  BY <1>1
<1>4. ASSUME NEW i \in 0 .. n - 1, i \in S PROVE i + 1 \in S
  <2>1. i + 1 \in 1 .. n /\ i + 1 \in 0 .. n /\ (i + 1) - 1 = i
    BY <1>1
  <2> DEFINE tx == Txs[b][i + 1]
  <2>2. T[i + 1][o] = TxCoin(T[i][o], tx, o)
    BY <1>2, <2>1
  <2>3. w[i + 1] = TxCoin(w[i], tx, o)
    BY <2>1 DEF n
  <2> HIDE DEF tx
  <2>4. w[i + 1] = T[i + 1][o] \/ (w[i + 1] = w[i] /\ T[i + 1][o] = T[i][o])
    BY <2>2, <2>3 DEF TxCoin
  <2> QED BY <1>4, <2>1, <2>4
<1> HIDE DEF S
<1>5. \A i \in 0 .. n : i \in S
  BY Zenon, <1>1, <1>3, <1>4, InductionTo
<1> QED BY <1>5 DEF S, n, T

\* BIP30: before the transaction that makes an outpoint there is none.
LEMMA NotMadeYet ==
    ASSUME NEW b \in Blocks, NEW coins \in [Outpoints -> Plain], CoinsFit(coins, b),
           NEW o \in Outpoints, NEW i \in 1 .. Len(Txs[b]), o \in DOMAIN Txs[b][i].vout
    PROVE  CoinsAfter(coins, b)[i - 1][o] = Spent
<1> DEFINE n == Len(Txs[b])
           T == CoinsAfter(coins, b)
           S == {j \in 0 .. i - 1 : T[j][o] = Spent}
<1>1. n \in Nat /\ T[0] = coins /\ i \in 1 .. n
  BY TxsOf, CoinsAfterAre
<1>2. \A j \in 1 .. n : T[j][o] = TxCoin(T[j - 1][o], Txs[b][j], o)
  BY CoinStep
<1>3. coins[o] = Spent
  BY DEF CoinsFit
<1>4. \A j \in 1 .. n : j # i => o \notin DOMAIN Txs[b][j].vout
  BY TxsOf
<1> HIDE DEF T, n
<1>5. 0 \in S
  BY <1>1, <1>3
<1>6. ASSUME NEW j \in 0 .. (i - 1) - 1, j \in S PROVE j + 1 \in S
  <2>1. j + 1 \in 1 .. n /\ j + 1 \in 0 .. i - 1 /\ (j + 1) - 1 = j /\ j + 1 # i
    BY <1>1
  <2>2. T[j + 1][o] = TxCoin(T[j][o], Txs[b][j + 1], o)
    BY <1>2, <2>1
  <2>3. T[j][o] = Spent
    BY <1>6
  <2>4. o \notin DOMAIN Txs[b][j + 1].vout
    BY <1>4, <2>1
  <2>5. T[j + 1][o] = Spent
    BY <2>2, <2>3, <2>4 DEF TxCoin
  <2> QED BY <2>1, <2>5
<1> HIDE DEF S
<1>7. i - 1 \in Nat /\ i - 1 \in 0 .. i - 1
  BY <1>1
<1>8. \A j \in 0 .. i - 1 : j \in S
  BY Zenon, <1>5, <1>6, <1>7, InductionTo
<1>9. i - 1 \in S
  BY <1>7, <1>8
<1> QED BY <1>9 DEF S, T

\* The coin of an outpoint is spent or the one in the undo data, throughout
\* the block (Prevout).
LEMMA OneCoin ==
    ASSUME NEW b \in Blocks, NEW coins \in [Outpoints -> Plain], CoinsFit(coins, b),
           NEW o \in Outpoints
    PROVE  \A i \in 0 .. Len(Txs[b]) :
              CoinsAfter(coins, b)[i][o] \in {Spent, Prevout(b, coins[o], o)}
<1> DEFINE n == Len(Txs[b])
           T == CoinsAfter(coins, b)
           q == Prevout(b, coins[o], o)
           makers == {i \in 1 .. n : o \in DOMAIN Txs[b][i].vout}
           S == {i \in 0 .. n : T[i][o] \in {Spent, q}}
<1>1. n \in Nat /\ T[0] = coins
  BY TxsOf, CoinsAfterAre
<1>2. \A i \in 1 .. n : T[i][o] = TxCoin(T[i - 1][o], Txs[b][i], o)
  BY CoinStep
<1>3. q = IF coins[o] # Spent \/ makers = {} THEN coins[o]
          ELSE Txs[b][CHOOSE i \in makers : TRUE].vout[o]
  BY DEF Prevout
<1>4. \A i \in makers : coins[o] = Spent /\ q = Txs[b][i].vout[o]
  <2>1. ASSUME NEW i \in makers PROVE coins[o] = Spent /\ q = Txs[b][i].vout[o]
    <3>1. coins[o] = Spent
      BY DEF CoinsFit
    <3>2. (CHOOSE j \in makers : TRUE) \in makers
      BY <2>1
    <3>3. (CHOOSE j \in makers : TRUE) = i
      BY <3>2, TxsOf
    <3> HIDE DEF makers, q
    <3> QED BY Zenon, <1>3, <3>1, <3>3
  <2> QED BY <2>1
<1> HIDE DEF T, n, q
<1>5. 0 \in S
  BY <1>1, <1>3
<1>6. ASSUME NEW i \in 0 .. n - 1, i \in S PROVE i + 1 \in S
  <2>1. i + 1 \in 1 .. n /\ i + 1 \in 0 .. n /\ (i + 1) - 1 = i
    BY <1>1
  <2>2. T[i + 1][o] = TxCoin(T[i][o], Txs[b][i + 1], o)
    BY <1>2, <2>1
  <2>3. o \in DOMAIN Txs[b][i + 1].vout => q = Txs[b][i + 1].vout[o]
    BY <1>4, <2>1
  <2>4. T[i + 1][o] \in {Spent, q}
    BY <1>6, <2>2, <2>3 DEF TxCoin
  <2> QED BY <2>1, <2>4
<1> HIDE DEF S
<1>7. \A i \in 0 .. n : i \in S
  BY <1>1, <1>5, <1>6, InductionTo
<1> QED BY <1>7 DEF S, n, T, q

\* Hence an input finds in the undo data the coin it spent.
LEMMA PrevoutRight ==
    ASSUME NEW b \in Blocks, NEW coins \in [Outpoints -> Plain], CoinsFit(coins, b),
           NEW o \in Outpoints, NEW i \in 1 .. Len(Txs[b]), o \in Txs[b][i].vin
    PROVE  /\ CoinsAfter(coins, b)[i - 1][o] = Prevout(b, coins[o], o)
           /\ Prevout(b, coins[o], o) \in CoinValues \ Unspendable
<1>1. i - 1 \in 0 .. Len(Txs[b])
  BY TxsOf
<1>2. CoinsAfter(coins, b)[i - 1][o] \in {Spent, Prevout(b, coins[o], o)}
  BY <1>1, OneCoin
<1>3. CoinsAfter(coins, b)[i - 1][o] # Spent
  BY DEF CoinsFit
<1>4. CoinsAfter(coins, b)[i - 1][o] \in Plain
  BY <1>1, CoinsAfterAre
<1> QED BY <1>2, <1>3, <1>4 DEF Plain

UndoSteps(w, b, o, q) ==
    \A k \in 1 .. Len(Txs[b]) :
        w[k] = UndoCoin(w[k - 1], Txs[b][Len(Txs[b]) + 1 - k], o, q)

\* A loop that undoes the transactions, the last one first, ends with the
\* coin before the block, or leaves one that the block leaves too.
LEMMA Backward ==
    ASSUME NEW b \in Blocks, NEW coins \in [Outpoints -> Plain], CoinsFit(coins, b),
           NEW o \in Outpoints, NEW w, UndoSteps(w, b, o, Prevout(b, coins[o], o))
    PROVE  \/ w[Len(Txs[b])] = coins[o]
           \/ /\ w[Len(Txs[b])] = w[0]
              /\ CoinsAfter(coins, b)[Len(Txs[b])][o] = coins[o]
<1> DEFINE n == Len(Txs[b])
           T == CoinsAfter(coins, b)
           q == Prevout(b, coins[o], o)
           S == {k \in 0 .. n : w[k] = T[n - k][o] \/ (w[k] = w[0] /\ T[n - k][o] = T[n][o])}
<1>1. n \in Nat /\ T[0] = coins
  BY TxsOf, CoinsAfterAre
<1>2. \A i \in 1 .. n : T[i][o] = TxCoin(T[i - 1][o], Txs[b][i], o)
  BY CoinStep
<1>3. \A i \in 1 .. n : o \in Txs[b][i].vin => T[i - 1][o] = q
  BY PrevoutRight
<1>4. \A i \in 1 .. n : o \in DOMAIN Txs[b][i].vout => T[i - 1][o] = Spent
  BY NotMadeYet
<1>5. \A k \in 1 .. n : w[k] = UndoCoin(w[k - 1], Txs[b][n + 1 - k], o, q)
  BY DEF UndoSteps
<1> HIDE DEF T, n, q
<1>6. 0 \in S
  BY <1>1
<1>7. ASSUME NEW k \in 0 .. n - 1, k \in S PROVE k + 1 \in S
  <2> DEFINE i == n - k
             tx == Txs[b][i]
  <2>1. /\ i \in 1 .. n
        /\ k + 1 \in 1 .. n
        /\ k + 1 \in 0 .. n
        /\ n - (k + 1) = i - 1
        /\ n + 1 - (k + 1) = i
        /\ (k + 1) - 1 = k
    BY <1>1
  <2>2. T[i][o] = TxCoin(T[i - 1][o], tx, o)
    BY <1>2, <2>1
  <2>3. w[k + 1] = UndoCoin(w[k], tx, o, q)
    BY <1>5, <2>1
  <2>4. /\ o \in tx.vin => T[i - 1][o] = q
        /\ o \in DOMAIN tx.vout => T[i - 1][o] = Spent
    BY <1>3, <1>4, <2>1
  <2>5. w[k] = T[i][o] \/ (w[k] = w[0] /\ T[i][o] = T[n][o])
    BY <1>7
  <2> HIDE DEF i, tx
  <2>6. w[k + 1] = T[i - 1][o] \/ (w[k + 1] = w[k] /\ T[i][o] = T[i - 1][o])
    BY <2>2, <2>3, <2>4 DEF UndoCoin, TxCoin
  <2>7. w[k + 1] = T[i - 1][o] \/ (w[k + 1] = w[0] /\ T[i - 1][o] = T[n][o])
    BY <2>5, <2>6
  <2> QED BY <2>1, <2>7
<1> HIDE DEF S
<1>8. \A k \in 0 .. n : k \in S
  BY <1>1, <1>6, <1>7, InductionTo
<1>9. n \in S /\ n - n = 0
  BY <1>1, <1>8
<1> QED BY <1>1, <1>9 DEF S, n, T

\* What rolling the transactions of a block forward leaves at an outpoint: the
\* coin after the block, or the one that was there if the block leaves it.
LEMMA RolledEntry ==
    ASSUME NEW b \in Blocks, NEW coins \in [Outpoints -> Plain],
           NEW o \in Outpoints, NEW coin \in AllCoins, NEW e \in Entries(coin)
    PROVE  LET x == RollforwardLoop(e, coin, b, o)[Len(Txs[b])]
               after == CoinsAfter(coins, b)[Len(Txs[b])][o]
           IN  /\ x \in Entries(coin)
               /\ \/ EntryCoin(x, coin) = after
                  \/ EntryCoin(x, coin) = EntryCoin(e, coin) /\ after = coins[o]
<1> DEFINE n == Len(Txs[b])
           T == RollforwardLoop(e, coin, b, o)
           w == [k \in 0 .. n |-> EntryCoin(T[k], coin)]
<1>1. n \in Nat /\ n \in 0 .. n /\ 0 \in 0 .. n
  BY TxsOf
<1>2. /\ T \in [0 .. n -> Entries(coin)]
      /\ T[0] = e
      /\ \A k \in 1 .. n : T[k] = Rollforward(T[k - 1], coin, Txs[b][k], o)
  BY RollforwardLoopIs
<1> HIDE DEF T
<1>3. ASSUME NEW k \in 1 .. n
      PROVE  w[k] = TxCoin(w[k - 1], Txs[b][k], o)
  <2>1. k - 1 \in 0 .. n /\ k \in 0 .. n
    BY <1>1
  <2>2. T[k - 1] \in Entries(coin) /\ T[k] = Rollforward(T[k - 1], coin, Txs[b][k], o)
    BY <1>2, <2>1
  <2>3. EntryCoin(T[k], coin) = TxCoin(EntryCoin(T[k - 1], coin), Txs[b][k], o)
    BY <2>2, RollforwardDoes
  <2> QED BY Zenon, <2>1, <2>3
<1>4. w[0] = EntryCoin(e, coin) /\ w[n] = EntryCoin(T[n], coin)
  BY <1>1, <1>2
<1> HIDE DEF w
<1>5. \/ w[n] = CoinsAfter(coins, b)[n][o]
      \/ w[n] = w[0] /\ CoinsAfter(coins, b)[n][o] = coins[o]
  BY <1>1, <1>3, Forward
<1> QED BY <1>1, <1>2, <1>4, <1>5 DEF T

\* What undoing the transactions of a block (Undone) leaves at an outpoint:
\* the coin before the block, or one that the block leaves too.
LEMMA UndoneEntry ==
    ASSUME NEW b \in Blocks, NEW coins \in [Outpoints -> Plain], CoinsFit(coins, b),
           NEW o \in Outpoints, NEW coin \in AllCoins, NEW e \in Entries(coin)
    PROVE  LET x == UndoLoop(e, coin, b, o, Prevout(b, coins[o], o))[Len(Txs[b])]
           IN  /\ x \in Entries(coin)
               /\ \/ EntryCoin(x, coin) = coins[o]
                  \/ /\ EntryCoin(x, coin) = EntryCoin(e, coin)
                     /\ CoinsAfter(coins, b)[Len(Txs[b])][o] = coins[o]
<1> DEFINE n == Len(Txs[b])
           p == Prevout(b, coins[o], o)
           T == UndoLoop(e, coin, b, o, p)
           w == [k \in 0 .. n |-> EntryCoin(T[k], coin)]
<1>1. n \in Nat /\ n \in 0 .. n /\ 0 \in 0 .. n
  BY TxsOf
<1>2. \A i \in 1 .. n : o \in Txs[b][i].vin => p \in CoinValues \ Unspendable
  BY PrevoutRight
<1> HIDE DEF p
<1>3. /\ T \in [0 .. n -> Entries(coin)]
      /\ T[0] = e
      /\ \A k \in 1 .. n : T[k] = DisconnectTx(T[k - 1], coin, Txs[b][n + 1 - k], o, p)
  BY <1>2, UndoLoopIs
<1> HIDE DEF T
<1>4. ASSUME NEW k \in 1 .. n
      PROVE  EntryCoin(T[k], coin) = UndoCoin(EntryCoin(T[k - 1], coin), Txs[b][n + 1 - k], o, p)
  <2> DEFINE i == n + 1 - k
             y == T[k - 1]
  <2>1. i \in 1 .. n /\ k - 1 \in 0 .. n
    BY <1>1
  <2>2. y \in Entries(coin) /\ T[k] = DisconnectTx(y, coin, Txs[b][i], o, p)
    BY <1>3, <2>1
  <2> HIDE DEF i, y
  <2>5. o \in Txs[b][i].vin => p \in CoinValues \ Unspendable
    BY <1>2, <2>1
  <2>3. EntryCoin(DisconnectTx(y, coin, Txs[b][i], o, p), coin) =
           UndoCoin(EntryCoin(y, coin), Txs[b][i], o, p)
    BY <2>1, <2>2, <2>5, DisconnectTxDoes
  <2>4. EntryCoin(T[k], coin) = UndoCoin(EntryCoin(y, coin), Txs[b][i], o, p)
    BY Zenon, <2>2, <2>3
  <2> QED BY Zenon, <2>4 DEF i, y
<1>5. w[0] = EntryCoin(e, coin) /\ w[n] = EntryCoin(T[n], coin)
  BY <1>1, <1>3
<1>6. UndoSteps(w, b, o, p)
  <2>1. ASSUME NEW k \in 1 .. n PROVE w[k] = UndoCoin(w[k - 1], Txs[b][n + 1 - k], o, p)
    <3>1. k \in 0 .. n /\ k - 1 \in 0 .. n
      BY <1>1
    <3> QED BY <1>4, <3>1
  <2> HIDE DEF w
  <2> QED BY <2>1 DEF UndoSteps
<1> HIDE DEF w
<1>7. w[n] = coins[o] \/ (w[n] = w[0] /\ CoinsAfter(coins, b)[n][o] = coins[o])
  BY <1>6, Backward DEF p
<1> QED BY <1>1, <1>3, <1>5, <1>7 DEF T, p

\* The loop of ConnectBlock on an outpoint without an entry: it shows the
\* chain's coin after every transaction, where BIP30 holds.
LEMMA FreshLoop ==
    ASSUME NEW b \in Blocks, NEW coins \in [Outpoints -> Plain], NEW o \in Outpoints,
           \A i \in 1 .. Len(Txs[b]) : o \in DOMAIN Txs[b][i].vout => coins[o] = Spent
    PROVE  LET L == UpdateLoop(NoEntry, coins[o], b, o)
           IN  \A i \in 0 .. Len(Txs[b]) :
                  /\ L[i] \in Entries(coins[o])
                  /\ EntryCoin(L[i], coins[o]) = CoinsAfter(coins, b)[i][o]
<1> DEFINE n == Len(Txs[b])
           coin == coins[o]
           L == UpdateLoop(NoEntry, coin, b, o)
           w == [i \in 0 .. n |-> EntryCoin(L[i], coin)]
<1>1. coin \in AllCoins /\ NoEntry \in Entries(coin) /\ n \in Nat
  BY TxsOf DEF Plain, AllCoins, Entries
<1> HIDE DEF coin
<1>2. /\ L \in [0 .. n -> Entries(coin)]
      /\ L[0] = NoEntry
      /\ \A i \in 1 .. n : L[i] = UpdateCoins(L[i - 1], coin, Txs[b][i], o)
  BY <1>1, UpdateLoopIs DEF coin
<1> HIDE DEF L
<1>3. ASSUME NEW i \in 1 .. n PROVE w[i] = TxCoin(w[i - 1], Txs[b][i], o)
  <2> DEFINE x == L[i - 1]
  <2>1. i - 1 \in 0 .. n /\ i \in 0 .. n
    BY <1>1
  <2>2. x \in Entries(coin) /\ L[i] = UpdateCoins(x, coin, Txs[b][i], o)
    BY Zenon, <1>2, <2>1
  <2>3. o \in DOMAIN Txs[b][i].vout => coin = Spent
    BY DEF coin
  <2> HIDE DEF x
  <2>4. EntryCoin(UpdateCoins(x, coin, Txs[b][i], o), coin) =
           TxCoin(EntryCoin(x, coin), Txs[b][i], o)
    BY <1>1, <2>2, <2>3, UpdateCoinsDoes
  <2> QED BY <2>1, <2>2, <2>4 DEF x
<1>4. w[0] = coins[o]
  BY <1>1, <1>2 DEF EntryCoin, coin
<1>5. \A i \in 0 .. n : w[i] = EntryCoin(L[i], coin)
  OBVIOUS
<1> HIDE DEF w
<1>6. \A i \in 1 .. n : w[i] = TxCoin(w[i - 1], Txs[b][i], o)
  BY <1>3
<1>7. ASSUME NEW i \in 0 .. n PROVE w[i] = CoinsAfter(coins, b)[i][o]
  <2>1. \/ w[i] = CoinsAfter(coins, b)[i][o]
        \/ w[i] = w[0] /\ CoinsAfter(coins, b)[i][o] = coins[o]
    BY <1>6, Forward
  <2> QED BY <1>4, <2>1
<1> QED BY <1>2, <1>5, <1>7 DEF L, coin

\* What updating the coins for a block that fits (Updated) leaves at an
\* outpoint that the cache does not hold.
LEMMA UpdatedEntry ==
    ASSUME NEW b \in Blocks, NEW coins \in [Outpoints -> Plain], CoinsFit(coins, b),
           NEW o \in Outpoints
    PROVE  LET x == UpdateLoop(NoEntry, coins[o], b, o)[Len(Txs[b])]
           IN  /\ x \in Entries(coins[o])
               /\ EntryCoin(x, coins[o]) = CoinsAfter(coins, b)[Len(Txs[b])][o]
<1> DEFINE n == Len(Txs[b])
           L == UpdateLoop(NoEntry, coins[o], b, o)
<1>1. n \in 0 .. n
  BY TxsOf
<1>2. \A i \in 1 .. n : o \in DOMAIN Txs[b][i].vout => coins[o] = Spent
  BY DEF CoinsFit
<1>3. \A i \in 0 .. n : /\ L[i] \in Entries(coins[o])
                        /\ EntryCoin(L[i], coins[o]) = CoinsAfter(coins, b)[i][o]
  BY <1>2, FreshLoop
<1> HIDE DEF L, n
<1> QED BY Zenon, <1>1, <1>3 DEF L, n

-----------------------------------------------------------------------------
(* The tree of blocks: ancestors, and where two branches meet. *)

\* A block's ancestors are the block and those of its parent.
LEMMA AncestorSteps ==
    ASSUME NEW b \in Blocks
    PROVE  /\ b \in Ancestors[b]
           /\ Ancestors[b] \subseteq Blocks
           /\ Ancestors[b] = Ancestors[Parent[b]] \cup {b}
           /\ Parent[b] # Null => Parent[b] \in Ancestors[b]
<1>1. \A a \in Blocks : a \in Ancestors[a] /\ Ancestors[a] = Ancestors[Parent[a]] \cup {a}
  BY AncestorsAre
<1>2. Ancestors[b] \subseteq Blocks
  BY AncestorsAre DEF Nodes
<1>3. Parent[b] # Null => Parent[b] \in Blocks
  BY ParentOf
<1> QED BY <1>1, <1>2, <1>3

\* No ancestor is higher than the block, the ancestors of one are among its
\* own, and there is exactly one at each height.
LEMMA AncestorLine ==
    ASSUME NEW b \in Blocks
    PROVE  /\ \A a \in Ancestors[b] : nHeight[a] <= nHeight[b] /\ (a # b => nHeight[a] < nHeight[b])
           /\ \A a \in Ancestors[b] : Ancestors[a] \subseteq Ancestors[b]
           /\ \A a, c \in Ancestors[b] : nHeight[a] = nHeight[c] => a = c
           /\ \A h \in 0 .. nHeight[b] : \E a \in Ancestors[b] : nHeight[a] = h
<1> DEFINE Low(x) == \A a \in Ancestors[x] :
                        nHeight[a] <= nHeight[x] /\ (a # x => nHeight[a] < nHeight[x])
           Closed(x) == \A a \in Ancestors[x] : Ancestors[a] \subseteq Ancestors[x]
           One(x) == \A a, c \in Ancestors[x] : nHeight[a] = nHeight[c] => a = c
           All(x) == \A h \in 0 .. nHeight[x] : \E a \in Ancestors[x] : nHeight[a] = h
           S == {x \in Nodes : x # Null => Low(x) /\ Closed(x) /\ One(x) /\ All(x)}
<1>1. Null \in S
  BY DEF Nodes
<1>2. ASSUME NEW x \in Blocks, Parent[x] \in S PROVE x \in S
  <2> DEFINE p == Parent[x]
  <2>1. /\ x \in Ancestors[x]
        /\ Ancestors[x] = Ancestors[p] \cup {x}
        /\ Ancestors[x] \subseteq Blocks
        /\ nHeight[x] \in Nat
        /\ \A a \in Ancestors[x] : nHeight[a] \in Nat
    BY AncestorSteps, ParentOf
  <2>2. CASE p = Null
    <3>1. Ancestors[x] = {x} /\ nHeight[x] = 0
      BY <2>1, <2>2, AncestorsAre, ParentOf
    <3>2. 0 .. nHeight[x] = {0}
      BY <3>1
    <3> QED BY <2>1, <3>1, <3>2 DEF Nodes
  <2>3. CASE p # Null
    <3>1. p \in Blocks /\ nHeight[x] = nHeight[p] + 1 /\ nHeight[p] \in Nat
      BY <2>3, ParentOf
    <3>2. Low(p) /\ Closed(p) /\ One(p) /\ All(p)
      BY <1>2, <2>3
    <3>3. \A a \in Ancestors[p] : nHeight[a] <= nHeight[p] /\ nHeight[a] \in Nat
      BY <2>1, <3>2
    <3>4. Low(x)
      BY <2>1, <3>1, <3>3
    <3>5. Closed(x)
      BY <2>1, <3>2
    <3>6. One(x)
      <4>1. \A a \in Ancestors[p] : nHeight[a] # nHeight[x]
        BY <3>1, <3>3
      <4> QED BY <2>1, <3>2, <4>1
    <3>7. All(x)
      <4>1. ASSUME NEW h \in 0 .. nHeight[x] PROVE h = nHeight[x] \/ h \in 0 .. nHeight[p]
        BY <3>1
      <4> QED BY <2>1, <3>2, <4>1
    <3> HIDE DEF Low, Closed, One, All
    <3> QED BY <3>4, <3>5, <3>6, <3>7 DEF Nodes
  <2> QED BY <2>2, <2>3
<1>3. \A x \in Nodes : x \in S
  <2> HIDE DEF S
  <2> QED BY <1>1, <1>2, TreeInduction
<1>4. b \in Nodes /\ b # Null
  BY CoinsAssumption DEF Nodes
<1> QED BY <1>3, <1>4

\* GetAncestor finds the ancestor at a height, and the one below it is its
\* parent.
LEMMA GetAncestorIs ==
    ASSUME NEW b \in Blocks
    PROVE  /\ \A h \in 0 .. nHeight[b] : /\ GetAncestor(b, h) \in Ancestors[b]
                                         /\ GetAncestor(b, h) \in Blocks
                                         /\ nHeight[GetAncestor(b, h)] = h
           /\ \A a \in Ancestors[b] : GetAncestor(b, nHeight[a]) = a
           /\ \A h \in 1 .. nHeight[b] : /\ ~IsGenesis(GetAncestor(b, h))
                                         /\ Parent[GetAncestor(b, h)] = GetAncestor(b, h - 1)
           /\ IsGenesis(GetAncestor(b, 0))
<1>1. ASSUME NEW h \in 0 .. nHeight[b]
      PROVE  /\ GetAncestor(b, h) \in Ancestors[b]
             /\ GetAncestor(b, h) \in Blocks
             /\ nHeight[GetAncestor(b, h)] = h
  <2>1. \E a \in Ancestors[b] : nHeight[a] = h
    BY AncestorLine
  <2>2. GetAncestor(b, h) \in Ancestors[b] /\ nHeight[GetAncestor(b, h)] = h
    BY <2>1 DEF GetAncestor
  <2> QED BY <2>2, AncestorSteps
<1>2. ASSUME NEW a \in Ancestors[b] PROVE GetAncestor(b, nHeight[a]) = a
  <2>1. nHeight[a] \in 0 .. nHeight[b]
    BY AncestorLine, AncestorSteps, ParentOf
  <2>2. GetAncestor(b, nHeight[a]) \in Ancestors[b] /\ nHeight[GetAncestor(b, nHeight[a])] = nHeight[a]
    BY <1>1, <2>1
  <2> QED BY <2>2, AncestorLine
<1>3. ASSUME NEW h \in 1 .. nHeight[b]
      PROVE  /\ ~IsGenesis(GetAncestor(b, h))
             /\ Parent[GetAncestor(b, h)] = GetAncestor(b, h - 1)
  <2> DEFINE a == GetAncestor(b, h)
  <2>1. h \in 0 .. nHeight[b] /\ nHeight[b] \in Nat
    BY ParentOf
  <2>2. a \in Ancestors[b] /\ a \in Blocks /\ nHeight[a] = h
    BY <1>1, <2>1
  <2> HIDE DEF a
  <2>3. Parent[a] # Null
    BY <2>1, <2>2, ParentOf
  <2>4. nHeight[Parent[a]] = h - 1
    BY <2>1, <2>2, <2>3, ParentOf
  <2>5. Parent[a] \in Ancestors[b]
    BY <2>2, <2>3, AncestorSteps, AncestorLine
  <2>6. GetAncestor(b, h - 1) = Parent[a]
    BY <1>2, <2>4, <2>5
  <2> QED BY <2>3, <2>6 DEF a, IsGenesis
<1>4. IsGenesis(GetAncestor(b, 0))
  <2> DEFINE a == GetAncestor(b, 0)
  <2>1. 0 \in 0 .. nHeight[b]
    BY ParentOf
  <2>2. a \in Blocks /\ nHeight[a] = 0
    BY <1>1, <2>1
  <2> HIDE DEF a
  <2>3. Parent[a] = Null
    <3>1. CASE Parent[a] # Null
      <4>1. Parent[a] \in Blocks /\ nHeight[a] = nHeight[Parent[a]] + 1
        BY <2>2, <3>1, ParentOf
      <4>2. nHeight[Parent[a]] \in Nat
        BY <4>1, ParentOf
      <4> QED BY <2>2, <4>1, <4>2
    <3> QED BY <3>1
  <2> QED BY <2>3 DEF a, IsGenesis
<1> QED BY <1>1, <1>2, <1>3, <1>4

\* A set of numbers that has a bound has a largest one.
LEMMA LargestExists ==
    ASSUME NEW n \in Nat, NEW S \in SUBSET (0 .. n), S # {}
    PROVE  \E m \in S : \A k \in S : k <= m
<1> DEFINE D == {k \in Nat : n - k \in S}
           R == OpToRel(<, Nat)
<1>1. D \in SUBSET Nat /\ D # {}
  <2>1. PICK m \in S : TRUE
    BY Zenon
  <2>2. n - m \in Nat /\ n - (n - m) = m
    OBVIOUS
  <2> QED BY <2>1, <2>2
<1>w. IsWellFoundedOn(R, Nat)
  BY Zenon, NatLessThanWellFounded
<1> HIDE DEF R
<1>2. PICK i \in D : \A j \in D : ~ (<<j, i>> \in R)
  <2> HIDE DEF D
  <2> QED BY Zenon, <1>1, <1>w, WFMin
<1>3. i \in Nat /\ n - i \in S
  BY <1>2
<1>4. ASSUME NEW k \in S PROVE k <= n - i
  <2> DEFINE j == n - k
  <2>1. j \in Nat /\ n - j = k
    OBVIOUS
  <2>2. j \in D
    BY <2>1
  <2>3. ~ (j < i)
    BY Zenon, <1>2, <1>3, <2>1, <2>2 DEF R, OpToRel
  <2> QED BY <1>3, <2>1, <2>3
<1> QED BY <1>3, <1>4

\* Any two branches meet: ReplayBlocks' assert(pindexFork != nullptr) holds.
LEMMA BranchesMeet ==
    ASSUME NEW a \in Blocks, NEW b \in Blocks
    PROVE  /\ LastCommonAncestor(a, b) \in Blocks
           /\ LastCommonAncestor(a, b) \in Ancestors[a]
           /\ LastCommonAncestor(a, b) \in Ancestors[b]
<1> DEFINE Common == Ancestors[a] \cap Ancestors[b]
           H == {nHeight[c] : c \in Common}
           g == GetAncestor(a, 0)
<1>1. nHeight[a] \in Nat /\ nHeight[b] \in Nat /\ 0 \in 0 .. nHeight[a] /\ 0 \in 0 .. nHeight[b]
  BY ParentOf
<1>2. g \in Common
  <2>1. /\ g \in Ancestors[a]
        /\ g \in Blocks
        /\ IsGenesis(g)
    BY <1>1, GetAncestorIs
  <2>2. /\ GetAncestor(b, 0) \in Ancestors[b]
        /\ GetAncestor(b, 0) \in Blocks
        /\ IsGenesis(GetAncestor(b, 0))
    BY <1>1, GetAncestorIs
  <2> HIDE DEF g
  <2>3. g = GetAncestor(b, 0)
    BY <2>1, <2>2, TreeAssumption DEF IsGenesis
  <2> QED BY <2>1, <2>2, <2>3
<1>3. Common \subseteq Blocks
  BY AncestorSteps
<1>4. H \in SUBSET (0 .. nHeight[a]) /\ H # {}
  <2>1. \A c \in Common : nHeight[c] \in Nat /\ nHeight[c] <= nHeight[a]
    BY <1>3, ParentOf, AncestorLine
  <2> HIDE DEF Common
  <2>2. \A c \in Common : nHeight[c] \in 0 .. nHeight[a]
    BY <1>1, <2>1
  <2> QED BY <1>2, <2>2
<1>5. \E m \in H : \A k \in H : k <= m
  <2> HIDE DEF H
  <2> QED BY Zenon, <1>1, <1>4, LargestExists
<1>6. \E c \in Common : \A d \in Common : nHeight[d] <= nHeight[c]
  BY <1>5
<1>7. LastCommonAncestor(a, b) \in Common
  BY <1>6 DEF LastCommonAncestor
<1> QED BY <1>3, <1>7

-----------------------------------------------------------------------------
(* The shielded part: roots of the commitment tree and nullifiers. *)

\* The commitments of a transaction are a sequence of leaves.
LEMMA CommitmentsOfTx ==
    ASSUME NEW b \in Blocks, NEW i \in 1 .. Len(Txs[b])
    PROVE  Txs[b][i].commitments \in Roots
<1> DEFINE s == Txs[b][i].commitments
<1>1. s \in Seq(Range(s))
  BY Zenon, JoinSplitAssumption
<1>2. Range(s) \subseteq Leaves
  BY DEF Leaves
<1> HIDE DEF s
<1>3. Len(s) \in Nat /\ s \in [1 .. Len(s) -> Range(s)]
  BY <1>1
<1>4. s \in [1 .. Len(s) -> Leaves]
  BY <1>2, <1>3
<1>5. s \in Seq(Leaves)
  BY <1>3, <1>4
<1> QED BY <1>5 DEF s, Roots

\* Two roots after one another are a root.
LEMMA RootsJoin ==
    ASSUME NEW s \in Roots, NEW t \in Roots
    PROVE  /\ s \o t \in Roots
           /\ Len(s) \in Nat /\ Len(t) \in Nat
           /\ Len(s \o t) = Len(s) + Len(t)
           /\ s \o <<>> = s
           /\ t # <<>> => Len(t) > 0
BY DEF Roots

\* The commitments of a block are a sequence of leaves; the genesis block has
\* none, and no nullifiers.
LEMMA CommitmentsAre ==
    ASSUME NEW b \in Blocks
    PROVE  /\ Commitments(b) \in Roots
           /\ IsGenesis(b) => Commitments(b) = <<>> /\ NullifiersOf(b) = {}
<1> DEFINE n == Len(Txs[b])
           com(i) == Txs[b][i].commitments
           Def(f) == f = [i \in 0 .. n |-> IF i = 0 THEN <<>> ELSE f[i - 1] \o com(i)]
           step == [p \in Roots \X (1 .. n) |-> p[1] \o com(p[2])]
           T == Loop(LAMBDA s, i : s \o com(i), <<>>, n)
<1>1. n \in Nat /\ <<>> \in Roots
  BY TxsOf DEF Roots
<1>2. \A i \in 1 .. n : com(i) \in Roots
  BY CommitmentsOfTx
<1>3. \A s \in Roots : \A i \in 1 .. n : s \o com(i) \in Roots
  BY <1>2, RootsJoin
<1>4. step \in Rounds(Roots, n)
  <2> HIDE DEF n, com
  <2> QED BY <1>3 DEF Rounds
<1>5. \E f : Def(f)
  <2> DEFINE x == <<>>
  <2>0. x \in Roots
    BY <1>1
  <2>1. PICK f : IsLoop(f, Roots, x, n, step)
    <3> HIDE DEF step, n, x
    <3> QED BY <1>1, <1>4, <2>0, LoopExists
  <2>2. ASSUME NEW i \in 1 .. n PROVE f[i] = f[i - 1] \o com(i)
    <3>1. i - 1 \in 0 .. n
      BY <1>1
    <3>2. f[i - 1] \in Roots
      BY <2>1, <3>1 DEF IsLoop
    <3> HIDE DEF com
    <3> QED BY <2>1, <3>2 DEF IsLoop
  <2>3. Def(f)
    <3> HIDE DEF n, com
    <3> QED BY <1>1, <2>1, <2>2 DEF IsLoop
  <2> HIDE DEF Def
  <2> QED BY <2>3
<1>6. Def(T)
  BY Zenon, <1>5 DEF Loop
<1>7. Commitments(b) = T[n]
  BY Zenon DEF Commitments
<1> HIDE DEF n, T, com
<1>8. T[0] = <<>> /\ \A i \in 1 .. n : T[i] = T[i - 1] \o com(i)
  <2>1. T[0] = <<>>
    <3>1. 0 \in 0 .. n
      BY <1>1
    <3> QED BY <1>6, <3>1, Zenon
  <2>2. ASSUME NEW i \in 1 .. n PROVE T[i] = T[i - 1] \o com(i)
    <3>1. i \in 0 .. n /\ i # 0
      BY <1>1
    <3> QED BY <1>6, <3>1, Zenon
  <2> QED BY Zenon, <2>1, <2>2
<1> DEFINE S == {i \in 0 .. n : T[i] \in Roots /\ (IsGenesis(b) => T[i] = <<>>)}
<1>9. 0 \in S
  BY <1>1, <1>8
<1>10. ASSUME NEW i \in 0 .. n - 1, i \in S PROVE i + 1 \in S
  <2>1. i + 1 \in 1 .. n /\ (i + 1) - 1 = i /\ i + 1 \in 0 .. n
    BY <1>1
  <2>2. T[i + 1] = T[i] \o com(i + 1) /\ com(i + 1) \in Roots
    BY Zenon, <1>2, <1>8, <2>1
  <2>3. T[i + 1] \in Roots
    BY <1>10, <2>2, RootsJoin
  <2>4. ASSUME IsGenesis(b) PROVE T[i + 1] = <<>>
    <3>1. com(i + 1) = <<>>
      BY <2>1, <2>4, JoinSplitAssumption DEF IsGenesis, com, n
    <3>2. T[i] = <<>>
      BY <1>10, <2>4
    <3> QED BY <1>1, <2>2, <3>1, <3>2, RootsJoin
  <2> QED BY <2>1, <2>3, <2>4
<1> HIDE DEF S
<1>11. \A i \in 0 .. n : i \in S
  BY <1>1, <1>9, <1>10, InductionTo
<1>12. n \in S
  BY <1>1, <1>11
<1>13. IsGenesis(b) => NullifiersOf(b) = {}
  BY JoinSplitAssumption DEF NullifiersOf, IsGenesis
<1> QED BY <1>7, <1>12, <1>13 DEF S

\* The root of a chain is its parent's with the block's commitments appended.
LEMMA ChainRootIs ==
    /\ ChainRoot \in [Nodes -> Roots]
    /\ ChainRoot[Null] = <<>>
    /\ \A b \in Blocks : ChainRoot[b] = ChainRoot[Parent[b]] \o Commitments(b)
<1> DEFINE Def(f) == f = [b \in Blocks \cup {Null} |->
                             IF b = Null THEN <<>> ELSE f[Parent[b]] \o Commitments(b)]
           step == [p \in Blocks \X Roots |-> p[2] \o Commitments(p[1])]
           x == <<>>
<1>1. x \in Roots
  BY DEF Roots
<1>2. \A b \in Blocks : \A v \in Roots : v \o Commitments(b) \in Roots
  BY CommitmentsAre, RootsJoin
<1>3. step \in Children(Roots)
  BY <1>2 DEF Children
<1>4. \E f : Def(f)
  <2>1. PICK f : IsTree(f, Roots, x, step)
    <3> HIDE DEF step, x
    <3> QED BY <1>1, <1>3, TreeRecursion
  <2>2. \A b \in Blocks : f[b] = f[Parent[b]] \o Commitments(b)
    <3>1. \A b \in Blocks : f[Parent[b]] \in Roots /\ f[b] = step[<<b, f[Parent[b]]>>]
      BY Zenon, <2>1, ParentOf DEF IsTree
    <3> QED BY Zenon, <3>1
  <2>3. Def(f)
    BY <2>1, <2>2, CoinsAssumption DEF Nodes, IsTree
  <2> HIDE DEF Def
  <2> QED BY <2>3
<1>5. Def(ChainRoot)
  BY Zenon, <1>4 DEF ChainRoot
<1>6. ChainRoot[Null] = x /\ \A b \in Blocks : ChainRoot[b] = ChainRoot[Parent[b]] \o Commitments(b)
  BY Zenon, <1>5, CoinsAssumption
<1> HIDE DEF x
<1> DEFINE S == {b \in Nodes : ChainRoot[b] \in Roots}
<1>7. Null \in S /\ \A b \in Blocks : Parent[b] \in S => b \in S
  BY Zenon, <1>1, <1>2, <1>6 DEF Nodes
<1> HIDE DEF S
<1>8. \A b \in Nodes : b \in S
  BY <1>7, TreeInduction
<1>9. ChainRoot \in [Nodes -> Roots]
  BY Zenon, <1>5, <1>8 DEF S, Nodes
<1> QED BY <1>6, <1>9 DEF x

\* The tree only grows along a chain.
LEMMA RootsGrow ==
    ASSUME NEW b \in Blocks, NEW a \in Ancestors[b]
    PROVE  Len(ChainRoot[a]) <= Len(ChainRoot[b])
<1> DEFINE S == {x \in Nodes : \A y \in Ancestors[x] : Len(ChainRoot[y]) <= Len(ChainRoot[x])}
<1>1. Null \in S
  BY AncestorsAre DEF Nodes
<1>2. ASSUME NEW x \in Blocks, Parent[x] \in S PROVE x \in S
  <2> DEFINE p == Parent[x]
  <2>1. p \in Nodes /\ x \in Nodes
    BY ParentOf DEF Nodes
  <2>2. /\ ChainRoot[p] \in Roots
        /\ Commitments(x) \in Roots
        /\ ChainRoot[x] = ChainRoot[p] \o Commitments(x)
    BY <2>1, ChainRootIs, CommitmentsAre
  <2>3. /\ Len(ChainRoot[p]) \in Nat /\ Len(Commitments(x)) \in Nat
        /\ Len(ChainRoot[x]) = Len(ChainRoot[p]) + Len(Commitments(x))
    BY <2>2, RootsJoin
  <2>4. Len(ChainRoot[p]) <= Len(ChainRoot[x]) /\ Len(ChainRoot[x]) <= Len(ChainRoot[x])
    BY <2>3
  <2>5. ASSUME NEW y \in Ancestors[x] PROVE Len(ChainRoot[y]) <= Len(ChainRoot[x])
    <3>1. y = x \/ y \in Ancestors[p]
      BY AncestorSteps
    <3>2. y \in Nodes
      BY AncestorSteps DEF Nodes
    <3>3. ChainRoot[y] \in Roots
      BY <3>2, ChainRootIs
    <3>4. Len(ChainRoot[y]) \in Nat
      BY <3>3 DEF Roots
    <3>5. CASE y \in Ancestors[p]
      <4>1. Len(ChainRoot[y]) <= Len(ChainRoot[p])
        BY <1>2, <3>5
      <4> QED BY <2>3, <3>4, <4>1
    <3> QED BY <2>4, <3>1, <3>5
  <2> QED BY <2>1, <2>5
<1>3. \A x \in Nodes : x \in S
  <2> HIDE DEF S
  <2> QED BY <1>1, <1>2, TreeInduction
<1>4. b \in Nodes
  BY DEF Nodes
<1> QED BY <1>3, <1>4

\* One block more: its root and its nullifiers are added, and a root that is
\* new was not there before.
LEMMA ChainGrows ==
    ASSUME NEW b \in Blocks
    PROVE  /\ ChainRoots(b) = ChainRoots(Parent[b]) \cup {ChainRoot[b]}
           /\ ChainNullifiers(b) = ChainNullifiers(Parent[b]) \cup NullifiersOf(b)
           /\ ChainRoot[Parent[b]] \in ChainRoots(Parent[b])
           /\ ChainRoot[b] # ChainRoot[Parent[b]] => ChainRoot[b] \notin ChainRoots(Parent[b])
<1> DEFINE p == Parent[b]
<1>1. Ancestors[b] = Ancestors[p] \cup {b}
  BY AncestorSteps
<1>2. p \in Nodes /\ ChainRoot[Null] = <<>>
  BY ParentOf, ChainRootIs
<1>3. p # Null => p \in Blocks /\ p \in Ancestors[p]
  BY ParentOf, AncestorSteps
<1>4. ChainRoot[p] \in ChainRoots(p)
  BY <1>2, <1>3 DEF ChainRoots
<1>5. ASSUME ChainRoot[b] # ChainRoot[p] PROVE ChainRoot[b] \notin ChainRoots(p)
  <2>1. /\ ChainRoot[p] \in Roots
        /\ Commitments(b) \in Roots
        /\ ChainRoot[b] = ChainRoot[p] \o Commitments(b)
    BY <1>2, ChainRootIs, CommitmentsAre
  <2>2. Commitments(b) # <<>>
    BY Zenon, <1>5, <2>1, RootsJoin
  <2>3. /\ Len(ChainRoot[p]) \in Nat /\ Len(Commitments(b)) \in Nat
        /\ Len(ChainRoot[b]) = Len(ChainRoot[p]) + Len(Commitments(b))
        /\ Len(Commitments(b)) > 0
    BY <2>1, <2>2, RootsJoin
  <2>4. ChainRoot[b] # <<>>
    <3>1. CASE ChainRoot[b] = <<>>
      <4>1. Len(ChainRoot[b]) = 0
        BY <3>1
      <4> QED BY <2>3, <4>1
    <3> QED BY <3>1
  <2>5. ASSUME NEW a \in Ancestors[p] PROVE ChainRoot[b] # ChainRoot[a]
    <3>1. p # Null
      BY AncestorsAre
    <3>2. Len(ChainRoot[a]) <= Len(ChainRoot[p])
      BY <1>3, <3>1, RootsGrow
    <3> QED BY <2>3, <3>2
  <2> QED BY <2>4, <2>5 DEF ChainRoots
<1> QED BY <1>1, <1>4, <1>5 DEF ChainRoots, ChainNullifiers
=============================================================================
