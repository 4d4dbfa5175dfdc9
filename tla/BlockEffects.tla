---------------------------- MODULE BlockEffects ----------------------------
(***************************************************************************)
(* What a block does to the coins: UpdateCoins, ConnectBlock,              *)
(* DisconnectBlock and RollforwardBlock of src/validation.cpp on a cache   *)
(* over a base view, and the tree of blocks of src/chain.cpp.              *)
(*                                                                         *)
(* The blocks form a fixed tree.  A root of the commitment tree is the     *)
(* sequence of its leaves.                                                 *)
(***************************************************************************)
EXTENDS Coins, Integers, Sequences, Functions

CONSTANTS
    Parent,      \* pprev of each block; Null for the genesis block
    nHeight,     \* the height of each block
    Txs          \* vtx of each block

BlockUndo == [vprevout : [Outpoints -> CoinValues \cup {Spent}], old_tree_root : Anchors]

\* The blocks form a tree, with one genesis block at its root.
ASSUME TreeAssumption ==
    /\ Parent \in [Blocks -> Blocks \cup {Null}]
    /\ nHeight \in [Blocks -> Nat]
    /\ \A b \in Blocks : nHeight[b] = IF Parent[b] = Null THEN 0 ELSE nHeight[Parent[b]] + 1
    /\ \A a, b \in Blocks : Parent[a] = Null /\ Parent[b] = Null => a = b

\* A transaction: its outpoints and nullifiers are those that occur, the
\* anchors are the ones its joinsplits name.  An outpoint names the one
\* transaction of the block that makes it.
ASSUME ChainAssumption ==
    /\ EmptyRoot = <<>>
    /\ NoEntry \notin BlockUndo
    /\ \A b \in Blocks : Txs[b] \in Seq(Range(Txs[b]))
    /\ \A b \in Blocks : \A i \in 1 .. Len(Txs[b]) :
          LET tx == Txs[b][i]
          IN  /\ tx.coinbase \in BOOLEAN
              /\ tx.coinbase => tx.vin = {}
              /\ tx.vin \subseteq Outpoints
              /\ DOMAIN tx.vout \subseteq Outpoints
              /\ \A o \in DOMAIN tx.vout : tx.vout[o] \in CoinValues
              /\ tx.anchors \subseteq Anchors
              /\ tx.nullifiers \subseteq Nullifiers
              /\ \A j \in 1 .. i - 1 : DOMAIN tx.vout \cap DOMAIN Txs[b][j].vout = {}

\* The commitments of a transaction are a sequence, and CreateGenesisBlock
\* makes a block without joinsplits.
ASSUME JoinSplitAssumption ==
    \A b \in Blocks : \A i \in 1 .. Len(Txs[b]) :
        LET tx == Txs[b][i]
        IN  /\ tx.commitments \in Seq(Range(tx.commitments))
            /\ Parent[b] = Null => tx.nullifiers = {} /\ tx.commitments = <<>>

-----------------------------------------------------------------------------
(* The block tree. *)

\* The blocks that following pprev from b meets, b included.
Ancestors[b \in Blocks \cup {Null}] ==
    IF b = Null THEN {} ELSE Ancestors[Parent[b]] \cup {b}

GetAncestor(b, height) == CHOOSE a \in Ancestors[b] : nHeight[a] = height

LastCommonAncestor(a, b) ==
    CHOOSE c \in Ancestors[a] \cap Ancestors[b] :
        \A d \in Ancestors[a] \cap Ancestors[b] : nHeight[d] <= nHeight[c]

IsGenesis(b) == Parent[b] = Null

-----------------------------------------------------------------------------
(* What one transaction does to the entry e of outpoint o in a cache, where *)
(* coin is what the base has there.                                        *)

\* UpdateCoins, AddCoins without check.
UpdateCoins(e, coin, tx, o) ==
    LET s == IF o \in tx.vin THEN SpendEntry(e, coin) ELSE e
    IN  IF o \in DOMAIN tx.vout THEN AddEntry(s, tx.vout[o], tx.coinbase) ELSE s

\* HaveCoin and then AddCoin, in ApplyTxInUndo and in AddCoins with check.
CheckAndAdd(e, coin, new) ==
    AddEntry(FetchEntry(e, coin), new, EntryCoin(e, coin) # Spent)

\* One transaction of RollforwardBlock.
Rollforward(e, coin, tx, o) ==
    LET s == IF o \in tx.vin THEN SpendEntry(e, coin) ELSE e
    IN  IF o \in DOMAIN tx.vout THEN CheckAndAdd(s, coin, tx.vout[o]) ELSE s

\* The spent outputs of a transaction that DisconnectBlock undoes.
SpendOutput(e, coin, tx, o) ==
    IF o \in DOMAIN tx.vout /\ tx.vout[o] \notin Unspendable
    THEN SpendEntry(e, coin) ELSE e

\* One transaction of DisconnectBlock; prevout is the coin in the undo data.
DisconnectTx(e, coin, tx, o, prevout) ==
    LET s == SpendOutput(e, coin, tx, o)
    IN  IF o \in tx.vin THEN CheckAndAdd(s, coin, prevout) ELSE s

-----------------------------------------------------------------------------
(* What a block does to a cache c over a base view. *)

\* A loop of n rounds that begins with x: its value after every round.
Loop(Round(_, _), x, n) ==
    LET after[i \in 0 .. n] == IF i = 0 THEN x ELSE Round(after[i - 1], i)
    IN  after

\* The entries after the first n transactions of b.
Updated(c, base, b, n) ==
    [o \in Outpoints |->
        Loop(LAMBDA e, i : UpdateCoins(e, base.coins[o], Txs[b][i], o),
             c.coins[o], Len(Txs[b]))[n]]

\* The entries after the transactions behind the n-th are undone, last first.
Undone(c, base, b, u, n) ==
    [o \in Outpoints |->
        Loop(LAMBDA e, i : DisconnectTx(e, base.coins[o], Txs[b][Len(Txs[b]) + 1 - i], o,
                                        u.vprevout[o]),
             c.coins[o], Len(Txs[b]))[Len(Txs[b]) - n]]

NullifiersOf(b) == UNION {Txs[b][i].nullifiers : i \in 1 .. Len(Txs[b])}
Commitments(b) ==
    Loop(LAMBDA s, i : s \o Txs[b][i].commitments, <<>>, Len(Txs[b]))[Len(Txs[b])]

\* SetNullifier for every nullifier of the block.
SetNullifiers(c, b, spent) ==
    [c EXCEPT !.nullifiers = [nf \in Nullifiers |->
        IF nf \in NullifiersOf(b) THEN SetNullifier(c, nf, spent).nullifiers[nf] ELSE @[nf]]]

\* The checks of ConnectBlock that read the view: BIP30, the inputs, and
\* HaveJoinSplitRequirements.
Connectable(b, base) ==
    \A i \in 1 .. Len(Txs[b]) :
        LET tx == Txs[b][i]
            before == Updated(EmptyCache, base, b, i - 1)
        IN  /\ \A o \in DOMAIN tx.vout : base.coins[o] = Spent
            /\ \A o \in tx.vin : EntryCoin(before[o], base.coins[o]) # Spent
            /\ tx.anchors \subseteq base.anchors
            /\ tx.nullifiers \cap base.nullifiers = {}
            /\ \A j \in 1 .. i - 1 : tx.nullifiers \cap Txs[b][j].nullifiers = {}

\* ConnectBlock of a block that passes them, on a fresh view over base.
ConnectBlock(b, base) ==
    LET v == GetBestAnchor(GetBestBlock(EmptyCache, base), base)
        w == GetAnchorAt(v, base, v.hashAnchor)
        x == SetNullifiers([w EXCEPT !.coins = Updated(w, base, b, Len(Txs[b]))], b, TRUE)
    IN  IF IsGenesis(b) THEN SetBestBlock(GetBestBlock(EmptyCache, base), b)
        ELSE SetBestBlock(PushAnchor(x, base, v.hashAnchor \o Commitments(b)), b)

\* The coin an outpoint held when a transaction of b spent it: the one the
\* base has there, or one that b itself made.
Prevout(b, coin, o) ==
    LET makers == {i \in 1 .. Len(Txs[b]) : o \in DOMAIN Txs[b][i].vout}
    IN  IF coin # Spent \/ makers = {} THEN coin
        ELSE Txs[b][CHOOSE i \in makers : TRUE].vout[o]

\* The undo data.
UndoOf(b, base) ==
    [vprevout |-> [o \in Outpoints |-> Prevout(b, base.coins[o], o)],
     old_tree_root |-> base.anchor]

\* Mutant: the nullifiers stay spent.
DisconnectBlockNoNullifiers(c, base, b, u) ==
    LET d == [c EXCEPT !.coins = Undone(c, base, b, u, 0)]
    IN  SetBestBlock(PopAnchor(d, base, u.old_tree_root), Parent[b])

DisconnectBlock(c, base, b, u) ==
    LET d == SetNullifiers([c EXCEPT !.coins = Undone(c, base, b, u, 0)], b, FALSE)
    IN  SetBestBlock(PopAnchor(d, base, u.old_tree_root), Parent[b])

\* DISCONNECT_OK: every output was there and no input was.
DisconnectsCleanly(b, base, u) ==
    \A i \in 1 .. Len(Txs[b]), o \in Outpoints :
        LET tx == Txs[b][i]
            after == Undone(EmptyCache, base, b, u, i)[o]
        IN  /\ o \in DOMAIN tx.vout /\ tx.vout[o] \notin Unspendable =>
                  EntryCoin(after, base.coins[o]) = tx.vout[o]
            /\ o \in tx.vin =>
                  EntryCoin(SpendOutput(after, base.coins[o], tx, o), base.coins[o]) = Spent

RollforwardBlock(c, base, b) ==
    [c EXCEPT !.coins =
        [o \in Outpoints |->
            Loop(LAMBDA e, i : Rollforward(e, base.coins[o], Txs[b][i], o),
                 c.coins[o], Len(Txs[b]))[Len(Txs[b])]]]

\* The best block and anchor that LoadChainTip asks pcoinsTip for.
Loaded(d) == IF d.block = Null THEN EmptyCache
             ELSE GetBestAnchor(GetBestBlock(EmptyCache, d), d)

-----------------------------------------------------------------------------
(* What the chain that ends in a block says. *)

AfterTx(coins, tx) ==
    [o \in Outpoints |->
        IF o \in DOMAIN tx.vout /\ tx.vout[o] \notin Unspendable THEN tx.vout[o]
        ELSE IF o \in tx.vin THEN Spent ELSE coins[o]]

\* The coins after every transaction of a block.
CoinsAfter(coins, b) ==
    Loop(LAMBDA c, i : AfterTx(c, Txs[b][i]), coins, Len(Txs[b]))

ChainCoins[b \in Blocks \cup {Null}] ==
    IF b = Null THEN EmptyDB.coins
    ELSE IF IsGenesis(b) THEN ChainCoins[Null]
    ELSE CoinsAfter(ChainCoins[Parent[b]], b)[Len(Txs[b])]

ChainRoot[b \in Blocks \cup {Null}] ==
    IF b = Null THEN <<>> ELSE ChainRoot[Parent[b]] \o Commitments(b)

ChainRoots(b) == {<<>>} \cup {ChainRoot[a] : a \in Ancestors[b]}

ChainNullifiers(b) ==
    UNION {NullifiersOf(a) : a \in Ancestors[b]}
=============================================================================
