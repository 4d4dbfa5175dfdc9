----------------------------- MODULE BlockFacts -----------------------------
(***************************************************************************)
(* What the steps of the flush and the replay need of the operators on     *)
(* caches, blocks and the tree of blocks.  BlockProofs proves these facts. *)
(***************************************************************************)
EXTENDS BlockEffects

CC == ChainCoins
Nodes == Blocks \cup {Null}
AllCoins == CoinValues \cup {Spent}

Known(index, b) == b # Null => index[b] # NoEntry

\* What ConnectBlock checks of the coins of the chain that b extends.
CoinsFit(coins, b) ==
    \A i \in 1 .. Len(Txs[b]) :
        /\ \A o \in DOMAIN Txs[b][i].vout : coins[o] = Spent
        /\ \A o \in Txs[b][i].vin : CoinsAfter(coins, b)[i - 1][o] # Spent

\* The undo data are those of the chain the block extends.
UndoRight(b, u) ==
    ~IsGenesis(b) => /\ u.vprevout = [o \in Outpoints |-> Prevout(b, CC[Parent[b]][o], o)]
                     /\ CoinsFit(CC[Parent[b]], b)
Plain == (CoinValues \ Unspendable) \cup {Spent}

\* Coins that one block's loop gives: the chain's, or unchanged where the
\* block changes nothing.
Moved(now, before, to, from) ==
    \A o \in Outpoints : \/ now[o] = to[o]
                         \/ now[o] = before[o] /\ to[o] = from[o]

\* d is c after a step back from b: from any mixture with the coins of b to a
\* mixture with those of its parent, without b's nullifiers and its root.
StepsBack(d, c, base, b, u) ==
    LET v == AsView(c, base)
        w == AsView(d, base)
    IN  /\ d \in Cache
        /\ Sound(d, base)
        /\ Moved(w.coins, v.coins, CC[Parent[b]], CC[b])
        /\ w.nullifiers = v.nullifiers \ NullifiersOf(b)
        /\ w.anchors = IF v.anchor = u.old_tree_root THEN v.anchors
                       ELSE v.anchors \ {v.anchor}
        /\ w.anchor = u.old_tree_root
        /\ w.block = Parent[b]
        /\ d.hashBlock = Parent[b]
        /\ d.hashAnchor = u.old_tree_root

\* d is c after a step on to b, which touches nothing but coins.
StepsOn(d, c, base, b) ==
    LET v == AsView(c, base)
        w == AsView(d, base)
    IN  /\ d \in Cache
        /\ Sound(d, base)
        /\ Moved(w.coins, v.coins, CC[b], CC[Parent[b]])
        /\ w.nullifiers = v.nullifiers
        /\ w.anchors = v.anchors
        /\ w.anchor = v.anchor
        /\ d.hashBlock = c.hashBlock
        /\ d.hashAnchor = c.hashAnchor

\* The database after one batch, and what is left of the cache.
Stored(d, c, os) ==
    [d EXCEPT !.block = Null,
              !.coins = [o \in Outpoints |->
                  IF o \in {p \in os : IsDirty(c.coins[p])} THEN c.coins[o].coin ELSE @[o]]]
Rest(c, os) ==
    [c EXCEPT !.coins = [o \in Outpoints |-> IF o \in os THEN NoEntry ELSE @[o]]]

Leaves == UNION {UNION {Range(Txs[b][i].commitments) : i \in 1 .. Len(Txs[b])} : b \in Blocks}
Roots == Seq(Leaves)

-----------------------------------------------------------------------------
(* What the operators do. *)

(* A cache over its base: see CoinsProofs. *)

AsViewFact ==
    \A c \in Cache, base \in ViewState :
        AsView(c, base) \in ViewState

EmptyFact ==
    EmptyCache \in Cache /\ EmptyDB \in ViewState

EmptyCacheFact ==
    \A base \in ViewState :
        AsView(EmptyCache, base) = base /\ Sound(EmptyCache, base)

GetBestFact ==
    \A c \in Cache, base \in ViewState :
        /\ GetBestBlock(c, base) \in Cache
        /\ AsView(GetBestBlock(c, base), base) = AsView(c, base)
        /\ Sound(c, base) => Sound(GetBestBlock(c, base), base)
        /\ GetBestAnchor(c, base) \in Cache
        /\ AsView(GetBestAnchor(c, base), base) = AsView(c, base)
        /\ Sound(c, base) => Sound(GetBestAnchor(c, base), base)
        /\ GetBestBlock(c, base).hashBlock = AsView(c, base).block
        /\ GetBestAnchor(c, base).hashAnchor = AsView(c, base).anchor
        /\ GetBestAnchor(c, base).hashBlock = c.hashBlock
        /\ GetBestBlock(c, base).hashAnchor = c.hashAnchor

SetBestBlockFact ==
    \A c \in Cache, base \in ViewState, b \in Blocks :
        /\ Sound(c, base)
        => /\ SetBestBlock(c, b) \in Cache
           /\ AsView(SetBestBlock(c, b), base).coins = AsView(c, base).coins
           /\ AsView(SetBestBlock(c, b), base).anchors = AsView(c, base).anchors
           /\ AsView(SetBestBlock(c, b), base).nullifiers = AsView(c, base).nullifiers
           /\ AsView(SetBestBlock(c, b), base).anchor = AsView(c, base).anchor
           /\ AsView(SetBestBlock(c, b), base).block = b
           /\ Sound(SetBestBlock(c, b), base)
           /\ SetBestBlock(c, b).hashBlock = b
           /\ SetBestBlock(c, b).hashAnchor = c.hashAnchor

BatchWriteFact ==
    \A p \in Cache, v \in Cache, base \in ViewState :
        /\ Sound(p, base)
        /\ Sound(v, AsView(p, base))
        => /\ BatchWrite(p, v) \in Cache
           /\ AsView(BatchWrite(p, v), base).coins = AsView(v, AsView(p, base)).coins
           /\ AsView(BatchWrite(p, v), base).anchors = AsView(v, AsView(p, base)).anchors
           /\ AsView(BatchWrite(p, v), base).nullifiers =
                 AsView(v, AsView(p, base)).nullifiers
           /\ Sound(BatchWrite(p, v), base)
           /\ BatchWrite(p, v).hashBlock = v.hashBlock
           /\ BatchWrite(p, v).hashAnchor = v.hashAnchor
           /\ \A o \in Outpoints : ~MergeThrows(p.coins[o], v.coins[o])

DBBatchWriteFact ==
    \A c \in Cache, base \in ViewState :
        /\ Sound(c, base)
        /\ c.hashBlock # Null
        /\ EmptyRoot \in AsView(c, base).anchors
        => /\ DBBatchWrite(base, c) \in ViewState
           /\ Flushed(c) \in Cache
           /\ DBBatchWrite(base, c) = AsView(c, base)
           /\ AsView(Flushed(c), DBBatchWrite(base, c)) = AsView(c, base)
           /\ Sound(Flushed(c), DBBatchWrite(base, c))

(* The tree of blocks. *)

ParentFact ==
    \A b \in Blocks :
        /\ Parent[b] \in Nodes
        /\ nHeight[b] \in Nat
        /\ Parent[b] = Null => nHeight[b] = 0
        /\ Parent[b] # Null => Parent[b] \in Blocks /\ nHeight[b] = nHeight[Parent[b]] + 1

AncestorsFact ==
    /\ Ancestors \in [Nodes -> SUBSET Blocks]
    /\ Ancestors[Null] = {}
    /\ \A b \in Blocks : Ancestors[b] = Ancestors[Parent[b]] \cup {b}

AncestorStepsFact ==
    \A b \in Blocks :
        /\ b \in Ancestors[b]
        /\ Ancestors[b] \subseteq Blocks
        /\ Ancestors[b] = Ancestors[Parent[b]] \cup {b}
        /\ Parent[b] # Null => Parent[b] \in Ancestors[b]

AncestorLineFact ==
    \A b \in Blocks :
        /\ \A a \in Ancestors[b] : nHeight[a] <= nHeight[b] /\ (a # b => nHeight[a] < nHeight[b])
        /\ \A a \in Ancestors[b] : Ancestors[a] \subseteq Ancestors[b]
        /\ \A a, c \in Ancestors[b] : nHeight[a] = nHeight[c] => a = c
        /\ \A h \in 0 .. nHeight[b] : \E a \in Ancestors[b] : nHeight[a] = h

GetAncestorFact ==
    \A b \in Blocks :
        /\ \A h \in 0 .. nHeight[b] : /\ GetAncestor(b, h) \in Ancestors[b]
                                      /\ GetAncestor(b, h) \in Blocks
                                      /\ nHeight[GetAncestor(b, h)] = h
        /\ \A a \in Ancestors[b] : GetAncestor(b, nHeight[a]) = a
        /\ \A h \in 1 .. nHeight[b] : /\ ~IsGenesis(GetAncestor(b, h))
                                      /\ Parent[GetAncestor(b, h)] = GetAncestor(b, h - 1)
        /\ IsGenesis(GetAncestor(b, 0))

BranchesFact ==
    \A a \in Blocks, b \in Blocks :
        /\ LastCommonAncestor(a, b) \in Blocks
        /\ LastCommonAncestor(a, b) \in Ancestors[a]
        /\ LastCommonAncestor(a, b) \in Ancestors[b]

AncestorsKnownFact ==
    \A index : \A b \in Blocks :
        /\ (\A a \in Blocks : index[a] # NoEntry => Known(index, Parent[a]))
        /\ Known(index, b)
        => \A a \in Ancestors[b] : a \in Blocks /\ index[a] # NoEntry

(* The coins and the roots of the chain. *)

ChainCoinsFact ==
    /\ CC \in [Nodes -> [Outpoints -> Plain]]
    /\ CC[Null] = EmptyDB.coins
    /\ \A b \in Blocks :
          CC[b] = IF IsGenesis(b) THEN CC[Null]
                  ELSE CoinsAfter(CC[Parent[b]], b)[Len(Txs[b])]

RootsFact ==
    \A s \in Roots, t \in Roots :
        /\ s \o t \in Roots
        /\ Len(s) \in Nat /\ Len(t) \in Nat
        /\ Len(s \o t) = Len(s) + Len(t)
        /\ s \o <<>> = s
        /\ t # <<>> => Len(t) > 0

CommitmentsFact ==
    \A b \in Blocks :
        /\ Commitments(b) \in Roots
        /\ IsGenesis(b) => Commitments(b) = <<>> /\ NullifiersOf(b) = {}

ChainRootFact ==
    /\ ChainRoot \in [Nodes -> Roots]
    /\ ChainRoot[Null] = <<>>
    /\ \A b \in Blocks : ChainRoot[b] = ChainRoot[Parent[b]] \o Commitments(b)

ChainGrowsFact ==
    \A b \in Blocks :
        /\ ChainRoots(b) = ChainRoots(Parent[b]) \cup {ChainRoot[b]}
        /\ ChainNullifiers(b) = ChainNullifiers(Parent[b]) \cup NullifiersOf(b)
        /\ ChainRoot[Parent[b]] \in ChainRoots(Parent[b])
        /\ ChainRoot[b] # ChainRoot[Parent[b]] => ChainRoot[b] \notin ChainRoots(Parent[b])

(* A block that is connected, disconnected or rolled forward. *)

ConnectBlockFact ==
    \A b \in Blocks, base \in ViewState :
        /\ ~IsGenesis(b)
        /\ base.coins = CC[Parent[b]]
        /\ Connectable(b, base)
        /\ base.anchor \in base.anchors
        /\ base.anchor \o Commitments(b) \in Anchors
        => LET d == ConnectBlock(b, base)
               w == AsView(d, base)
               rt == base.anchor \o Commitments(b)
           IN  /\ d \in Cache
               /\ Sound(d, base)
               /\ w.coins = CC[b]
               /\ w.nullifiers = base.nullifiers \cup NullifiersOf(b)
               /\ w.anchors = base.anchors \cup {rt}
               /\ w.anchor = rt
               /\ d.hashBlock = b
               /\ d.hashAnchor = rt

ConnectGenesisFact ==
    \A b \in Blocks, base \in ViewState :
        /\ IsGenesis(b)
        => LET d == ConnectBlock(b, base)
               w == AsView(d, base)
           IN  /\ d \in Cache
               /\ Sound(d, base)
               /\ w.coins = base.coins
               /\ w.nullifiers = base.nullifiers
               /\ w.anchors = base.anchors
               /\ d.hashBlock = b
               /\ d.hashAnchor = Null

UndoOfFact ==
    \A b \in Blocks, base \in ViewState :
        /\ base.coins = CC[Parent[b]]
        /\ Connectable(b, base)
        => UndoOf(b, base) \in BlockUndo /\ UndoRight(b, UndoOf(b, base))

DisconnectBlockFact ==
    \A b \in Blocks, c \in Cache, base \in ViewState, u \in BlockUndo :
        /\ ~IsGenesis(b)
        /\ Sound(c, base)
        /\ UndoRight(b, u)
        => StepsBack(DisconnectBlock(c, base, b, u), c, base, b, u)

RollforwardBlockFact ==
    \A b \in Blocks, c \in Cache, base \in ViewState :
        /\ ~IsGenesis(b)
        /\ Sound(c, base)
        => StepsOn(RollforwardBlock(c, base, b), c, base, b)

(* What is written to the database and read back. *)

DBCoinsFact ==
    \A c \in Cache, base \in ViewState :
        /\ Sound(c, base)
        => /\ DBBatchWrite(base, c) \in ViewState
           /\ DBBatchWrite(base, c).coins = AsView(c, base).coins
           /\ DBBatchWrite(base, c).block = c.hashBlock

LoadedFact ==
    \A d \in ViewState :
        /\ Loaded(d) \in Cache
        /\ Sound(Loaded(d), d)
        /\ AsView(Loaded(d), d) = d

FlushedFact ==
    \A d \in ViewState, c \in Cache :
        /\ Flushed(c) \in Cache
        /\ Sound(Flushed(c), d)
        /\ AsView(Flushed(c), d).coins = d.coins
        /\ AsView(Flushed(c), d).anchors = d.anchors
        /\ AsView(Flushed(c), d).nullifiers = d.nullifiers
        /\ Flushed(c).hashBlock = c.hashBlock
        /\ Flushed(c).hashAnchor = c.hashAnchor

OneBatchFact ==
    \A d \in ViewState, c \in Cache, os \in SUBSET Outpoints :
        /\ Sound(c, d)
        /\ (\A o \in os : c.coins[o] # NoEntry)
        => LET e == Stored(d, c, os)
               r == Rest(c, os)
           IN  /\ e \in ViewState
               /\ r \in Cache
               /\ Sound(r, e)
               /\ AsView(r, e).coins = AsView(c, d).coins
               /\ AsView(r, e).anchors = AsView(c, d).anchors
               /\ AsView(r, e).nullifiers = AsView(c, d).nullifiers
               /\ \A o \in Outpoints : e.coins[o] \in {d.coins[o], AsView(c, d).coins[o]}
               /\ e.block = Null
               /\ e.anchors = d.anchors
               /\ e.nullifiers = d.nullifiers
               /\ e.anchor = d.anchor
               /\ r.anchors = c.anchors
               /\ r.nullifiers = c.nullifiers
               /\ r.hashBlock = c.hashBlock
               /\ r.hashAnchor = c.hashAnchor

Facts ==
    /\ AsViewFact
    /\ EmptyFact
    /\ EmptyCacheFact
    /\ GetBestFact
    /\ SetBestBlockFact
    /\ BatchWriteFact
    /\ DBBatchWriteFact
    /\ ParentFact
    /\ AncestorsFact
    /\ AncestorStepsFact
    /\ AncestorLineFact
    /\ GetAncestorFact
    /\ BranchesFact
    /\ AncestorsKnownFact
    /\ ChainCoinsFact
    /\ RootsFact
    /\ CommitmentsFact
    /\ ChainRootFact
    /\ ChainGrowsFact
    /\ ConnectBlockFact
    /\ ConnectGenesisFact
    /\ UndoOfFact
    /\ DisconnectBlockFact
    /\ RollforwardBlockFact
    /\ DBCoinsFact
    /\ LoadedFact
    /\ FlushedFact
    /\ OneBatchFact
=============================================================================
