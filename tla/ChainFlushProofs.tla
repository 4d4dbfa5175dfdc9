-------------------------- MODULE ChainFlushProofs --------------------------
(***************************************************************************)
(* The theorems about the flush and the replay: whatever crashes interrupt *)
(* CCoinsViewDB::BatchWrite and ReplayBlocks, the coins on disk are those  *)
(* of the chain, for any tree of blocks and any transactions in them.      *)
(***************************************************************************)
EXTENDS ChainFlushSteps, BlockProofs, CoinsProofs

-----------------------------------------------------------------------------
(* What a block does to a cache. *)

\* A cache whose flags are right has right entries, and the other way round.
LEMMA SoundEntries ==
    ASSUME NEW c \in Cache, NEW base \in ViewState, Sound(c, base)
    PROVE  \A o \in Outpoints : c.coins[o] \in Entries(base.coins[o])
BY Zenon DEF Sound, CoinFlagsSound, Entries, Cache

WithCoins(c, f) == [c EXCEPT !.coins = [o \in Outpoints |-> f[o]]]

\* d shows the coins of the entries f, and what c shows otherwise.
Replaced(d, c, base, f) ==
    LET v == AsView(c, base)
        w == AsView(d, base)
    IN  /\ d \in Cache
        /\ Sound(d, base)
        /\ \A o \in Outpoints : w.coins[o] = EntryCoin(f[o], base.coins[o])
        /\ w.anchors = v.anchors
        /\ w.nullifiers = v.nullifiers
        /\ w.anchor = v.anchor
        /\ d.hashBlock = c.hashBlock
        /\ d.hashAnchor = c.hashAnchor

\* Entries that are right may take the place of others.
LEMMA CoinsReplaced ==
    ASSUME NEW c \in Cache, NEW base \in ViewState, Sound(c, base), NEW f,
           \A o \in Outpoints : f[o] \in Entries(base.coins[o])
    PROVE  Replaced(WithCoins(c, f), c, base, f)
<1> DEFINE g == [o \in Outpoints |-> f[o]]
           d == WithCoins(c, f)
<1>0. d = [c EXCEPT !.coins = g]
  BY DEF WithCoins
<1>1. g \in [Outpoints -> CoinEntries \cup {NoEntry}]
  BY DEF Entries
<1>2. /\ d.coins = g
      /\ d.anchors = c.anchors
      /\ d.nullifiers = c.nullifiers
      /\ d.hashBlock = c.hashBlock
      /\ d.hashAnchor = c.hashAnchor
  BY <1>0 DEF Cache
<1>3. d \in Cache
  <2> HIDE DEF g
  <2> QED BY <1>0, <1>1 DEF Cache
<1>4. \A o \in Outpoints : d.coins[o] = f[o]
  BY Zenon, <1>2
<1> HIDE DEF d, g
<1>5. Sound(d, base)
  BY <1>2, <1>4 DEF Sound, CoinFlagsSound, MarkFlagsSound, Entries
<1>6. \A o \in Outpoints : AsView(d, base).coins[o] = EntryCoin(f[o], base.coins[o])
  BY Zenon, <1>4 DEF AsView, CoinAt
<1>7. /\ AsView(d, base).anchors = AsView(c, base).anchors
      /\ AsView(d, base).nullifiers = AsView(c, base).nullifiers
      /\ AsView(d, base).anchor = AsView(c, base).anchor
  BY Zenon, <1>2 DEF AsView, HasAnchor, HasNullifier, BestAnchor
<1> QED BY Zenon, <1>2, <1>3, <1>5, <1>6, <1>7 DEF d, Replaced

\* d has the nullifiers of b as well, or no longer, and shows what c shows
\* otherwise.
Nullified(d, c, base, b, spent) ==
    LET v == AsView(c, base)
        w == AsView(d, base)
    IN  /\ d \in Cache
        /\ Sound(d, base)
        /\ w.coins = v.coins
        /\ w.anchors = v.anchors
        /\ spent => w.nullifiers = v.nullifiers \cup NullifiersOf(b)
        /\ ~spent => w.nullifiers = v.nullifiers \ NullifiersOf(b)
        /\ w.anchor = v.anchor

\* SetNullifier for each nullifier of a block (SetNullifiers).
LEMMA SetNullifiersSets ==
    ASSUME NEW c \in Cache, NEW base \in ViewState, Sound(c, base), NEW b \in Blocks,
           NEW spent \in BOOLEAN
    PROVE  Nullified(SetNullifiers(c, b, spent), c, base, b, spent)
<1> DEFINE e == [entered |-> spent, flags |-> {DIRTY}]
           g == [nf \in Nullifiers |-> IF nf \in NullifiersOf(b) THEN e ELSE c.nullifiers[nf]]
           d == SetNullifiers(c, b, spent)
<1>1. e \in MarkEntries /\ e # NoEntry
  BY CoinsAssumption DEF MarkEntries
<1>2. NullifiersOf(b) \subseteq Nullifiers
  BY TxsOf DEF NullifiersOf
<1>3. \A nf \in Nullifiers : SetNullifier(c, nf, spent).nullifiers[nf] = e
  BY DEF SetNullifier, Cache
<1>4. d = [c EXCEPT !.nullifiers = g]
  <2>1. d = [c EXCEPT !.nullifiers = [nf \in Nullifiers |->
                IF nf \in NullifiersOf(b) THEN SetNullifier(c, nf, spent).nullifiers[nf]
                ELSE c.nullifiers[nf]]]
    BY DEF SetNullifiers, Cache
  <2>2. [nf \in Nullifiers |->
            IF nf \in NullifiersOf(b) THEN SetNullifier(c, nf, spent).nullifiers[nf]
            ELSE c.nullifiers[nf]] = g
    <3> HIDE DEF e
    <3> QED BY <1>3
  <2> QED BY Zenon, <2>1, <2>2
<1> HIDE DEF e, d
<1>5. g \in [Nullifiers -> MarkEntries \cup {NoEntry}]
  BY <1>1 DEF Cache
<1>6. /\ d.coins = c.coins
      /\ d.anchors = c.anchors
      /\ d.nullifiers = g
      /\ d.hashBlock = c.hashBlock
      /\ d.hashAnchor = c.hashAnchor
  BY <1>4 DEF Cache
<1>7. d \in Cache
  <2> HIDE DEF g
  <2> QED BY <1>4, <1>5 DEF Cache
<1>8. \A nf \in Nullifiers :
         d.nullifiers[nf] = IF nf \in NullifiersOf(b) THEN e ELSE c.nullifiers[nf]
  BY <1>6
<1>9. e.entered = spent /\ DIRTY \in e.flags
  BY DEF e
<1> HIDE DEF g
<1>10. Sound(d, base)
  BY <1>6, <1>8, <1>9 DEF Sound, CoinFlagsSound, MarkFlagsSound
<1>11. \A nf \in Nullifiers :
          HasNullifier(d, base, nf) <=> IF nf \in NullifiersOf(b) THEN spent
                                        ELSE HasNullifier(c, base, nf)
  BY <1>1, <1>8, <1>9 DEF HasNullifier
<1>12. /\ spent => AsView(d, base).nullifiers =
                      AsView(c, base).nullifiers \cup NullifiersOf(b)
       /\ ~spent => AsView(d, base).nullifiers =
                       AsView(c, base).nullifiers \ NullifiersOf(b)
  BY <1>2, <1>11 DEF AsView
<1>13. /\ AsView(d, base).coins = AsView(c, base).coins
       /\ AsView(d, base).anchors = AsView(c, base).anchors
       /\ AsView(d, base).anchor = AsView(c, base).anchor
  BY Zenon, <1>6 DEF AsView, HasAnchor, CoinAt, BestAnchor
<1> QED BY Zenon, <1>7, <1>10, <1>12, <1>13 DEF d, Nullified

\* The coins of a base view are coins.
LEMMA BaseCoins ==
    ASSUME NEW base \in ViewState, NEW o \in Outpoints
    PROVE  base.coins[o] \in AllCoins
BY DEF ViewState, AllCoins

\* d is c1 without the nullifiers of b, with the anchor rt and the best block p.
Ended(d, c1, base, b, rt, p) ==
    LET v == AsView(c1, base)
        w == AsView(d, base)
    IN  /\ d \in Cache
        /\ Sound(d, base)
        /\ w.coins = v.coins
        /\ w.nullifiers = v.nullifiers \ NullifiersOf(b)
        /\ w.anchors = IF v.anchor = rt THEN v.anchors ELSE v.anchors \ {v.anchor}
        /\ w.anchor = rt
        /\ w.block = p
        /\ d.hashBlock = p
        /\ d.hashAnchor = rt

\* What DisconnectBlock does once the coins are undone: the nullifiers, the
\* anchor and the best block.
LEMMA DisconnectEnds ==
    ASSUME NEW b \in Blocks, NEW base \in ViewState, NEW c1 \in Cache, Sound(c1, base),
           NEW no \in BOOLEAN, ~no, NEW rt \in Anchors, NEW p \in Blocks
    PROVE  Ended(SetBestBlock(PopAnchor(SetNullifiers(c1, b, no), base, rt), p),
                 c1, base, b, rt, p)
<1> DEFINE c2 == SetNullifiers(c1, b, no)
           c3 == PopAnchor(c2, base, rt)
           d == SetBestBlock(c3, p)
<1>2. /\ c2 \in Cache
      /\ Sound(c2, base)
      /\ AsView(c2, base).coins = AsView(c1, base).coins
      /\ AsView(c2, base).anchors = AsView(c1, base).anchors
      /\ AsView(c2, base).nullifiers = AsView(c1, base).nullifiers \ NullifiersOf(b)
      /\ AsView(c2, base).anchor = AsView(c1, base).anchor
  <2>1. Nullified(c2, c1, base, b, no)
    BY Zenon, SetNullifiersSets
  <2> HIDE DEF c2
  <2> QED BY Zenon, <2>1 DEF Nullified
<1> HIDE DEF c2
<1>3. /\ c3 \in Cache
      /\ SameButAnchors(AsView(c3, base), AsView(c2, base),
                        IF AsView(c2, base).anchor = rt THEN AsView(c2, base).anchors
                        ELSE AsView(c2, base).anchors \ {AsView(c2, base).anchor}, rt)
      /\ Sound(c3, base)
      /\ c3.hashAnchor = rt
  BY Zenon, <1>2, PopAnchorPops
<1> HIDE DEF c3
<1>4. /\ d \in Cache
      /\ Sound(d, base)
      /\ AsView(d, base).coins = AsView(c3, base).coins
      /\ AsView(d, base).anchors = AsView(c3, base).anchors
      /\ AsView(d, base).nullifiers = AsView(c3, base).nullifiers
      /\ AsView(d, base).anchor = AsView(c3, base).anchor
      /\ AsView(d, base).block = p
      /\ d.hashBlock = p
      /\ d.hashAnchor = c3.hashAnchor
  BY <1>3, SetBestBlockSets
<1> HIDE DEF d
<1>5. /\ AsView(d, base).coins = AsView(c1, base).coins
      /\ AsView(d, base).nullifiers = AsView(c1, base).nullifiers \ NullifiersOf(b)
      /\ AsView(d, base).anchors =
            IF AsView(c1, base).anchor = rt THEN AsView(c1, base).anchors
            ELSE AsView(c1, base).anchors \ {AsView(c1, base).anchor}
      /\ AsView(d, base).anchor = rt
  BY <1>2, <1>3, <1>4 DEF SameButAnchors
<1> QED BY Zenon, <1>3, <1>4, <1>5 DEF d, c3, c2, Ended

\* DisconnectBlock is a step back, whatever the cache shows.
LEMMA DisconnectBlockUndoes ==
    ASSUME NEW b \in Blocks, ~IsGenesis(b), NEW c \in Cache, NEW base \in ViewState,
           Sound(c, base), NEW u \in BlockUndo, UndoRight(b, u)
    PROVE  StepsBack(DisconnectBlock(c, base, b, u), c, base, b, u)
<1> DEFINE n == Len(Txs[b])
           coins == CC[Parent[b]]
           p == u.vprevout
           f == [o \in Outpoints |-> UndoLoop(c.coins[o], base.coins[o], b, o, p[o])[n]]
           c1 == WithCoins(c, f)
           rt == u.old_tree_root
           d == DisconnectBlock(c, base, b, u)
<1>1. Parent[b] \in Blocks /\ n \in Nat
  BY ParentOf, TxsOf DEF IsGenesis
<1>2. coins \in [Outpoints -> Plain] /\ CC[b] = CoinsAfter(coins, b)[n]
  BY <1>1, ChainCoinsAre DEF Nodes
<1>3. CoinsFit(coins, b) /\ rt \in Anchors /\ p = [o \in Outpoints |-> Prevout(b, coins[o], o)]
  BY DEF UndoRight, BlockUndo
<1>4. d = SetBestBlock(PopAnchor(SetNullifiers(c1, b, FALSE), base, rt), Parent[b])
  <2>1. Undone(c, base, b, u, 0) =
           [o \in Outpoints |-> UndoLoop(c.coins[o], base.coins[o], b, o, p[o])[n - 0]]
    BY DEF Undone, UndoLoop
  <2>2. [o \in Outpoints |-> f[o]] = Undone(c, base, b, u, 0)
    BY <1>1, <2>1
  <2> QED BY Zenon, <2>2 DEF DisconnectBlock, WithCoins
<1> HIDE DEF coins, p, d
<1>5. ASSUME NEW o \in Outpoints
      PROVE  /\ f[o] \in Entries(base.coins[o])
             /\ \/ EntryCoin(f[o], base.coins[o]) = coins[o]
                \/ /\ EntryCoin(f[o], base.coins[o]) = EntryCoin(c.coins[o], base.coins[o])
                   /\ CC[b][o] = coins[o]
  <2> DEFINE e == c.coins[o]
             coin == base.coins[o]
  <2>1. e \in Entries(coin) /\ coin \in AllCoins
    BY SoundEntries, BaseCoins
  <2>2. f[o] = UndoLoop(e, coin, b, o, p[o])[n] /\ p[o] = Prevout(b, coins[o], o)
    BY <1>3
  <2> HIDE DEF e, coin
  <2> DEFINE x == UndoLoop(e, coin, b, o, Prevout(b, coins[o], o))[n]
  <2>3. /\ x \in Entries(coin)
        /\ \/ EntryCoin(x, coin) = coins[o]
           \/ /\ EntryCoin(x, coin) = EntryCoin(e, coin)
              /\ CoinsAfter(coins, b)[n][o] = coins[o]
    BY Zenon, <1>2, <1>3, <2>1, UndoneEntry
  <2>4. f[o] = x
    BY Zenon, <2>2
  <2> HIDE DEF x, f
  <2> QED BY Zenon, <1>2, <2>3, <2>4 DEF e, coin
<1> HIDE DEF f
<1>6. /\ c1 \in Cache
      /\ Sound(c1, base)
      /\ \A o \in Outpoints : AsView(c1, base).coins[o] = EntryCoin(f[o], base.coins[o])
      /\ AsView(c1, base).anchors = AsView(c, base).anchors
      /\ AsView(c1, base).nullifiers = AsView(c, base).nullifiers
      /\ AsView(c1, base).anchor = AsView(c, base).anchor
  <2>1. Replaced(c1, c, base, f)
    BY Zenon, <1>5, CoinsReplaced
  <2> HIDE DEF c1
  <2> QED BY Zenon, <2>1 DEF Replaced
<1> HIDE DEF c1, rt
<1>7. Ended(d, c1, base, b, rt, Parent[b])
  <2> DEFINE no == FALSE
  <2>1. /\ no \in BOOLEAN /\ ~no
        /\ rt \in Anchors
        /\ d = SetBestBlock(PopAnchor(SetNullifiers(c1, b, no), base, rt), Parent[b])
    BY Zenon, <1>3, <1>4
  <2> HIDE DEF no
  <2>2. Ended(SetBestBlock(PopAnchor(SetNullifiers(c1, b, no), base, rt), Parent[b]),
              c1, base, b, rt, Parent[b])
    BY Zenon, <1>1, <1>6, <2>1, DisconnectEnds
  <2> QED BY Zenon, <2>1, <2>2
<1>8. \A o \in Outpoints : AsView(c, base).coins[o] = EntryCoin(c.coins[o], base.coins[o])
  BY DEF AsView, CoinAt
<1>9. \A o \in Outpoints : AsView(d, base).coins[o] = EntryCoin(f[o], base.coins[o])
  BY Zenon, <1>6, <1>7 DEF Ended
<1>10. Moved(AsView(d, base).coins, AsView(c, base).coins, coins, CC[b])
  BY Zenon, <1>5, <1>8, <1>9 DEF Moved
<1> QED BY Zenon, <1>6, <1>7, <1>10 DEF d, coins, rt, StepsBack, Ended

\* RollforwardBlock is a step on, whatever the cache shows.
LEMMA RollforwardBlockApplies ==
    ASSUME NEW b \in Blocks, ~IsGenesis(b), NEW c \in Cache, NEW base \in ViewState,
           Sound(c, base)
    PROVE  StepsOn(RollforwardBlock(c, base, b), c, base, b)
<1> DEFINE n == Len(Txs[b])
           coins == CC[Parent[b]]
           f == [o \in Outpoints |-> RollforwardLoop(c.coins[o], base.coins[o], b, o)[n]]
           d == WithCoins(c, f)
<1>1. coins \in [Outpoints -> Plain] /\ CC[b] = CoinsAfter(coins, b)[n]
  <2>1. Parent[b] \in Blocks
    BY ParentOf DEF IsGenesis
  <2> QED BY <2>1, ChainCoinsAre DEF Nodes
<1>2. RollforwardBlock(c, base, b) = d
  <2>1. [o \in Outpoints |-> f[o]] = f
    OBVIOUS
  <2> QED BY Zenon, <2>1 DEF RollforwardBlock, RollforwardLoop, WithCoins
<1> HIDE DEF coins
<1>3. ASSUME NEW o \in Outpoints
      PROVE  /\ f[o] \in Entries(base.coins[o])
             /\ \/ EntryCoin(f[o], base.coins[o]) = CC[b][o]
                \/ /\ EntryCoin(f[o], base.coins[o]) = EntryCoin(c.coins[o], base.coins[o])
                   /\ CC[b][o] = coins[o]
  <2> DEFINE e == c.coins[o]
             coin == base.coins[o]
             x == RollforwardLoop(e, coin, b, o)[n]
  <2>1. e \in Entries(coin) /\ coin \in AllCoins
    BY SoundEntries, BaseCoins
  <2>2. f[o] = x
    OBVIOUS
  <2> HIDE DEF e, coin, f
  <2>3. /\ x \in Entries(coin)
        /\ \/ EntryCoin(x, coin) = CoinsAfter(coins, b)[n][o]
           \/ EntryCoin(x, coin) = EntryCoin(e, coin) /\ CoinsAfter(coins, b)[n][o] = coins[o]
    BY Zenon, <1>1, <2>1, RolledEntry
  <2> HIDE DEF x
  <2> QED BY Zenon, <1>1, <2>2, <2>3 DEF e, coin
<1> HIDE DEF f
<1>4. Replaced(d, c, base, f)
  BY Zenon, <1>3, CoinsReplaced
<1> HIDE DEF d
<1>5. \A o \in Outpoints : AsView(c, base).coins[o] = EntryCoin(c.coins[o], base.coins[o])
  BY Zenon DEF AsView, CoinAt
<1>6. Moved(AsView(d, base).coins, AsView(c, base).coins, CC[b], coins)
  BY Zenon, <1>3, <1>4, <1>5 DEF Moved, Replaced
<1> QED BY Zenon, <1>2, <1>4, <1>6 DEF coins, StepsOn, Replaced

\* The checks of ConnectBlock see the chain's coins (Connectable).
LEMMA ConnectableFits ==
    ASSUME NEW b \in Blocks, NEW base, base.coins \in [Outpoints -> Plain],
           Connectable(b, base)
    PROVE  CoinsFit(base.coins, b)
<1> DEFINE n == Len(Txs[b])
           coins == base.coins
<1>1. \A i \in 1 .. n : \A o \in DOMAIN Txs[b][i].vout : coins[o] = Spent
  BY DEF Connectable
<1>2. ASSUME NEW i \in 1 .. n, NEW o \in Txs[b][i].vin
      PROVE  CoinsAfter(coins, b)[i - 1][o] # Spent
  <2>1. o \in Outpoints /\ i - 1 \in 0 .. n
    BY TxsOf
  <2>2. EntryCoin(Updated(EmptyCache, base, b, i - 1)[o], base.coins[o]) # Spent
    BY DEF Connectable
  <2>3. Updated(EmptyCache, base, b, i - 1)[o] = UpdateLoop(NoEntry, base.coins[o], b, o)[i - 1]
    BY <2>1 DEF Updated, UpdateLoop, EmptyCache
  <2>4. EntryCoin(UpdateLoop(NoEntry, base.coins[o], b, o)[i - 1], base.coins[o]) =
           CoinsAfter(coins, b)[i - 1][o]
    BY <1>1, <2>1, FreshLoop
  <2> QED BY <2>2, <2>3, <2>4
<1> QED BY <1>1, <1>2 DEF CoinsFit

\* What ConnectBlock reads before it changes anything leaves no trace.
LEMMA ConnectReads ==
    ASSUME NEW base \in ViewState
    PROVE  LET v == GetBestAnchor(GetBestBlock(EmptyCache, base), base)
               w == GetAnchorAt(v, base, v.hashAnchor)
           IN  /\ v.hashAnchor = base.anchor
               /\ w \in Cache /\ Sound(w, base) /\ AsView(w, base) = base
               /\ \A o \in Outpoints : w.coins[o] = NoEntry
<1> DEFINE v0 == GetBestBlock(EmptyCache, base)
           v == GetBestAnchor(v0, base)
           w == GetAnchorAt(v, base, v.hashAnchor)
<1>1. EmptyCache \in Cache /\ Sound(EmptyCache, base) /\ AsView(EmptyCache, base) = base
  BY EmptyTypes, EmptyCacheView
<1>2. v0 \in Cache /\ Sound(v0, base) /\ AsView(v0, base) = base
  BY <1>1, GetBestInvisible
<1>3. v0.coins = EmptyCache.coins
  BY DEF GetBestBlock, EmptyCache
<1> HIDE DEF v0
<1>4. v \in Cache /\ Sound(v, base) /\ AsView(v, base) = base /\ v.hashAnchor = base.anchor
  BY <1>2, GetBestInvisible
<1>5. v.coins = v0.coins
  BY <1>2 DEF GetBestAnchor, Cache
<1> HIDE DEF v
<1>6. v.hashAnchor \in Anchors
  BY <1>4 DEF ViewState
<1>7. w \in Cache /\ Sound(w, base) /\ AsView(w, base) = base
  BY <1>4, <1>6, GetAnchorAtInvisible
<1>8. w.coins = v.coins
  BY <1>4 DEF GetAnchorAt, Cache
<1>9. \A o \in Outpoints : EmptyCache.coins[o] = NoEntry
  BY DEF EmptyCache
<1> HIDE DEF w
<1>10. \A o \in Outpoints : w.coins[o] = NoEntry
  BY Zenon, <1>3, <1>5, <1>8, <1>9
<1> QED BY Zenon, <1>4, <1>7, <1>10 DEF w, v, v0

\* d is x1 with the nullifiers of b, the anchor rt and the best block b.
Extended(d, x1, base, b, rt) ==
    LET v == AsView(x1, base)
        w == AsView(d, base)
    IN  /\ d \in Cache
        /\ Sound(d, base)
        /\ w.coins = v.coins
        /\ w.nullifiers = v.nullifiers \cup NullifiersOf(b)
        /\ w.anchors = v.anchors \cup {rt}
        /\ w.anchor = rt
        /\ d.hashBlock = b
        /\ d.hashAnchor = rt

\* What ConnectBlock does once the coins are updated: the nullifiers, the
\* anchor and the best block.
LEMMA ConnectEnds ==
    ASSUME NEW b \in Blocks, NEW base \in ViewState, NEW x1 \in Cache, Sound(x1, base),
           NEW yes \in BOOLEAN, yes, NEW rt \in Anchors,
           AsView(x1, base).anchor \in AsView(x1, base).anchors
    PROVE  Extended(SetBestBlock(PushAnchor(SetNullifiers(x1, b, yes), base, rt), b),
                    x1, base, b, rt)
<1> DEFINE x == SetNullifiers(x1, b, yes)
           y == PushAnchor(x, base, rt)
           d == SetBestBlock(y, b)
<1>1. /\ x \in Cache
      /\ Sound(x, base)
      /\ AsView(x, base).coins = AsView(x1, base).coins
      /\ AsView(x, base).anchors = AsView(x1, base).anchors
      /\ AsView(x, base).nullifiers = AsView(x1, base).nullifiers \cup NullifiersOf(b)
      /\ AsView(x, base).anchor = AsView(x1, base).anchor
  <2>1. Nullified(x, x1, base, b, yes)
    BY Zenon, SetNullifiersSets
  <2> HIDE DEF x
  <2> QED BY Zenon, <2>1 DEF Nullified
<1> HIDE DEF x
<1>2. AsView(x, base).anchor \in AsView(x, base).anchors
  BY Zenon, <1>1
<1>3. /\ y \in Cache
      /\ SameButAnchors(AsView(y, base), AsView(x, base), AsView(x, base).anchors \cup {rt}, rt)
      /\ Sound(y, base)
      /\ y.hashAnchor = rt
  BY <1>1, <1>2, PushAnchorPushes
<1> HIDE DEF y
<1>4. /\ d \in Cache
      /\ AsView(d, base).coins = AsView(y, base).coins
      /\ AsView(d, base).anchors = AsView(y, base).anchors
      /\ AsView(d, base).nullifiers = AsView(y, base).nullifiers
      /\ AsView(d, base).anchor = AsView(y, base).anchor
      /\ Sound(d, base)
      /\ d.hashBlock = b
      /\ d.hashAnchor = y.hashAnchor
  BY <1>3, SetBestBlockSets
<1> HIDE DEF d
<1> QED BY Zenon, <1>1, <1>3, <1>4 DEF d, y, x, Extended, SameButAnchors

\* ConnectBlock of a block that is not the genesis block: the coins, the
\* nullifiers and the tree move on by one block.
LEMMA ConnectBlockApplies ==
    ASSUME NEW b \in Blocks, ~IsGenesis(b), NEW base \in ViewState,
           base.coins = CC[Parent[b]], Connectable(b, base),
           base.anchor \in base.anchors, base.anchor \o Commitments(b) \in Anchors
    PROVE  LET d == ConnectBlock(b, base)
               w == AsView(d, base)
               rt == base.anchor \o Commitments(b)
           IN  /\ d \in Cache
               /\ Sound(d, base)
               /\ w.coins = CC[b]
               /\ w.nullifiers = base.nullifiers \cup NullifiersOf(b)
               /\ w.anchors = base.anchors \cup {rt}
               /\ w.anchor = rt
               /\ d.hashBlock = b
               /\ d.hashAnchor = rt
<1> DEFINE n == Len(Txs[b])
           coins == base.coins
           v == GetBestAnchor(GetBestBlock(EmptyCache, base), base)
           w == GetAnchorAt(v, base, v.hashAnchor)
           f == [o \in Outpoints |-> UpdateLoop(NoEntry, coins[o], b, o)[n]]
           x1 == WithCoins(w, f)
           rt == base.anchor \o Commitments(b)
           d == ConnectBlock(b, base)
<1>1. /\ coins \in [Outpoints -> Plain]
      /\ CC[b] = CoinsAfter(coins, b)[n]
      /\ CC[b] \in [Outpoints -> Plain]
  <2>1. Parent[b] \in Blocks
    BY ParentOf DEF IsGenesis
  <2> QED BY <2>1, ChainCoinsAre DEF Nodes
<1>2. CoinsFit(coins, b)
  BY <1>1, ConnectableFits
<1>3. /\ v.hashAnchor = base.anchor
      /\ w \in Cache /\ Sound(w, base) /\ AsView(w, base) = base
      /\ \A o \in Outpoints : w.coins[o] = NoEntry
  BY Zenon, ConnectReads
<1>4. d = SetBestBlock(PushAnchor(SetNullifiers([w EXCEPT !.coins = Updated(w, base, b, n)], b, TRUE),
                                  base, v.hashAnchor \o Commitments(b)), b)
  BY Zenon DEF ConnectBlock
<1> HIDE DEF v, w, d
<1>5. [w EXCEPT !.coins = Updated(w, base, b, n)] = x1
  <2>1. Updated(w, base, b, n) = [o \in Outpoints |-> UpdateLoop(w.coins[o], coins[o], b, o)[n]]
    BY DEF Updated, UpdateLoop
  <2>2. \A o \in Outpoints : UpdateLoop(w.coins[o], coins[o], b, o)[n] = f[o]
    BY Zenon, <1>3
  <2> HIDE DEF f
  <2>3. Updated(w, base, b, n) = [o \in Outpoints |-> f[o]]
    BY <2>1, <2>2
  <2> QED BY <2>3 DEF WithCoins
<1>6. \A o \in Outpoints : /\ f[o] \in Entries(base.coins[o])
                           /\ EntryCoin(f[o], base.coins[o]) = CC[b][o]
  BY Zenon, <1>1, <1>2, UpdatedEntry
<1> HIDE DEF f
<1>7. /\ x1 \in Cache
      /\ Sound(x1, base)
      /\ \A o \in Outpoints : AsView(x1, base).coins[o] = EntryCoin(f[o], base.coins[o])
      /\ AsView(x1, base).anchors = base.anchors
      /\ AsView(x1, base).nullifiers = base.nullifiers
      /\ AsView(x1, base).anchor = base.anchor
  <2>1. Replaced(x1, w, base, f)
    BY Zenon, <1>3, <1>6, CoinsReplaced
  <2> HIDE DEF x1
  <2> QED BY Zenon, <1>3, <2>1 DEF Replaced
<1> HIDE DEF x1
<1>8. AsView(x1, base).coins = CC[b]
  <2>1. AsView(x1, base) \in ViewState
    BY <1>7, AsViewType
  <2>2. AsView(x1, base).coins \in [Outpoints -> CoinValues \cup {Spent}]
    BY <2>1 DEF ViewState
  <2> QED BY <1>1, <1>6, <1>7, <2>2
<1>9. Extended(d, x1, base, b, rt)
  <2> DEFINE yes == TRUE
  <2>1. /\ yes \in BOOLEAN /\ yes
        /\ d = SetBestBlock(PushAnchor(SetNullifiers(x1, b, yes), base, rt), b)
    BY Zenon, <1>3, <1>4, <1>5
  <2>2. rt \in Anchors /\ AsView(x1, base).anchor \in AsView(x1, base).anchors
    BY Zenon, <1>7
  <2> HIDE DEF yes, rt
  <2>3. Extended(SetBestBlock(PushAnchor(SetNullifiers(x1, b, yes), base, rt), b), x1, base, b, rt)
    BY Zenon, <1>7, <2>1, <2>2, ConnectEnds
  <2> QED BY Zenon, <2>1, <2>3
<1> QED BY Zenon, <1>7, <1>8, <1>9 DEF d, Extended

\* ConnectBlock of the genesis block sets the best block and nothing else.
LEMMA ConnectGenesis ==
    ASSUME NEW b \in Blocks, IsGenesis(b), NEW base \in ViewState
    PROVE  LET d == ConnectBlock(b, base)
               w == AsView(d, base)
           IN  /\ d \in Cache
               /\ Sound(d, base)
               /\ w.coins = base.coins
               /\ w.nullifiers = base.nullifiers
               /\ w.anchors = base.anchors
               /\ d.hashBlock = b
               /\ d.hashAnchor = Null
<1> DEFINE v == GetBestBlock(EmptyCache, base)
<1>1. /\ v \in Cache
      /\ Sound(v, base)
      /\ AsView(v, base) = base
      /\ v.hashAnchor = EmptyCache.hashAnchor
  BY EmptyTypes, EmptyCacheView, GetBestInvisible
<1>2. EmptyCache.hashAnchor = Null
  BY DEF EmptyCache
<1>3. ConnectBlock(b, base) = SetBestBlock(v, b)
  BY DEF ConnectBlock
<1> HIDE DEF v
<1> QED BY <1>1, <1>2, <1>3, SetBestBlockSets

\* An index that holds the parent of each of its blocks holds their ancestors.
LEMMA AncestorsKnown ==
    ASSUME NEW index, \A b \in Blocks : index[b] # NoEntry => Known(index, Parent[b]),
           NEW b \in Blocks, Known(index, b)
    PROVE  \A a \in Ancestors[b] : a \in Blocks /\ index[a] # NoEntry
<1> DEFINE S == {x \in Nodes : x # Null /\ index[x] # NoEntry =>
                                  \A a \in Ancestors[x] : index[a] # NoEntry}
<1>1. Null \in S
  BY DEF Nodes
<1>2. ASSUME NEW x \in Blocks, Parent[x] \in S PROVE x \in S
  <2>1. Ancestors[x] = Ancestors[Parent[x]] \cup {x}
    BY AncestorSteps
  <2>2. Parent[x] = Null => Ancestors[Parent[x]] = {}
    BY AncestorsAre
  <2> QED BY <1>2, <2>1, <2>2 DEF Known, Nodes
<1>3. \A x \in Nodes : x \in S
  <2> HIDE DEF S
  <2> QED BY <1>1, <1>2, TreeInduction
<1>4. b \in Nodes /\ b # Null
  BY CoinsAssumption DEF Nodes
<1> QED BY <1>3, <1>4, AncestorSteps DEF Known

\* The undo data of a block that ConnectBlock accepts are right.
LEMMA UndoOfRight ==
    ASSUME NEW b \in Blocks, NEW base \in ViewState,
           base.coins = CC[Parent[b]], Connectable(b, base)
    PROVE  UndoOf(b, base) \in BlockUndo /\ UndoRight(b, UndoOf(b, base))
<1> DEFINE coins == base.coins
           u == UndoOf(b, base)
<1>1. coins \in [Outpoints -> Plain]
  BY ParentOf, ChainCoinsAre
<1>2. ASSUME NEW o \in Outpoints PROVE Prevout(b, coins[o], o) \in AllCoins
  <2> DEFINE makers == {i \in 1 .. Len(Txs[b]) : o \in DOMAIN Txs[b][i].vout}
             m == CHOOSE i \in makers : TRUE
  <2>1. coins[o] \in AllCoins
    BY BaseCoins
  <2>2. CASE makers # {}
    <3>1. m \in makers
      BY <2>2
    <3>2. Txs[b][m].vout[o] \in CoinValues
      <4> HIDE DEF m
      <4> QED BY <3>1, TxsOf
    <3> HIDE DEF coins
    <3> QED BY <2>1, <3>2 DEF Prevout, AllCoins
  <2>3. CASE makers = {}
    BY <2>1, <2>3 DEF Prevout
  <2> QED BY <2>2, <2>3
<1>3. base.anchor \in Anchors
  BY DEF ViewState
<1>4. u \in BlockUndo
  BY <1>2, <1>3 DEF UndoOf, BlockUndo, AllCoins
<1>5. CoinsFit(coins, b)
  BY <1>1, ConnectableFits
<1>6. u.vprevout = [o \in Outpoints |-> Prevout(b, CC[Parent[b]][o], o)]
  BY DEF UndoOf
<1> QED BY <1>4, <1>5, <1>6 DEF UndoRight

\* CCoinsViewDB::BatchWrite as a whole stores what the cache shows.
LEMMA DBCoinsWritten ==
    ASSUME NEW c \in Cache, NEW base \in ViewState, Sound(c, base)
    PROVE  /\ DBBatchWrite(base, c) \in ViewState
           /\ DBBatchWrite(base, c).coins = AsView(c, base).coins
           /\ DBBatchWrite(base, c).block = c.hashBlock
<1> DEFINE d == DBBatchWrite(base, c)
<1>1. \A o \in Outpoints :
         (IF IsDirty(c.coins[o]) THEN c.coins[o].coin ELSE base.coins[o]) = CoinAt(c, base, o)
  BY Zenon DEF IsDirty, CoinAt, EntryCoin, Sound, CoinFlagsSound
<1>2. AsView(c, base).coins = [o \in Outpoints |-> CoinAt(c, base, o)]
  BY DEF AsView
<1>3. d.coins = AsView(c, base).coins
  BY <1>1, <1>2 DEF DBBatchWrite
<1>4. AsView(c, base).coins \in [Outpoints -> CoinValues \cup {Spent}]
  BY AsViewType DEF ViewState
<1>5. d.anchors \in SUBSET Anchors /\ d.nullifiers \in SUBSET Nullifiers
  BY CoinsAssumption DEF DBBatchWrite
<1>6. d.block = c.hashBlock /\ c.hashBlock \in Blocks \cup {Null}
  BY DEF DBBatchWrite, Cache
<1>7. d.anchor \in Anchors
  BY DEF DBBatchWrite, Cache, ViewState
<1>8. d = [coins |-> d.coins, anchors |-> d.anchors, nullifiers |-> d.nullifiers,
           block |-> d.block, anchor |-> d.anchor]
  BY Zenon DEF DBBatchWrite
<1> HIDE DEF d
<1>9. d \in ViewState
  BY <1>3, <1>4, <1>5, <1>6, <1>7, <1>8 DEF ViewState
<1> QED BY <1>3, <1>6, <1>9 DEF d

\* A cache without entries over a database shows the database.
LEMMA BareCache ==
    ASSUME NEW d \in ViewState, NEW c \in Cache,
           c.coins = EmptyCache.coins, c.anchors = EmptyCache.anchors,
           c.nullifiers = EmptyCache.nullifiers
    PROVE  /\ Sound(c, d)
           /\ AsView(c, d).coins = d.coins
           /\ AsView(c, d).anchors = d.anchors
           /\ AsView(c, d).nullifiers = d.nullifiers
<1>1. /\ \A o \in Outpoints : c.coins[o] = NoEntry
      /\ \A rt \in Anchors : c.anchors[rt] = NoEntry
      /\ \A nf \in Nullifiers : c.nullifiers[nf] = NoEntry
  BY DEF EmptyCache
<1>2. /\ Sound(c, d)
      /\ \A o \in Outpoints : CoinAt(c, d, o) = d.coins[o]
      /\ \A rt \in Anchors : HasAnchor(c, d, rt) <=> rt \in d.anchors
      /\ \A nf \in Nullifiers : HasNullifier(c, d, nf) <=> nf \in d.nullifiers
  BY Zenon, <1>1, NoEntries
<1>3. AsView(c, d).coins = [o \in Outpoints |-> CoinAt(c, d, o)]
  BY DEF AsView
<1>4. d.coins = [o \in Outpoints |-> d.coins[o]]
  BY DEF ViewState
<1>5. AsView(c, d).anchors = d.anchors
  <2>1. AsView(c, d).anchors = {rt \in Anchors : HasAnchor(c, d, rt)} /\ d.anchors \subseteq Anchors
    BY Zenon DEF AsView, ViewState
  <2> QED BY <1>2, <2>1
<1>6. AsView(c, d).nullifiers = d.nullifiers
  <2>1. /\ AsView(c, d).nullifiers = {nf \in Nullifiers : HasNullifier(c, d, nf)}
        /\ d.nullifiers \subseteq Nullifiers
    BY DEF AsView, ViewState
  <2> QED BY Zenon, <1>2, <2>1
<1> QED BY <1>2, <1>3, <1>4, <1>5, <1>6

\* The pcoinsTip that LoadChainTip begins with shows the database.
LEMMA LoadedShows ==
    ASSUME NEW d \in ViewState
    PROVE  /\ Loaded(d) \in Cache
           /\ Sound(Loaded(d), d)
           /\ AsView(Loaded(d), d) = d
<1>1. EmptyCache \in Cache /\ Sound(EmptyCache, d) /\ AsView(EmptyCache, d) = d
  BY EmptyTypes, EmptyCacheView
<1> DEFINE e == GetBestBlock(EmptyCache, d)
<1>2. e \in Cache /\ Sound(e, d) /\ AsView(e, d) = d
  BY <1>1, GetBestInvisible
<1>3. Loaded(d) = EmptyCache \/ Loaded(d) = GetBestAnchor(e, d)
  BY DEF Loaded
<1> HIDE DEF e
<1>4. /\ GetBestAnchor(e, d) \in Cache
      /\ Sound(GetBestAnchor(e, d), d)
      /\ AsView(GetBestAnchor(e, d), d) = d
  BY <1>2, GetBestInvisible
<1> QED BY <1>1, <1>3, <1>4

\* What Flush leaves of a cache shows the database that it was written to.
LEMMA FlushedShows ==
    ASSUME NEW d \in ViewState, NEW c \in Cache
    PROVE  /\ Flushed(c) \in Cache
           /\ Sound(Flushed(c), d)
           /\ AsView(Flushed(c), d).coins = d.coins
           /\ AsView(Flushed(c), d).anchors = d.anchors
           /\ AsView(Flushed(c), d).nullifiers = d.nullifiers
           /\ Flushed(c).hashBlock = c.hashBlock
           /\ Flushed(c).hashAnchor = c.hashAnchor
<1>1. /\ Flushed(c) \in Cache
      /\ Flushed(c).coins = EmptyCache.coins
      /\ Flushed(c).anchors = EmptyCache.anchors
      /\ Flushed(c).nullifiers = EmptyCache.nullifiers
      /\ Flushed(c).hashBlock = c.hashBlock
      /\ Flushed(c).hashAnchor = c.hashAnchor
  <2>1. EmptyCache \in Cache
    BY EmptyTypes
  <2> QED BY Zenon, <2>1 DEF Flushed, Cache
<1> QED BY <1>1, BareCache

\* One batch of BatchWrite: what the cache shows over the database stays the
\* same, and so do the coins that the batch does not touch.
LEMMA OneBatch ==
    ASSUME NEW d \in ViewState, NEW c \in Cache, Sound(c, d), NEW os \in SUBSET Outpoints,
           \A o \in os : c.coins[o] # NoEntry
    PROVE  LET e == Stored(d, c, os)
               r == Rest(c, os)
           IN  /\ e \in ViewState
               /\ r \in Cache
               /\ Sound(r, e)
               /\ AsView(r, e).coins = AsView(c, d).coins
               /\ AsView(r, e).anchors = AsView(c, d).anchors
               /\ AsView(r, e).nullifiers = AsView(c, d).nullifiers
               /\ \A o \in Outpoints : e.coins[o] \in {d.coins[o], AsView(c, d).coins[o]}
               /\ e.block = Null
               /\ e.anchors = d.anchors
               /\ e.nullifiers = d.nullifiers
               /\ e.anchor = d.anchor
               /\ r.anchors = c.anchors
               /\ r.nullifiers = c.nullifiers
               /\ r.hashBlock = c.hashBlock
               /\ r.hashAnchor = c.hashAnchor
<1> DEFINE e == Stored(d, c, os)
           r == Rest(c, os)
           f == [o \in Outpoints |->
                    IF o \in os /\ IsDirty(c.coins[o]) THEN c.coins[o].coin ELSE d.coins[o]]
           g == [o \in Outpoints |-> IF o \in os THEN NoEntry ELSE c.coins[o]]
<1>1. /\ e.coins = f
      /\ e.block = Null
      /\ e.anchors = d.anchors
      /\ e.nullifiers = d.nullifiers
      /\ e.anchor = d.anchor
  BY DEF Stored, ViewState
<1>2. /\ r.coins = g
      /\ r.anchors = c.anchors
      /\ r.nullifiers = c.nullifiers
      /\ r.hashBlock = c.hashBlock
      /\ r.hashAnchor = c.hashAnchor
  BY DEF Rest, Cache
<1>3. \A o \in Outpoints : f[o] \in CoinValues \cup {Spent}
  BY DEF Cache, ViewState, CoinEntries, IsDirty
<1>4. \A o \in Outpoints : g[o] \in CoinEntries \cup {NoEntry}
  BY DEF Cache
<1>5. e \in ViewState
  BY Zenon, <1>3 DEF Stored, ViewState
<1>6. r \in Cache
  BY Zenon, <1>4 DEF Rest, Cache
<1>7. ASSUME NEW o \in Outpoints
      PROVE  /\ f[o] = d.coins[o] \/ f[o] = CoinAt(c, d, o)
             /\ CoinAt(r, e, o) = CoinAt(c, d, o)
             /\ g[o] # NoEntry => f[o] = d.coins[o] /\ g[o] = c.coins[o]
  <2>1. CASE o \in os
    <3>1. c.coins[o] # NoEntry /\ g[o] = NoEntry
      BY <2>1
    <3>2. f[o] = c.coins[o].coin
      BY <2>1, <3>1 DEF IsDirty, Sound, CoinFlagsSound
    <3> HIDE DEF f, g, e, r
    <3> QED BY <1>1, <1>2, <3>1, <3>2 DEF CoinAt, EntryCoin
  <2>2. CASE o \notin os
    <3>1. g[o] = c.coins[o] /\ f[o] = d.coins[o]
      BY <2>2
    <3> HIDE DEF f, g, e, r
    <3> QED BY <1>1, <1>2, <3>1 DEF CoinAt, EntryCoin
  <2> QED BY Zenon, <2>1, <2>2
<1> HIDE DEF e, r, f, g
<1>8. CoinFlagsSound(r, e)
  BY <1>1, <1>2, <1>7 DEF Sound, CoinFlagsSound
<1>9. MarkFlagsSound(r, e)
  BY <1>1, <1>2 DEF Sound, MarkFlagsSound
<1>10. /\ AsView(r, e).coins = AsView(c, d).coins
       /\ \A o \in Outpoints : AsView(c, d).coins[o] = CoinAt(c, d, o)
  BY Zenon, <1>7 DEF AsView
<1>11. /\ AsView(r, e).anchors = AsView(c, d).anchors
       /\ AsView(r, e).nullifiers = AsView(c, d).nullifiers
  BY Zenon, <1>1, <1>2 DEF AsView, HasAnchor, HasNullifier
<1>12. \A o \in Outpoints : e.coins[o] \in {d.coins[o], AsView(c, d).coins[o]}
  BY Zenon, <1>1, <1>7, <1>10
<1> QED BY Zenon, <1>1, <1>2, <1>5, <1>6, <1>8, <1>9, <1>10, <1>11, <1>12 DEF e, r, Sound

-----------------------------------------------------------------------------
(* The theorems. *)

\* The operators do what the steps need of them.
LEMMA FactsHold == Facts
<1>1. AsViewFact
  BY AsViewType DEF AsViewFact
<1>2. EmptyFact
  BY EmptyTypes DEF EmptyFact
<1>3. EmptyCacheFact
  BY EmptyCacheView DEF EmptyCacheFact
<1>4. GetBestFact
  BY GetBestInvisible DEF GetBestFact
<1>5. SetBestBlockFact
  BY SetBestBlockSets DEF SetBestBlockFact
<1>6. BatchWriteFact
  BY BatchWriteMerges DEF BatchWriteFact
<1>7. DBBatchWriteFact
  BY DBBatchWriteWrites DEF DBBatchWriteFact
<1>8. ParentFact
  BY ParentOf DEF ParentFact
<1>9. AncestorsFact
  BY AncestorsAre DEF AncestorsFact
<1>10. AncestorStepsFact
  BY AncestorSteps DEF AncestorStepsFact
<1>11. AncestorLineFact
  BY AncestorLine DEF AncestorLineFact
<1>12. GetAncestorFact
  BY GetAncestorIs DEF GetAncestorFact
<1>13. BranchesFact
  BY BranchesMeet DEF BranchesFact
<1>14. AncestorsKnownFact
  BY AncestorsKnown DEF AncestorsKnownFact
<1>15. ChainCoinsFact
  BY ChainCoinsAre DEF ChainCoinsFact
<1>16. RootsFact
  BY RootsJoin DEF RootsFact
<1>17. CommitmentsFact
  BY CommitmentsAre DEF CommitmentsFact
<1>18. ChainRootFact
  BY ChainRootIs DEF ChainRootFact
<1>19. ChainGrowsFact
  BY ChainGrows DEF ChainGrowsFact
<1>20. ConnectBlockFact
  BY Zenon, ConnectBlockApplies DEF ConnectBlockFact
<1>21. ConnectGenesisFact
  BY ConnectGenesis DEF ConnectGenesisFact
<1>22. UndoOfFact
  BY UndoOfRight DEF UndoOfFact
<1>23. DisconnectBlockFact
  BY DisconnectBlockUndoes DEF DisconnectBlockFact
<1>24. RollforwardBlockFact
  BY RollforwardBlockApplies DEF RollforwardBlockFact
<1>25. DBCoinsFact
  BY DBCoinsWritten DEF DBCoinsFact
<1>26. LoadedFact
  BY LoadedShows DEF LoadedFact
<1>27. FlushedFact
  BY FlushedShows DEF FlushedFact
<1>28. OneBatchFact
  BY OneBatch DEF OneBatchFact
<1> QED BY <1>1, <1>2, <1>3, <1>4, <1>5, <1>6, <1>7, <1>8, <1>9, <1>10, <1>11, <1>12, <1>13, <1>14, <1>15, <1>16, <1>17, <1>18, <1>19, <1>20, <1>21, <1>22, <1>23, <1>24, <1>25, <1>26, <1>27, <1>28 DEF Facts

\* The inductive invariant of the flush, the crashes and the replay.
THEOREM Inductive == Spec => []IInv
BY FactsHold, InductiveGiven

\* Whatever crashes interrupt FlushStateToDisk, ReplayBlocks or a replay of a
\* replay, the database has the coins of its best block's chain as soon as it
\* names one, and so has pcoinsTip while the node runs.
THEOREM CoinsAlwaysMatch == Spec => []CoinsMatchChain
BY FactsHold, CoinsAlwaysMatchGiven

\* The two heads of an interrupted flush stay until a replay has completed it
\* to the first of them: assert(old_heads[0] == hashBlock) of BatchWrite.
THEOREM FlushKeepsHeads == Spec => HeadsKept
BY FactsHold, FlushKeepsHeadsGiven

\* As long as ReplayBlocks has rolled no joinsplit forward, the anchors, the
\* nullifiers and the tree of the database are those of its old tip while a
\* flush is under way, and those of the block where a cache stands otherwise.
THEOREM ShieldInductive == Spec => []SInv
BY FactsHold, ShieldInductiveGiven

\* The chain state names the anchors, the nullifiers and the tree of its best
\* block, whatever crashes there were, unless ReplayBlocks rolled a block with
\* joinsplits forward: RollforwardBlock leaves them out.
THEOREM ShieldedAlwaysMatches == Spec => []ShieldedUnlessRolled
BY FactsHold, ShieldedAlwaysMatchesGiven

\* Whatever the crashes, LoadChainTip finds the best block in the index, and
\* ReplayBlocks both heads and each block on its way with its undo data: the
\* index is written before the coins.
THEOREM StartFindsBlocks == Spec => []BlocksFound
BY FactsHold, StartFindsBlocksGiven

\* Until ReplayBlocks has rolled joinsplits forward a node that stopped can
\* start again: PopAnchor's assertion holds at each block of the old branch.
THEOREM RecoverableUnlessRolled == Spec => [](rolled = {} => Recoverable)
BY FactsHold, RecoverableUnlessRolledGiven

\* Until then a running node has the commitment tree of its tip: the asserts
\* of ConnectTip, ConnectBlock, DisconnectTip and PopAnchor on it hold.
THEOREM NoAbortUnlessRolled == Spec => [](rolled = {} /\ mode = "running" => TreeKnown)
BY FactsHold, NoAbortUnlessRolledGiven
=============================================================================
