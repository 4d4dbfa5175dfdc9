------------------------ MODULE CoinsViewCacheProofs ------------------------
(***************************************************************************)
(* Proofs about the stack of coins views, for every set of outpoints,      *)
(* coins, nullifiers, anchors and blocks.  The lemmas of CoinsProofs about *)
(* the methods are put together for the actions, and these for the         *)
(* theorems.                                                               *)
(***************************************************************************)
EXTENDS CoinsViewCache, CoinsProofs

-----------------------------------------------------------------------------
(* What the methods do that only a block being connected or disconnected   *)
(* calls, beside those of CoinsProofs.                                     *)

\* View s has the coins cs and agrees with t otherwise; and so on.
SameButCoins(s, t, cs) ==
    /\ s.coins = cs /\ s.anchors = t.anchors /\ s.nullifiers = t.nullifiers
    /\ s.block = t.block /\ s.anchor = t.anchor
SameButNullifiers(s, t, nfs) ==
    /\ s.coins = t.coins /\ s.anchors = t.anchors /\ s.nullifiers = nfs
    /\ s.block = t.block /\ s.anchor = t.anchor

\* An entry that keeps the promise of its flags may take the place of any
\* other: the view changes at its outpoint alone.
LEMMA EntrySet ==
    ASSUME NEW c \in Cache, NEW base \in ViewState, NEW o \in Outpoints,
           NEW e \in CoinEntries \cup {NoEntry}, Sound(c, base),
           e # NoEntry =>
               /\ DIRTY \notin e.flags => e.coin = base.coins[o]
               /\ FRESH \in e.flags => /\ DIRTY \in e.flags
                                       /\ e.coin # Spent
                                       /\ base.coins[o] = Spent
    PROVE  LET d == [c EXCEPT !.coins[o] = e]
           IN  /\ d \in Cache
               /\ SameButCoins(AsView(d, base), AsView(c, base),
                      [AsView(c, base).coins EXCEPT ![o] = EntryCoin(e, base.coins[o])])
               /\ Sound(d, base)
               /\ d.hashBlock = c.hashBlock
               /\ d.hashAnchor = c.hashAnchor
<1> DEFINE d == [c EXCEPT !.coins[o] = e]
<1>1. d \in Cache
  BY DEF Cache
<1>2. /\ d.coins = [c.coins EXCEPT ![o] = e]
      /\ d.anchors = c.anchors /\ d.nullifiers = c.nullifiers
      /\ d.hashBlock = c.hashBlock /\ d.hashAnchor = c.hashAnchor
  BY DEF Cache
<1>3. c.coins \in [Outpoints -> CoinEntries \cup {NoEntry}]
  BY DEF Cache
<1> HIDE DEF d
<1>4. \A p \in Outpoints :
         CoinAt(d, base, p) = IF p = o THEN EntryCoin(e, base.coins[o]) ELSE CoinAt(c, base, p)
  BY <1>2, <1>3 DEF CoinAt
<1>5. SameButCoins(AsView(d, base), AsView(c, base),
                   [AsView(c, base).coins EXCEPT ![o] = EntryCoin(e, base.coins[o])])
  BY Zenon, <1>2, <1>4 DEF SameButCoins, AsView, HasAnchor, HasNullifier, BestBlock, BestAnchor
<1>6. CoinFlagsSound(d, base)
  BY <1>2, <1>3 DEF CoinFlagsSound, Sound
<1>7. MarkFlagsSound(d, base)
  BY <1>2 DEF MarkFlagsSound, Sound
<1> QED
  BY <1>1, <1>2, <1>5, <1>6, <1>7 DEF d, Sound

\* FetchCoin (CCoinsViewCache::FetchCoin) is invisible.
LEMMA FetchCoinInvisible ==
    ASSUME NEW c \in Cache, NEW base \in ViewState, NEW o \in Outpoints
    PROVE  /\ FetchCoin(c, base, o) \in Cache
           /\ AsView(FetchCoin(c, base, o), base) = AsView(c, base)
           /\ Sound(c, base) => Sound(FetchCoin(c, base, o), base)
           /\ FetchCoin(c, base, o).hashBlock = c.hashBlock
           /\ FetchCoin(c, base, o).hashAnchor = c.hashAnchor
<1> DEFINE d == FetchCoin(c, base, o)
<1>1. d \in Cache
  BY DEF FetchCoin, FetchEntry, Cache, ViewState, CoinEntries, Flags
<1>2. /\ d.anchors = c.anchors /\ d.nullifiers = c.nullifiers
      /\ d.hashBlock = c.hashBlock /\ d.hashAnchor = c.hashAnchor
  BY DEF FetchCoin, Cache
<1>3. \A p \in Outpoints : CoinAt(d, base, p) = CoinAt(c, base, p)
  BY CoinsAssumption DEF FetchCoin, FetchEntry, CoinAt, EntryCoin, Cache, CoinEntries, ViewState, Flags
<1>4. AsView(d, base) = AsView(c, base)
  BY Zenon, <1>2, <1>3 DEF AsView, HasAnchor, HasNullifier, BestBlock, BestAnchor
<1>5. CoinFlagsSound(c, base) => CoinFlagsSound(d, base)
  BY CoinsAssumption DEF CoinFlagsSound, FetchCoin, FetchEntry, Cache, CoinEntries, ViewState, Flags
<1>6. MarkFlagsSound(c, base) => MarkFlagsSound(d, base)
  BY <1>2 DEF MarkFlagsSound
<1> QED
  BY <1>1, <1>2, <1>4, <1>5, <1>6 DEF Sound

\* GetNullifier (CCoinsViewCache::GetNullifier) is invisible.
LEMMA GetNullifierInvisible ==
    ASSUME NEW c \in Cache, NEW base \in ViewState, NEW nf \in Nullifiers
    PROVE  /\ GetNullifier(c, base, nf) \in Cache
           /\ AsView(GetNullifier(c, base, nf), base) = AsView(c, base)
           /\ Sound(c, base) => Sound(GetNullifier(c, base, nf), base)
           /\ GetNullifier(c, base, nf).hashBlock = c.hashBlock
           /\ GetNullifier(c, base, nf).hashAnchor = c.hashAnchor
<1> DEFINE d == GetNullifier(c, base, nf)
<1>1. d \in Cache
  <2> DEFINE e == [entered |-> nf \in base.nullifiers, flags |-> {}]
  <2>1. e \in MarkEntries
    <3>1. (nf \in base.nullifiers) \in BOOLEAN
      OBVIOUS
    <3> QED
      BY <3>1 DEF MarkEntries
  <2>2. d = IF c.nullifiers[nf] = NoEntry THEN [c EXCEPT !.nullifiers[nf] = e] ELSE c
    BY DEF GetNullifier
  <2> HIDE DEF e
  <2> QED
    BY <2>1, <2>2 DEF Cache
<1>2. /\ d.coins = c.coins /\ d.anchors = c.anchors
      /\ d.hashBlock = c.hashBlock /\ d.hashAnchor = c.hashAnchor
  BY DEF GetNullifier, Cache
<1>3. \A n \in Nullifiers : HasNullifier(d, base, n) <=> HasNullifier(c, base, n)
  BY Zenon, CoinsAssumption DEF GetNullifier, HasNullifier, Cache, MarkEntries
<1>4. AsView(d, base) = AsView(c, base)
  BY Zenon, <1>2, <1>3 DEF AsView, CoinAt, EntryCoin, HasAnchor, BestBlock, BestAnchor
<1>5. CoinFlagsSound(c, base) => CoinFlagsSound(d, base)
  BY <1>2 DEF CoinFlagsSound
<1>6. MarkFlagsSound(c, base) => MarkFlagsSound(d, base)
  <2>1. ASSUME NEW n \in Nullifiers, d.nullifiers[n] # c.nullifiers[n]
        PROVE  d.nullifiers[n].entered = (n \in base.nullifiers)
    BY <2>1 DEF GetNullifier, Cache
  <2> QED
    BY Zenon, <1>2, <2>1 DEF MarkFlagsSound
<1> QED
  BY <1>1, <1>2, <1>4, <1>5, <1>6 DEF Sound

\* An entry without flags can go: Uncache is invisible.
LEMMA UncacheInvisible ==
    ASSUME NEW c \in Cache, NEW base \in ViewState, NEW o \in Outpoints,
           Sound(c, base)
    PROVE  /\ Uncache(c, o) \in Cache
           /\ AsView(Uncache(c, o), base) = AsView(c, base)
           /\ Sound(Uncache(c, o), base)
<1> DEFINE d == Uncache(c, o)
<1>1. d \in Cache
  BY DEF Uncache, Cache
<1>2. /\ d.anchors = c.anchors /\ d.nullifiers = c.nullifiers
      /\ d.hashBlock = c.hashBlock /\ d.hashAnchor = c.hashAnchor
  BY DEF Uncache, Cache
<1>3. \A p \in Outpoints : CoinAt(d, base, p) = CoinAt(c, base, p)
  BY CoinsAssumption DEF Uncache, CoinAt, EntryCoin, Cache, CoinEntries, Sound, CoinFlagsSound
<1>4. AsView(d, base) = AsView(c, base)
  BY Zenon, <1>2, <1>3 DEF AsView, HasAnchor, HasNullifier, BestBlock, BestAnchor
<1>5. CoinFlagsSound(d, base)
  BY DEF CoinFlagsSound, Uncache, Cache, Sound
<1>6. MarkFlagsSound(d, base)
  BY <1>2 DEF MarkFlagsSound, Sound
<1> QED
  BY <1>1, <1>4, <1>5, <1>6 DEF Sound

\* AddCoin by a caller that tells the truth about the old coin.
LEMMA AddCoinAdds ==
    ASSUME NEW c \in Cache, NEW base \in ViewState, NEW o \in Outpoints,
           NEW coin \in CoinValues, NEW po \in BOOLEAN,
           Sound(c, base), po \/ AsView(c, base).coins[o] = Spent
    PROVE  /\ AddCoin(c, o, coin, po) \in Cache
           /\ SameButCoins(AsView(AddCoin(c, o, coin, po), base), AsView(c, base),
                           IF coin \in Unspendable THEN AsView(c, base).coins
                           ELSE [AsView(c, base).coins EXCEPT ![o] = coin])
           /\ Sound(AddCoin(c, o, coin, po), base)
           /\ AddCoin(c, o, coin, po).hashBlock = c.hashBlock
           /\ AddCoin(c, o, coin, po).hashAnchor = c.hashAnchor
<1> DEFINE old == IF c.coins[o] = NoEntry THEN [coin |-> Spent, flags |-> {}]
                                          ELSE c.coins[o]
           e == AddEntry(c.coins[o], coin, po)
           new == IF coin \in Unspendable THEN AsView(c, base).coins
                  ELSE [AsView(c, base).coins EXCEPT ![o] = coin]
<1>1. c.coins[o] \in CoinEntries \cup {NoEntry} /\ old \in CoinEntries
  BY DEF Cache, CoinEntries, Flags
<1>2. AsView(c, base).coins[o] = EntryCoin(c.coins[o], base.coins[o])
  BY DEF AsView, CoinAt
<1>3. CASE coin \in Unspendable
  <2>1. e = c.coins[o]
    BY <1>3 DEF AddEntry
  <2>2. AddCoin(c, o, coin, po) = c
    BY <2>1 DEF AddCoin, Cache
  <2> QED
    BY <1>3, <2>2 DEF SameButCoins
<1>4. CASE coin \notin Unspendable
  <2>1. /\ e = [coin |-> coin,
                flags |-> old.flags \cup {DIRTY}
                          \cup (IF ~po /\ DIRTY \notin old.flags THEN {FRESH} ELSE {})]
        /\ e \in CoinEntries /\ DIRTY \in e.flags /\ e.coin = coin /\ e # NoEntry
    BY <1>1, <1>4, CoinsAssumption DEF AddEntry, CoinEntries, Flags
  <2>2. FRESH \in e.flags => base.coins[o] = Spent
    <3>1. CASE FRESH \in old.flags
      BY <3>1 DEF Sound, CoinFlagsSound
    <3>2. CASE ~po /\ DIRTY \notin old.flags
      BY <3>2, <1>2 DEF EntryCoin, Sound, CoinFlagsSound
    <3> HIDE DEF e, old
    <3>3. FRESH \in e.flags => FRESH \in old.flags \/ (~po /\ DIRTY \notin old.flags)
      BY <2>1 DEF DIRTY, FRESH
    <3> QED
      BY <3>1, <3>2, <3>3
  <2>3. EntryCoin(e, base.coins[o]) = coin /\ coin # Spent
    BY <2>1, CoinsAssumption DEF EntryCoin
  <2> DEFINE d == [c EXCEPT !.coins[o] = e]
  <2>4. AddCoin(c, o, coin, po) = d
    BY DEF AddCoin
  <2> HIDE DEF e, old
  <2>5. /\ d \in Cache
        /\ SameButCoins(AsView(d, base), AsView(c, base),
               [AsView(c, base).coins EXCEPT ![o] = EntryCoin(e, base.coins[o])])
        /\ Sound(d, base)
        /\ d.hashBlock = c.hashBlock
        /\ d.hashAnchor = c.hashAnchor
    <3>1. /\ e \in CoinEntries \cup {NoEntry}
          /\ e # NoEntry => /\ DIRTY \notin e.flags => e.coin = base.coins[o]
                            /\ FRESH \in e.flags => /\ DIRTY \in e.flags
                                                    /\ e.coin # Spent
                                                    /\ base.coins[o] = Spent
      BY <2>1, <2>2, <2>3
    <3> QED
      BY ONLY <3>1, EntrySet, c \in Cache, base \in ViewState, o \in Outpoints, Sound(c, base)
  <2> HIDE DEF d
  <2> QED
    BY <1>4, <2>3, <2>4, <2>5
<1> QED
  BY <1>3, <1>4

\* SpendCoin leaves no unspent coin behind, whether it erases or clears.
LEMMA SpendCoinSpends ==
    ASSUME NEW c \in Cache, NEW base \in ViewState, NEW o \in Outpoints,
           Sound(c, base)
    PROVE  /\ SpendCoin(c, base, o) \in Cache
           /\ SameButCoins(AsView(SpendCoin(c, base, o), base), AsView(c, base),
                           [AsView(c, base).coins EXCEPT ![o] = Spent])
           /\ Sound(SpendCoin(c, base, o), base)
           /\ SpendCoin(c, base, o).hashBlock = c.hashBlock
           /\ SpendCoin(c, base, o).hashAnchor = c.hashAnchor
<1> DEFINE f == FetchEntry(c.coins[o], base.coins[o])
           e == SpendEntry(c.coins[o], base.coins[o])
<1>1. /\ f \in CoinEntries \cup {NoEntry}
      /\ f = NoEntry => base.coins[o] = Spent
      /\ f # NoEntry /\ FRESH \in f.flags => base.coins[o] = Spent
  BY CoinsAssumption
  DEF FetchEntry, Cache, ViewState, CoinEntries, Flags, Sound, CoinFlagsSound
<1>2. e = IF f = NoEntry THEN NoEntry
          ELSE IF FRESH \in f.flags THEN NoEntry
          ELSE [coin |-> Spent, flags |-> f.flags \cup {DIRTY}]
  BY DEF SpendEntry
<1> HIDE DEF f, e
<1>3. /\ e \in CoinEntries \cup {NoEntry}
      /\ e = NoEntry => base.coins[o] = Spent
      /\ e # NoEntry => e.coin = Spent /\ DIRTY \in e.flags /\ FRESH \notin e.flags
  BY <1>1, <1>2, CoinsAssumption DEF CoinEntries, Flags, DIRTY, FRESH
<1>4. EntryCoin(e, base.coins[o]) = Spent
  BY <1>3 DEF EntryCoin
<1> QED
  BY <1>3, <1>4, EntrySet DEF SpendCoin, e

\* The nullifiers of S with nf spent or given back.
Toggled(S, nf, spent) == IF spent THEN S \cup {nf} ELSE S \ {nf}

\* SetNullifier marks or unmarks one nullifier.
LEMMA SetNullifierSets ==
    ASSUME NEW c \in Cache, NEW base \in ViewState, NEW nf \in Nullifiers,
           NEW spent \in BOOLEAN, Sound(c, base)
    PROVE  /\ SetNullifier(c, nf, spent) \in Cache
           /\ SameButNullifiers(AsView(SetNullifier(c, nf, spent), base), AsView(c, base),
                                Toggled(AsView(c, base).nullifiers, nf, spent))
           /\ Sound(SetNullifier(c, nf, spent), base)
           /\ SetNullifier(c, nf, spent).hashBlock = c.hashBlock
           /\ SetNullifier(c, nf, spent).hashAnchor = c.hashAnchor
<1> DEFINE e == [entered |-> spent, flags |-> {DIRTY}]
           d == [c EXCEPT !.nullifiers[nf] = e]
<1>1. SetNullifier(c, nf, spent) = d
  BY DEF SetNullifier
<1>2. e \in MarkEntries /\ e # NoEntry /\ e.entered = spent /\ DIRTY \in e.flags
  BY CoinsAssumption DEF MarkEntries
<1> HIDE DEF e
<1>3. d \in Cache
  BY <1>2 DEF Cache
<1>4. /\ d.coins = c.coins /\ d.anchors = c.anchors
      /\ d.nullifiers = [c.nullifiers EXCEPT ![nf] = e]
      /\ d.hashBlock = c.hashBlock /\ d.hashAnchor = c.hashAnchor
  BY DEF Cache
<1> HIDE DEF d
<1>5. c.nullifiers \in [Nullifiers -> MarkEntries \cup {NoEntry}]
  BY DEF Cache
<1>6. \A n \in Nullifiers :
         HasNullifier(d, base, n) <=> IF n = nf THEN spent ELSE HasNullifier(c, base, n)
  BY <1>2, <1>4, <1>5 DEF HasNullifier
<1>7. SameButNullifiers(AsView(d, base), AsView(c, base),
                        Toggled(AsView(c, base).nullifiers, nf, spent))
  BY <1>4, <1>6 DEF Toggled, SameButNullifiers, AsView, CoinAt, EntryCoin, HasAnchor, BestBlock, BestAnchor
<1>8. CoinFlagsSound(d, base)
  BY <1>4 DEF CoinFlagsSound, Sound
<1>9. MarkFlagsSound(d, base)
  BY <1>2, <1>4, <1>5 DEF MarkFlagsSound, Sound
<1> QED
  BY <1>1, <1>3, <1>4, <1>7, <1>8, <1>9 DEF Sound

-----------------------------------------------------------------------------
(* The promise: the anchors are the roots of the active chain. *)

\* The first n elements of a sequence.
LEMMA Shortened ==
    ASSUME NEW S, NEW s \in Seq(S), NEW n \in Nat, n <= Len(s)
    PROVE  /\ SubSeq(s, 1, n) \in Seq(S)
           /\ Len(SubSeq(s, 1, n)) = n
           /\ \A i \in 1 .. n : SubSeq(s, 1, n)[i] = s[i]
OBVIOUS

\* The initial state has no chain, and the empty tree's root as only anchor.
LEMMA AbstractInit ==
    ASSUME Abstract!Init PROVE Abstract!TypeOK /\ Abstract!Inv
<1>1. Abstract!TypeOK
  BY CoinsAssumption DEF Abstract!Init, Abstract!TypeOK, Abstract!EmptyDB, Abstract!ViewState, Abstract!Phases
<1>2. /\ chain = <<>> /\ Len(chain) = 0 /\ phase = "idle" /\ BlockView = TipView
      /\ TipView.anchors = {EmptyRoot} /\ TipView.anchor = EmptyRoot
      /\ TipView.block = Null
  BY DEF Abstract!Init, Abstract!EmptyDB
<1>3. Abstract!Root(1) = EmptyRoot
  BY <1>2 DEF Abstract!Root
<1>4. {Abstract!Root(i) : i \in 1 .. Len(chain) + 1} = {EmptyRoot}
  BY <1>2, <1>3
<1>5. Abstract!AnchorsAreChainRoots
  BY <1>2, <1>3, <1>4 DEF Abstract!AnchorsAreChainRoots
<1>6. Abstract!RootsNeverRecur
  BY <1>2, <1>3 DEF Abstract!RootsNeverRecur
<1>7. Abstract!ViewFollowsTip
  BY <1>2 DEF Abstract!ViewFollowsTip
<1> QED
  BY <1>1, <1>5, <1>6, <1>7 DEF Abstract!Inv

\* The steps that leave the tip and the chain alone.
LEMMA RootsUnchanged ==
    ASSUME Abstract!AnchorsAreChainRoots, Abstract!RootsNeverRecur, UNCHANGED <<TipView, chain>>
    PROVE  Abstract!AnchorsAreChainRoots' /\ Abstract!RootsNeverRecur'
BY DEF Abstract!AnchorsAreChainRoots, Abstract!RootsNeverRecur, Abstract!Root

\* A block is appended (Commit after ConnectBlock): its root is new or the old
\* one, so the roots still do not recur.
LEMMA AbstractConnects ==
    ASSUME Abstract!TypeOK, Abstract!Inv, Abstract!Commit, phase = "connected"
    PROVE  Abstract!TypeOK' /\ Abstract!Inv'
<1> DEFINE e == [hash |-> BlockView.block, old_tree_root |-> TipView.anchor]
<1>0. PICK n \in Nat : n = Len(chain)
  BY DEF Abstract!TypeOK
<1>1. chain \in Seq(Abstract!ChainEntries) /\ n = Len(chain)
  BY <1>0 DEF Abstract!TypeOK
<1>2. /\ chain' = Append(chain, e) /\ TipView' = BlockView /\ BlockView' = BlockView
      /\ phase' = "idle"
  BY DEF Abstract!Commit
<1>3. e \in Abstract!ChainEntries /\ e.old_tree_root = TipView.anchor /\ e.hash = BlockView.block
  BY DEF Abstract!TypeOK, Abstract!ViewState, Abstract!ChainEntries, Abstract!Inv, Abstract!ViewFollowsTip
<1> HIDE DEF e
<1>4. /\ chain' \in Seq(Abstract!ChainEntries) /\ Len(chain') = n + 1 /\ chain' # <<>>
      /\ chain'[n + 1] = e
      /\ \A i \in 1 .. n : chain'[i] = chain[i]
  BY <1>1, <1>2, <1>3
<1>5. /\ \A i \in 1 .. n + 1 : Abstract!Root(i)' = Abstract!Root(i)
      /\ Abstract!Root(n + 2)' = BlockView.anchor
  <2>1. ASSUME NEW i \in 1 .. n + 1 PROVE Abstract!Root(i)' = Abstract!Root(i)
    <3>1. CASE i \in 1 .. n
      <4>1. i # n + 1 /\ i # Len(chain') + 1
        BY <1>1, <1>4, <3>1
      <4> QED
        BY <1>1, <1>4, <3>1, <4>1 DEF Abstract!Root
    <3>2. CASE i = n + 1
      BY <1>1, <1>3, <1>4, <3>2 DEF Abstract!Root
    <3> QED
      BY <1>1, <3>1, <3>2
  <2>2. Abstract!Root(n + 2)' = BlockView.anchor
    BY <1>1, <1>2, <1>4 DEF Abstract!Root
  <2> QED
    BY <2>1, <2>2
<1>6. /\ BlockView.anchors = TipView.anchors \cup {BlockView.anchor}
      /\ \/ BlockView.anchor = TipView.anchor
         \/ chain # <<>> /\ BlockView.anchor \notin TipView.anchors
  BY DEF Abstract!Inv, Abstract!ViewFollowsTip
<1>7. /\ TipView.anchors = {Abstract!Root(i) : i \in 1 .. n + 1}
      /\ Abstract!Root(1) = EmptyRoot /\ Abstract!Root(n + 1) = TipView.anchor
  BY <1>1 DEF Abstract!Inv, Abstract!AnchorsAreChainRoots, Abstract!Root
<1>8. Abstract!TypeOK'
  BY <1>2, <1>4 DEF Abstract!TypeOK, Abstract!Phases
<1>9. Abstract!AnchorsAreChainRoots'
  <2>1. BlockView.anchors = {Abstract!Root(i)' : i \in 1 .. n + 2}
    <3>1. 1 .. n + 2 = (1 .. n + 1) \cup {n + 2}
      BY <1>1
    <3>2. {Abstract!Root(i)' : i \in 1 .. n + 2} = {Abstract!Root(i)' : i \in 1 .. n + 1} \cup {Abstract!Root(n + 2)'}
      BY <3>1
    <3>3. {Abstract!Root(i)' : i \in 1 .. n + 1} = {Abstract!Root(i) : i \in 1 .. n + 1}
      BY <1>5
    <3> QED
      BY <1>5, <1>6, <1>7, <3>2, <3>3
  <2>2. Abstract!Root(1)' = EmptyRoot
    BY <1>1, <1>5, <1>7
  <2>3. BlockView.block = chain'[Len(chain')].hash
    BY <1>3, <1>4
  <2> QED
    BY <1>1, <1>2, <1>4, <2>1, <2>2, <2>3 DEF Abstract!AnchorsAreChainRoots
<1>10. Abstract!RootsNeverRecur'
  <2>1. SUFFICES ASSUME NEW i \in 1 .. n + 2, NEW j \in 1 .. n + 2, NEW k \in 1 .. n + 2,
                        i <= j, j <= k, Abstract!Root(i)' = Abstract!Root(k)'
                 PROVE  Abstract!Root(j)' = Abstract!Root(i)'
    BY <1>1, <1>4 DEF Abstract!RootsNeverRecur
  <2>2. CASE k <= n + 1
    BY <1>1, <1>5, <2>1, <2>2 DEF Abstract!Inv, Abstract!RootsNeverRecur
  <2>3. CASE k = n + 2 /\ i <= n + 1 /\ j <= n + 1
    <3>0. i \in 1 .. n + 1
      BY <1>1, <2>3
    <3>1. Abstract!Root(i) = BlockView.anchor /\ Abstract!Root(i) \in TipView.anchors
      BY <1>5, <1>7, <2>1, <2>3, <3>0
    <3>2. Abstract!Root(i) = Abstract!Root(n + 1)
      BY <1>6, <1>7, <3>1
    <3>3. Abstract!Root(j) = Abstract!Root(i)
      BY <1>1, <2>1, <2>3, <3>2 DEF Abstract!Inv, Abstract!RootsNeverRecur
    <3> QED
      BY <1>1, <1>5, <2>3, <3>3
  <2>4. CASE k = n + 2 /\ j = n + 2
    BY <2>1, <2>4
  <2> QED
    BY <1>1, <2>1, <2>2, <2>3, <2>4
<1>11. Abstract!ViewFollowsTip'
  BY <1>2, <1>4 DEF Abstract!ViewFollowsTip
<1> QED
  BY <1>8, <1>9, <1>10, <1>11 DEF Abstract!Inv

\* The last block is removed (Commit after DisconnectBlock): the root given up
\* is one that no earlier block stands on.
LEMMA AbstractDisconnects ==
    ASSUME Abstract!TypeOK, Abstract!Inv, Abstract!Commit, phase = "disconnected"
    PROVE  Abstract!TypeOK' /\ Abstract!Inv'
<1>0. PICK n \in Nat : n = Len(chain)
  BY DEF Abstract!TypeOK
<1>1. chain \in Seq(Abstract!ChainEntries) /\ n = Len(chain) /\ n > 1
  BY <1>0 DEF Abstract!TypeOK, Abstract!Inv, Abstract!ViewFollowsTip
<1>2. /\ chain' = SubSeq(chain, 1, n - 1) /\ TipView' = BlockView
      /\ BlockView' = BlockView /\ phase' = "idle"
  BY <1>1 DEF Abstract!Commit
<1>3. /\ chain' \in Seq(Abstract!ChainEntries) /\ Len(chain') = n - 1 /\ chain' # <<>>
      /\ \A i \in 1 .. n - 1 : chain'[i] = chain[i]
  <2>1. n - 1 \in Nat /\ n - 1 <= Len(chain)
    BY <1>1
  <2> DEFINE q == SubSeq(chain, 1, n - 1)
  <2>2. /\ q \in Seq(Abstract!ChainEntries) /\ Len(q) = n - 1
        /\ \A i \in 1 .. n - 1 : q[i] = chain[i]
    BY <1>1, <2>1, Shortened
  <2>3. chain' = q
    BY <1>2
  <2> HIDE DEF q
  <2> QED
    BY <1>1, <2>2, <2>3
<1>4. /\ BlockView.anchor = Abstract!Root(n)
      /\ BlockView.anchors = IF BlockView.anchor = TipView.anchor
                             THEN TipView.anchors
                             ELSE TipView.anchors \ {TipView.anchor}
      /\ BlockView.block = chain[n - 1].hash
  BY <1>1 DEF Abstract!Inv, Abstract!ViewFollowsTip
<1>5. \A i \in 1 .. n : Abstract!Root(i)' = Abstract!Root(i)
  BY <1>1, <1>2, <1>3, <1>4 DEF Abstract!Root
<1>6. /\ TipView.anchors = {Abstract!Root(i) : i \in 1 .. n + 1}
      /\ Abstract!Root(1) = EmptyRoot /\ Abstract!Root(n + 1) = TipView.anchor
  BY <1>1 DEF Abstract!Inv, Abstract!AnchorsAreChainRoots, Abstract!Root
<1>7. Abstract!TypeOK'
  BY <1>2, <1>3 DEF Abstract!TypeOK, Abstract!Phases
<1>8. Abstract!AnchorsAreChainRoots'
  <2>1. BlockView.anchors = {Abstract!Root(i) : i \in 1 .. n}
    <3>1. 1 .. n + 1 = (1 .. n) \cup {n + 1}
      BY <1>1
    <3>2. CASE Abstract!Root(n) = Abstract!Root(n + 1)
      BY <1>1, <1>4, <1>6, <3>1, <3>2
    <3>3. CASE Abstract!Root(n) # Abstract!Root(n + 1)
      <4>1. \A i \in 1 .. n : Abstract!Root(i) # Abstract!Root(n + 1)
        BY <1>1, <3>3 DEF Abstract!Inv, Abstract!RootsNeverRecur
      <4> QED
        BY <1>4, <1>6, <3>1, <3>3, <4>1
    <3> QED
      BY <3>2, <3>3
  <2>2. {Abstract!Root(i)' : i \in 1 .. n} = {Abstract!Root(i) : i \in 1 .. n}
    BY <1>5
  <2>3. Abstract!Root(1)' = EmptyRoot
    BY <1>1, <1>5, <1>6
  <2>4. BlockView.block = chain'[n - 1].hash
    BY <1>1, <1>3, <1>4
  <2>5. Len(chain') + 1 = n /\ Len(chain') = n - 1
    BY <1>1, <1>3
  <2> QED
    BY Zenon, <1>2, <1>3, <2>1, <2>2, <2>3, <2>4, <2>5 DEF Abstract!AnchorsAreChainRoots
<1>9. Abstract!RootsNeverRecur'
  BY <1>1, <1>3, <1>5 DEF Abstract!Inv, Abstract!RootsNeverRecur
<1>10. Abstract!ViewFollowsTip'
  BY <1>2, <1>3 DEF Abstract!ViewFollowsTip
<1> QED
  BY <1>7, <1>8, <1>9, <1>10 DEF Abstract!Inv

\* Every step of the abstract specification keeps the invariant.
LEMMA AbstractNext ==
    ASSUME Abstract!TypeOK, Abstract!Inv, [Abstract!Next]_(Abstract!vars)
    PROVE  Abstract!TypeOK' /\ Abstract!Inv'
<1>1. Abstract!AnchorsAreChainRoots /\ Abstract!RootsNeverRecur /\ Abstract!ViewFollowsTip
  BY DEF Abstract!Inv
<1>2. ASSUME NEW p \in {"connect", "disconnect"}, Abstract!Begin(p) PROVE Abstract!TypeOK' /\ Abstract!Inv'
  <2>1. Abstract!TypeOK'
    BY <1>2 DEF Abstract!TypeOK, Abstract!Begin, Abstract!Phases
  <2>2. Abstract!ViewFollowsTip'
    BY <1>1, <1>2 DEF Abstract!ViewFollowsTip, Abstract!Begin
  <2> QED
    BY <1>1, <1>2, <2>1, <2>2, RootsUnchanged DEF Abstract!Begin, Abstract!Inv
<1>3. ASSUME NEW s \in Abstract!ViewState, Abstract!Update(s),
             s.anchors = BlockView.anchors, s.anchor = BlockView.anchor
      PROVE  Abstract!TypeOK' /\ Abstract!Inv'
  <2>1. Abstract!TypeOK'
    BY <1>3 DEF Abstract!TypeOK, Abstract!Update, Abstract!Phases
  <2>2. Abstract!ViewFollowsTip'
    BY <1>1, <1>3 DEF Abstract!ViewFollowsTip, Abstract!Update
  <2> QED
    BY <1>1, <1>3, <2>1, <2>2, RootsUnchanged DEF Abstract!Update, Abstract!Inv
<1>4. ASSUME NEW o \in Outpoints, NEW coin \in CoinValues, Abstract!Add(o, coin)
      PROVE  Abstract!TypeOK' /\ Abstract!Inv'
  <2> DEFINE s == IF coin \in Unspendable THEN BlockView
                  ELSE [BlockView EXCEPT !.coins[o] = coin]
  <2>1. s \in Abstract!ViewState /\ s.anchors = BlockView.anchors /\ s.anchor = BlockView.anchor
    BY DEF Abstract!TypeOK, Abstract!ViewState
  <2>2. Abstract!Update(s)
    BY <1>4 DEF Abstract!Add
  <2> HIDE DEF s
  <2> QED
    BY <1>3, <2>1, <2>2
<1>5. ASSUME NEW o \in Outpoints, Abstract!Spend(o) PROVE Abstract!TypeOK' /\ Abstract!Inv'
  <2> DEFINE s == [BlockView EXCEPT !.coins[o] = Spent]
  <2>1. s \in Abstract!ViewState /\ s.anchors = BlockView.anchors /\ s.anchor = BlockView.anchor
    BY DEF Abstract!TypeOK, Abstract!ViewState
  <2>2. Abstract!Update(s)
    BY <1>5 DEF Abstract!Spend
  <2> HIDE DEF s
  <2> QED
    BY <1>3, <2>1, <2>2
<1>6. ASSUME NEW nf \in Nullifiers, Abstract!MarkNullifier(nf) PROVE Abstract!TypeOK' /\ Abstract!Inv'
  <2> DEFINE s == [BlockView EXCEPT !.nullifiers =
                      IF phase = "connect" THEN @ \cup {nf} ELSE @ \ {nf}]
  <2>1. s \in Abstract!ViewState /\ s.anchors = BlockView.anchors /\ s.anchor = BlockView.anchor
    BY DEF Abstract!TypeOK, Abstract!ViewState
  <2>2. Abstract!Update(s)
    BY <1>6 DEF Abstract!MarkNullifier
  <2> HIDE DEF s
  <2> QED
    BY <1>3, <2>1, <2>2
<1>7. ASSUME NEW b \in Blocks, Abstract!ConnectGenesis(b) PROVE Abstract!TypeOK' /\ Abstract!Inv'
  <2> DEFINE s == [TipView EXCEPT !.block = b]
  <2>1. /\ s \in Abstract!ViewState /\ s.anchors = TipView.anchors
        /\ s.anchor = TipView.anchor /\ s.block = b
    BY DEF Abstract!TypeOK, Abstract!ViewState
  <2>2. BlockView' = s
    BY <1>7 DEF Abstract!ConnectGenesis
  <2> HIDE DEF s
  <2>3. Abstract!TypeOK'
    BY <1>7, <2>1, <2>2 DEF Abstract!TypeOK, Abstract!ConnectGenesis, Abstract!Phases
  <2>4. TipView.anchor \in TipView.anchors
    BY <1>1, <1>7 DEF Abstract!ConnectGenesis, Abstract!AnchorsAreChainRoots, Abstract!Root
  <2>5. Abstract!ViewFollowsTip'
    BY <1>7, <2>1, <2>2, <2>4 DEF Abstract!ViewFollowsTip, Abstract!ConnectGenesis
  <2> QED
    BY <1>1, <1>7, <2>3, <2>5, RootsUnchanged DEF Abstract!ConnectGenesis, Abstract!Inv
<1>8. ASSUME NEW b \in Blocks, NEW rt \in Anchors, Abstract!EndConnect(b, rt)
      PROVE  Abstract!TypeOK' /\ Abstract!Inv'
  <2>1. /\ BlockView' \in Abstract!ViewState /\ BlockView'.block = b /\ BlockView'.anchor = rt
        /\ BlockView'.anchors = BlockView.anchors \cup {rt}
    <3> DEFINE s == [BlockView EXCEPT !.anchors = @ \cup {rt}]
               t == [s EXCEPT !.anchor = rt]
    <3>1. s \in Abstract!ViewState /\ s.anchors = BlockView.anchors \cup {rt}
      BY DEF Abstract!TypeOK, Abstract!ViewState
    <3>2. BlockView' = [t EXCEPT !.block = b]
      BY <1>8 DEF Abstract!EndConnect
    <3> HIDE DEF s
    <3>3. t \in Abstract!ViewState /\ t.anchors = s.anchors /\ t.anchor = rt
      BY <3>1 DEF Abstract!ViewState
    <3> HIDE DEF t
    <3> QED
      BY <3>1, <3>2, <3>3 DEF Abstract!ViewState
  <2>2. Abstract!TypeOK'
    BY <1>8, <2>1 DEF Abstract!TypeOK, Abstract!EndConnect, Abstract!Phases
  <2>3. Abstract!ViewFollowsTip'
    BY <1>1, <1>8, <2>1 DEF Abstract!ViewFollowsTip, Abstract!EndConnect
  <2> QED
    BY <1>1, <1>8, <2>2, <2>3, RootsUnchanged DEF Abstract!EndConnect, Abstract!Inv
<1>9. ASSUME Abstract!EndDisconnect PROVE Abstract!TypeOK' /\ Abstract!Inv'
  <2> DEFINE rt == chain[Len(chain)].old_tree_root
             b == chain[Len(chain) - 1].hash
             as == IF BlockView.anchor = rt THEN BlockView.anchors
                   ELSE BlockView.anchors \ {BlockView.anchor}
  <2>1. Len(chain) > 1
    BY <1>1, <1>9 DEF Abstract!ViewFollowsTip, Abstract!EndDisconnect
  <2>2. rt \in Anchors /\ b \in Blocks /\ Abstract!Root(Len(chain)) = rt
    <3>1. chain[Len(chain)] \in Abstract!ChainEntries /\ chain[Len(chain) - 1] \in Abstract!ChainEntries
      BY <2>1 DEF Abstract!TypeOK
    <3>2. Len(chain) \in Nat
      BY DEF Abstract!TypeOK
    <3> QED
      BY <3>1, <3>2 DEF Abstract!ChainEntries, Abstract!Root
  <2>3. /\ BlockView' \in Abstract!ViewState /\ BlockView'.block = b /\ BlockView'.anchor = rt
        /\ BlockView'.anchors = as
    <3> DEFINE s == [BlockView EXCEPT !.anchors = as]
               t == [s EXCEPT !.anchor = rt]
    <3>1. s \in Abstract!ViewState /\ s.anchors = as
      BY DEF Abstract!TypeOK, Abstract!ViewState
    <3>2. BlockView' = [t EXCEPT !.block = b]
      BY <1>9 DEF Abstract!EndDisconnect
    <3> HIDE DEF s, rt, b, as
    <3>3. t \in Abstract!ViewState /\ t.anchors = s.anchors /\ t.anchor = rt
      BY Zenon, <2>2, <3>1 DEF Abstract!ViewState
    <3> HIDE DEF t
    <3> QED
      BY Zenon, <2>2, <3>1, <3>2, <3>3 DEF Abstract!ViewState
  <2>4. Abstract!TypeOK'
    BY <1>9, <2>3 DEF Abstract!TypeOK, Abstract!EndDisconnect, Abstract!Phases
  <2>5. Abstract!ViewFollowsTip'
    <3>1. /\ phase = "disconnect" /\ phase' = "disconnected"
          /\ chain' = chain /\ TipView' = TipView
          /\ BlockView.anchors = TipView.anchors /\ BlockView.anchor = TipView.anchor
      BY <1>1, <1>9 DEF Abstract!ViewFollowsTip, Abstract!EndDisconnect
    <3>2. Abstract!Root(Len(chain))' = rt
      BY <2>1, <2>2, <3>1 DEF Abstract!Root
    <3>3. chain' # <<>> /\ Len(chain') > 1 /\ BlockView'.block = chain'[Len(chain') - 1].hash
      BY <2>1, <2>3, <3>1
    <3> HIDE DEF rt, b
    <3> QED
      BY <2>3, <3>1, <3>2, <3>3 DEF Abstract!ViewFollowsTip
  <2> QED
    BY <1>1, <1>9, <2>4, <2>5, RootsUnchanged DEF Abstract!EndDisconnect, Abstract!Inv
<1>10. ASSUME Abstract!Commit PROVE Abstract!TypeOK' /\ Abstract!Inv'
  BY <1>10, AbstractConnects, AbstractDisconnects DEF Abstract!Commit
<1>11. ASSUME Abstract!Discard PROVE Abstract!TypeOK' /\ Abstract!Inv'
  <2>1. Abstract!TypeOK'
    BY <1>11 DEF Abstract!TypeOK, Abstract!Discard, Abstract!Phases
  <2>2. Abstract!ViewFollowsTip'
    BY <1>11 DEF Abstract!ViewFollowsTip, Abstract!Discard
  <2> QED
    BY <1>1, <1>11, <2>1, <2>2, RootsUnchanged DEF Abstract!Discard, Abstract!Inv
<1>12. ASSUME UNCHANGED Abstract!vars PROVE Abstract!TypeOK' /\ Abstract!Inv'
  <2>1. Abstract!TypeOK'
    BY <1>12 DEF Abstract!TypeOK, Abstract!vars
  <2>2. Abstract!ViewFollowsTip'
    BY <1>1, <1>12 DEF Abstract!ViewFollowsTip, Abstract!vars, Abstract!Root
  <2> QED
    BY <1>1, <1>12, <2>1, <2>2, RootsUnchanged DEF Abstract!vars, Abstract!Inv
<1> QED
  BY <1>2, <1>4, <1>5, <1>6, <1>7, <1>8, <1>9, <1>10, <1>11, <1>12 DEF Abstract!Next

\* The anchors the chain state accepts are, at every moment, the roots that the
\* commitment tree of the active chain went through (ConnectBlock, DisconnectBlock).
THEOREM AbstractAnchors == Abstract!Spec => []Abstract!AnchorsAreChainRoots
<1>1. Abstract!Init => Abstract!TypeOK /\ Abstract!Inv
  BY AbstractInit
<1>2. (Abstract!TypeOK /\ Abstract!Inv) /\ [Abstract!Next]_(Abstract!vars) => (Abstract!TypeOK /\ Abstract!Inv)'
  BY AbstractNext
<1>3. Abstract!TypeOK /\ Abstract!Inv => Abstract!AnchorsAreChainRoots
  BY DEF Abstract!Inv
<1> QED
  BY <1>1, <1>2, <1>3, PTL DEF Abstract!Spec

-----------------------------------------------------------------------------
(* The actions: each keeps the flags right and is a step of the abstract   *)
(* specification, or one that nobody sees.                                 *)

\* Two views with the same answers are the same view.
LEMMA SameAnswers ==
    ASSUME NEW s \in ViewState, NEW t \in ViewState,
           s.coins = t.coins, s.anchors = t.anchors, s.nullifiers = t.nullifiers,
           s.block = t.block, s.anchor = t.anchor
    PROVE  s = t
BY DEF ViewState

\* What the inductive invariant says of the two caches.
LEMMA IInvFacts ==
    ASSUME IInv
    PROVE  /\ db \in ViewState /\ tip \in Cache /\ view \in Cache
           /\ TipView \in ViewState /\ BlockView \in ViewState
           /\ Sound(tip, db) /\ Sound(view, TipView)
<1>1. db \in ViewState /\ tip \in Cache /\ view \in Cache
  BY DEF IInv, TypeOK
<1>2. TipView \in ViewState
  BY <1>1, AsViewType DEF TipView
<1>3. BlockView \in ViewState
  BY <1>1, <1>2, AsViewType DEF BlockView
<1> QED
  BY <1>1, <1>2, <1>3 DEF IInv, FlagsSound, Sound

\* The types of the concrete specification are those of the abstract one.
LEMMA PromiseTypes ==
    ASSUME TypeOK PROVE Abstract!TypeOK
<1>1. TipView \in ViewState /\ BlockView \in ViewState
  BY AsViewType DEF TypeOK, TipView, BlockView
<1> QED
  BY <1>1 DEF TypeOK, Abstract!TypeOK, ViewState, Abstract!ViewState,
              Phases, Abstract!Phases, ChainEntries, Abstract!ChainEntries

\* The chain part of the invariant is the abstract specification's to keep.
LEMMA PromiseKept ==
    ASSUME TypeOK, Abstract!Inv, [Abstract!Next]_(Abstract!vars)
    PROVE  Abstract!Inv'
BY PromiseTypes, AbstractNext

\* A step that only fills or empties the tip's cache.
LEMMA TipInvisible ==
    ASSUME IInv, tip' \in Cache, AsView(tip', db) = TipView, Sound(tip', db),
           UNCHANGED <<db, view, phase, chain>>
    PROVE  /\ TypeOK' /\ FlagsSound' /\ HashesSet'
           /\ UNCHANGED Abstract!vars
<1>1. TipView' = TipView
  BY DEF TipView
<1>2. BlockView' = BlockView
  BY <1>1 DEF BlockView
<1>3. TypeOK'
  BY DEF IInv, TypeOK
<1>4. FlagsSound'
  BY <1>1, IInvFacts DEF FlagsSound, Sound
<1>5. HashesSet'
  BY DEF IInv, HashesSet
<1> QED
  BY <1>1, <1>2, <1>3, <1>4, <1>5 DEF Abstract!vars

\* A step on the block's view, during which the tip's cache may be filled.
LEMMA ViewStep ==
    ASSUME IInv, tip' \in Cache, AsView(tip', db) = TipView, Sound(tip', db),
           view' \in Cache, Sound(view', TipView), phase' \in Phases,
           UNCHANGED <<db, chain>>
    PROVE  /\ TypeOK' /\ FlagsSound'
           /\ TipView' = TipView /\ BlockView' = AsView(view', TipView)
           /\ BlockView' \in ViewState
<1>1. TipView' = TipView
  BY DEF TipView
<1>2. BlockView' = AsView(view', TipView)
  BY <1>1 DEF BlockView
<1>3. TypeOK'
  BY DEF IInv, TypeOK
<1>4. FlagsSound'
  BY <1>1 DEF FlagsSound, Sound
<1>5. BlockView' \in ViewState
  BY <1>2, IInvFacts, AsViewType
<1> QED
  BY <1>1, <1>2, <1>3, <1>4, <1>5

\* What is shown of each action.
Kept == TypeOK' /\ FlagsSound' /\ HashesSet' /\ [Abstract!Next]_(Abstract!vars)

\* Reads of the tip's cache, and Uncache.
LEMMA TipReadsKept ==
    ASSUME IInv,
           \/ \E o \in Outpoints : TipFetchCoin(o) \/ TipUncache(o)
           \/ \E rt \in Anchors : TipGetAnchorAt(rt)
           \/ \E nf \in Nullifiers : TipGetNullifier(nf)
    PROVE  Kept
<1>1. ASSUME NEW o \in Outpoints, TipFetchCoin(o) PROVE Kept
  <2>1. /\ FetchCoin(tip, db, o) \in Cache
        /\ AsView(FetchCoin(tip, db, o), db) = TipView
        /\ Sound(FetchCoin(tip, db, o), db)
    BY IInvFacts, FetchCoinInvisible DEF TipView
  <2> QED
    BY <1>1, <2>1, TipInvisible DEF TipFetchCoin, Kept
<1>2. ASSUME NEW o \in Outpoints, TipUncache(o) PROVE Kept
  <2>1. /\ Uncache(tip, o) \in Cache
        /\ AsView(Uncache(tip, o), db) = TipView
        /\ Sound(Uncache(tip, o), db)
    BY IInvFacts, UncacheInvisible DEF TipView
  <2> QED
    BY <1>2, <2>1, TipInvisible DEF TipUncache, Kept
<1>3. ASSUME NEW rt \in Anchors, TipGetAnchorAt(rt) PROVE Kept
  <2>1. /\ GetAnchorAt(tip, db, rt) \in Cache
        /\ AsView(GetAnchorAt(tip, db, rt), db) = TipView
        /\ Sound(GetAnchorAt(tip, db, rt), db)
    BY IInvFacts, GetAnchorAtInvisible DEF TipView
  <2> QED
    BY <1>3, <2>1, TipInvisible DEF TipGetAnchorAt, Kept
<1>4. ASSUME NEW nf \in Nullifiers, TipGetNullifier(nf) PROVE Kept
  <2>1. /\ GetNullifier(tip, db, nf) \in Cache
        /\ AsView(GetNullifier(tip, db, nf), db) = TipView
        /\ Sound(GetNullifier(tip, db, nf), db)
    BY IInvFacts, GetNullifierInvisible DEF TipView
  <2> QED
    BY <1>4, <2>1, TipInvisible DEF TipGetNullifier, Kept
<1> QED
  BY <1>1, <1>2, <1>3, <1>4

\* FlushStateToDisk is invisible: database and emptied cache answer as before.
LEMMA FlushKept ==
    ASSUME IInv, FlushStateToDisk PROVE Kept
<1> DEFINE c == GetBestBlock(tip, db)
<1>1. /\ db \in ViewState /\ tip \in Cache /\ view \in Cache
      /\ Sound(tip, db) /\ Sound(view, TipView) /\ TipView \in ViewState
  BY IInvFacts
<1>2. /\ c \in Cache /\ AsView(c, db) = TipView /\ Sound(c, db)
      /\ c.hashBlock = TipView.block
  BY <1>1, GetBestInvisible DEF TipView
<1>3. /\ TipView.block # Null /\ db' = DBBatchWrite(db, c) /\ tip' = Flushed(c)
      /\ view' = view /\ phase' = phase /\ chain' = chain
  BY DEF FlushStateToDisk
<1> HIDE DEF c
<1>4. EmptyRoot \in TipView.anchors /\ chain # <<>>
  BY <1>3 DEF IInv, TypeOK, Abstract!Inv, Abstract!AnchorsAreChainRoots
<1>5. /\ db' \in ViewState /\ tip' \in Cache
      /\ AsView(tip', db') = TipView /\ Sound(tip', db')
  BY <1>1, <1>2, <1>3, <1>4, DBBatchWriteWrites
<1>6. TipView' = TipView
  BY <1>5 DEF TipView
<1>7. BlockView' = BlockView
  BY <1>3, <1>6 DEF BlockView
<1>8. TypeOK'
  BY <1>3, <1>5 DEF IInv, TypeOK
<1>9. FlagsSound'
  BY <1>1, <1>3, <1>5, <1>6 DEF FlagsSound, Sound
<1>10. HashesSet'
  BY <1>3, <1>4 DEF IInv, HashesSet
<1> QED
  BY <1>3, <1>6, <1>7, <1>8, <1>9, <1>10 DEF Kept, Abstract!vars

\* Reads through the block's view: both caches are filled, no answer changes.
LEMMA ViewReadsKept ==
    ASSUME IInv,
           \/ \E o \in Outpoints : ViewFetchCoin(o)
           \/ \E rt \in Anchors : ViewGetAnchorAt(rt)
           \/ \E nf \in Nullifiers : ViewGetNullifier(nf)
    PROVE  Kept
<1>1. /\ db \in ViewState /\ tip \in Cache /\ view \in Cache
      /\ Sound(tip, db) /\ Sound(view, TipView) /\ TipView \in ViewState
      /\ AsView(tip, db) = TipView /\ AsView(view, TipView) = BlockView
  BY IInvFacts DEF TipView, BlockView
<1>2. ASSUME tip' \in Cache, AsView(tip', db) = TipView, Sound(tip', db),
             view' \in Cache, AsView(view', TipView) = BlockView, Sound(view', TipView),
             view'.hashBlock = view.hashBlock, view'.hashAnchor = view.hashAnchor,
             UNCHANGED <<db, phase, chain>>, InBlock
      PROVE  Kept
  <2>1. phase' \in Phases
    BY <1>2 DEF IInv, TypeOK
  <2>2. TypeOK' /\ FlagsSound' /\ TipView' = TipView /\ BlockView' = BlockView
    BY <1>2, <2>1, ViewStep
  <2>3. HashesSet'
    BY <1>2 DEF IInv, HashesSet, InBlock
  <2> QED
    BY <1>2, <2>2, <2>3 DEF Kept, Abstract!vars
<1>3. ASSUME NEW o \in Outpoints, ViewFetchCoin(o) PROVE Kept
  <2>1. /\ FetchCoin(tip, db, o) \in Cache
        /\ AsView(FetchCoin(tip, db, o), db) = TipView
        /\ Sound(FetchCoin(tip, db, o), db)
    BY <1>1, FetchCoinInvisible
  <2>2. /\ FetchCoin(view, TipView, o) \in Cache
        /\ AsView(FetchCoin(view, TipView, o), TipView) = BlockView
        /\ Sound(FetchCoin(view, TipView, o), TipView)
        /\ FetchCoin(view, TipView, o).hashBlock = view.hashBlock
        /\ FetchCoin(view, TipView, o).hashAnchor = view.hashAnchor
    BY <1>1, FetchCoinInvisible
  <2> QED
    BY <1>1, <1>2, <1>3, <2>1, <2>2 DEF ViewFetchCoin
<1>4. ASSUME NEW rt \in Anchors, ViewGetAnchorAt(rt) PROVE Kept
  <2>1. /\ GetAnchorAt(tip, db, rt) \in Cache
        /\ AsView(GetAnchorAt(tip, db, rt), db) = TipView
        /\ Sound(GetAnchorAt(tip, db, rt), db)
    BY <1>1, GetAnchorAtInvisible
  <2>2. /\ GetAnchorAt(view, TipView, rt) \in Cache
        /\ AsView(GetAnchorAt(view, TipView, rt), TipView) = BlockView
        /\ Sound(GetAnchorAt(view, TipView, rt), TipView)
        /\ GetAnchorAt(view, TipView, rt).hashBlock = view.hashBlock
        /\ GetAnchorAt(view, TipView, rt).hashAnchor = view.hashAnchor
    BY <1>1, GetAnchorAtInvisible
  <2> QED
    BY <1>1, <1>2, <1>4, <2>1, <2>2 DEF ViewGetAnchorAt
<1>5. ASSUME NEW nf \in Nullifiers, ViewGetNullifier(nf) PROVE Kept
  <2>1. /\ GetNullifier(tip, db, nf) \in Cache
        /\ AsView(GetNullifier(tip, db, nf), db) = TipView
        /\ Sound(GetNullifier(tip, db, nf), db)
    BY <1>1, GetNullifierInvisible
  <2>2. /\ GetNullifier(view, TipView, nf) \in Cache
        /\ AsView(GetNullifier(view, TipView, nf), TipView) = BlockView
        /\ Sound(GetNullifier(view, TipView, nf), TipView)
        /\ GetNullifier(view, TipView, nf).hashBlock = view.hashBlock
        /\ GetNullifier(view, TipView, nf).hashAnchor = view.hashAnchor
    BY <1>1, GetNullifierInvisible
  <2> QED
    BY <1>1, <1>2, <1>5, <2>1, <2>2 DEF ViewGetNullifier
<1> QED
  BY <1>3, <1>4, <1>5

\* Writes to the block's view are the abstract writes.
LEMMA ViewWritesKept ==
    ASSUME IInv,
           \/ \E o \in Outpoints, coin \in CoinValues, po \in BOOLEAN : ViewAddCoin(o, coin, po)
           \/ \E o \in Outpoints : ViewSpendCoin(o)
           \/ \E nf \in Nullifiers : ViewSetNullifier(nf)
    PROVE  Kept
<1>1. /\ db \in ViewState /\ tip \in Cache /\ view \in Cache
      /\ Sound(tip, db) /\ Sound(view, TipView)
      /\ TipView \in ViewState /\ BlockView \in ViewState
      /\ AsView(tip, db) = TipView /\ AsView(view, TipView) = BlockView
  BY IInvFacts DEF TipView, BlockView
<1>2. ASSUME NEW s \in ViewState,
             tip' \in Cache, AsView(tip', db) = TipView, Sound(tip', db),
             view' \in Cache, Sound(view', TipView),
             AsView(view', TipView).coins = s.coins,
             AsView(view', TipView).anchors = s.anchors,
             AsView(view', TipView).nullifiers = s.nullifiers,
             AsView(view', TipView).block = s.block,
             AsView(view', TipView).anchor = s.anchor,
             view'.hashBlock = view.hashBlock, view'.hashAnchor = view.hashAnchor,
             UNCHANGED <<db, phase, chain>>, InBlock
      PROVE  TypeOK' /\ FlagsSound' /\ HashesSet' /\ Abstract!Update(s)
  <2>1. phase' \in Phases
    BY <1>2 DEF IInv, TypeOK
  <2>2. /\ TypeOK' /\ FlagsSound' /\ TipView' = TipView
        /\ BlockView' = AsView(view', TipView) /\ BlockView' \in ViewState
    BY <1>2, <2>1, ViewStep
  <2>3. HashesSet'
    BY <1>2 DEF IInv, HashesSet, InBlock
  <2>4. BlockView' = s
    BY <1>2, <2>2, SameAnswers
  <2> QED
    BY <1>2, <2>2, <2>3, <2>4 DEF Abstract!Update, InBlock
<1>3. ASSUME NEW o \in Outpoints, NEW coin \in CoinValues, NEW po \in BOOLEAN,
             ViewAddCoin(o, coin, po)
      PROVE  Kept
  <2> DEFINE s == IF coin \in Unspendable THEN BlockView
                  ELSE [BlockView EXCEPT !.coins[o] = coin]
  <2>1. /\ s \in ViewState
        /\ s.coins = IF coin \in Unspendable THEN BlockView.coins
                     ELSE [BlockView.coins EXCEPT ![o] = coin]
        /\ s.anchors = BlockView.anchors /\ s.nullifiers = BlockView.nullifiers
        /\ s.block = BlockView.block /\ s.anchor = BlockView.anchor
    BY <1>1 DEF ViewState
  <2>2. /\ AddCoin(view, o, coin, po) \in Cache
        /\ SameButCoins(AsView(AddCoin(view, o, coin, po), TipView), BlockView,
                        IF coin \in Unspendable THEN BlockView.coins
                        ELSE [BlockView.coins EXCEPT ![o] = coin])
        /\ Sound(AddCoin(view, o, coin, po), TipView)
        /\ AddCoin(view, o, coin, po).hashBlock = view.hashBlock
        /\ AddCoin(view, o, coin, po).hashAnchor = view.hashAnchor
    BY <1>1, <1>3, AddCoinAdds DEF ViewAddCoin
  <2>3. Abstract!Add(o, coin) <=> Abstract!Update(s)
    BY DEF Abstract!Add
  <2> HIDE DEF s
  <2>4. TypeOK' /\ FlagsSound' /\ HashesSet' /\ Abstract!Update(s)
    BY Zenon, <1>1, <1>2, <1>3, <2>1, <2>2 DEF ViewAddCoin, SameButCoins
  <2> QED
    BY <2>3, <2>4 DEF Kept, Abstract!Next
<1>4. ASSUME NEW o \in Outpoints, ViewSpendCoin(o) PROVE Kept
  <2> DEFINE s == [BlockView EXCEPT !.coins[o] = Spent]
  <2>1. /\ s \in ViewState /\ s.coins = [BlockView.coins EXCEPT ![o] = Spent]
        /\ s.anchors = BlockView.anchors /\ s.nullifiers = BlockView.nullifiers
        /\ s.block = BlockView.block /\ s.anchor = BlockView.anchor
    BY <1>1 DEF ViewState
  <2>2. /\ SpendCoin(view, TipView, o) \in Cache
        /\ SameButCoins(AsView(SpendCoin(view, TipView, o), TipView), BlockView,
                        [BlockView.coins EXCEPT ![o] = Spent])
        /\ Sound(SpendCoin(view, TipView, o), TipView)
        /\ SpendCoin(view, TipView, o).hashBlock = view.hashBlock
        /\ SpendCoin(view, TipView, o).hashAnchor = view.hashAnchor
    BY Zenon, <1>1, SpendCoinSpends
  <2>3. /\ FetchCoin(tip, db, o) \in Cache
        /\ AsView(FetchCoin(tip, db, o), db) = TipView
        /\ Sound(FetchCoin(tip, db, o), db)
    BY <1>1, FetchCoinInvisible
  <2>4. Abstract!Spend(o) <=> Abstract!Update(s)
    BY DEF Abstract!Spend
  <2> HIDE DEF s
  <2>5. TypeOK' /\ FlagsSound' /\ HashesSet' /\ Abstract!Update(s)
    BY <1>1, <1>2, <1>4, <2>1, <2>2, <2>3 DEF ViewSpendCoin, SameButCoins
  <2> QED
    BY <2>4, <2>5 DEF Kept, Abstract!Next
<1>5. ASSUME NEW nf \in Nullifiers, ViewSetNullifier(nf) PROVE Kept
  <2> DEFINE sp == phase = "connect"
             s == [BlockView EXCEPT !.nullifiers =
                      IF phase = "connect" THEN @ \cup {nf} ELSE @ \ {nf}]
  <2>1. /\ s \in ViewState /\ s.coins = BlockView.coins
        /\ s.anchors = BlockView.anchors
        /\ s.nullifiers = IF phase = "connect" THEN BlockView.nullifiers \cup {nf}
                          ELSE BlockView.nullifiers \ {nf}
        /\ s.block = BlockView.block /\ s.anchor = BlockView.anchor
    BY <1>1 DEF ViewState
  <2>2. /\ SetNullifier(view, nf, sp) \in Cache
        /\ SameButNullifiers(AsView(SetNullifier(view, nf, sp), TipView), BlockView,
                             Toggled(BlockView.nullifiers, nf, sp))
        /\ Sound(SetNullifier(view, nf, sp), TipView)
        /\ SetNullifier(view, nf, sp).hashBlock = view.hashBlock
        /\ SetNullifier(view, nf, sp).hashAnchor = view.hashAnchor
    <3>1. sp \in BOOLEAN
      OBVIOUS
    <3> HIDE DEF sp
    <3>2. view \in Cache /\ TipView \in ViewState /\ Sound(view, TipView)
      BY <1>1
    <3>3. /\ SetNullifier(view, nf, sp) \in Cache
          /\ SameButNullifiers(AsView(SetNullifier(view, nf, sp), TipView),
                               AsView(view, TipView),
                               Toggled(AsView(view, TipView).nullifiers, nf, sp))
          /\ Sound(SetNullifier(view, nf, sp), TipView)
          /\ SetNullifier(view, nf, sp).hashBlock = view.hashBlock
          /\ SetNullifier(view, nf, sp).hashAnchor = view.hashAnchor
      BY <3>1, <3>2, SetNullifierSets, Zenon
    <3> QED
      BY <1>1, <3>3, Zenon
  <2>3. Abstract!MarkNullifier(nf) <=> Abstract!Update(s)
    BY DEF Abstract!MarkNullifier
  <2>4. view' = SetNullifier(view, nf, sp)
    BY <1>5 DEF ViewSetNullifier
  <2> HIDE DEF s
  <2>5. TypeOK' /\ FlagsSound' /\ HashesSet' /\ Abstract!Update(s)
    BY Zenon, <1>1, <1>2, <1>5, <2>1, <2>2, <2>4 DEF ViewSetNullifier, SameButNullifiers, Toggled
  <2> QED
    BY <2>3, <2>5 DEF Kept, Abstract!Next
<1> QED
  BY <1>3, <1>4, <1>5

\* Reading the tree of the best anchor is invisible.
LEMMA ReadTreeInvisible ==
    ASSUME NEW c \in Cache, NEW base \in ViewState, Sound(c, base)
    PROVE  /\ ReadTree(c, base) \in Cache
           /\ AsView(ReadTree(c, base), base) = AsView(c, base)
           /\ Sound(ReadTree(c, base), base)
           /\ ReadTree(c, base).hashAnchor = AsView(c, base).anchor
<1> DEFINE d == GetBestBlock(c, base)
           e == GetBestAnchor(d, base)
           f == GetAnchorAt(e, base, e.hashAnchor)
<1>1. ReadTree(c, base) = f
  BY DEF ReadTree
<1>2. d \in Cache /\ AsView(d, base) = AsView(c, base) /\ Sound(d, base)
  BY GetBestInvisible
<1> HIDE DEF d
<1>3. /\ e \in Cache /\ AsView(e, base) = AsView(d, base) /\ Sound(e, base)
      /\ e.hashAnchor = AsView(d, base).anchor
  BY <1>2, GetBestInvisible
<1>4. AsView(c, base) \in ViewState
  BY AsViewType
<1>5. e.hashAnchor \in Anchors
  BY <1>2, <1>3, <1>4 DEF ViewState
<1> HIDE DEF e
<1>6. /\ f \in Cache /\ AsView(f, base) = AsView(e, base) /\ Sound(f, base)
      /\ f.hashAnchor = e.hashAnchor
  BY <1>3, <1>5, GetAnchorAtInvisible
<1> HIDE DEF f
<1> QED
  BY <1>1, <1>2, <1>3, <1>6

\* The start of a block: the new view answers as the tip does.
LEMMA BeginKept ==
    ASSUME IInv, BeginConnect \/ BeginDisconnect PROVE Kept
<1>1. /\ db \in ViewState /\ tip \in Cache /\ Sound(tip, db)
      /\ TipView \in ViewState /\ AsView(tip, db) = TipView
      /\ EmptyCache \in Cache
      /\ AsView(EmptyCache, TipView) = TipView /\ Sound(EmptyCache, TipView)
  BY IInvFacts, EmptyTypes, EmptyCacheView DEF TipView
<1>2. CASE BeginConnect
  <2>1. /\ tip' = ReadTree(tip, db) /\ view' = ReadTree(EmptyCache, TipView)
        /\ phase' = "connect" /\ chain # <<>> /\ phase = "idle"
        /\ db' = db /\ chain' = chain
    BY <1>2 DEF BeginConnect
  <2>2. TipView.anchor \in Anchors
    BY <1>1 DEF ViewState
  <2>3. /\ tip' \in Cache /\ AsView(tip', db) = TipView /\ Sound(tip', db)
        /\ view' \in Cache /\ AsView(view', TipView) = TipView /\ Sound(view', TipView)
        /\ view'.hashAnchor = TipView.anchor
    BY <1>1, <2>1, ReadTreeInvisible
  <2>4. /\ TypeOK' /\ FlagsSound' /\ TipView' = TipView
        /\ BlockView' = AsView(view', TipView)
    BY <2>1, <2>3, ViewStep DEF Phases
  <2>5. HashesSet'
    BY <2>1, <2>2, <2>3, CoinsAssumption DEF IInv, HashesSet
  <2>6. Abstract!Begin("connect")
    BY <2>1, <2>3, <2>4 DEF Abstract!Begin
  <2> QED
    BY <2>4, <2>5, <2>6 DEF Kept, Abstract!Next
<1>3. CASE BeginDisconnect
  <2> DEFINE t1 == GetBestBlock(tip, db)
             t == GetBestAnchor(t1, db)
             v == GetBestBlock(EmptyCache, TipView)
  <2>1. /\ tip' = t /\ view' = v /\ phase' = "disconnect" /\ Len(chain) > 1
        /\ phase = "idle" /\ db' = db /\ chain' = chain /\ chain # <<>>
    BY <1>3 DEF BeginDisconnect
  <2>2. /\ t1 \in Cache /\ AsView(t1, db) = TipView /\ Sound(t1, db)
        /\ v \in Cache /\ AsView(v, TipView) = TipView /\ Sound(v, TipView)
    BY <1>1, GetBestInvisible
  <2> HIDE DEF t1, v
  <2>3. t \in Cache /\ AsView(t, db) = AsView(t1, db) /\ Sound(t, db)
    BY <1>1, <2>2, GetBestInvisible
  <2> HIDE DEF t
  <2>4. /\ TypeOK' /\ FlagsSound' /\ TipView' = TipView
        /\ BlockView' = AsView(view', TipView)
    BY <2>1, <2>2, <2>3, ViewStep DEF Phases
  <2>5. HashesSet'
    BY <2>1 DEF IInv, HashesSet
  <2>6. Abstract!Begin("disconnect")
    BY <2>1, <2>2, <2>4 DEF Abstract!Begin
  <2> QED
    BY <2>4, <2>5, <2>6 DEF Kept, Abstract!Next
<1> QED
  BY <1>2, <1>3

\* The genesis block.
LEMMA GenesisKept ==
    ASSUME IInv, NEW b \in Blocks, ConnectGenesis(b) PROVE Kept
<1>1. /\ db \in ViewState /\ tip \in Cache /\ Sound(tip, db)
      /\ TipView \in ViewState /\ AsView(tip, db) = TipView
      /\ EmptyCache \in Cache
      /\ AsView(EmptyCache, TipView) = TipView /\ Sound(EmptyCache, TipView)
  BY IInvFacts, EmptyTypes, EmptyCacheView DEF TipView
<1>2. /\ tip' = ReadTree(tip, db) /\ view' = SetBestBlock(EmptyCache, b)
      /\ phase = "idle" /\ phase' = "connected" /\ chain = <<>>
      /\ db' = db /\ chain' = chain
  BY DEF ConnectGenesis
<1>3. tip' \in Cache /\ AsView(tip', db) = TipView /\ Sound(tip', db)
  BY <1>1, <1>2, ReadTreeInvisible
<1>4. /\ view' \in Cache /\ Sound(view', TipView)
      /\ AsView(view', TipView).coins = TipView.coins
      /\ AsView(view', TipView).anchors = TipView.anchors
      /\ AsView(view', TipView).nullifiers = TipView.nullifiers
      /\ AsView(view', TipView).anchor = TipView.anchor
      /\ AsView(view', TipView).block = b
      /\ view'.hashBlock = b
  BY <1>1, <1>2, SetBestBlockSets
<1>5. /\ TypeOK' /\ FlagsSound' /\ TipView' = TipView
      /\ BlockView' = AsView(view', TipView) /\ BlockView' \in ViewState
  BY <1>2, <1>3, <1>4, ViewStep DEF Phases
<1>6. HashesSet'
  BY <1>2, <1>4, CoinsAssumption DEF IInv, HashesSet
<1> DEFINE s == [TipView EXCEPT !.block = b]
<1>7. /\ s \in ViewState /\ s.coins = TipView.coins /\ s.anchors = TipView.anchors
      /\ s.nullifiers = TipView.nullifiers /\ s.anchor = TipView.anchor /\ s.block = b
  BY <1>1 DEF ViewState
<1>8. BlockView' = s
  <2> HIDE DEF s
  <2> QED
    BY <1>4, <1>5, <1>7, SameAnswers
<1>9. Abstract!ConnectGenesis(b)
  BY <1>2, <1>5, <1>8 DEF Abstract!ConnectGenesis
<1> QED
  BY <1>5, <1>6, <1>9 DEF Kept, Abstract!Next

\* The end of ConnectBlock.
LEMMA EndConnectKept ==
    ASSUME IInv, NEW b \in Blocks, NEW rt \in Anchors, EndConnect(b, rt) PROVE Kept
<1>1. /\ db \in ViewState /\ tip \in Cache /\ Sound(tip, db) /\ view \in Cache
      /\ TipView \in ViewState /\ AsView(tip, db) = TipView /\ BlockView \in ViewState
      /\ AsView(view, TipView) = BlockView /\ Sound(view, TipView)
  BY IInvFacts DEF TipView, BlockView
<1>2. /\ view' = SetBestBlock(PushAnchor(view, TipView, rt), b)
      /\ phase = "connect" /\ phase' = "connected"
      /\ \A i \in 1 .. Len(chain) : chain[i].hash # b
      /\ rt = BlockView.anchor \/ rt \notin BlockView.anchors
      /\ db' = db /\ tip' = tip /\ chain' = chain
  BY DEF EndConnect
<1>3. BlockView.anchor \in BlockView.anchors
  <2>1. BlockView.anchors = TipView.anchors /\ BlockView.anchor = TipView.anchor
    BY <1>2 DEF IInv, Abstract!Inv, Abstract!ViewFollowsTip
  <2>2. TipView.anchor = Abstract!Root(Len(chain) + 1) /\ Len(chain) \in Nat
    BY DEF Abstract!Root, IInv, TypeOK
  <2>3. Len(chain) + 1 \in 1 .. Len(chain) + 1
    BY <2>2
  <2> QED
    BY <2>1, <2>2, <2>3 DEF IInv, Abstract!Inv, Abstract!AnchorsAreChainRoots
<1> DEFINE p == PushAnchor(view, TipView, rt)
<1>4. /\ p \in Cache /\ Sound(p, TipView) /\ p.hashAnchor = rt
      /\ SameButAnchors(AsView(p, TipView), BlockView, BlockView.anchors \cup {rt}, rt)
  BY Zenon, <1>1, <1>3, PushAnchorPushes
<1> HIDE DEF p
<1>5. /\ view' \in Cache /\ Sound(view', TipView)
      /\ AsView(view', TipView).coins = BlockView.coins
      /\ AsView(view', TipView).anchors = BlockView.anchors \cup {rt}
      /\ AsView(view', TipView).nullifiers = BlockView.nullifiers
      /\ AsView(view', TipView).anchor = rt
      /\ AsView(view', TipView).block = b
      /\ view'.hashBlock = b /\ view'.hashAnchor = rt
  <2>1. view' = SetBestBlock(p, b)
    BY <1>2 DEF p
  <2> QED
    BY <1>1, <1>4, <2>1, SetBestBlockSets DEF SameButAnchors
<1>6. /\ TypeOK' /\ FlagsSound' /\ TipView' = TipView
      /\ BlockView' = AsView(view', TipView) /\ BlockView' \in ViewState
  BY <1>1, <1>2, <1>5, ViewStep DEF Phases
<1>7. HashesSet'
  BY <1>2, <1>5, CoinsAssumption DEF IInv, HashesSet
<1> DEFINE s1 == [BlockView EXCEPT !.anchors = @ \cup {rt}]
           s2 == [s1 EXCEPT !.anchor = rt]
           s == [s2 EXCEPT !.block = b]
<1>8. s = [BlockView EXCEPT !.anchors = @ \cup {rt}, !.anchor = rt, !.block = b]
  OBVIOUS
<1>9. /\ s1 \in ViewState /\ s1.coins = BlockView.coins
      /\ s1.anchors = BlockView.anchors \cup {rt} /\ s1.nullifiers = BlockView.nullifiers
  BY <1>1 DEF ViewState
<1> HIDE DEF s1
<1>10. /\ s2 \in ViewState /\ s2.coins = s1.coins /\ s2.anchors = s1.anchors
       /\ s2.nullifiers = s1.nullifiers /\ s2.anchor = rt
  BY <1>9 DEF ViewState
<1> HIDE DEF s2
<1>11. /\ s \in ViewState /\ s.coins = s2.coins /\ s.anchors = s2.anchors
       /\ s.nullifiers = s2.nullifiers /\ s.anchor = s2.anchor /\ s.block = b
  BY <1>10 DEF ViewState
<1> HIDE DEF s
<1>12. BlockView' = s
  <2>1. /\ BlockView'.coins = s.coins /\ BlockView'.anchors = s.anchors
        /\ BlockView'.nullifiers = s.nullifiers
        /\ BlockView'.block = s.block /\ BlockView'.anchor = s.anchor
    BY <1>5, <1>6, <1>9, <1>10, <1>11
  <2> QED
    BY <1>6, <1>11, <2>1, SameAnswers
<1>13. Abstract!EndConnect(b, rt)
  BY <1>2, <1>6, <1>8, <1>12 DEF Abstract!EndConnect
<1> QED
  BY <1>6, <1>7, <1>13 DEF Kept, Abstract!Next

\* The end of DisconnectBlock.
LEMMA EndDisconnectKept ==
    ASSUME IInv, EndDisconnect PROVE Kept
<1>1. /\ db \in ViewState /\ tip \in Cache /\ Sound(tip, db) /\ view \in Cache
      /\ TipView \in ViewState /\ AsView(tip, db) = TipView /\ BlockView \in ViewState
      /\ AsView(view, TipView) = BlockView /\ Sound(view, TipView)
  BY IInvFacts DEF TipView, BlockView
<1> DEFINE rt == chain[Len(chain)].old_tree_root
           b == chain[Len(chain) - 1].hash
           t == GetBestAnchor(tip, db)
           p == PopAnchor(view, TipView, rt)
           as == IF BlockView.anchor = rt THEN BlockView.anchors
                 ELSE BlockView.anchors \ {BlockView.anchor}
<1>2. /\ view' = SetBestBlock(p, b)
      /\ tip' = t \/ tip' = GetAnchorAt(t, db, t.hashAnchor)
      /\ phase = "disconnect" /\ phase' = "disconnected"
      /\ db' = db /\ chain' = chain
  BY DEF EndDisconnect, ChainTip
<1>3. Len(chain) > 1 /\ chain \in Seq(ChainEntries) /\ chain # <<>>
  BY <1>2 DEF IInv, TypeOK, Abstract!Inv, Abstract!ViewFollowsTip
<1>4. rt \in Anchors /\ b \in Blocks
  <2>1. chain[Len(chain)] \in ChainEntries /\ chain[Len(chain) - 1] \in ChainEntries
    BY <1>3
  <2> QED
    BY <2>1 DEF ChainEntries
<1>5. /\ t \in Cache /\ AsView(t, db) = TipView /\ Sound(t, db)
      /\ t.hashAnchor = TipView.anchor /\ t.hashAnchor \in Anchors
  BY <1>1, GetBestInvisible DEF ViewState
<1> HIDE DEF t
<1>6. tip' \in Cache /\ AsView(tip', db) = TipView /\ Sound(tip', db)
  BY <1>1, <1>2, <1>5, GetAnchorAtInvisible
<1>7. /\ p \in Cache /\ Sound(p, TipView) /\ p.hashAnchor = rt
      /\ SameButAnchors(AsView(p, TipView), BlockView, as, rt)
  <2> HIDE DEF rt
  <2> QED
    BY Zenon, <1>1, <1>4, PopAnchorPops
<1> HIDE DEF p, rt, b, as
<1>8. /\ view' \in Cache /\ Sound(view', TipView)
      /\ AsView(view', TipView).coins = BlockView.coins
      /\ AsView(view', TipView).anchors = as
      /\ AsView(view', TipView).nullifiers = BlockView.nullifiers
      /\ AsView(view', TipView).anchor = rt
      /\ AsView(view', TipView).block = b
      /\ view'.hashBlock = b /\ view'.hashAnchor = rt
  <2> DEFINE v == SetBestBlock(p, b)
  <2>1. /\ v \in Cache /\ Sound(v, TipView)
        /\ AsView(v, TipView).coins = AsView(p, TipView).coins
        /\ AsView(v, TipView).anchors = AsView(p, TipView).anchors
        /\ AsView(v, TipView).nullifiers = AsView(p, TipView).nullifiers
        /\ AsView(v, TipView).anchor = AsView(p, TipView).anchor
        /\ AsView(v, TipView).block = b
        /\ v.hashBlock = b /\ v.hashAnchor = p.hashAnchor
    BY <1>1, <1>4, <1>7, SetBestBlockSets
  <2>2. view' = v
    BY <1>2
  <2> HIDE DEF v
  <2> QED
    BY Zenon, <1>7, <2>1, <2>2 DEF SameButAnchors
<1>9. /\ TypeOK' /\ FlagsSound' /\ TipView' = TipView
      /\ BlockView' = AsView(view', TipView) /\ BlockView' \in ViewState
  BY <1>2, <1>6, <1>8, ViewStep DEF Phases
<1>10. HashesSet'
  BY <1>2, <1>3, <1>4, <1>8, CoinsAssumption DEF IInv, HashesSet
<1> DEFINE s1 == [BlockView EXCEPT !.anchors = as]
           s2 == [s1 EXCEPT !.anchor = rt]
           s == [s2 EXCEPT !.block = b]
<1>11. s = [BlockView EXCEPT !.anchors = as, !.anchor = rt, !.block = b]
  OBVIOUS
<1>12. /\ s1 \in ViewState /\ s1.coins = BlockView.coins
       /\ s1.anchors = as /\ s1.nullifiers = BlockView.nullifiers
  <2>1. as \in SUBSET Anchors
    BY <1>1 DEF as, ViewState
  <2> QED
    BY Zenon, <1>1, <2>1 DEF ViewState
<1> HIDE DEF s1
<1>13. /\ s2 \in ViewState /\ s2.coins = s1.coins /\ s2.anchors = s1.anchors
       /\ s2.nullifiers = s1.nullifiers /\ s2.anchor = rt
  BY Zenon, <1>4, <1>12 DEF ViewState
<1> HIDE DEF s2
<1>14. /\ s \in ViewState /\ s.coins = s2.coins /\ s.anchors = s2.anchors
       /\ s.nullifiers = s2.nullifiers /\ s.anchor = s2.anchor /\ s.block = b
  BY <1>4, <1>13 DEF ViewState
<1> HIDE DEF s
<1>15. BlockView' = s
  <2>1. /\ BlockView'.coins = s.coins /\ BlockView'.anchors = s.anchors
        /\ BlockView'.nullifiers = s.nullifiers
        /\ BlockView'.block = s.block /\ BlockView'.anchor = s.anchor
    BY Zenon, <1>8, <1>9, <1>12, <1>13, <1>14
  <2> QED
    BY <1>9, <1>14, <2>1, SameAnswers
<1>16. Abstract!EndDisconnect
  <2>1. /\ phase = "disconnect" /\ phase' = "disconnected"
        /\ UNCHANGED <<TipView, chain>>
    BY <1>2, <1>9
  <2>2. BlockView' = [BlockView EXCEPT !.anchors = as, !.anchor = rt, !.block = b]
    BY <1>11, <1>15
  <2> QED
    BY <2>1, <2>2 DEF Abstract!EndDisconnect, rt, b, as
<1> QED
  BY <1>9, <1>10, <1>16 DEF Kept, Abstract!Next

\* view.Flush() replaces the tip's answers by the view's.
LEMMA FlushViewKept ==
    ASSUME IInv, FlushView PROVE Kept
<1>1. /\ db \in ViewState /\ tip \in Cache /\ Sound(tip, db) /\ view \in Cache
      /\ TipView \in ViewState /\ AsView(tip, db) = TipView /\ BlockView \in ViewState
      /\ AsView(view, TipView) = BlockView /\ Sound(view, TipView)
      /\ EmptyCache \in Cache
  BY IInvFacts, EmptyTypes DEF TipView, BlockView
<1> DEFINE t == BatchWrite(tip, view)
<1>2. /\ tip' = (IF phase = "disconnected" THEN GetAnchorAt(t, db, t.hashAnchor) ELSE t)
      /\ view' = EmptyCache
      /\ phase \in {"connected", "disconnected"} /\ phase' = "idle" /\ db' = db
      /\ chain' = IF phase = "connected"
                  THEN Append(chain, [hash |-> view.hashBlock,
                                      old_tree_root |-> TipView.anchor])
                  ELSE SubSeq(chain, 1, Len(chain) - 1)
  BY DEF FlushView
<1>3. /\ t \in Cache /\ Sound(t, db)
      /\ AsView(t, db).coins = BlockView.coins
      /\ AsView(t, db).anchors = BlockView.anchors
      /\ AsView(t, db).nullifiers = BlockView.nullifiers
      /\ t.hashBlock = view.hashBlock /\ t.hashAnchor = view.hashAnchor
  BY <1>1, BatchWriteMerges
<1> HIDE DEF t
<1>4. view.hashBlock # Null /\ view.hashBlock \in Blocks
  BY <1>1, <1>2 DEF IInv, HashesSet, Cache
<1>5. BlockView.block = view.hashBlock /\ AsView(t, db).block = view.hashBlock
  <2>1. BestBlock(view, TipView) = view.hashBlock /\ BestBlock(t, db) = view.hashBlock
    BY <1>3, <1>4 DEF BestBlock
  <2> QED
    BY <2>1 DEF BlockView, AsView
<1>6. AsView(t, db).anchor = BlockView.anchor
  <2>1. AsView(t, db).anchor = BestAnchor(t, db)
        /\ BlockView.anchor = BestAnchor(view, TipView)
    BY DEF BlockView, AsView
  <2>2. CASE view.hashAnchor # Null
    BY Zenon, <1>3, <2>1, <2>2 DEF BestAnchor
  <2>3. CASE view.hashAnchor = Null
    <3>1. chain = <<>> /\ db = EmptyDB
      BY <1>2, <2>3 DEF IInv, HashesSet
    <3>2. TipView.anchor = EmptyRoot
      BY <3>1 DEF IInv, Abstract!Inv, Abstract!AnchorsAreChainRoots, Abstract!Root
    <3>3. db.anchor = EmptyRoot
      BY <3>1 DEF EmptyDB
    <3> QED
      BY <1>3, <2>1, <2>3, <3>2, <3>3 DEF BestAnchor
  <2> QED
    BY <2>2, <2>3
<1>7. AsView(t, db) \in ViewState
  BY <1>1, <1>3, AsViewType
<1>8. tip' \in Cache /\ Sound(tip', db) /\ AsView(tip', db) = BlockView
  <2>1. AsView(t, db) = BlockView
    BY <1>1, <1>3, <1>5, <1>6, <1>7, SameAnswers
  <2>2. CASE phase = "connected"
    BY <1>2, <1>3, <2>1, <2>2
  <2>3. CASE phase = "disconnected"
    <3>1. t.hashAnchor \in Anchors
      BY <1>1, <1>3, <2>3
      DEF IInv, HashesSet, Cache, Abstract!Inv, Abstract!ViewFollowsTip
    <3>2. tip' = GetAnchorAt(t, db, t.hashAnchor)
      BY <1>2, <2>3
    <3> QED
      BY <1>1, <1>3, <2>1, <3>1, <3>2, GetAnchorAtInvisible
  <2> QED
    BY <1>2, <2>2, <2>3
<1>9. TipView' = BlockView
  BY <1>2, <1>8 DEF TipView
<1>10. BlockView' = BlockView /\ Sound(EmptyCache, BlockView)
  <2>1. AsView(EmptyCache, BlockView) = BlockView /\ Sound(EmptyCache, BlockView)
    BY <1>1, EmptyCacheView
  <2>2. BlockView' = AsView(view', TipView')
    BY DEF BlockView
  <2> QED
    BY <1>2, <1>9, <2>1, <2>2
<1>11. FlagsSound'
  BY <1>2, <1>8, <1>9, <1>10 DEF FlagsSound, Sound
<1>12. chain' \in Seq(ChainEntries) /\ chain' # <<>>
  <2>1. chain \in Seq(ChainEntries)
    BY DEF IInv, TypeOK
  <2>2. CASE phase = "connected"
    <3> DEFINE e == [hash |-> view.hashBlock, old_tree_root |-> TipView.anchor]
    <3>1. e \in ChainEntries
      BY <1>1, <1>4 DEF ChainEntries, ViewState
    <3>2. chain' = Append(chain, e)
      BY <1>2, <2>2
    <3> HIDE DEF e
    <3> QED
      BY <2>1, <3>1, <3>2
  <2>3. CASE phase = "disconnected"
    <3>1. Len(chain) > 1 /\ chain' = SubSeq(chain, 1, Len(chain) - 1)
      BY <1>2, <2>3 DEF IInv, Abstract!Inv, Abstract!ViewFollowsTip
    <3>2. PICK n \in Nat : n = Len(chain) - 1
      BY <2>1, <3>1
    <3> DEFINE q == SubSeq(chain, 1, n)
    <3>3. q \in Seq(ChainEntries) /\ Len(q) = n /\ n > 0
      BY <2>1, <3>1, <3>2
    <3>4. chain' = q
      BY <3>1, <3>2
    <3> HIDE DEF q
    <3> QED
      BY <3>3, <3>4
  <2> QED
    BY <1>2, <2>2, <2>3
<1>13. TypeOK'
  BY <1>1, <1>2, <1>8, <1>12 DEF TypeOK, Phases
<1>14. HashesSet'
  BY <1>2, <1>12 DEF HashesSet
<1>15. Abstract!Commit
  BY <1>2, <1>5, <1>9, <1>10 DEF Abstract!Commit
<1> QED
  BY <1>11, <1>13, <1>14, <1>15 DEF Kept, Abstract!Next

\* A dropped view leaves no trace.
LEMMA DropViewKept ==
    ASSUME IInv, DropView PROVE Kept
<1>1. /\ db \in ViewState /\ tip \in Cache /\ Sound(tip, db)
      /\ TipView \in ViewState /\ AsView(tip, db) = TipView
      /\ EmptyCache \in Cache
      /\ AsView(EmptyCache, TipView) = TipView /\ Sound(EmptyCache, TipView)
  BY IInvFacts, EmptyTypes, EmptyCacheView DEF TipView
<1>2. /\ view' = EmptyCache /\ tip' = tip /\ phase # "idle" /\ phase' = "idle"
      /\ db' = db /\ chain' = chain
  BY DEF DropView
<1>3. /\ TypeOK' /\ FlagsSound' /\ TipView' = TipView
      /\ BlockView' = AsView(view', TipView)
  BY <1>1, <1>2, ViewStep DEF Phases
<1>4. HashesSet'
  BY <1>2 DEF IInv, HashesSet
<1>5. Abstract!Discard
  BY <1>1, <1>2, <1>3 DEF Abstract!Discard
<1> QED
  BY <1>3, <1>4, <1>5 DEF Kept, Abstract!Next

-----------------------------------------------------------------------------
(* The inductive invariant, and what follows from it. *)

\* The initial stack is empty, and its answers are those of the empty database.
LEMMA InitKept ==
    ASSUME Init PROVE IInv /\ Abstract!Init
<1>1. /\ db = EmptyDB /\ tip = EmptyCache /\ view = EmptyCache
      /\ phase = "idle" /\ chain = <<>>
  BY DEF Init
<1>2. /\ AsView(EmptyCache, EmptyDB) = EmptyDB /\ Sound(EmptyCache, EmptyDB)
      /\ EmptyCache \in Cache /\ EmptyDB \in ViewState
  BY EmptyTypes, EmptyCacheView
<1>3. TipView = EmptyDB /\ BlockView = EmptyDB
  BY <1>1, <1>2 DEF TipView, BlockView
<1>4. Abstract!Init
  BY <1>1, <1>3 DEF Abstract!Init, Abstract!EmptyDB, EmptyDB
<1>5. TypeOK
  BY <1>1, <1>2 DEF TypeOK, Phases
<1>6. FlagsSound
  BY <1>1, <1>2, <1>3 DEF FlagsSound, Sound
<1>7. HashesSet
  BY <1>1 DEF HashesSet
<1>8. Abstract!Inv
  BY <1>4, AbstractInit
<1> QED
  BY <1>4, <1>5, <1>6, <1>7, <1>8 DEF IInv

\* Every step keeps the invariant and is a step of the abstract specification
\* or one that it does not see.
LEMMA NextKept ==
    ASSUME IInv, [Next]_vars PROVE IInv' /\ [Abstract!Next]_(Abstract!vars)
<1>1. ASSUME Kept PROVE IInv' /\ [Abstract!Next]_(Abstract!vars)
  BY <1>1, PromiseKept DEF Kept, IInv
<1>2. CASE UNCHANGED vars
  <2>1. /\ tip' = tip /\ db' = db /\ view' = view /\ phase' = phase /\ chain' = chain
    BY <1>2 DEF vars
  <2>2. tip' \in Cache /\ AsView(tip', db) = TipView /\ Sound(tip', db)
    BY <2>1, IInvFacts DEF TipView
  <2>3. TypeOK' /\ FlagsSound' /\ HashesSet' /\ UNCHANGED Abstract!vars
    BY <2>1, <2>2, TipInvisible
  <2> QED
    BY <1>1, <2>3 DEF Kept
<1>3. CASE Next
  <2>1. ASSUME \E o \in Outpoints : TipFetchCoin(o) \/ TipUncache(o) PROVE Kept
    BY <2>1, TipReadsKept
  <2>2. ASSUME \E rt \in Anchors : TipGetAnchorAt(rt) PROVE Kept
    BY <2>2, TipReadsKept
  <2>3. ASSUME \E nf \in Nullifiers : TipGetNullifier(nf) PROVE Kept
    BY <2>3, TipReadsKept
  <2>4. ASSUME \E o \in Outpoints : ViewFetchCoin(o) PROVE Kept
    BY <2>4, ViewReadsKept
  <2>5. ASSUME \E rt \in Anchors : ViewGetAnchorAt(rt) PROVE Kept
    BY <2>5, ViewReadsKept
  <2>6. ASSUME \E nf \in Nullifiers : ViewGetNullifier(nf) PROVE Kept
    BY <2>6, ViewReadsKept
  <2>7. ASSUME \E o \in Outpoints, coin \in CoinValues, po \in BOOLEAN :
                  ViewAddCoin(o, coin, po)
        PROVE  Kept
    BY <2>7, ViewWritesKept
  <2>8. ASSUME \E o \in Outpoints : ViewSpendCoin(o) PROVE Kept
    BY <2>8, ViewWritesKept
  <2>9. ASSUME \E nf \in Nullifiers : ViewSetNullifier(nf) PROVE Kept
    BY <2>9, ViewWritesKept
  <2>10. ASSUME NEW b \in Blocks, ConnectGenesis(b) PROVE Kept
    BY <2>10, GenesisKept
  <2>11. ASSUME NEW b \in Blocks, NEW rt \in Anchors, EndConnect(b, rt) PROVE Kept
    BY <2>11, EndConnectKept
  <2>12. ASSUME BeginConnect \/ BeginDisconnect PROVE Kept
    BY <2>12, BeginKept
  <2>13. ASSUME EndDisconnect PROVE Kept
    BY <2>13, EndDisconnectKept
  <2>14. ASSUME FlushView PROVE Kept
    BY <2>14, FlushViewKept
  <2>15. ASSUME DropView PROVE Kept
    BY <2>15, DropViewKept
  <2>16. ASSUME FlushStateToDisk PROVE Kept
    BY <2>16, FlushKept
  <2>17. Kept
    BY <1>3, <2>1, <2>2, <2>3, <2>4, <2>5, <2>6, <2>7, <2>8, <2>9, <2>10, <2>11,
       <2>12, <2>13, <2>14, <2>15, <2>16 DEF Next
  <2> QED
    BY <1>1, <2>17
<1> QED
  BY <1>2, <1>3

\* IInv is an invariant.
THEOREM Invariance == Spec => []IInv
<1>1. Init => IInv
  BY InitKept
<1>2. IInv /\ [Next]_vars => IInv'
  BY NextKept
<1> QED
  BY <1>1, <1>2, PTL DEF Spec

\* Every variable keeps its type: no sequence of calls leaves a cache with an
\* entry, or the chain with a null hash, that the code could not have written.
THEOREM TypeCorrect == Spec => []TypeOK
<1>1. IInv => TypeOK
  BY DEF IInv
<1> QED
  BY <1>1, Invariance, PTL

\* The DIRTY and FRESH flags are right (CCoinsViewCache, all methods).
THEOREM FlagsCorrect == Spec => []FlagsSound
<1>1. IInv => FlagsSound
  BY DEF IInv
<1> QED
  BY <1>1, Invariance, PTL

\* Neither AddCoin, called as the code calls it, nor BatchWrite throws.
THEOREM NoThrow == Spec => []NeverThrows
<1>1. ASSUME IInv PROVE NeverThrows
  <2>1. \A o \in Outpoints : ~MergeThrows(tip.coins[o], view.coins[o])
    BY <1>1, IInvFacts, BatchWriteMerges DEF TipView
  <2>2. ASSUME NEW o \in Outpoints, NEW coin \in CoinValues, BlockView.coins[o] = Spent
        PROVE  ~AddCoinThrows(view, o, coin, FALSE)
    BY <2>2 DEF BlockView, AsView, CoinAt, EntryCoin, AddCoinThrows
  <2> QED
    BY Zenon, <2>1, <2>2 DEF NeverThrows
<1> QED
  BY <1>1, Invariance, PTL

\* The anchors pcoinsTip accepts are the roots of the active chain (PushAnchor,
\* PopAnchor and the flushes).
THEOREM AnchorsCorrect == Spec => []AnchorsAreChainRoots
<1>1. IInv => AnchorsAreChainRoots
  BY DEF IInv, AnchorsAreChainRoots, Abstract!Inv
<1> QED
  BY <1>1, Invariance, PTL

\* The asserts on the commitment tree in PopAnchor and ConnectBlock hold.
THEOREM AnchorAsserts == Spec => []BestAnchorKnown
<1>1. ASSUME IInv PROVE BestAnchorKnown
  <2>1. /\ Abstract!AnchorsAreChainRoots /\ Abstract!RootsNeverRecur
        /\ Abstract!ViewFollowsTip /\ TypeOK
    BY <1>1 DEF IInv, Abstract!Inv
  <2>2. Len(chain) \in Nat /\ phase \in Phases
    BY <2>1 DEF TypeOK
  <2>3. /\ \A i \in 1 .. Len(chain) + 1 : Abstract!Root(i) \in TipView.anchors
        /\ Abstract!Root(Len(chain) + 1) = TipView.anchor
    BY <2>1 DEF Abstract!AnchorsAreChainRoots, Abstract!Root
  <2>4. TipView.anchor \in TipView.anchors
    BY <2>2, <2>3
  <2>5. BlockView.anchor \in BlockView.anchors
    <3>1. CASE phase = "disconnected"
      <4>1. /\ Len(chain) > 1 /\ BlockView.anchor = Abstract!Root(Len(chain))
            /\ BlockView.anchors = IF BlockView.anchor = TipView.anchor
                                   THEN TipView.anchors
                                   ELSE TipView.anchors \ {TipView.anchor}
        BY <2>1, <3>1 DEF Abstract!ViewFollowsTip
      <4>2. BlockView.anchor \in TipView.anchors
        BY <2>2, <2>3, <4>1
      <4> QED
        BY <4>1, <4>2
    <3>2. CASE phase # "disconnected"
      BY <2>1, <2>2, <2>4, <3>2 DEF Abstract!ViewFollowsTip, Phases
    <3> QED
      BY <3>1, <3>2
  <2>6. BestAnchor(view, TipView) = BlockView.anchor
    BY DEF BlockView, AsView
  <2>7. BlockView.anchors = {rt \in Anchors : HasAnchor(view, TipView, rt)}
    BY DEF BlockView, AsView
  <2> QED
    BY <2>5, <2>6, <2>7 DEF BestAnchorKnown, PopAnchorAsserts
<1> QED
  BY <1>1, Invariance, PTL

\* The caches are invisible: class CCoinsViewCache, stacked twice over a
\* database, implements the plain chain state.
THEOREM Refinement == Spec => RefinesCoinsView
<1>1. Init => Abstract!Init
  BY InitKept
<1>2. IInv /\ [Next]_vars => [Abstract!Next]_(Abstract!vars)
  BY NextKept
<1> QED
  BY <1>1, <1>2, Invariance, PTL DEF Spec, RefinesCoinsView, Abstract!Spec
=============================================================================
