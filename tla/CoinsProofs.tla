----------------------------- MODULE CoinsProofs -----------------------------
(***************************************************************************)
(* What each method of CCoinsViewCache does to the answers of the cache    *)
(* and to its flags, for any base and any set of outpoints, coins,         *)
(* nullifiers, anchors and blocks.                                         *)
(***************************************************************************)
EXTENDS Coins, TLAPS

-----------------------------------------------------------------------------
(* Types. *)

\* The answers of a cache over a view are those of a view (AsView).
LEMMA AsViewType ==
    ASSUME NEW c \in Cache, NEW base \in ViewState
    PROVE  AsView(c, base) \in ViewState
<1>1. \A o \in Outpoints : CoinAt(c, base, o) \in CoinValues \cup {Spent}
  BY CoinsAssumption DEF CoinAt, EntryCoin, Cache, ViewState, CoinEntries
<1>2. BestBlock(c, base) \in Blocks \cup {Null}
  BY DEF BestBlock, Cache, ViewState
<1>3. BestAnchor(c, base) \in Anchors
  BY DEF BestAnchor, Cache, ViewState
<1> QED
  BY <1>1, <1>2, <1>3 DEF AsView, ViewState

\* The empty cache and the empty database have their types.
LEMMA EmptyTypes ==
    EmptyCache \in Cache /\ EmptyDB \in ViewState
BY CoinsAssumption DEF EmptyCache, EmptyDB, Cache, ViewState

\* A cache without entries has no flag that could be wrong and passes every
\* question on.
LEMMA NoEntries ==
    ASSUME NEW c, NEW base,
           \A o \in Outpoints : c.coins[o] = NoEntry,
           \A rt \in Anchors : c.anchors[rt] = NoEntry,
           \A nf \in Nullifiers : c.nullifiers[nf] = NoEntry
    PROVE  /\ Sound(c, base)
           /\ \A o \in Outpoints : CoinAt(c, base, o) = base.coins[o]
           /\ \A rt \in Anchors : HasAnchor(c, base, rt) <=> rt \in base.anchors
           /\ \A nf \in Nullifiers : HasNullifier(c, base, nf) <=> nf \in base.nullifiers
BY DEF Sound, CoinFlagsSound, MarkFlagsSound, CoinAt, EntryCoin, HasAnchor, HasNullifier

\* An empty cache answers as its base does and has no flag that could be wrong.
LEMMA EmptyCacheView ==
    ASSUME NEW base \in ViewState
    PROVE  AsView(EmptyCache, base) = base /\ Sound(EmptyCache, base)
<1>1. AsView(EmptyCache, base) = base
  <2>1. \A o \in Outpoints : CoinAt(EmptyCache, base, o) = base.coins[o]
    BY DEF CoinAt, EntryCoin, EmptyCache
  <2>2. \A rt \in Anchors : HasAnchor(EmptyCache, base, rt) <=> rt \in base.anchors
    BY DEF HasAnchor, EmptyCache
  <2>3. \A nf \in Nullifiers :
           HasNullifier(EmptyCache, base, nf) <=> nf \in base.nullifiers
    BY DEF HasNullifier, EmptyCache
  <2>4. BestBlock(EmptyCache, base) = base.block /\ BestAnchor(EmptyCache, base) = base.anchor
    BY DEF BestBlock, BestAnchor, EmptyCache
  <2> QED
    BY <2>1, <2>2, <2>3, <2>4 DEF AsView, ViewState
<1>2. Sound(EmptyCache, base)
  BY DEF Sound, CoinFlagsSound, MarkFlagsSound, EmptyCache
<1> QED
  BY <1>1, <1>2

-----------------------------------------------------------------------------
(* The reading methods change no answer and no soundness. *)

\* View s has the anchors as, the tree rt and agrees with t otherwise.
SameButAnchors(s, t, as, rt) ==
    /\ s.coins = t.coins /\ s.anchors = as /\ s.nullifiers = t.nullifiers
    /\ s.block = t.block /\ s.anchor = rt

\* GetAnchorAt (CCoinsViewCache::GetAnchorAt) is invisible.
LEMMA GetAnchorAtInvisible ==
    ASSUME NEW c \in Cache, NEW base \in ViewState, NEW rt \in Anchors
    PROVE  /\ GetAnchorAt(c, base, rt) \in Cache
           /\ AsView(GetAnchorAt(c, base, rt), base) = AsView(c, base)
           /\ Sound(c, base) => Sound(GetAnchorAt(c, base, rt), base)
           /\ GetAnchorAt(c, base, rt).hashBlock = c.hashBlock
           /\ GetAnchorAt(c, base, rt).hashAnchor = c.hashAnchor
<1> DEFINE d == GetAnchorAt(c, base, rt)
<1>1. d \in Cache
  BY Zenon DEF GetAnchorAt, Cache, MarkEntries
<1>2. /\ d.coins = c.coins /\ d.nullifiers = c.nullifiers
      /\ d.hashBlock = c.hashBlock /\ d.hashAnchor = c.hashAnchor
  BY DEF GetAnchorAt, Cache
<1>3. \A a \in Anchors : HasAnchor(d, base, a) <=> HasAnchor(c, base, a)
  BY CoinsAssumption DEF GetAnchorAt, HasAnchor, Cache, MarkEntries
<1>4. AsView(d, base) = AsView(c, base)
  BY Zenon, <1>2, <1>3 DEF AsView, CoinAt, EntryCoin, HasNullifier, BestBlock, BestAnchor
<1>5. CoinFlagsSound(c, base) => CoinFlagsSound(d, base)
  BY <1>2 DEF CoinFlagsSound
<1>6. MarkFlagsSound(c, base) => MarkFlagsSound(d, base)
  BY <1>2, CoinsAssumption DEF MarkFlagsSound, GetAnchorAt, Cache, MarkEntries
<1> QED
  BY <1>1, <1>2, <1>4, <1>5, <1>6 DEF Sound

\* The best block and the best anchor are copied from the base unchanged
\* (CCoinsViewCache::GetBestBlock, GetBestAnchor).
LEMMA GetBestInvisible ==
    ASSUME NEW c \in Cache, NEW base \in ViewState
    PROVE  /\ GetBestBlock(c, base) \in Cache
           /\ AsView(GetBestBlock(c, base), base) = AsView(c, base)
           /\ Sound(c, base) => Sound(GetBestBlock(c, base), base)
           /\ GetBestAnchor(c, base) \in Cache
           /\ AsView(GetBestAnchor(c, base), base) = AsView(c, base)
           /\ Sound(c, base) => Sound(GetBestAnchor(c, base), base)
           /\ GetBestBlock(c, base).hashBlock = AsView(c, base).block
           /\ GetBestAnchor(c, base).hashAnchor = AsView(c, base).anchor
           /\ GetBestAnchor(c, base).hashBlock = c.hashBlock
           /\ GetBestBlock(c, base).hashAnchor = c.hashAnchor
<1> DEFINE d == GetBestBlock(c, base)
           e == GetBestAnchor(c, base)
<1>1. d \in Cache /\ e \in Cache
  BY DEF GetBestBlock, GetBestAnchor, BestBlock, BestAnchor, Cache, ViewState
<1>2. /\ d.coins = c.coins /\ d.anchors = c.anchors /\ d.nullifiers = c.nullifiers
      /\ d.hashBlock = BestBlock(c, base) /\ d.hashAnchor = c.hashAnchor
      /\ e.coins = c.coins /\ e.anchors = c.anchors /\ e.nullifiers = c.nullifiers
      /\ e.hashAnchor = BestAnchor(c, base) /\ e.hashBlock = c.hashBlock
  BY DEF GetBestBlock, GetBestAnchor, Cache
<1>3. /\ BestBlock(d, base) = BestBlock(c, base) /\ BestAnchor(d, base) = BestAnchor(c, base)
      /\ BestBlock(e, base) = BestBlock(c, base) /\ BestAnchor(e, base) = BestAnchor(c, base)
  BY <1>2, CoinsAssumption DEF BestBlock, BestAnchor, Cache, ViewState
<1>4. AsView(d, base) = AsView(c, base) /\ AsView(e, base) = AsView(c, base)
  BY <1>2, <1>3 DEF AsView, CoinAt, EntryCoin, HasAnchor, HasNullifier
<1>5. Sound(c, base) => Sound(d, base) /\ Sound(e, base)
  BY <1>2 DEF Sound, CoinFlagsSound, MarkFlagsSound
<1> QED
  BY <1>1, <1>2, <1>4, <1>5 DEF AsView

-----------------------------------------------------------------------------
(* The writing methods change the answer they are about, and no other. *)

Marked(c, a, e, best) == [c EXCEPT !.anchors[a] = e, !.hashAnchor = best]

\* An entry for an anchor and a new best anchor, written together.
LEMMA MarkedMarks ==
    ASSUME NEW c \in Cache, NEW base \in ViewState, NEW a \in Anchors,
           NEW e \in MarkEntries, NEW best \in Anchors,
           DIRTY \in e.flags, Sound(c, base)
    PROVE  /\ Marked(c, a, e, best) \in Cache
           /\ e.entered =>
                 SameButAnchors(AsView(Marked(c, a, e, best), base), AsView(c, base),
                                AsView(c, base).anchors \cup {a}, best)
           /\ ~e.entered =>
                 SameButAnchors(AsView(Marked(c, a, e, best), base), AsView(c, base),
                                AsView(c, base).anchors \ {a}, best)
           /\ Sound(Marked(c, a, e, best), base)
           /\ Marked(c, a, e, best).hashAnchor = best
<1> DEFINE d == Marked(c, a, e, best)
           f == [c EXCEPT !.anchors[a] = e]
<1>1. d = [f EXCEPT !.hashAnchor = best]
  BY DEF Marked
<1>2. e # NoEntry
  BY CoinsAssumption DEF MarkEntries
<1>3. f \in Cache
  BY <1>2 DEF Cache
<1>4. /\ f.coins = c.coins /\ f.nullifiers = c.nullifiers
      /\ f.anchors = [c.anchors EXCEPT ![a] = e]
      /\ f.hashBlock = c.hashBlock
  BY DEF Cache
<1> HIDE DEF f
<1>5. d \in Cache
  BY <1>1, <1>3 DEF Cache
<1>6. /\ d.coins = c.coins /\ d.nullifiers = c.nullifiers
      /\ d.anchors = [c.anchors EXCEPT ![a] = e]
      /\ d.hashBlock = c.hashBlock /\ d.hashAnchor = best
  BY <1>1, <1>3, <1>4 DEF Cache
<1> HIDE DEF d
<1>7. c.anchors \in [Anchors -> MarkEntries \cup {NoEntry}]
  BY DEF Cache
<1>8. \A b \in Anchors :
         HasAnchor(d, base, b) <=> IF b = a THEN e.entered ELSE HasAnchor(c, base, b)
  BY <1>2, <1>6, <1>7 DEF HasAnchor
<1>9. BestAnchor(d, base) = best
  BY <1>6, CoinsAssumption DEF BestAnchor
<1>10. /\ e.entered => SameButAnchors(AsView(d, base), AsView(c, base),
                                      AsView(c, base).anchors \cup {a}, best)
       /\ ~e.entered => SameButAnchors(AsView(d, base), AsView(c, base),
                                       AsView(c, base).anchors \ {a}, best)
  BY <1>6, <1>8, <1>9 DEF SameButAnchors, AsView, CoinAt, EntryCoin, HasNullifier, BestBlock
<1>11. CoinFlagsSound(d, base)
  BY <1>6 DEF CoinFlagsSound, Sound
<1>12. MarkFlagsSound(d, base)
  BY <1>2, <1>6, <1>7 DEF MarkFlagsSound, Sound
<1> QED
  BY <1>5, <1>6, <1>10, <1>11, <1>12 DEF Sound, d

\* PushAnchor makes the new root an anchor and the best one.
LEMMA PushAnchorPushes ==
    ASSUME NEW c \in Cache, NEW base \in ViewState, NEW rt \in Anchors, Sound(c, base),
           AsView(c, base).anchor \in AsView(c, base).anchors
    PROVE  /\ PushAnchor(c, base, rt) \in Cache
           /\ SameButAnchors(AsView(PushAnchor(c, base, rt), base), AsView(c, base),
                             AsView(c, base).anchors \cup {rt}, rt)
           /\ Sound(PushAnchor(c, base, rt), base)
           /\ PushAnchor(c, base, rt).hashAnchor = rt
<1> DEFINE d == GetBestAnchor(c, base)
<1>1. /\ d \in Cache /\ AsView(d, base) = AsView(c, base) /\ Sound(d, base)
      /\ d.hashAnchor = AsView(c, base).anchor
  BY GetBestInvisible
<1>2. CASE d.hashAnchor = rt
  <2>1. PushAnchor(c, base, rt) = d
    BY <1>2 DEF PushAnchor
  <2> QED
    BY Zenon, <1>1, <1>2, <2>1 DEF SameButAnchors
<1>3. CASE d.hashAnchor # rt
  <2> DEFINE e == [entered |-> TRUE, flags |-> {DIRTY}]
  <2>1. PushAnchor(c, base, rt) = Marked(d, rt, e, rt)
    BY <1>3 DEF PushAnchor, Marked
  <2>3. e \in MarkEntries /\ DIRTY \in e.flags /\ e.entered
    BY DEF MarkEntries
  <2> HIDE DEF d, e
  <2>4. d \in Cache /\ Sound(d, base)
    BY <1>1
  <2>5. /\ Marked(d, rt, e, rt) \in Cache
        /\ SameButAnchors(AsView(Marked(d, rt, e, rt), base), AsView(d, base),
                          AsView(d, base).anchors \cup {rt}, rt)
        /\ Sound(Marked(d, rt, e, rt), base)
        /\ Marked(d, rt, e, rt).hashAnchor = rt
    BY Zenon, <2>3, <2>4, MarkedMarks
  <2> QED
    BY <1>1, <2>1, <2>5
<1> QED
  BY <1>2, <1>3

\* PopAnchor goes back to an older root and gives up the current one.
LEMMA PopAnchorPops ==
    ASSUME NEW c \in Cache, NEW base \in ViewState, NEW rt \in Anchors, Sound(c, base)
    PROVE  /\ PopAnchor(c, base, rt) \in Cache
           /\ SameButAnchors(AsView(PopAnchor(c, base, rt), base), AsView(c, base),
                             IF AsView(c, base).anchor = rt THEN AsView(c, base).anchors
                             ELSE AsView(c, base).anchors \ {AsView(c, base).anchor}, rt)
           /\ Sound(PopAnchor(c, base, rt), base)
           /\ PopAnchor(c, base, rt).hashAnchor = rt
<1> DEFINE d == GetBestAnchor(c, base)
<1>1. /\ d \in Cache /\ AsView(d, base) = AsView(c, base) /\ Sound(d, base)
      /\ d.hashAnchor = AsView(c, base).anchor
  BY GetBestInvisible
<1>2. CASE d.hashAnchor = rt
  <2>1. PopAnchor(c, base, rt) = d
    BY <1>2 DEF PopAnchor
  <2> QED
    BY Zenon, <1>1, <1>2, <2>1 DEF SameButAnchors
<1>3. CASE d.hashAnchor # rt
  <2> DEFINE e == [entered |-> FALSE, flags |-> {DIRTY}]
  <2>1. PopAnchor(c, base, rt) = Marked(d, d.hashAnchor, e, rt)
    BY <1>3 DEF PopAnchor, Marked
  <2>2. d.hashAnchor \in Anchors
    BY <1>1, AsViewType DEF ViewState
  <2>4. e \in MarkEntries /\ DIRTY \in e.flags /\ ~e.entered
    BY DEF MarkEntries
  <2> HIDE DEF d, e
  <2>5. d \in Cache /\ Sound(d, base)
    BY <1>1
  <2>6. /\ Marked(d, d.hashAnchor, e, rt) \in Cache
        /\ SameButAnchors(AsView(Marked(d, d.hashAnchor, e, rt), base), AsView(d, base),
                          AsView(d, base).anchors \ {d.hashAnchor}, rt)
        /\ Sound(Marked(d, d.hashAnchor, e, rt), base)
        /\ Marked(d, d.hashAnchor, e, rt).hashAnchor = rt
    BY Zenon, <2>2, <2>4, <2>5, MarkedMarks
  <2> QED
    BY <1>1, <1>3, <2>1, <2>6
<1> QED
  BY <1>2, <1>3

\* SetBestBlock moves the best block only.
LEMMA SetBestBlockSets ==
    ASSUME NEW c \in Cache, NEW base \in ViewState, NEW b \in Blocks, Sound(c, base)
    PROVE  /\ SetBestBlock(c, b) \in Cache
           /\ AsView(SetBestBlock(c, b), base).coins = AsView(c, base).coins
           /\ AsView(SetBestBlock(c, b), base).anchors = AsView(c, base).anchors
           /\ AsView(SetBestBlock(c, b), base).nullifiers = AsView(c, base).nullifiers
           /\ AsView(SetBestBlock(c, b), base).anchor = AsView(c, base).anchor
           /\ AsView(SetBestBlock(c, b), base).block = b
           /\ Sound(SetBestBlock(c, b), base)
           /\ SetBestBlock(c, b).hashBlock = b
           /\ SetBestBlock(c, b).hashAnchor = c.hashAnchor
<1> DEFINE d == SetBestBlock(c, b)
<1>1. d \in Cache
  BY DEF SetBestBlock, Cache
<1>2. /\ d.coins = c.coins /\ d.anchors = c.anchors /\ d.nullifiers = c.nullifiers
      /\ d.hashBlock = b /\ d.hashAnchor = c.hashAnchor
  BY DEF SetBestBlock, Cache
<1> HIDE DEF d
<1>3. BestBlock(d, base) = b
  BY <1>2, CoinsAssumption DEF BestBlock
<1>4. /\ AsView(d, base).coins = AsView(c, base).coins
      /\ AsView(d, base).anchors = AsView(c, base).anchors
      /\ AsView(d, base).nullifiers = AsView(c, base).nullifiers
      /\ AsView(d, base).anchor = AsView(c, base).anchor
      /\ AsView(d, base).block = b
  BY <1>2, <1>3 DEF AsView, CoinAt, EntryCoin, HasAnchor, HasNullifier, BestAnchor
<1>5. Sound(d, base)
  BY <1>2 DEF Sound, CoinFlagsSound, MarkFlagsSound
<1> QED
  BY <1>1, <1>2, <1>4, <1>5 DEF d

-----------------------------------------------------------------------------
(* Flushing. *)

\* One coin: the merged entry shows what the child showed, its flags are right
\* over the grandparent's coin b, and the merge does not throw.
LEMMA MergeCoinMerges ==
    ASSUME NEW p \in CoinEntries \cup {NoEntry}, NEW e \in CoinEntries \cup {NoEntry},
           NEW b \in CoinValues \cup {Spent},
           p # NoEntry => /\ DIRTY \notin p.flags => p.coin = b
                          /\ FRESH \in p.flags =>
                                DIRTY \in p.flags /\ p.coin # Spent /\ b = Spent,
           e # NoEntry => LET q == IF p # NoEntry THEN p.coin ELSE b
                          IN  /\ DIRTY \notin e.flags => e.coin = q
                              /\ FRESH \in e.flags =>
                                    DIRTY \in e.flags /\ e.coin # Spent /\ q = Spent
    PROVE  LET m == MergeCoin(p, e)
               q == IF p # NoEntry THEN p.coin ELSE b
           IN  /\ m \in CoinEntries \cup {NoEntry}
               /\ (IF m # NoEntry THEN m.coin ELSE b) =
                     (IF e # NoEntry THEN e.coin ELSE q)
               /\ m # NoEntry => /\ DIRTY \notin m.flags => m.coin = b
                                 /\ FRESH \in m.flags =>
                                       DIRTY \in m.flags /\ m.coin # Spent /\ b = Spent
               /\ ~MergeThrows(p, e)
<1> DEFINE q == IF p # NoEntry THEN p.coin ELSE b
           m == MergeCoin(p, e)
<1>1. ~MergeThrows(p, e)
  BY DEF MergeThrows
<1>2. CASE e = NoEntry
  BY <1>1, <1>2 DEF MergeCoin
<1>3. CASE e # NoEntry /\ DIRTY \notin e.flags
  BY <1>1, <1>3 DEF MergeCoin
<1>4. CASE e # NoEntry /\ DIRTY \in e.flags /\ p = NoEntry
  <2>1. ~(FRESH \in e.flags /\ e.coin = Spent)
    BY <1>4
  <2>2. m = [coin |-> e.coin, flags |-> {DIRTY} \cup (e.flags \cap {FRESH})]
    BY <1>4, <2>1 DEF MergeCoin
  <2>3. m \in CoinEntries /\ m # NoEntry
    BY <1>4, <2>2, CoinsAssumption DEF CoinEntries, Flags
  <2> QED
    BY <1>1, <1>4, <2>1, <2>2, <2>3 DEF DIRTY, FRESH
<1>5. CASE /\ e # NoEntry /\ DIRTY \in e.flags /\ p # NoEntry
           /\ FRESH \in p.flags /\ e.coin = Spent
  <2>1. m = NoEntry
    BY <1>5 DEF MergeCoin
  <2> QED
    BY <1>1, <1>5, <2>1
<1>6. CASE /\ e # NoEntry /\ DIRTY \in e.flags /\ p # NoEntry
           /\ ~(FRESH \in p.flags /\ e.coin = Spent)
  <2>1. m = [coin |-> e.coin, flags |-> p.flags \cup {DIRTY}]
    BY <1>6 DEF MergeCoin
  <2>2. m \in CoinEntries /\ m # NoEntry
    BY <1>6, <2>1, CoinsAssumption DEF CoinEntries, Flags
  <2> QED
    BY <1>1, <1>6, <2>1, <2>2 DEF DIRTY, FRESH
<1> QED
  BY <1>2, <1>3, <1>4, <1>5, <1>6

\* One anchor or nullifier: the same, b being the grandparent's answer.
LEMMA MergeMarkMerges ==
    ASSUME NEW p \in MarkEntries \cup {NoEntry}, NEW e \in MarkEntries \cup {NoEntry},
           NEW b \in BOOLEAN,
           p # NoEntry /\ DIRTY \notin p.flags => (p.entered <=> b),
           e # NoEntry /\ DIRTY \notin e.flags =>
               (e.entered <=> IF p # NoEntry THEN p.entered ELSE b)
    PROVE  /\ MergeMark(p, e) \in MarkEntries \cup {NoEntry}
           /\ (IF MergeMark(p, e) # NoEntry THEN MergeMark(p, e).entered ELSE b) <=>
                 (IF e # NoEntry THEN e.entered ELSE IF p # NoEntry THEN p.entered ELSE b)
           /\ MergeMark(p, e) # NoEntry /\ DIRTY \notin MergeMark(p, e).flags =>
                 (MergeMark(p, e).entered <=> b)
<1> DEFINE m == MergeMark(p, e)
<1>1. CASE e = NoEntry
  BY <1>1 DEF MergeMark
<1>2. CASE e # NoEntry /\ DIRTY \notin e.flags
  BY <1>2 DEF MergeMark
<1>3. CASE e # NoEntry /\ DIRTY \in e.flags /\ p = NoEntry
  <2>1. m = [entered |-> e.entered, flags |-> {DIRTY}]
    BY <1>3 DEF MergeMark
  <2>2. m \in MarkEntries /\ m # NoEntry
    BY <1>3, <2>1, CoinsAssumption DEF MarkEntries
  <2> QED
    BY <1>3, <2>1, <2>2
<1>4. CASE e # NoEntry /\ DIRTY \in e.flags /\ p # NoEntry
  <2>1. m = IF p.entered = e.entered THEN p
            ELSE [entered |-> e.entered, flags |-> p.flags \cup {DIRTY}]
    BY <1>4 DEF MergeMark
  <2>2. m \in MarkEntries /\ m # NoEntry
    BY <1>4, <2>1, CoinsAssumption DEF MarkEntries
  <2>3. m.entered = e.entered
    BY <1>4, <2>1
  <2> QED
    BY <1>4, <2>1, <2>2, <2>3
<1> QED
  BY <1>1, <1>2, <1>3, <1>4

\* CCoinsViewCache::BatchWrite: the parent answers over its base as the child
\* did over the parent, its flags are right, and nothing throws.
LEMMA BatchWriteMerges ==
    ASSUME NEW p \in Cache, NEW v \in Cache, NEW base \in ViewState,
           Sound(p, base), Sound(v, AsView(p, base))
    PROVE  /\ BatchWrite(p, v) \in Cache
           /\ AsView(BatchWrite(p, v), base).coins = AsView(v, AsView(p, base)).coins
           /\ AsView(BatchWrite(p, v), base).anchors = AsView(v, AsView(p, base)).anchors
           /\ AsView(BatchWrite(p, v), base).nullifiers =
                 AsView(v, AsView(p, base)).nullifiers
           /\ Sound(BatchWrite(p, v), base)
           /\ BatchWrite(p, v).hashBlock = v.hashBlock
           /\ BatchWrite(p, v).hashAnchor = v.hashAnchor
           /\ \A o \in Outpoints : ~MergeThrows(p.coins[o], v.coins[o])
<1> DEFINE m == BatchWrite(p, v)
           q == AsView(p, base)
<1>1. /\ m.coins = [o \in Outpoints |-> MergeCoin(p.coins[o], v.coins[o])]
      /\ m.anchors = [a \in Anchors |-> MergeMark(p.anchors[a], v.anchors[a])]
      /\ m.nullifiers = [n \in Nullifiers |-> MergeMark(p.nullifiers[n], v.nullifiers[n])]
      /\ m.hashBlock = v.hashBlock /\ m.hashAnchor = v.hashAnchor
  BY DEF BatchWrite
<1>2. ASSUME NEW o \in Outpoints
      PROVE  /\ m.coins[o] \in CoinEntries \cup {NoEntry}
             /\ CoinAt(m, base, o) = CoinAt(v, q, o)
             /\ m.coins[o] # NoEntry =>
                   /\ DIRTY \notin m.coins[o].flags => m.coins[o].coin = base.coins[o]
                   /\ FRESH \in m.coins[o].flags =>
                         /\ DIRTY \in m.coins[o].flags
                         /\ m.coins[o].coin # Spent
                         /\ base.coins[o] = Spent
             /\ ~MergeThrows(p.coins[o], v.coins[o])
  <2> DEFINE x == p.coins[o]
             e == v.coins[o]
             b == base.coins[o]
  <2>1. x \in CoinEntries \cup {NoEntry} /\ e \in CoinEntries \cup {NoEntry}
    BY DEF Cache
  <2>2. b \in CoinValues \cup {Spent}
    BY DEF ViewState
  <2>3. x # NoEntry => /\ DIRTY \notin x.flags => x.coin = b
                       /\ FRESH \in x.flags =>
                             DIRTY \in x.flags /\ x.coin # Spent /\ b = Spent
    BY DEF Sound, CoinFlagsSound
  <2>4. q.coins[o] = IF x # NoEntry THEN x.coin ELSE b
    BY DEF AsView, CoinAt, EntryCoin
  <2>5. e # NoEntry => LET r == IF x # NoEntry THEN x.coin ELSE b
                       IN  /\ DIRTY \notin e.flags => e.coin = r
                           /\ FRESH \in e.flags =>
                                 DIRTY \in e.flags /\ e.coin # Spent /\ r = Spent
    BY <2>4 DEF Sound, CoinFlagsSound
  <2>6. m.coins[o] = MergeCoin(x, e)
    BY <1>1
  <2>7. CoinAt(v, q, o) = IF e # NoEntry THEN e.coin ELSE IF x # NoEntry THEN x.coin ELSE b
    BY <2>4 DEF CoinAt, EntryCoin
  <2>8. CoinAt(m, base, o) = IF m.coins[o] # NoEntry THEN m.coins[o].coin ELSE b
    BY DEF CoinAt, EntryCoin
  <2> HIDE DEF x, e, b, m, q
  <2>9. LET k == MergeCoin(x, e)
            r == IF x # NoEntry THEN x.coin ELSE b
        IN  /\ k \in CoinEntries \cup {NoEntry}
            /\ (IF k # NoEntry THEN k.coin ELSE b) = (IF e # NoEntry THEN e.coin ELSE r)
            /\ k # NoEntry => /\ DIRTY \notin k.flags => k.coin = b
                              /\ FRESH \in k.flags =>
                                    DIRTY \in k.flags /\ k.coin # Spent /\ b = Spent
            /\ ~MergeThrows(x, e)
    BY <2>1, <2>2, <2>3, <2>5, MergeCoinMerges
  <2> QED
    BY <2>6, <2>7, <2>8, <2>9 DEF x, e, b
<1>3. ASSUME NEW a \in Anchors
      PROVE  /\ m.anchors[a] \in MarkEntries \cup {NoEntry}
             /\ HasAnchor(m, base, a) <=> HasAnchor(v, q, a)
             /\ m.anchors[a] # NoEntry /\ DIRTY \notin m.anchors[a].flags =>
                   (m.anchors[a].entered <=> a \in base.anchors)
  <2> DEFINE x == p.anchors[a]
             e == v.anchors[a]
             b == a \in base.anchors
  <2>1. x \in MarkEntries \cup {NoEntry} /\ e \in MarkEntries \cup {NoEntry}
    BY DEF Cache
  <2>2. b \in BOOLEAN
    OBVIOUS
  <2>3. x # NoEntry /\ DIRTY \notin x.flags => (x.entered <=> b)
    BY DEF Sound, MarkFlagsSound
  <2>4. a \in q.anchors <=> IF x # NoEntry THEN x.entered ELSE b
    BY DEF AsView, HasAnchor
  <2>5. e # NoEntry /\ DIRTY \notin e.flags =>
          (e.entered <=> IF x # NoEntry THEN x.entered ELSE b)
    BY <2>4 DEF Sound, MarkFlagsSound
  <2>6. m.anchors[a] = MergeMark(x, e)
    BY <1>1
  <2>7. HasAnchor(v, q, a) <=>
          IF e # NoEntry THEN e.entered ELSE IF x # NoEntry THEN x.entered ELSE b
    BY <2>4 DEF HasAnchor
  <2>8. HasAnchor(m, base, a) <=> IF m.anchors[a] # NoEntry THEN m.anchors[a].entered ELSE b
    BY DEF HasAnchor
  <2> HIDE DEF x, e, b, m, q
  <2>9. /\ MergeMark(x, e) \in MarkEntries \cup {NoEntry}
        /\ (IF MergeMark(x, e) # NoEntry THEN MergeMark(x, e).entered ELSE b) <=>
              (IF e # NoEntry THEN e.entered ELSE IF x # NoEntry THEN x.entered ELSE b)
        /\ MergeMark(x, e) # NoEntry /\ DIRTY \notin MergeMark(x, e).flags =>
              (MergeMark(x, e).entered <=> b)
    BY <2>1, <2>2, <2>3, <2>5, MergeMarkMerges
  <2> QED
    BY <2>6, <2>7, <2>8, <2>9 DEF b
<1>4. ASSUME NEW n \in Nullifiers
      PROVE  /\ m.nullifiers[n] \in MarkEntries \cup {NoEntry}
             /\ HasNullifier(m, base, n) <=> HasNullifier(v, q, n)
             /\ m.nullifiers[n] # NoEntry /\ DIRTY \notin m.nullifiers[n].flags =>
                   (m.nullifiers[n].entered <=> n \in base.nullifiers)
  <2> DEFINE x == p.nullifiers[n]
             e == v.nullifiers[n]
             b == n \in base.nullifiers
  <2>1. x \in MarkEntries \cup {NoEntry} /\ e \in MarkEntries \cup {NoEntry}
    BY DEF Cache
  <2>2. b \in BOOLEAN
    OBVIOUS
  <2>3. x # NoEntry /\ DIRTY \notin x.flags => (x.entered <=> b)
    BY DEF Sound, MarkFlagsSound
  <2>4. n \in q.nullifiers <=> IF x # NoEntry THEN x.entered ELSE b
    BY DEF AsView, HasNullifier
  <2>5. e # NoEntry /\ DIRTY \notin e.flags =>
          (e.entered <=> IF x # NoEntry THEN x.entered ELSE b)
    BY <2>4 DEF Sound, MarkFlagsSound
  <2>6. m.nullifiers[n] = MergeMark(x, e)
    BY <1>1
  <2>7. HasNullifier(v, q, n) <=>
          IF e # NoEntry THEN e.entered ELSE IF x # NoEntry THEN x.entered ELSE b
    BY <2>4 DEF HasNullifier
  <2>8. HasNullifier(m, base, n) <=>
          IF m.nullifiers[n] # NoEntry THEN m.nullifiers[n].entered ELSE b
    BY DEF HasNullifier
  <2> HIDE DEF x, e, b, m, q
  <2>9. /\ MergeMark(x, e) \in MarkEntries \cup {NoEntry}
        /\ (IF MergeMark(x, e) # NoEntry THEN MergeMark(x, e).entered ELSE b) <=>
              (IF e # NoEntry THEN e.entered ELSE IF x # NoEntry THEN x.entered ELSE b)
        /\ MergeMark(x, e) # NoEntry /\ DIRTY \notin MergeMark(x, e).flags =>
              (MergeMark(x, e).entered <=> b)
    BY <2>1, <2>2, <2>3, <2>5, MergeMarkMerges
  <2> QED
    BY <2>6, <2>7, <2>8, <2>9 DEF b
<1>5. m \in Cache
  BY Zenon, <1>1, <1>2, <1>3, <1>4 DEF BatchWrite, Cache
<1> HIDE DEF m
<1>6. /\ AsView(m, base).coins = AsView(v, q).coins
      /\ AsView(m, base).anchors = AsView(v, q).anchors
      /\ AsView(m, base).nullifiers = AsView(v, q).nullifiers
  <2> HIDE DEF q
  <2> QED
    BY Zenon, <1>2, <1>3, <1>4 DEF AsView
<1>7. Sound(m, base)
  BY Zenon, <1>2, <1>3, <1>4 DEF Sound, CoinFlagsSound, MarkFlagsSound
<1> QED
  BY <1>1, <1>2, <1>5, <1>6, <1>7 DEF m

\* CCoinsViewDB::BatchWrite: the database and what is left of the cache answer
\* as the cache did, and the database now holds the whole answer.
LEMMA DBBatchWriteWrites ==
    ASSUME NEW c \in Cache, NEW base \in ViewState, Sound(c, base),
           c.hashBlock # Null, EmptyRoot \in AsView(c, base).anchors
    PROVE  /\ DBBatchWrite(base, c) \in ViewState
           /\ Flushed(c) \in Cache
           /\ DBBatchWrite(base, c) = AsView(c, base)
           /\ AsView(Flushed(c), DBBatchWrite(base, c)) = AsView(c, base)
           /\ Sound(Flushed(c), DBBatchWrite(base, c))
<1> DEFINE d == DBBatchWrite(base, c)
           f == Flushed(c)
           g == [EmptyCache EXCEPT !.hashBlock = c.hashBlock]
<1>1. \A o \in Outpoints :
         (IF IsDirty(c.coins[o]) THEN c.coins[o].coin ELSE base.coins[o]) = CoinAt(c, base, o)
  BY Zenon DEF IsDirty, CoinAt, EntryCoin, Sound, CoinFlagsSound
<1>2. \A a \in Anchors :
         (IF IsDirty(c.anchors[a]) THEN c.anchors[a].entered ELSE a \in base.anchors)
            <=> HasAnchor(c, base, a)
  BY DEF IsDirty, HasAnchor, Sound, MarkFlagsSound
<1>3. \A n \in Nullifiers :
         (IF IsDirty(c.nullifiers[n]) THEN c.nullifiers[n].entered ELSE n \in base.nullifiers)
            <=> HasNullifier(c, base, n)
  BY DEF IsDirty, HasNullifier, Sound, MarkFlagsSound
<1>4. d = AsView(c, base)
  <2>1. d.coins = AsView(c, base).coins
    BY <1>1 DEF DBBatchWrite, AsView
  <2>2. d.anchors = AsView(c, base).anchors
    <3>1. AsView(c, base).anchors = {a \in Anchors : HasAnchor(c, base, a)}
      BY DEF AsView
    <3> QED
      BY <1>2, <3>1 DEF DBBatchWrite
  <2>3. d.nullifiers = AsView(c, base).nullifiers
    BY <1>3 DEF DBBatchWrite, AsView
  <2>4. d.block = AsView(c, base).block /\ d.anchor = AsView(c, base).anchor
    BY Zenon DEF DBBatchWrite, AsView, BestBlock, BestAnchor
  <2>5. d = [coins |-> d.coins, anchors |-> d.anchors, nullifiers |-> d.nullifiers,
             block |-> d.block, anchor |-> d.anchor]
    BY Zenon DEF DBBatchWrite
  <2>6. AsView(c, base) =
           [coins |-> AsView(c, base).coins, anchors |-> AsView(c, base).anchors,
            nullifiers |-> AsView(c, base).nullifiers,
            block |-> AsView(c, base).block, anchor |-> AsView(c, base).anchor]
    BY Zenon DEF AsView
  <2> HIDE DEF d
  <2> QED
    BY <2>1, <2>2, <2>3, <2>4, <2>5, <2>6
<1>5. AsView(c, base) \in ViewState
  BY AsViewType
<1>6. f = [g EXCEPT !.hashAnchor = c.hashAnchor]
  BY DEF Flushed
<1>7. g \in Cache
  BY EmptyTypes DEF Cache
<1>8. /\ g.coins = EmptyCache.coins /\ g.anchors = EmptyCache.anchors
      /\ g.nullifiers = EmptyCache.nullifiers /\ g.hashBlock = c.hashBlock
  BY EmptyTypes DEF Cache
<1> HIDE DEF g
<1>9. f \in Cache
  BY <1>6, <1>7 DEF Cache
<1>10. /\ f.coins = EmptyCache.coins /\ f.anchors = EmptyCache.anchors
       /\ f.nullifiers = EmptyCache.nullifiers
       /\ f.hashBlock = c.hashBlock /\ f.hashAnchor = c.hashAnchor
  BY <1>6, <1>7, <1>8 DEF Cache
<1>11. /\ \A o \in Outpoints : f.coins[o] = NoEntry
       /\ \A rt \in Anchors : f.anchors[rt] = NoEntry
       /\ \A nf \in Nullifiers : f.nullifiers[nf] = NoEntry
  BY <1>10 DEF EmptyCache
<1> HIDE DEF f, d
<1>12. Sound(f, d)
  BY <1>11, NoEntries
<1>13. AsView(f, d) = d
  <2>1. /\ \A o \in Outpoints : CoinAt(f, d, o) = d.coins[o]
        /\ \A rt \in Anchors : HasAnchor(f, d, rt) <=> rt \in d.anchors
        /\ \A nf \in Nullifiers : HasNullifier(f, d, nf) <=> nf \in d.nullifiers
    BY Zenon, <1>11, NoEntries
  <2>2. d.block = BestBlock(c, base) /\ d.anchor = BestAnchor(c, base)
    BY <1>4 DEF AsView
  <2>3. BestBlock(f, d) = d.block /\ BestAnchor(f, d) = d.anchor
    BY <1>10, <2>2 DEF BestBlock, BestAnchor
  <2>4. d \in ViewState
    BY <1>4, <1>5
  <2> QED
    BY Zenon, <2>1, <2>3, <2>4 DEF AsView, ViewState
<1> QED
  BY <1>4, <1>5, <1>9, <1>12, <1>13 DEF d, f
=============================================================================
