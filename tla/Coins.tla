------------------------------- MODULE Coins -------------------------------
(***************************************************************************)
(* The coins views of src/coins.h and src/coins.cpp as values.             *)
(*                                                                         *)
(* A CCoinsView answers five questions: which coin an outpoint holds,      *)
(* which anchors (roots of the note commitment tree) and nullifiers are    *)
(* known, and which block and anchor are the best ones.  The answers form  *)
(* a record of the set ViewState.  CCoinsViewDB (src/txdb.cpp) is such a   *)
(* record; a CCoinsViewCache is a record of the set Cache that is read on  *)
(* top of the answers of its base.  Each method of the class is an         *)
(* operator that returns the cache after the call, its mutable members     *)
(* that a const method fills in included.                                  *)
(***************************************************************************)

CONSTANTS
    Outpoints,    \* the outpoints that occur
    CoinValues,   \* the coins (CTxOut, height, coinbase flag) that occur
    Unspendable,  \* those whose scriptPubKey.IsUnspendable()
    Nullifiers,   \* the nullifiers that occur
    Anchors,      \* the roots of the commitment tree that occur
    EmptyRoot,    \* ZCIncrementalMerkleTree::empty_root()
    Blocks,       \* the block hashes that occur
    Spent,        \* the cleared Coin: IsSpent()
    NoEntry,      \* what find() == end() returns
    Null          \* the hash that IsNull()

DIRTY == "DIRTY"
FRESH == "FRESH"
Flags == SUBSET {DIRTY, FRESH}

\* CCoinsCacheEntry; CAnchorsCacheEntry and CNullifiersCacheEntry, whose
\* commitment tree is determined by its root and left out.
CoinEntries == [coin : CoinValues \cup {Spent}, flags : Flags]
MarkEntries == [entered : BOOLEAN, flags : SUBSET {DIRTY}]

ASSUME CoinsAssumption ==
    /\ Unspendable \subseteq CoinValues
    /\ EmptyRoot \in Anchors
    /\ Spent \notin CoinValues
    /\ Null \notin Blocks \cup Anchors
    /\ NoEntry \notin CoinEntries \cup MarkEntries

ViewState ==
    [coins : [Outpoints -> CoinValues \cup {Spent}],
     anchors : SUBSET Anchors,
     nullifiers : SUBSET Nullifiers,
     block : Blocks \cup {Null},
     anchor : Anchors]

Cache ==
    [coins : [Outpoints -> CoinEntries \cup {NoEntry}],
     anchors : [Anchors -> MarkEntries \cup {NoEntry}],
     nullifiers : [Nullifiers -> MarkEntries \cup {NoEntry}],
     hashBlock : Blocks \cup {Null},
     hashAnchor : Anchors \cup {Null}]

EmptyCache ==
    [coins |-> [o \in Outpoints |-> NoEntry],
     anchors |-> [a \in Anchors |-> NoEntry],
     nullifiers |-> [n \in Nullifiers |-> NoEntry],
     hashBlock |-> Null,
     hashAnchor |-> Null]

\* A database nothing was ever written to.  CCoinsViewDB answers for the
\* empty root, both as an anchor and as the best one, without reading it.
EmptyDB ==
    [coins |-> [o \in Outpoints |-> Spent],
     anchors |-> {EmptyRoot},
     nullifiers |-> {},
     block |-> Null,
     anchor |-> EmptyRoot]

-----------------------------------------------------------------------------
(* What a cache c over a base view answers. *)

EntryCoin(e, coin) == IF e # NoEntry THEN e.coin ELSE coin

CoinAt(c, base, o) == EntryCoin(c.coins[o], base.coins[o])

HasAnchor(c, base, rt) ==
    IF c.anchors[rt] # NoEntry THEN c.anchors[rt].entered ELSE rt \in base.anchors

HasNullifier(c, base, nf) ==
    IF c.nullifiers[nf] # NoEntry THEN c.nullifiers[nf].entered
                                  ELSE nf \in base.nullifiers

BestBlock(c, base) == IF c.hashBlock # Null THEN c.hashBlock ELSE base.block
BestAnchor(c, base) == IF c.hashAnchor # Null THEN c.hashAnchor ELSE base.anchor

AsView(c, base) ==
    [coins |-> [o \in Outpoints |-> CoinAt(c, base, o)],
     anchors |-> {rt \in Anchors : HasAnchor(c, base, rt)},
     nullifiers |-> {nf \in Nullifiers : HasNullifier(c, base, nf)},
     block |-> BestBlock(c, base),
     anchor |-> BestAnchor(c, base)]

-----------------------------------------------------------------------------
(* What the reading methods leave in the cache. *)

\* FetchCoin, and with it GetCoin, HaveCoin and AccessCoin: what becomes of
\* the entry e of an outpoint where the base has a coin.  A base never hands
\* out a spent coin: GetCoin is false for it.
FetchEntry(e, coin) ==
    IF e = NoEntry /\ coin # Spent THEN [coin |-> coin, flags |-> {}] ELSE e

FetchCoin(c, base, o) ==
    [c EXCEPT !.coins[o] = FetchEntry(c.coins[o], base.coins[o])]

\* An anchor the base does not have is not remembered ...
GetAnchorAt(c, base, rt) ==
    IF c.anchors[rt] = NoEntry /\ rt \in base.anchors
    THEN [c EXCEPT !.anchors[rt] = [entered |-> TRUE, flags |-> {}]]
    ELSE c

\* ... but a nullifier is, whatever the base answers.
GetNullifier(c, base, nf) ==
    IF c.nullifiers[nf] = NoEntry
    THEN [c EXCEPT !.nullifiers[nf] =
             [entered |-> nf \in base.nullifiers, flags |-> {}]]
    ELSE c

GetBestBlock(c, base) == [c EXCEPT !.hashBlock = BestBlock(c, base)]
GetBestAnchor(c, base) == [c EXCEPT !.hashAnchor = BestAnchor(c, base)]

-----------------------------------------------------------------------------
(* The writing methods. *)

\* Mutant: a coin that may overwrite another one is marked FRESH as well.
AddEntryAlwaysFresh(e, coin, possible_overwrite) ==
    LET flags == IF e = NoEntry THEN {} ELSE e.flags
        fresh == IF DIRTY \in flags THEN {} ELSE {FRESH}
    IN  IF coin \in Unspendable THEN e
        ELSE [coin |-> coin, flags |-> flags \cup {DIRTY} \cup fresh]

AddEntry(e, coin, possible_overwrite) ==
    LET old == IF e = NoEntry THEN [coin |-> Spent, flags |-> {}] ELSE e
        fresh == ~possible_overwrite /\ DIRTY \notin old.flags
    IN  IF coin \in Unspendable THEN e
        ELSE [coin |-> coin,
              flags |-> old.flags \cup {DIRTY} \cup (IF fresh THEN {FRESH} ELSE {})]

AddCoin(c, o, coin, possible_overwrite) ==
    [c EXCEPT !.coins[o] = AddEntry(c.coins[o], coin, possible_overwrite)]

\* std::logic_error("Adding new coin that replaces non-pruned entry")
AddCoinThrows(c, o, coin, possible_overwrite) ==
    /\ coin \notin Unspendable
    /\ ~possible_overwrite
    /\ c.coins[o] # NoEntry
    /\ c.coins[o].coin # Spent

SpendEntry(e, coin) ==
    LET f == FetchEntry(e, coin)
    IN  IF f = NoEntry THEN NoEntry
        ELSE IF FRESH \in f.flags THEN NoEntry
        ELSE [coin |-> Spent, flags |-> f.flags \cup {DIRTY}]

SpendCoin(c, base, o) ==
    [c EXCEPT !.coins[o] = SpendEntry(c.coins[o], base.coins[o])]

SetNullifier(c, nf, spent) ==
    [c EXCEPT !.nullifiers[nf] = [entered |-> spent, flags |-> {DIRTY}]]

PushAnchor(c, base, newrt) ==
    LET d == GetBestAnchor(c, base)
    IN  IF d.hashAnchor = newrt THEN d
        ELSE [d EXCEPT !.anchors[newrt] = [entered |-> TRUE, flags |-> {DIRTY}],
                       !.hashAnchor = newrt]

\* Mutant: the root of the disconnected block stays an anchor.
PopAnchorKeeps(c, base, newrt) == [c EXCEPT !.hashAnchor = newrt]

PopAnchor(c, base, newrt) ==
    LET d == GetBestAnchor(c, base)
    IN  IF d.hashAnchor = newrt THEN d
        ELSE [d EXCEPT !.anchors[d.hashAnchor] =
                          [entered |-> FALSE, flags |-> {DIRTY}],
                       !.hashAnchor = newrt]

\* assert(GetAnchorAt(currentRoot, tree)) in PopAnchor
PopAnchorAsserts(c, base, newrt) ==
    BestAnchor(c, base) # newrt => HasAnchor(c, base, BestAnchor(c, base))

SetBestBlock(c, hash) == [c EXCEPT !.hashBlock = hash]

\* Mutant: modified entries are dropped too.
UncacheDirty(c, o) == [c EXCEPT !.coins[o] = NoEntry]

Uncache(c, o) ==
    IF c.coins[o] # NoEntry /\ c.coins[o].flags = {}
    THEN [c EXCEPT !.coins[o] = NoEntry]
    ELSE c

-----------------------------------------------------------------------------
(* Flushing a cache into the cache below it, entry by entry: p is the      *)
(* parent's entry and e the child's.                                       *)

MergeCoin(p, e) ==
    IF e = NoEntry THEN p
    ELSE IF DIRTY \notin e.flags THEN p
    ELSE IF p = NoEntry
         THEN IF FRESH \in e.flags /\ e.coin = Spent THEN NoEntry
              ELSE [coin |-> e.coin, flags |-> {DIRTY} \cup (e.flags \cap {FRESH})]
         ELSE IF FRESH \in p.flags /\ e.coin = Spent THEN NoEntry
              ELSE [coin |-> e.coin, flags |-> p.flags \cup {DIRTY}]

\* std::logic_error("FRESH flag misapplied to cache entry ...")
MergeThrows(p, e) ==
    /\ e # NoEntry
    /\ {DIRTY, FRESH} \subseteq e.flags
    /\ p # NoEntry
    /\ p.coin # Spent

\* Mutant: an entry the parent read from its own base is changed, not flagged.
MergeMarkNotDirty(p, e) ==
    IF e = NoEntry THEN p
    ELSE IF DIRTY \notin e.flags THEN p
    ELSE IF p = NoEntry THEN [entered |-> e.entered, flags |-> {DIRTY}]
    ELSE [entered |-> e.entered, flags |-> p.flags]

MergeMark(p, e) ==
    IF e = NoEntry THEN p
    ELSE IF DIRTY \notin e.flags THEN p
    ELSE IF p = NoEntry THEN [entered |-> e.entered, flags |-> {DIRTY}]
    ELSE IF p.entered = e.entered THEN p
    ELSE [entered |-> e.entered, flags |-> p.flags \cup {DIRTY}]

\* CCoinsViewCache::BatchWrite.  Both hashes are taken as they come: a child
\* that never asked for its best anchor hands over a null one.
BatchWrite(parent, child) ==
    [coins |-> [o \in Outpoints |-> MergeCoin(parent.coins[o], child.coins[o])],
     anchors |-> [a \in Anchors |-> MergeMark(parent.anchors[a], child.anchors[a])],
     nullifiers |-> [n \in Nullifiers |->
                        MergeMark(parent.nullifiers[n], child.nullifiers[n])],
     hashBlock |-> child.hashBlock,
     hashAnchor |-> child.hashAnchor]

\* What CCoinsViewCache::Flush leaves of the cache it flushed.
Flushed(c) == [EmptyCache EXCEPT !.hashBlock = c.hashBlock,
                                 !.hashAnchor = c.hashAnchor]

IsDirty(e) == IF e = NoEntry THEN FALSE ELSE DIRTY \in e.flags

\* CCoinsViewDB::BatchWrite as a whole: every batch of it arrived.
DBBatchWrite(db, c) ==
    [coins |-> [o \in Outpoints |->
                   IF IsDirty(c.coins[o]) THEN c.coins[o].coin ELSE db.coins[o]],
     anchors |-> {EmptyRoot} \cup
                 {a \in Anchors : IF IsDirty(c.anchors[a]) THEN c.anchors[a].entered
                                                           ELSE a \in db.anchors},
     nullifiers |-> {n \in Nullifiers :
                        IF IsDirty(c.nullifiers[n]) THEN c.nullifiers[n].entered
                                                    ELSE n \in db.nullifiers},
     block |-> c.hashBlock,
     anchor |-> IF c.hashAnchor # Null THEN c.hashAnchor ELSE db.anchor]

-----------------------------------------------------------------------------

\* What the comments of CCoinsCacheEntry say of the flags, for a cache c over
\* a base: an entry that is not DIRTY agrees with the base, and one that is
\* FRESH is unspent here and spent or unknown there.
CoinFlagsSound(c, base) ==
    \A o \in Outpoints :
        c.coins[o] # NoEntry =>
            /\ DIRTY \notin c.coins[o].flags => c.coins[o].coin = base.coins[o]
            /\ FRESH \in c.coins[o].flags =>
                  /\ DIRTY \in c.coins[o].flags
                  /\ c.coins[o].coin # Spent
                  /\ base.coins[o] = Spent

MarkFlagsSound(c, base) ==
    /\ \A rt \in Anchors :
          c.anchors[rt] # NoEntry /\ DIRTY \notin c.anchors[rt].flags =>
              (c.anchors[rt].entered <=> rt \in base.anchors)
    /\ \A nf \in Nullifiers :
          c.nullifiers[nf] # NoEntry /\ DIRTY \notin c.nullifiers[nf].flags =>
              (c.nullifiers[nf].entered <=> nf \in base.nullifiers)

Sound(c, base) == CoinFlagsSound(c, base) /\ MarkFlagsSound(c, base)
=============================================================================
