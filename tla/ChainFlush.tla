----------------------------- MODULE ChainFlush -----------------------------
(***************************************************************************)
(* How the chain state reaches the disk and is repaired after a crash:     *)
(* FlushStateToDisk, ConnectTip, DisconnectTip, RollforwardBlock and       *)
(* ReplayBlocks of src/validation.cpp over CCoinsViewDB::BatchWrite of     *)
(* src/txdb.cpp, which writes the coins in several LevelDB batches.        *)
(*                                                                         *)
(*     db, heads  - CCoinsViewDB and its DB_HEAD_BLOCKS record             *)
(*     tip        - pcoinsTip                                              *)
(*     mode       - what the process is doing                              *)
(*     batch      - the part of a BatchWrite that is still to be written;  *)
(*                  in ReplayBlocks its cache and the variables of its two *)
(*                  loops                                                  *)
(*     undo, disk - mapBlockIndex with the undo data of each block, and    *)
(*                  what of it FlushBlockFile and WriteBatchSync made      *)
(*                  durable; an entry stands for the index entry, the      *)
(*                  block and its undo data                                *)
(*     crashes    - crashes so far; rolled - history: the blocks with      *)
(*                  joinsplits that ReplayBlocks rolled forward            *)
(*                                                                         *)
(* What the blocks do is in module BlockEffects.  A LevelDB batch is       *)
(* atomic.  The clean entries that reads leave in pcoinsTip never reach    *)
(* CCoinsViewDB and are left to module CoinsViewCache.                     *)
(***************************************************************************)
EXTENDS BlockEffects
CONSTANT MaxCrashes   \* bound on the crashes of a behaviour

ASSUME CrashAssumption == MaxCrashes \in Nat

VARIABLES db, heads, tip, mode, batch, undo, disk, crashes, rolled

vars == <<db, heads, tip, mode, batch, undo, disk, crashes, rolled>>

Modes == {"down", "running", "flushing", "replaying", "rewriting"}
Batches == [cache : Cache, old_tip : Blocks \cup {Null},
            pindexOld : Blocks \cup {Null}, height : Nat]
Index == [Blocks -> BlockUndo \cup {NoEntry}]

TypeOK ==
    /\ db \in ViewState
    /\ heads \in {<<>>} \cup (Blocks \X (Blocks \cup {Null}))
    /\ tip \in Cache
    /\ mode \in Modes
    /\ batch \in Batches \cup {NoEntry}
    /\ undo \in Index
    /\ disk \in Index
    /\ crashes \in 0 .. MaxCrashes
    /\ rolled \subseteq Blocks

NoIndex == [b \in Blocks |-> NoEntry]

Init ==
    /\ db = EmptyDB
    /\ heads = <<>>
    /\ tip = EmptyCache
    /\ mode = "running"
    /\ batch = NoEntry
    /\ undo = NoIndex
    /\ disk = NoIndex
    /\ crashes = 0
    /\ rolled = {}

TipView == AsView(tip, db)

-----------------------------------------------------------------------------
(* The running node.  Everything happens under cs_main. *)

\* assert(pcoinsTip->GetAnchorAt(pcoinsTip->GetBestAnchor(), oldTree)) in
\* ConnectTip, again on the view in ConnectBlock, and after DisconnectTip
TreeKnown == TipView.anchor \in TipView.anchors

\* ConnectTip of a block that is valid on top of the tip.  The undo data of a
\* block that was connected before is not written again.  Anchors bounds the
\* roots that the tree may come to have.
ConnectTip(b) ==
    /\ mode = "running"
    /\ Parent[b] = TipView.block
    /\ Connectable(b, TipView)
    /\ TreeKnown
    /\ TipView.anchor \o Commitments(b) \in Anchors
    /\ \E view \in {ConnectBlock(b, TipView)} : tip' = BatchWrite(tip, view)
    /\ undo' = IF undo[b] = NoEntry THEN [undo EXCEPT ![b] = UndoOf(b, TipView)] ELSE undo
    /\ UNCHANGED <<db, heads, mode, batch, disk, crashes, rolled>>

\* DisconnectTip; pcoinsTip's best anchor is read before.
DisconnectTip ==
    LET b == TipView.block
        view == GetBestBlock(EmptyCache, TipView)
    IN  /\ mode = "running"
        /\ b # Null
        /\ ~IsGenesis(b)
        /\ DisconnectsCleanly(b, TipView, undo[b])
        /\ PopAnchorAsserts(EmptyCache, TipView, undo[b].old_tree_root)
        /\ tip' = BatchWrite(GetBestAnchor(tip, db),
                             DisconnectBlock(view, TipView, b, undo[b]))
        /\ UNCHANGED <<db, heads, mode, batch, undo, disk, crashes, rolled>>

\* FlushStateToDisk when only the block index is due ...
PeriodicWrite ==
    /\ mode = "running"
    /\ disk' = undo
    /\ UNCHANGED <<db, heads, tip, mode, batch, undo, crashes, rolled>>

\* Mutant: a replay does not take over the old tip of the interrupted write.
OldTipForgotten == db.block

\* The old tip that CCoinsViewDB::BatchWrite records.
OldTip ==
    IF db.block # Null THEN db.block
    ELSE IF heads # <<>> THEN heads[2] ELSE Null

\* Mutant: the coins go first, the block index is left for later.
FlushStateToDiskNoIndex ==
    /\ mode = "running"
    /\ TipView.block # Null
    /\ mode' = "flushing"
    /\ batch' = [cache |-> GetBestBlock(tip, db), old_tip |-> OldTip,
                 pindexOld |-> Null, height |-> 0]
    /\ UNCHANGED <<db, heads, tip, undo, disk, crashes, rolled>>

\* ... and when the coins are, after the block index.
FlushStateToDisk ==
    /\ mode = "running"
    /\ TipView.block # Null
    /\ disk' = undo
    /\ mode' = "flushing"
    /\ batch' = [cache |-> GetBestBlock(tip, db), old_tip |-> OldTip,
                 pindexOld |-> Null, height |-> 0]
    /\ UNCHANGED <<db, heads, tip, undo, crashes, rolled>>

-----------------------------------------------------------------------------
(* CCoinsViewDB::BatchWrite. *)

Writing == mode \in {"flushing", "rewriting"}

\* A batch that is full before all coins are in it.  The first batch of a
\* write carries the two heads.  mapCoins is in no particular order.
WriteBatch(outpoints) ==
    LET dirty == {o \in outpoints : IsDirty(batch.cache.coins[o])}
    IN  /\ Writing
        /\ outpoints # {}
        /\ \A o \in outpoints : batch.cache.coins[o] # NoEntry
        /\ db' = [db EXCEPT !.block = Null,
                            !.coins = [o \in Outpoints |->
                                IF o \in dirty THEN batch.cache.coins[o].coin ELSE @[o]]]
        /\ heads' = <<batch.cache.hashBlock, batch.old_tip>>
        /\ batch' = [batch EXCEPT !.cache.coins =
                        [o \in Outpoints |-> IF o \in outpoints THEN NoEntry ELSE @[o]]]
        /\ UNCHANGED <<tip, mode, undo, disk, crashes, rolled>>

\* The final batch, and what follows it: Flush empties pcoinsTip; after a
\* replay AppInitMain makes a new one.
WriteFinalBatch ==
    /\ Writing
    /\ db' = DBBatchWrite(db, batch.cache)
    /\ heads' = <<>>
    /\ tip' = IF mode = "flushing" THEN Flushed(batch.cache) ELSE Loaded(db')
    /\ mode' = "running"
    /\ batch' = NoEntry
    /\ UNCHANGED <<undo, disk, crashes, rolled>>

-----------------------------------------------------------------------------
(* Crashes and restarts. *)

Stop ==
    /\ mode' = "down"
    /\ tip' = EmptyCache
    /\ batch' = NoEntry
    /\ undo' = disk
    /\ UNCHANGED <<db, heads, disk, rolled>>

Crash ==
    /\ mode # "down"
    /\ crashes < MaxCrashes
    /\ crashes' = crashes + 1
    /\ Stop

\* The assertion of ConnectTip and DisconnectTip on the tree of the tip fails.
Abort ==
    /\ mode = "running"
    /\ ~TreeKnown
    /\ Stop
    /\ UNCHANGED crashes

\* ReplayBlocks finds no heads, and LoadChainTip the best block.
CanLoad == db.block # Null => undo[db.block] # NoEntry

Restart ==
    /\ mode = "down"
    /\ heads = <<>>
    /\ CanLoad
    /\ mode' = "running"
    /\ tip' = Loaded(db)
    /\ UNCHANGED <<db, heads, batch, undo, disk, crashes, rolled>>

\* pindexFork of ReplayBlocks, and nForkHeight.
Fork == IF heads[2] = Null THEN Null ELSE LastCommonAncestor(heads[2], heads[1])
ForkHeight == IF Fork = Null THEN 0 ELSE nHeight[Fork]

HeadsIndexed == \A i \in 1 .. 2 : heads[i] # Null => undo[heads[i]] # NoEntry

\* Mutant: the block after the fork is not applied.
ReplayBlocksShort ==
    /\ mode = "down"
    /\ heads # <<>>
    /\ HeadsIndexed
    /\ mode' = "replaying"
    /\ batch' = [cache |-> EmptyCache, old_tip |-> Null,
                 pindexOld |-> heads[2], height |-> ForkHeight + 2]
    /\ UNCHANGED <<db, heads, tip, undo, disk, crashes, rolled>>

ReplayBlocks ==
    /\ mode = "down"
    /\ heads # <<>>
    /\ HeadsIndexed
    /\ mode' = "replaying"
    /\ batch' = [cache |-> EmptyCache, old_tip |-> Null,
                 pindexOld |-> heads[2], height |-> ForkHeight + 1]
    /\ UNCHANGED <<db, heads, tip, undo, disk, crashes, rolled>>

\* ReadBlockFromDisk and UndoReadFromDisk succeed and PopAnchor's assert holds.
CanRollback(b) ==
    /\ undo[b] # NoEntry
    /\ PopAnchorAsserts(batch.cache, db, undo[b].old_tree_root)

\* Mutant: the loop does not move on to the previous block.
RollbackStays ==
    LET b == batch.pindexOld
    IN  /\ mode = "replaying"
        /\ b # Fork
        /\ nHeight[b] > 0 => CanRollback(b)
        /\ batch' = [batch EXCEPT !.cache = DisconnectBlock(@, db, b, undo[b])]
        /\ UNCHANGED <<db, heads, tip, mode, undo, disk, crashes, rolled>>

\* The loop along the old branch.  It never disconnects the genesis block.
Rollback ==
    LET b == batch.pindexOld
    IN  /\ mode = "replaying"
        /\ b # Fork
        /\ nHeight[b] > 0 => CanRollback(b)
        /\ batch' = [batch EXCEPT !.cache = IF nHeight[b] > 0
                                            THEN DisconnectBlock(@, db, b, undo[b]) ELSE @,
                                  !.pindexOld = Parent[b]]
        /\ UNCHANGED <<db, heads, tip, mode, undo, disk, crashes, rolled>>

HasJoinSplits(b) == NullifiersOf(b) # {} \/ Commitments(b) # <<>>

\* The loop from the forking point to the new tip.
RollForward ==
    LET b == GetAncestor(heads[1], batch.height)
    IN  /\ mode = "replaying"
        /\ batch.pindexOld = Fork
        /\ batch.height <= nHeight[heads[1]]
        /\ undo[b] # NoEntry
        /\ batch' = [batch EXCEPT !.cache = RollforwardBlock(@, db, b), !.height = @ + 1]
        /\ rolled' = IF HasJoinSplits(b) THEN rolled \cup {b} ELSE rolled
        /\ UNCHANGED <<db, heads, tip, mode, undo, disk, crashes>>

ReplayFlush ==
    /\ mode = "replaying"
    /\ batch.pindexOld = Fork
    /\ batch.height > nHeight[heads[1]]
    /\ mode' = "rewriting"
    /\ batch' = [batch EXCEPT !.cache = SetBestBlock(@, heads[1]), !.old_tip = OldTip]
    /\ UNCHANGED <<db, heads, tip, undo, disk, crashes, rolled>>

Next ==
    \/ \E b \in Blocks : ConnectTip(b)
    \/ DisconnectTip
    \/ PeriodicWrite
    \/ FlushStateToDisk
    \/ \E outpoints \in SUBSET Outpoints : WriteBatch(outpoints)
    \/ WriteFinalBatch
    \/ Crash
    \/ Abort
    \/ Restart
    \/ ReplayBlocks
    \/ Rollback
    \/ RollForward
    \/ ReplayFlush

\* The node is started again after a crash, and what it began goes on.
Fairness == WF_vars(Restart \/ ReplayBlocks \/ Rollback \/ RollForward
                    \/ ReplayFlush \/ WriteFinalBatch)

Spec == Init /\ [][Next]_vars /\ Fairness

-----------------------------------------------------------------------------
(* What is checked. *)

\* The coins of the database are those of the chain of its best block as soon
\* as it names one, whatever crashes interrupted BatchWrite or the replay of
\* it, and so are those that pcoinsTip shows.
CoinsMatchChain ==
    /\ TypeOK
    /\ heads = <<>> => db.coins = ChainCoins[db.block]
    /\ mode = "running" => TipView.coins = ChainCoins[TipView.block]

\* The blocks that LoadChainTip and ReplayBlocks look up.
BlocksFound ==
    /\ mode = "down" => IF heads = <<>> THEN CanLoad ELSE HeadsIndexed
    /\ mode = "replaying" =>
          /\ \A h \in batch.height .. nHeight[heads[1]] :
                undo[GetAncestor(heads[1], h)] # NoEntry
          /\ batch.pindexOld # Fork => undo[batch.pindexOld] # NoEntry

\* A node that stopped can start again: the blocks named by the chain state
\* are in the block index with their undo data, so that ReplayBlocks and
\* LoadChainTip neither fail nor run into an assertion.
Recoverable ==
    /\ BlocksFound
    /\ mode = "replaying" /\ batch.pindexOld # Fork => CanRollback(batch.pindexOld)

\* An interrupted flush is only ever completed to the tip it was begun for:
\* replays keep both heads, and BatchWrite's assert(old_heads[0] == hashBlock)
\* holds.
HeadsKept ==
    [][heads # <<>> => \/ heads' = heads
                       \/ heads' = <<>> /\ db'.block = heads[1]]_vars

\* A node that crashed comes up again, with a database that ReplayBlocks made
\* consistent.
ComesUp == mode = "down" ~> mode = "running" /\ heads = <<>>

\* The anchors, nullifiers and best anchor are those of the best block.
ShieldedMatchesChain ==
    heads = <<>> => /\ db.anchors = ChainRoots(db.block)
                    /\ db.nullifiers = ChainNullifiers(db.block)
                    /\ db.anchor = ChainRoot[db.block]

\* They are, across crashes, rollbacks included, as long as ReplayBlocks had
\* no block with joinsplits to roll forward.
ShieldedUnlessRolled == rolled = {} => ShieldedMatchesChain
=============================================================================
