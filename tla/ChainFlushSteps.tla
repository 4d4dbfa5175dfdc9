-------------------------- MODULE ChainFlushSteps ---------------------------
(***************************************************************************)
(* The steps of the flush and the replay keep the inductive invariants     *)
(* IInv (the coins) and SInv (the nullifiers and the anchors), given what  *)
(* the operators on blocks do.                                             *)
(***************************************************************************)
EXTENDS ChainFlush, BlockFacts, TLAPS

IndexInv ==
    /\ \A b \in Blocks : undo[b] # NoEntry => Known(undo, Parent[b]) /\ UndoRight(b, undo[b])
    /\ \A b \in Blocks : disk[b] # NoEntry => Known(disk, Parent[b]) /\ undo[b] = disk[b]

\* A flush that was interrupted left each coin as it was or as it will be.
DbInv ==
    IF heads = <<>>
    THEN db.coins = CC[db.block] /\ Known(disk, db.block)
    ELSE /\ db.block = Null
         /\ Known(disk, heads[1])
         /\ Known(disk, heads[2])
         /\ \A o \in Outpoints : db.coins[o] \in {CC[heads[2]][o], CC[heads[1]][o]}

RunInv ==
    mode = "running" =>
        /\ heads = <<>>
        /\ Sound(tip, db)
        /\ TipView.coins = CC[TipView.block]
        /\ Known(undo, TipView.block)

WriteInv ==
    Writing =>
        /\ batch \in Batches
        /\ Sound(batch.cache, db)
        /\ batch.cache.hashBlock # Null
        /\ Known(disk, batch.cache.hashBlock)
        /\ AsView(batch.cache, db).coins = CC[batch.cache.hashBlock]
        /\ batch.old_tip = OldTip
        /\ heads # <<>> => heads[1] = batch.cache.hashBlock

\* Where the replay stands: the block it undoes next, or the one that it
\* applied last.
At == IF batch.pindexOld # Fork THEN batch.pindexOld
      ELSE GetAncestor(heads[1], batch.height - 1)

\* Each coin in the replay's cache is that of the block where the replay
\* stands, or already that of the new tip.
ReplayInv ==
    mode = "replaying" =>
        /\ batch \in Batches
        /\ heads # <<>>
        /\ Sound(batch.cache, db)
        /\ batch.pindexOld # Fork => /\ batch.pindexOld \in Ancestors[heads[2]]
                                     /\ Fork \in Ancestors[batch.pindexOld]
                                     /\ batch.height = ForkHeight + 1
        /\ batch.height \in ForkHeight + 1 .. nHeight[heads[1]] + 1
        /\ \A o \in Outpoints :
              AsView(batch.cache, db).coins[o] \in {CC[At][o], CC[heads[1]][o]}

IInv == TypeOK /\ IndexInv /\ DbInv /\ RunInv /\ WriteInv /\ ReplayInv

-----------------------------------------------------------------------------
-----------------------------------------------------------------------------
(* The inductive invariant: it holds at the start and every action keeps it. *)

\* Null is no block, and the heads are a block and a block or Null.
LEMMA HeadsType ==
    ASSUME TypeOK
    PROVE  /\ heads # <<>> => heads[1] \in Blocks /\ heads[2] \in Nodes
           /\ \A b \in Blocks : b # Null
           /\ \A b \in Nodes : b # Null => b \in Blocks
BY CoinsAssumption DEF TypeOK, Nodes

\* A block that the index has an entry for has undo data there.
LEMMA UndoType ==
    ASSUME NEW index \in Index, NEW b \in Nodes, b # Null, Known(index, b)
    PROVE  b \in Blocks /\ index[b] \in BlockUndo
BY DEF Index, Known, Nodes

\* The tip's view is a view.
LEMMA TipViewType ==
    ASSUME AsViewFact, TypeOK PROVE TipView \in ViewState /\ TipView.block \in Nodes
<1>1. TipView \in ViewState
  BY DEF AsViewFact, TypeOK, TipView
<1> QED BY <1>1 DEF ViewState, Nodes

\* The state of a new node.
LEMMA InitIInv == ASSUME EmptyFact, EmptyCacheFact, ChainCoinsFact,
                         Init PROVE IInv
<1>1. EmptyCache \in Cache /\ EmptyDB \in ViewState
  BY DEF EmptyFact
<1>2. AsView(EmptyCache, EmptyDB) = EmptyDB /\ Sound(EmptyCache, EmptyDB)
  BY <1>1 DEF EmptyCacheFact
<1>3. CC[Null] = EmptyDB.coins
  BY DEF ChainCoinsFact
<1>4. EmptyDB.block = Null
  BY DEF EmptyDB
<1>5. TypeOK
  BY <1>1, CrashAssumption DEF Init, TypeOK, Modes, Index, NoIndex
<1>6. IndexInv
  BY DEF Init, IndexInv, NoIndex
<1>7. DbInv
  BY <1>3, <1>4 DEF Init, DbInv, Known
<1>8. RunInv
  BY <1>2, <1>3, <1>4 DEF Init, RunInv, TipView, Known
<1>9. WriteInv /\ ReplayInv
  BY DEF Init, WriteInv, ReplayInv, Writing
<1> QED BY <1>5, <1>6, <1>7, <1>8, <1>9 DEF IInv

\* An entry for a block whose parent has one may be added to the index.
LEMMA IndexGrows ==
    ASSUME NEW index \in Index, NEW b \in Blocks, NEW u \in BlockUndo
    PROVE  LET new == IF index[b] = NoEntry THEN [index EXCEPT ![b] = u] ELSE index
           IN  /\ new \in Index
               /\ \A a \in Blocks : index[a] # NoEntry => new[a] = index[a]
               /\ \A a \in Blocks : a # b => new[a] = index[a]
               /\ new[b] # NoEntry
               /\ index[b] = NoEntry => new[b] = u
BY ChainAssumption DEF Index

\* ConnectTip.
LEMMA ConnectTipStep ==
    ASSUME AsViewFact, BatchWriteFact, ParentFact, ChainCoinsFact,
           ConnectBlockFact, ConnectGenesisFact, UndoOfFact,
           IInv, NEW b \in Blocks, ConnectTip(b) PROVE IInv'
<1> DEFINE base == TipView
           d == ConnectBlock(b, base)
<1>1. /\ TypeOK /\ IndexInv /\ DbInv /\ RunInv
      /\ mode = "running"
      /\ Parent[b] = base.block
      /\ Connectable(b, base)
      /\ base.anchor \in base.anchors
      /\ base.anchor \o Commitments(b) \in Anchors
      /\ tip' = BatchWrite(tip, d)
      /\ UNCHANGED <<db, heads, mode, batch, disk, crashes, rolled>>
  BY DEF IInv, ConnectTip, TreeKnown
<1>2. /\ base \in ViewState
      /\ Sound(tip, db)
      /\ base = AsView(tip, db)
      /\ base.coins = CC[Parent[b]]
      /\ Known(undo, Parent[b])
      /\ heads = <<>>
      /\ tip \in Cache /\ db \in ViewState
  BY <1>1, TipViewType DEF RunInv, TipView, TypeOK
<1>3. d \in Cache /\ Sound(d, base) /\ AsView(d, base).coins = CC[b] /\ d.hashBlock = b
  <2> HIDE DEF base
  <2>1. CASE IsGenesis(b)
    <3>1. CC[Parent[b]] = CC[b]
      BY <2>1 DEF ChainCoinsFact, IsGenesis
    <3>2. /\ d \in Cache
          /\ Sound(d, base)
          /\ AsView(d, base).coins = base.coins
          /\ d.hashBlock = b
      BY <1>2, <2>1 DEF ConnectGenesisFact
    <3> QED BY <1>2, <3>1, <3>2
  <2>2. CASE ~IsGenesis(b)
    BY <1>1, <1>2, <2>2 DEF ConnectBlockFact
  <2> QED BY <2>1, <2>2
<1> HIDE DEF d, base
<1>4. /\ tip' \in Cache
      /\ AsView(tip', db).coins = CC[b]
      /\ Sound(tip', db)
      /\ tip'.hashBlock = b
  <2> DEFINE new == BatchWrite(tip, d)
  <2>1. /\ new \in Cache
        /\ AsView(new, db).coins = AsView(d, AsView(tip, db)).coins
        /\ Sound(new, db)
        /\ new.hashBlock = d.hashBlock
    BY <1>2, <1>3 DEF BatchWriteFact
  <2>2. tip' = new
    BY <1>1
  <2> HIDE DEF new
  <2> QED BY <1>2, <1>3, <2>1, <2>2
<1>5. b # Null
  BY CoinsAssumption
<1>6. TipView'.coins = CC[b] /\ TipView'.block = b
  <2>1. TipView' = AsView(tip', db)
    BY <1>1 DEF TipView
  <2>2. AsView(tip', db).block = b
    BY <1>4, <1>5 DEF AsView, BestBlock
  <2> QED BY <1>4, <2>1, <2>2
<1>7. UndoOf(b, base) \in BlockUndo /\ UndoRight(b, UndoOf(b, base))
  BY <1>1, <1>2 DEF UndoOfFact
<1>8. undo' = IF undo[b] = NoEntry THEN [undo EXCEPT ![b] = UndoOf(b, base)] ELSE undo
  BY DEF ConnectTip, base
<1>9. undo \in Index /\ disk \in Index
  BY <1>1 DEF TypeOK
<1>10. /\ undo' \in Index
       /\ \A a \in Blocks : undo[a] # NoEntry => undo'[a] = undo[a]
       /\ \A a \in Blocks : a # b => undo'[a] = undo[a]
       /\ undo'[b] # NoEntry
       /\ undo[b] = NoEntry => undo'[b] = UndoOf(b, base)
  <2> DEFINE u == UndoOf(b, base)
             new == IF undo[b] = NoEntry THEN [undo EXCEPT ![b] = u] ELSE undo
  <2>1. undo' = new /\ u \in BlockUndo
    BY <1>7, <1>8
  <2>2. /\ new \in Index
        /\ \A a \in Blocks : undo[a] # NoEntry => new[a] = undo[a]
        /\ \A a \in Blocks : a # b => new[a] = undo[a]
        /\ new[b] # NoEntry
        /\ undo[b] = NoEntry => new[b] = u
    <3> HIDE DEF u
    <3> QED BY <1>9, <2>1, IndexGrows
  <2> HIDE DEF new
  <2> QED BY <2>1, <2>2
<1>11. IndexInv'
  <2>1. \A a \in Nodes : Known(undo, a) => Known(undo', a)
    BY <1>10 DEF Known, Nodes
  <2>2. ASSUME NEW a \in Blocks, undo'[a] # NoEntry
        PROVE  Known(undo', Parent[a]) /\ UndoRight(a, undo'[a])
    <3>1. Parent[a] \in Nodes
      BY DEF ParentFact
    <3>2. CASE undo[a] # NoEntry
      BY <1>1, <1>10, <2>1, <3>1, <3>2 DEF IndexInv
    <3>3. CASE undo[a] = NoEntry
      BY <1>2, <1>7, <1>10, <2>1, <2>2, <3>1, <3>3
    <3> QED BY <3>2, <3>3
  <2>3. ASSUME NEW a \in Blocks, disk[a] # NoEntry
        PROVE  Known(disk, Parent[a]) /\ undo'[a] = disk[a]
    BY <1>1, <1>10, <2>3 DEF IndexInv
  <2> QED BY <1>1, <2>2, <2>3 DEF IndexInv
<1>12. TypeOK'
  BY <1>1, <1>4, <1>10 DEF TypeOK
<1>13. DbInv'
  BY <1>1 DEF DbInv
<1>14. RunInv'
  BY <1>1, <1>2, <1>4, <1>6, <1>10 DEF RunInv, Known
<1>15. WriteInv' /\ ReplayInv'
  BY <1>1 DEF WriteInv, ReplayInv, Writing
<1> QED BY <1>11, <1>12, <1>13, <1>14, <1>15 DEF IInv

\* DisconnectTip.
LEMMA DisconnectTipStep ==
    ASSUME AsViewFact, EmptyFact, EmptyCacheFact, GetBestFact,
           BatchWriteFact, ParentFact, ChainCoinsFact, DisconnectBlockFact,
           IInv, DisconnectTip PROVE IInv'
<1> DEFINE base == TipView
           b == base.block
           view == GetBestBlock(EmptyCache, base)
           u == undo[b]
           d == DisconnectBlock(view, base, b, u)
           t == GetBestAnchor(tip, db)
<1>1. /\ TypeOK /\ IndexInv /\ DbInv /\ RunInv
      /\ mode = "running"
      /\ b # Null
      /\ ~IsGenesis(b)
      /\ tip' = BatchWrite(t, d)
      /\ UNCHANGED <<db, heads, mode, batch, undo, disk, crashes, rolled>>
  BY DEF IInv, DisconnectTip
<1>2. /\ base \in ViewState
      /\ Sound(tip, db)
      /\ base = AsView(tip, db)
      /\ base.coins = CC[b]
      /\ Known(undo, b)
      /\ heads = <<>>
      /\ tip \in Cache /\ db \in ViewState /\ undo \in Index
      /\ b \in Nodes
  BY <1>1, TipViewType DEF RunInv, TipView, TypeOK
<1>3. b \in Blocks /\ u \in BlockUndo
  <2> HIDE DEF b
  <2> QED BY <1>1, <1>2, UndoType
<1>4. UndoRight(b, u) /\ Known(undo, Parent[b])
  BY <1>1, <1>2, <1>3 DEF IndexInv, Known
<1>5. view \in Cache /\ Sound(view, base) /\ AsView(view, base) = base
  <2> HIDE DEF base
  <2> QED BY <1>2 DEF EmptyFact, EmptyCacheFact, GetBestFact
<1>6. t \in Cache /\ Sound(t, db) /\ AsView(t, db) = base
  BY <1>2 DEF GetBestFact
<1> HIDE DEF view, t, u, b, base
<1>7. /\ d \in Cache
      /\ Sound(d, base)
      /\ Moved(AsView(d, base).coins, AsView(view, base).coins, CC[Parent[b]], CC[b])
      /\ d.hashBlock = Parent[b]
  <2>1. StepsBack(d, view, base, b, u)
    BY <1>1, <1>2, <1>3, <1>4, <1>5 DEF DisconnectBlockFact
  <2> HIDE DEF d
  <2> QED BY <2>1 DEF StepsBack
<1>8. Parent[b] \in Blocks /\ Parent[b] # Null
  BY <1>1, <1>3 DEF ParentFact, IsGenesis
<1>9. AsView(d, base).coins = CC[Parent[b]]
  <2>1. \A o \in Outpoints : AsView(d, base).coins[o] = CC[Parent[b]][o]
    BY Zenon, <1>2, <1>5, <1>7 DEF Moved
  <2>2. AsView(d, base).coins \in [Outpoints -> CoinValues \cup {Spent}]
    BY <1>2, <1>7 DEF AsViewFact, ViewState
  <2>3. CC[Parent[b]] \in [Outpoints -> Plain]
    BY <1>8 DEF ChainCoinsFact, Nodes
  <2> QED BY <2>1, <2>2, <2>3
<1> HIDE DEF d
<1>10. /\ tip' \in Cache
       /\ AsView(tip', db).coins = CC[Parent[b]]
       /\ Sound(tip', db)
       /\ tip'.hashBlock = Parent[b]
  <2> DEFINE new == BatchWrite(t, d)
  <2>0. Sound(d, AsView(t, db))
    BY <1>6, <1>7
  <2>1. /\ new \in Cache
        /\ AsView(new, db).coins = AsView(d, AsView(t, db)).coins
        /\ Sound(new, db)
        /\ new.hashBlock = d.hashBlock
    BY <1>2, <1>6, <1>7, <2>0 DEF BatchWriteFact
  <2>2. tip' = new
    BY <1>1
  <2> HIDE DEF new
  <2> QED BY <1>6, <1>7, <1>9, <2>1, <2>2
<1>11. TipView'.coins = CC[Parent[b]] /\ TipView'.block = Parent[b]
  <2>1. TipView' = AsView(tip', db)
    BY <1>1 DEF TipView
  <2>2. AsView(tip', db).block = Parent[b]
    BY <1>8, <1>10 DEF AsView, BestBlock
  <2> QED BY <1>10, <2>1, <2>2
<1>12. TypeOK'
  BY <1>1, <1>10 DEF TypeOK
<1>13. IndexInv' /\ DbInv'
  BY <1>1 DEF DbInv, IndexInv
<1>14. RunInv'
  BY <1>1, <1>2, <1>4, <1>10, <1>11 DEF RunInv, Known
<1>15. WriteInv' /\ ReplayInv'
  BY <1>1 DEF WriteInv, ReplayInv, Writing
<1> QED BY <1>12, <1>13, <1>14, <1>15 DEF IInv

\* What the index on disk knows, the one in memory knows.
LEMMA DiskKnown ==
    ASSUME IndexInv, NEW b \in Nodes, Known(disk, b) PROVE Known(undo, b)
BY DEF IndexInv, Known, Nodes

\* The block index is written: what was durable still is.
LEMMA IndexWritten ==
    ASSUME TypeOK, IndexInv, DbInv, disk' = undo, UNCHANGED <<db, heads, undo>>
    PROVE  IndexInv' /\ DbInv'
<1>1. \A b \in Nodes : Known(disk, b) => Known(disk', b)
  BY DiskKnown
<1>2. db.block \in Nodes
  BY DEF TypeOK, ViewState, Nodes
<1>3. DbInv'
  BY <1>1, <1>2, HeadsType DEF DbInv, Nodes
<1>4. IndexInv'
  BY DEF IndexInv
<1> QED BY <1>3, <1>4

\* FlushStateToDisk when only the block index is due.
LEMMA PeriodicWriteStep == ASSUME IInv, PeriodicWrite PROVE IInv'
<1>1. TypeOK /\ IndexInv /\ DbInv /\ RunInv
  BY DEF IInv
<1>2. IndexInv' /\ DbInv'
  BY <1>1, IndexWritten DEF PeriodicWrite
<1>3. TypeOK'
  BY <1>1 DEF PeriodicWrite, TypeOK
<1>4. RunInv'
  BY <1>1 DEF PeriodicWrite, RunInv, TipView
<1>5. WriteInv' /\ ReplayInv'
  BY DEF PeriodicWrite, WriteInv, ReplayInv, Writing
<1> QED BY <1>2, <1>3, <1>4, <1>5 DEF IInv

\* FlushStateToDisk when the coins are due.
LEMMA FlushStateToDiskStep == ASSUME GetBestFact, IInv, FlushStateToDisk PROVE IInv'
<1> DEFINE c == GetBestBlock(tip, db)
<1>1. TypeOK /\ IndexInv /\ DbInv /\ RunInv
  BY DEF IInv
<1>2. /\ mode = "running"
      /\ TipView.block # Null
      /\ disk' = undo
      /\ mode' = "flushing"
      /\ batch' = [cache |-> c, old_tip |-> OldTip, pindexOld |-> Null, height |-> 0]
      /\ UNCHANGED <<db, heads, tip, undo, crashes, rolled>>
  BY DEF FlushStateToDisk
<1>3. IndexInv' /\ DbInv'
  BY <1>1, <1>2, IndexWritten
<1>4. /\ heads = <<>>
      /\ Sound(tip, db)
      /\ TipView.coins = CC[TipView.block]
      /\ Known(undo, TipView.block)
      /\ TipView = AsView(tip, db)
      /\ tip \in Cache /\ db \in ViewState
  BY <1>1, <1>2 DEF RunInv, TipView, TypeOK
<1>5. /\ c \in Cache
      /\ Sound(c, db)
      /\ AsView(c, db) = TipView
      /\ c.hashBlock = TipView.block
  BY <1>4 DEF GetBestFact
<1> HIDE DEF c
<1>6. OldTip \in Nodes
  BY <1>1, HeadsType DEF OldTip, TypeOK, ViewState, Nodes
<1>7. batch' \in Batches
  BY <1>2, <1>5, <1>6 DEF Batches, Nodes
<1>8. TypeOK'
  BY <1>1, <1>2, <1>7 DEF TypeOK, Modes
<1>9. RunInv' /\ ReplayInv'
  BY <1>2 DEF RunInv, ReplayInv
<1>10. WriteInv'
  <2>2. batch'.cache = c /\ batch'.old_tip = OldTip
    BY <1>2
  <2>3. OldTip' = OldTip
    BY <1>2 DEF OldTip
  <2> QED BY <1>2, <1>4, <1>5, <1>7, <2>2, <2>3 DEF WriteInv, Known
<1> QED BY <1>3, <1>8, <1>9, <1>10 DEF IInv

\* One batch of CCoinsViewDB::BatchWrite.
LEMMA WriteBatchStep ==
    ASSUME OneBatchFact, IInv, NEW outpoints \in SUBSET Outpoints, WriteBatch(outpoints) PROVE IInv'
<1> DEFINE c == batch.cache
           e == Stored(db, c, outpoints)
           r == Rest(c, outpoints)
           b == c.hashBlock
           old == batch.old_tip
<1>1. TypeOK /\ IndexInv /\ DbInv /\ WriteInv
  BY DEF IInv
<1>2. /\ Writing
      /\ \A o \in outpoints : c.coins[o] # NoEntry
      /\ db' = e
      /\ heads' = <<b, old>>
      /\ batch' = [batch EXCEPT !.cache.coins =
                     [o \in Outpoints |-> IF o \in outpoints THEN NoEntry ELSE @[o]]]
      /\ UNCHANGED <<tip, mode, undo, disk, crashes, rolled>>
  BY DEF WriteBatch, Stored
<1>3. /\ batch \in Batches
      /\ Sound(c, db)
      /\ b # Null
      /\ Known(disk, b)
      /\ AsView(c, db).coins = CC[b]
      /\ old = OldTip
      /\ heads # <<>> => heads[1] = b
  BY <1>1, <1>2 DEF WriteInv
<1>4. /\ c \in Cache /\ db \in ViewState
      /\ old \in Nodes
      /\ b \in Blocks
  <2>1. c \in Cache /\ old \in Nodes
    BY <1>3 DEF Batches, Nodes
  <2> QED BY <1>1, <1>3, <2>1 DEF Cache, TypeOK
<1>5. batch' = [batch EXCEPT !.cache = r]
  BY <1>2, <1>3 DEF Rest, Batches
<1>6. /\ e \in ViewState
      /\ r \in Cache
      /\ Sound(r, e)
      /\ AsView(r, e).coins = AsView(c, db).coins
      /\ \A o \in Outpoints : e.coins[o] \in {db.coins[o], AsView(c, db).coins[o]}
      /\ e.block = Null
      /\ r.hashBlock = b
  <2> HIDE DEF c
  <2> QED BY <1>2, <1>3, <1>4 DEF OneBatchFact, b
<1> HIDE DEF e, r
<1>7. batch' \in Batches /\ batch'.cache = r /\ batch'.old_tip = old
  BY <1>3, <1>5, <1>6 DEF Batches
<1>8. TypeOK'
  <2>1. heads' \in Blocks \X (Blocks \cup {Null})
    BY <1>2, <1>4 DEF Nodes
  <2> QED BY <1>1, <1>2, <1>6, <1>7, <2>1 DEF TypeOK
<1>9. heads' # <<>> /\ heads'[1] = b /\ heads'[2] = old
  BY <1>2
<1>10. /\ Known(disk, old)
       /\ \A o \in Outpoints : db.coins[o] \in {CC[old][o], CC[b][o]}
  <2>1. CASE heads = <<>>
    <3>1. old = db.block
      BY <1>3, <2>1 DEF OldTip
    <3> QED BY <1>1, <2>1, <3>1 DEF DbInv
  <2>2. CASE heads # <<>>
    <3>1. db.block = Null /\ old = heads[2] /\ b = heads[1]
      BY <1>1, <1>3, <2>2 DEF OldTip, DbInv
    <3> QED BY <1>1, <2>2, <3>1 DEF DbInv
  <2> QED BY <2>1, <2>2
<1>11. DbInv'
  <2>1. \A o \in Outpoints : e.coins[o] \in {CC[old][o], CC[b][o]}
    BY Zenon, <1>3, <1>6, <1>10
  <2> QED BY <1>2, <1>3, <1>6, <1>9, <1>10, <2>1 DEF DbInv
<1>12. IndexInv'
  BY <1>1, <1>2 DEF IndexInv
<1>13. RunInv' /\ ReplayInv'
  BY <1>2 DEF RunInv, ReplayInv, Writing
<1>14. WriteInv'
  <2>1. OldTip' = old
    BY <1>2, <1>6, <1>9 DEF OldTip
  <2> QED BY <1>2, <1>3, <1>6, <1>7, <1>9, <2>1 DEF WriteInv
<1> QED BY <1>8, <1>11, <1>12, <1>13, <1>14 DEF IInv

\* The final batch of CCoinsViewDB::BatchWrite, and what follows it.
LEMMA WriteFinalBatchStep == ASSUME DBCoinsFact, LoadedFact, FlushedFact,
                                    IInv, WriteFinalBatch PROVE IInv'
<1> DEFINE c == batch.cache
           e == DBBatchWrite(db, c)
           b == c.hashBlock
<1>1. TypeOK /\ IndexInv /\ DbInv /\ WriteInv
  BY DEF IInv
<1>2. /\ Writing
      /\ db' = e
      /\ heads' = <<>>
      /\ tip' = Flushed(c) \/ tip' = Loaded(e)
      /\ mode' = "running"
      /\ batch' = NoEntry
      /\ UNCHANGED <<undo, disk, crashes, rolled>>
  BY DEF WriteFinalBatch
<1>3. /\ c \in Cache /\ db \in ViewState
      /\ Sound(c, db)
      /\ b # Null
      /\ Known(disk, b)
      /\ AsView(c, db).coins = CC[b]
      /\ b \in Nodes
  <2>1. batch \in Batches
    BY <1>1, <1>2 DEF WriteInv
  <2>2. c \in Cache
    BY <2>1 DEF Batches
  <2> QED BY <1>1, <1>2, <2>2 DEF WriteInv, TypeOK, Cache, Nodes
<1>4. e \in ViewState /\ e.coins = CC[b] /\ e.block = b
  <2> HIDE DEF c
  <2> QED BY <1>3 DEF DBCoinsFact, b
<1> HIDE DEF e
<1>5. /\ tip' \in Cache
      /\ Sound(tip', e)
      /\ AsView(tip', e).coins = CC[b]
      /\ AsView(tip', e).block = b
  <2>1. CASE tip' = Flushed(c)
    <3> HIDE DEF c
    <3>1. /\ Flushed(c) \in Cache
          /\ Sound(Flushed(c), e)
          /\ AsView(Flushed(c), e).coins = e.coins
          /\ Flushed(c).hashBlock = b
      BY <1>3, <1>4 DEF FlushedFact, b
    <3>2. AsView(Flushed(c), e).block = b
      BY <1>3, <3>1 DEF AsView, BestBlock
    <3> QED BY <1>4, <2>1, <3>1, <3>2
  <2>2. CASE tip' = Loaded(e)
    BY <1>4, <2>2 DEF LoadedFact
  <2> QED BY <1>2, <2>1, <2>2
<1>6. TypeOK'
  BY <1>1, <1>2, <1>4, <1>5 DEF TypeOK, Modes
<1>7. IndexInv'
  BY <1>1, <1>2 DEF IndexInv
<1>8. DbInv'
  BY <1>2, <1>3, <1>4 DEF DbInv
<1>9. RunInv'
  <2>1. TipView' = AsView(tip', e)
    BY <1>2 DEF TipView
  <2>2. Known(undo, b)
    BY <1>1, <1>3, DiskKnown
  <2> QED BY <1>2, <1>5, <2>1, <2>2 DEF RunInv
<1>10. WriteInv' /\ ReplayInv'
  BY <1>2 DEF WriteInv, ReplayInv, Writing
<1> QED BY <1>6, <1>7, <1>8, <1>9, <1>10 DEF IInv

\* The process ends, by a crash or by an assertion.
LEMMA StopStep ==
    ASSUME EmptyFact, IInv, Stop, crashes' \in 0 .. MaxCrashes PROVE IInv'
<1>1. TypeOK /\ IndexInv /\ DbInv
  BY DEF IInv
<1>2. TypeOK'
  BY <1>1 DEF EmptyFact, Stop, TypeOK, Modes
<1>3. IndexInv'
  BY <1>1 DEF Stop, IndexInv
<1>4. DbInv'
  BY <1>1 DEF Stop, DbInv
<1>5. RunInv' /\ WriteInv' /\ ReplayInv'
  BY DEF Stop, RunInv, WriteInv, ReplayInv, Writing
<1> QED BY <1>2, <1>3, <1>4, <1>5 DEF IInv

\* A restart without heads.
LEMMA RestartStep == ASSUME LoadedFact, IInv, Restart PROVE IInv'
<1>1. TypeOK /\ IndexInv /\ DbInv
  BY DEF IInv
<1>2. /\ heads = <<>>
      /\ mode' = "running"
      /\ tip' = Loaded(db)
      /\ UNCHANGED <<db, heads, batch, undo, disk, crashes, rolled>>
  BY DEF Restart
<1>3. db \in ViewState /\ db.block \in Nodes
  BY <1>1 DEF TypeOK, ViewState, Nodes
<1>4. tip' \in Cache /\ Sound(tip', db) /\ AsView(tip', db) = db
  BY <1>2, <1>3 DEF LoadedFact
<1>5. TypeOK'
  BY <1>1, <1>2, <1>4 DEF TypeOK, Modes
<1>6. IndexInv'
  BY <1>1, <1>2 DEF IndexInv
<1>7. DbInv'
  BY <1>1, <1>2 DEF DbInv
<1>8. RunInv'
  <2>1. TipView' = db
    BY <1>2, <1>4 DEF TipView
  <2>2. db.coins = CC[db.block] /\ Known(undo, db.block)
    BY <1>1, <1>2, <1>3, DiskKnown DEF DbInv
  <2> QED BY <1>2, <1>4, <2>1, <2>2 DEF RunInv
<1>9. WriteInv' /\ ReplayInv'
  BY <1>2 DEF WriteInv, ReplayInv, Writing
<1> QED BY <1>5, <1>6, <1>7, <1>8, <1>9 DEF IInv

\* Where ReplayBlocks finds the fork: on both branches, or nowhere when there
\* was no old tip.  The coins there are those of the new branch at that height.
LEMMA ForkIs ==
    ASSUME ParentFact, AncestorLineFact, GetAncestorFact, BranchesFact,
           ChainCoinsFact,
           TypeOK, heads # <<>>
    PROVE  /\ nHeight[heads[1]] \in Nat
           /\ ForkHeight \in 0 .. nHeight[heads[1]]
           /\ heads[2] = Null => Fork = Null
           /\ heads[2] # Null => /\ Fork \in Blocks
                                 /\ Fork \in Ancestors[heads[2]]
                                 /\ Fork = GetAncestor(heads[1], ForkHeight)
                                 /\ ForkHeight = nHeight[Fork]
           /\ CC[Fork] = CC[GetAncestor(heads[1], ForkHeight)]
<1>1. heads[1] \in Blocks /\ heads[2] \in Nodes /\ nHeight[heads[1]] \in Nat
  BY HeadsType DEF ParentFact
<1>2. CASE heads[2] = Null
  <2>1. Fork = Null /\ ForkHeight = 0
    BY <1>2 DEF Fork, ForkHeight
  <2>2. 0 \in 0 .. nHeight[heads[1]]
    BY <1>1
  <2>3. GetAncestor(heads[1], 0) \in Blocks /\ IsGenesis(GetAncestor(heads[1], 0))
    BY <1>1, <2>2 DEF GetAncestorFact
  <2>4. CC[GetAncestor(heads[1], 0)] = CC[Null]
    BY <2>3 DEF ChainCoinsFact
  <2> QED BY <1>1, <1>2, <2>1, <2>2, <2>4
<1>3. CASE heads[2] # Null
  <2>1. heads[2] \in Blocks /\ Fork = LastCommonAncestor(heads[2], heads[1])
    BY <1>1, <1>3 DEF Fork, Nodes
  <2>2. Fork \in Blocks /\ Fork \in Ancestors[heads[2]] /\ Fork \in Ancestors[heads[1]]
    BY Zenon, <1>1, <2>1 DEF BranchesFact
  <2>3. ForkHeight = nHeight[Fork]
    BY <2>2, CoinsAssumption DEF ForkHeight
  <2>4. nHeight[Fork] \in Nat /\ nHeight[Fork] <= nHeight[heads[1]]
    BY <1>1, <2>2 DEF ParentFact, AncestorLineFact
  <2>5. GetAncestor(heads[1], nHeight[Fork]) = Fork
    BY <1>1, <2>2 DEF GetAncestorFact
  <2> QED BY <1>1, <1>3, <2>2, <2>3, <2>4, <2>5
<1> QED BY <1>2, <1>3

\* ReplayBlocks begins.
LEMMA ReplayBlocksStep == ASSUME EmptyFact, EmptyCacheFact, ParentFact, AncestorStepsFact,
                                 AncestorLineFact, GetAncestorFact, BranchesFact, ChainCoinsFact,
                                 IInv, ReplayBlocks PROVE IInv'
<1>1. TypeOK /\ IndexInv /\ DbInv
  BY DEF IInv
<1>2. /\ heads # <<>>
      /\ mode' = "replaying"
      /\ batch' = [cache |-> EmptyCache, old_tip |-> Null,
                   pindexOld |-> heads[2], height |-> ForkHeight + 1]
      /\ UNCHANGED <<db, heads, tip, undo, disk, crashes, rolled>>
  BY DEF ReplayBlocks
<1>3. /\ heads[1] \in Blocks /\ heads[2] \in Nodes
      /\ nHeight[heads[1]] \in Nat
      /\ ForkHeight \in 0 .. nHeight[heads[1]]
      /\ heads[2] = Null => Fork = Null
      /\ heads[2] # Null => /\ Fork \in Blocks
                            /\ Fork \in Ancestors[heads[2]]
                            /\ Fork = GetAncestor(heads[1], ForkHeight)
                            /\ ForkHeight = nHeight[Fork]
      /\ CC[Fork] = CC[GetAncestor(heads[1], ForkHeight)]
  BY <1>1, <1>2, HeadsType, ForkIs
<1>4. /\ batch' \in Batches
      /\ batch'.cache = EmptyCache
      /\ batch'.pindexOld = heads[2]
      /\ batch'.height = ForkHeight + 1
  BY <1>2, <1>3 DEF EmptyFact, Batches, Nodes
<1>5. db \in ViewState /\ Sound(EmptyCache, db) /\ AsView(EmptyCache, db) = db
  BY <1>1 DEF EmptyCacheFact, TypeOK
<1>6. Fork' = Fork /\ ForkHeight' = ForkHeight
  BY <1>2 DEF Fork, ForkHeight
<1>7. CC[At'] = CC[heads[2]]
  <2>1. CASE heads[2] # Fork
    BY <1>4, <1>6, <2>1 DEF At
  <2>2. CASE heads[2] = Fork
    <3>1. (ForkHeight + 1) - 1 = ForkHeight
      BY <1>3
    <3>2. At' = GetAncestor(heads[1], ForkHeight)
      BY <1>2, <1>4, <1>6, <2>2, <3>1 DEF At
    <3> QED BY <1>3, <2>2, <3>2
  <2> QED BY <2>1, <2>2
<1>8. TypeOK'
  BY <1>1, <1>2, <1>4 DEF TypeOK, Modes
<1>9. IndexInv' /\ DbInv'
  BY <1>1, <1>2 DEF IndexInv, DbInv
<1>10. RunInv' /\ WriteInv'
  BY <1>2 DEF RunInv, WriteInv, Writing
<1>11. ReplayInv'
  <2>1. heads[2] # Fork => heads[2] \in Ancestors[heads[2]] /\ Fork \in Ancestors[heads[2]]
    BY <1>3 DEF AncestorStepsFact, Nodes
  <2>2. ForkHeight + 1 \in ForkHeight + 1 .. nHeight[heads[1]] + 1
    BY <1>3
  <2>3. \A o \in Outpoints : db.coins[o] \in {CC[At'][o], CC[heads[1]][o]}
    BY <1>1, <1>2, <1>7 DEF DbInv
  <2> QED BY <1>2, <1>4, <1>5, <1>6, <2>1, <2>2, <2>3 DEF ReplayInv
<1> QED BY <1>8, <1>9, <1>10, <1>11 DEF IInv

\* Before the fork is reached the loop along the old branch stands at a block
\* that is not the genesis block and that the index knows.
LEMMA OnOldBranch ==
    ASSUME ParentFact, AncestorsFact, AncestorLineFact, GetAncestorFact,
           BranchesFact, AncestorsKnownFact, ChainCoinsFact,
           TypeOK, IndexInv, DbInv, ReplayInv, mode = "replaying", batch.pindexOld # Fork
    PROVE  LET b == batch.pindexOld
           IN  /\ heads # <<>> /\ heads[2] # Null
               /\ Fork \in Blocks
               /\ b \in Blocks
               /\ b \in Ancestors[heads[2]]
               /\ Fork \in Ancestors[b]
               /\ nHeight[b] > nHeight[Fork]
               /\ nHeight[b] > 0
               /\ ~IsGenesis(b)
               /\ undo[b] \in BlockUndo
               /\ UndoRight(b, undo[b])
<1> DEFINE b == batch.pindexOld
<1>1. heads # <<>> /\ b \in Ancestors[heads[2]] /\ Fork \in Ancestors[b]
  BY DEF ReplayInv
<1>2. heads[2] \in Nodes /\ heads[2] # Null
  BY <1>1, HeadsType DEF AncestorsFact
<1>3. heads[2] \in Blocks
  BY <1>2 DEF Nodes
<1>4. Fork \in Blocks
  BY <1>1, <1>2, ForkIs
<1>5. Known(undo, heads[2])
  BY <1>1, <1>2, DiskKnown DEF DbInv
<1>6. \A a \in Blocks : undo[a] # NoEntry => Known(undo, Parent[a])
  BY DEF IndexInv
<1>7. b \in Blocks /\ undo[b] # NoEntry
  BY <1>1, <1>3, <1>5, <1>6 DEF AncestorsKnownFact
<1>8. undo[b] \in BlockUndo /\ UndoRight(b, undo[b])
  BY <1>7 DEF TypeOK, Index, IndexInv
<1>9. nHeight[Fork] < nHeight[b] /\ nHeight[Fork] \in Nat /\ nHeight[b] \in Nat
  <2> HIDE DEF b
  <2>1. Fork # b
    BY DEF b
  <2> QED BY <1>1, <1>4, <1>7, <2>1 DEF AncestorLineFact, ParentFact
<1>10. nHeight[b] > 0 /\ nHeight[b] > nHeight[Fork]
  BY <1>9
<1>11. ~IsGenesis(b)
  BY <1>7, <1>10 DEF ParentFact, IsGenesis
<1> QED BY <1>1, <1>2, <1>4, <1>7, <1>8, <1>10, <1>11

\* The loop along the old branch.
LEMMA RollbackStep == ASSUME ParentFact, AncestorsFact, AncestorStepsFact, AncestorLineFact,
                             GetAncestorFact, BranchesFact, AncestorsKnownFact, ChainCoinsFact,
                             DisconnectBlockFact,
                             IInv, Rollback PROVE IInv'
<1> DEFINE b == batch.pindexOld
           c == batch.cache
           u == undo[b]
           d == DisconnectBlock(c, db, b, u)
           p == Parent[b]
<1>1. TypeOK /\ IndexInv /\ DbInv /\ ReplayInv
  BY DEF IInv
<1>2. /\ mode = "replaying"
      /\ b # Fork
      /\ batch' = [batch EXCEPT !.cache = IF nHeight[b] > 0 THEN d ELSE c, !.pindexOld = p]
      /\ UNCHANGED <<db, heads, tip, mode, undo, disk, crashes, rolled>>
  BY DEF Rollback
<1>3. /\ heads # <<>> /\ heads[2] # Null
      /\ Fork \in Blocks
      /\ b \in Blocks
      /\ b \in Ancestors[heads[2]]
      /\ Fork \in Ancestors[b]
      /\ nHeight[b] > nHeight[Fork]
      /\ nHeight[b] > 0
      /\ ~IsGenesis(b)
      /\ u \in BlockUndo
      /\ UndoRight(b, u)
  BY <1>1, <1>2, OnOldBranch
<1>4. /\ batch \in Batches
      /\ Sound(c, db)
      /\ batch.height = ForkHeight + 1
      /\ batch.height \in ForkHeight + 1 .. nHeight[heads[1]] + 1
      /\ \A o \in Outpoints : AsView(c, db).coins[o] \in {CC[b][o], CC[heads[1]][o]}
  BY <1>1, <1>2 DEF ReplayInv, At
<1>5. c \in Cache /\ db \in ViewState
  BY <1>1, <1>4 DEF Batches, TypeOK
<1>6. StepsBack(d, c, db, b, u)
  <2> HIDE DEF b, c, u
  <2> QED BY <1>3, <1>4, <1>5 DEF DisconnectBlockFact
<1> HIDE DEF d
<1>7. d \in Cache /\ Sound(d, db) /\ Moved(AsView(d, db).coins, AsView(c, db).coins, CC[p], CC[b])
  BY <1>6 DEF StepsBack
<1>8. p \in Blocks
  BY <1>3 DEF ParentFact, IsGenesis
<1>9. batch' \in Batches /\ batch'.cache = d /\ batch'.pindexOld = p /\ batch'.height = batch.height
  BY Zenon, <1>2, <1>3, <1>4, <1>7, <1>8 DEF Batches
<1>10. Fork' = Fork /\ ForkHeight' = ForkHeight
  BY <1>2 DEF Fork, ForkHeight
<1>11. /\ ForkHeight \in 0 .. nHeight[heads[1]]
       /\ Fork = GetAncestor(heads[1], ForkHeight)
  BY <1>1, <1>3, ForkIs
<1>12. At' = p
  <2>1. CASE p # Fork
    BY <1>9, <1>10, <2>1 DEF At
  <2>2. CASE p = Fork
    <3>1. batch.height - 1 = ForkHeight
      BY <1>4, <1>11
    <3>2. At' = GetAncestor(heads[1], ForkHeight)
      BY <1>2, <1>9, <1>10, <2>2, <3>1 DEF At
    <3> QED BY <1>11, <2>2, <3>2
  <2> QED BY <2>1, <2>2
<1>13. p \in Ancestors[heads[2]] /\ Fork \in Ancestors[p]
  <2> HIDE DEF b
  <2>1. p \in Ancestors[b] /\ Ancestors[b] = Ancestors[p] \cup {b}
    BY <1>3, <1>8, CoinsAssumption DEF AncestorStepsFact
  <2>2. heads[2] \in Blocks
    BY <1>1, <1>3, HeadsType
  <2>3. Ancestors[b] \subseteq Ancestors[heads[2]]
    BY <1>3, <2>2 DEF AncestorLineFact
  <2>4. Fork # b
    BY <1>2 DEF b
  <2> QED BY <1>3, <2>1, <2>3, <2>4
<1>14. \A o \in Outpoints : AsView(d, db).coins[o] \in {CC[p][o], CC[heads[1]][o]}
  BY Zenon, <1>4, <1>7 DEF Moved
<1>15. TypeOK'
  BY <1>1, <1>2, <1>9 DEF TypeOK
<1>16. IndexInv' /\ DbInv'
  BY <1>1, <1>2 DEF IndexInv, DbInv
<1>17. RunInv' /\ WriteInv'
  BY <1>2 DEF RunInv, WriteInv, Writing
<1>18. ReplayInv'
  BY <1>2, <1>3, <1>4, <1>7, <1>9, <1>10, <1>12, <1>13, <1>14 DEF ReplayInv
<1> QED BY <1>15, <1>16, <1>17, <1>18 DEF IInv

\* The loop along the new branch.
LEMMA RollForwardStep == ASSUME ParentFact, AncestorLineFact, GetAncestorFact, BranchesFact,
                                ChainCoinsFact, RollforwardBlockFact,
                                IInv, RollForward PROVE IInv'
<1> DEFINE h == batch.height
           b == GetAncestor(heads[1], h)
           c == batch.cache
           d == RollforwardBlock(c, db, b)
<1>1. TypeOK /\ IndexInv /\ DbInv /\ ReplayInv
  BY DEF IInv
<1>2. /\ mode = "replaying"
      /\ batch.pindexOld = Fork
      /\ h <= nHeight[heads[1]]
      /\ batch' = [batch EXCEPT !.cache = d, !.height = h + 1]
      /\ rolled' = IF HasJoinSplits(b) THEN rolled \cup {b} ELSE rolled
      /\ UNCHANGED <<db, heads, tip, mode, undo, disk, crashes>>
  BY DEF RollForward
<1>3. /\ batch \in Batches
      /\ heads # <<>>
      /\ Sound(c, db)
      /\ h \in ForkHeight + 1 .. nHeight[heads[1]] + 1
      /\ \A o \in Outpoints :
            AsView(c, db).coins[o] \in {CC[GetAncestor(heads[1], h - 1)][o], CC[heads[1]][o]}
  BY <1>1, <1>2 DEF ReplayInv, At
<1>4. c \in Cache /\ db \in ViewState /\ h \in Nat
  BY <1>1, <1>3 DEF Batches, TypeOK
<1>5. /\ heads[1] \in Blocks
      /\ nHeight[heads[1]] \in Nat
      /\ ForkHeight \in 0 .. nHeight[heads[1]]
  BY <1>1, <1>3, HeadsType, ForkIs
<1>6. h \in 1 .. nHeight[heads[1]] /\ h \in 0 .. nHeight[heads[1]]
  BY <1>2, <1>3, <1>4, <1>5
<1>7. b \in Blocks /\ ~IsGenesis(b) /\ Parent[b] = GetAncestor(heads[1], h - 1)
  <2> HIDE DEF h
  <2> QED BY <1>5, <1>6 DEF GetAncestorFact
<1>8. StepsOn(d, c, db, b)
  <2> HIDE DEF b, c
  <2> QED BY <1>3, <1>4, <1>7 DEF RollforwardBlockFact
<1> HIDE DEF d
<1>9. /\ d \in Cache /\ Sound(d, db)
      /\ Moved(AsView(d, db).coins, AsView(c, db).coins, CC[b], CC[Parent[b]])
  BY <1>8 DEF StepsOn
<1>10. /\ batch' \in Batches
       /\ batch'.cache = d
       /\ batch'.pindexOld = batch.pindexOld
       /\ batch'.height = h + 1
  <2>1. h + 1 \in Nat
    BY <1>4
  <2> DEFINE k == h + 1
  <2> HIDE DEF k, b, c
  <2>2. batch' = [batch EXCEPT !.cache = d, !.height = k]
    BY <1>2 DEF k
  <2>3. k \in Nat /\ batch \in Batches /\ d \in Cache
    BY <1>3, <1>9, <2>1 DEF k
  <2>4. /\ batch' \in Batches
        /\ batch'.cache = d
        /\ batch'.pindexOld = batch.pindexOld
        /\ batch'.height = k
    BY Zenon, <2>2, <2>3 DEF Batches
  <2> QED BY <2>4 DEF k
<1>11. Fork' = Fork /\ ForkHeight' = ForkHeight
  BY <1>2 DEF Fork, ForkHeight
<1>12. At' = b
  <2>1. (h + 1) - 1 = h
    BY <1>4
  <2> QED BY <1>2, <1>10, <1>11, <2>1 DEF At
<1>13. \A o \in Outpoints : AsView(d, db).coins[o] \in {CC[b][o], CC[heads[1]][o]}
  BY Zenon, <1>3, <1>7, <1>9 DEF Moved
<1>14. TypeOK'
  <2>1. rolled' \subseteq Blocks
    BY <1>1, <1>2, <1>7 DEF TypeOK
  <2> QED BY <1>1, <1>2, <1>10, <2>1 DEF TypeOK
<1>15. IndexInv' /\ DbInv'
  BY <1>1, <1>2 DEF IndexInv, DbInv
<1>16. RunInv' /\ WriteInv'
  BY <1>2 DEF RunInv, WriteInv, Writing
<1>17. h + 1 \in ForkHeight + 1 .. nHeight[heads[1]] + 1
  BY <1>2, <1>3, <1>4, <1>5
<1>18. ReplayInv'
  BY <1>2, <1>3, <1>9, <1>10, <1>11, <1>12, <1>13, <1>17 DEF ReplayInv
<1> QED BY <1>14, <1>15, <1>16, <1>18 DEF IInv

\* The replay is written.
LEMMA ReplayFlushStep == ASSUME AsViewFact, SetBestBlockFact, ParentFact, AncestorStepsFact,
                                AncestorLineFact, GetAncestorFact, BranchesFact, ChainCoinsFact,
                                IInv, ReplayFlush PROVE IInv'
<1> DEFINE h == batch.height
           c == batch.cache
           b == heads[1]
           d == SetBestBlock(c, b)
<1>1. TypeOK /\ IndexInv /\ DbInv /\ ReplayInv
  BY DEF IInv
<1>2. /\ mode = "replaying"
      /\ batch.pindexOld = Fork
      /\ h > nHeight[b]
      /\ mode' = "rewriting"
      /\ batch' = [batch EXCEPT !.cache = d, !.old_tip = OldTip]
      /\ UNCHANGED <<db, heads, tip, undo, disk, crashes, rolled>>
  BY DEF ReplayFlush
<1>3. /\ batch \in Batches
      /\ heads # <<>>
      /\ Sound(c, db)
      /\ h \in ForkHeight + 1 .. nHeight[b] + 1
      /\ \A o \in Outpoints :
            AsView(c, db).coins[o] \in {CC[GetAncestor(b, h - 1)][o], CC[b][o]}
  BY <1>1, <1>2 DEF ReplayInv, At
<1>4. c \in Cache /\ db \in ViewState /\ h \in Nat
  BY <1>1, <1>3 DEF Batches, TypeOK
<1>5. /\ b \in Blocks /\ b # Null
      /\ nHeight[b] \in Nat
      /\ ForkHeight \in 0 .. nHeight[b]
  <2>1. heads[1] \in Blocks /\ heads[1] # Null
    BY <1>1, <1>3, HeadsType
  <2>2. nHeight[heads[1]] \in Nat /\ ForkHeight \in 0 .. nHeight[heads[1]]
    BY <1>1, <1>3, ForkIs
  <2> QED BY <2>1, <2>2
<1>6. h - 1 = nHeight[b]
  BY <1>2, <1>3, <1>4, <1>5
<1>7. GetAncestor(b, nHeight[b]) = b
  <2> HIDE DEF b
  <2> QED BY <1>5 DEF AncestorStepsFact, GetAncestorFact
<1>8. AsView(c, db).coins = CC[b]
  <2>1. \A o \in Outpoints : AsView(c, db).coins[o] = CC[b][o]
    BY Zenon, <1>3, <1>6, <1>7
  <2>2. AsView(c, db).coins \in [Outpoints -> CoinValues \cup {Spent}]
    BY <1>4 DEF AsViewFact, ViewState
  <2>3. CC[b] \in [Outpoints -> Plain]
    BY <1>5 DEF ChainCoinsFact, Nodes
  <2> QED BY <2>1, <2>2, <2>3
<1>9. d \in Cache /\ AsView(d, db).coins = CC[b] /\ Sound(d, db) /\ d.hashBlock = b
  <2> HIDE DEF b, c
  <2> QED BY <1>3, <1>4, <1>5, <1>8 DEF SetBestBlockFact
<1> HIDE DEF d
<1>10. OldTip \in Nodes
  BY <1>1, HeadsType DEF OldTip, TypeOK, ViewState, Nodes
<1>11. batch' \in Batches /\ batch'.cache = d /\ batch'.old_tip = OldTip
  BY Zenon, <1>2, <1>3, <1>9, <1>10 DEF Batches, Nodes
<1>12. TypeOK'
  BY <1>1, <1>2, <1>11 DEF TypeOK, Modes
<1>13. IndexInv' /\ DbInv'
  BY <1>1, <1>2 DEF IndexInv, DbInv
<1>14. RunInv' /\ ReplayInv'
  BY <1>2 DEF RunInv, ReplayInv
<1>15. WriteInv'
  <2>1. OldTip' = OldTip
    BY <1>2 DEF OldTip
  <2>2. Known(disk, b)
    BY <1>1, <1>3 DEF DbInv
  <2> QED BY <1>2, <1>5, <1>9, <1>11, <2>1, <2>2 DEF WriteInv
<1> QED BY <1>12, <1>13, <1>14, <1>15 DEF IInv

\* Every step keeps the invariant.
LEMMA NextIInv == ASSUME Facts, IInv, [Next]_vars PROVE IInv'
<1>1. ASSUME NEW b \in Blocks, ConnectTip(b) PROVE IInv'
  BY <1>1, ConnectTipStep DEF Facts
<1>2. CASE DisconnectTip
  BY <1>2, DisconnectTipStep DEF Facts
<1>3. CASE PeriodicWrite
  BY <1>3, PeriodicWriteStep
<1>4. CASE FlushStateToDisk
  BY <1>4, FlushStateToDiskStep DEF Facts
<1>5. ASSUME NEW outpoints \in SUBSET Outpoints, WriteBatch(outpoints) PROVE IInv'
  BY <1>5, WriteBatchStep DEF Facts
<1>6. CASE WriteFinalBatch
  BY <1>6, WriteFinalBatchStep DEF Facts
<1>7. CASE Crash
  <2>1. crashes' \in 0 .. MaxCrashes
    BY <1>7, CrashAssumption DEF Crash, IInv, TypeOK
  <2> QED BY <1>7, <2>1, StopStep DEF Facts, Crash
<1>8. CASE Abort
  <2>1. crashes' \in 0 .. MaxCrashes
    BY <1>8 DEF Abort, IInv, TypeOK
  <2> QED BY <1>8, <2>1, StopStep DEF Facts, Abort
<1>9. CASE Restart
  BY <1>9, RestartStep DEF Facts
<1>10. CASE ReplayBlocks
  BY <1>10, ReplayBlocksStep DEF Facts
<1>11. CASE Rollback
  BY <1>11, RollbackStep DEF Facts
<1>12. CASE RollForward
  BY <1>12, RollForwardStep DEF Facts
<1>13. CASE ReplayFlush
  BY <1>13, ReplayFlushStep DEF Facts
<1>14. CASE UNCHANGED vars
  BY Zenon, <1>14 DEF vars, IInv, TypeOK, IndexInv, DbInv, RunInv, WriteInv, ReplayInv,
               TipView, Writing, OldTip, At, Fork, ForkHeight
<1> QED BY <1>1, <1>2, <1>3, <1>4, <1>5, <1>6, <1>7, <1>8, <1>9, <1>10, <1>11, <1>12,
           <1>13, <1>14 DEF Next

-----------------------------------------------------------------------------
(* What follows for every behaviour. *)

\* The inductive invariant of the flush, the crashes and the replay.
LEMMA InductiveGiven ==
    ASSUME Facts PROVE Spec => []IInv
<1>1. Init => IInv
  BY InitIInv DEF Facts
<1>2. IInv /\ [Next]_vars => IInv'
  BY NextIInv
<1> QED BY <1>1, <1>2, PTL DEF Spec

\* Whatever crashes interrupt FlushStateToDisk, ReplayBlocks or a replay of a
\* replay, the database has the coins of its best block's chain as soon as it
\* names one, and so has pcoinsTip while the node runs.
LEMMA CoinsAlwaysMatchGiven ==
    ASSUME Facts PROVE Spec => []CoinsMatchChain
<1>1. IInv => CoinsMatchChain
  BY Zenon DEF IInv, CoinsMatchChain, DbInv, RunInv, CC
<1> QED BY <1>1, InductiveGiven, PTL

\* The two heads of an interrupted flush stay until a replay has completed it
\* to the first of them: assert(old_heads[0] == hashBlock) of BatchWrite.
LEMMA FlushKeepsHeadsGiven ==
    ASSUME Facts PROVE Spec => HeadsKept
<1> DEFINE Keeps == heads # <<>> => \/ heads' = heads
                                    \/ heads' = <<>> /\ db'.block = heads[1]
<1>1. ASSUME IInv, [Next]_vars PROVE [Keeps]_vars
  <2>1. SUFFICES ASSUME heads # <<>> PROVE heads' = heads \/ (heads' = <<>> /\ db'.block = heads[1])
    OBVIOUS
  <2>2. mode # "running"
    BY <1>1, <2>1 DEF IInv, RunInv
  <2>3. ASSUME NEW outpoints \in SUBSET Outpoints, WriteBatch(outpoints) PROVE heads' = heads
    <3>1. Writing /\ heads' = <<batch.cache.hashBlock, batch.old_tip>>
      BY <2>3 DEF WriteBatch
    <3>2. batch.cache.hashBlock = heads[1] /\ batch.old_tip = OldTip
      BY <1>1, <2>1, <3>1 DEF IInv, WriteInv
    <3>3. OldTip = heads[2]
      BY <1>1, <2>1 DEF IInv, DbInv, OldTip
    <3>4. heads \in Blocks \X (Blocks \cup {Null})
      BY <1>1, <2>1 DEF IInv, TypeOK
    <3>5. heads = <<heads[1], heads[2]>>
      BY <3>4
    <3> QED BY <3>1, <3>2, <3>3, <3>5
  <2>4. CASE WriteFinalBatch
    <3>1. Writing /\ heads' = <<>> /\ db' = DBBatchWrite(db, batch.cache)
      BY <2>4 DEF WriteFinalBatch
    <3>2. batch.cache.hashBlock = heads[1]
      BY <1>1, <2>1, <3>1 DEF IInv, WriteInv
    <3>3. db'.block = heads[1]
      BY <3>1, <3>2 DEF DBBatchWrite
    <3> QED BY <3>1, <3>3
  <2>5. CASE UNCHANGED heads
    BY <2>5
  <2> QED BY <1>1, <2>2, <2>3, <2>4, <2>5
          DEF Next, vars, ConnectTip, DisconnectTip, PeriodicWrite, FlushStateToDisk, Crash,
              Abort, Stop, Restart, ReplayBlocks, Rollback, RollForward, ReplayFlush
<1>2. IInv /\ [Next]_vars => [Keeps]_vars
  BY <1>1
<1>3. Spec => [][Keeps]_vars
  BY <1>2, InductiveGiven, PTL DEF Spec
<1> QED BY <1>3 DEF HeadsKept

\* A view has the anchors, the nullifiers and the tree of the chain of b.
Shield(v, b) ==
    /\ v.anchors = ChainRoots(b)
    /\ v.nullifiers = ChainNullifiers(b)
    /\ v.anchor = ChainRoot[b]

\* The root in the undo data is the one before the block, and the block's
\* nullifiers were new.
UndoClean(b, u) ==
    ~IsGenesis(b) => /\ u.old_tree_root = ChainRoot[Parent[b]]
                     /\ NullifiersOf(b) \cap ChainNullifiers(Parent[b]) = {}

\* The block whose anchors, nullifiers and tree the database has: they are
\* written in the final batch only.
StoredTip == IF heads = <<>> THEN db.block ELSE heads[2]

SInv ==
    rolled = {} =>
        /\ \A b \in Blocks : undo[b] # NoEntry => UndoClean(b, undo[b])
        /\ Shield(db, StoredTip)
        /\ mode = "running" => Shield(TipView, TipView.block)
        /\ Writing => Shield(AsView(batch.cache, db), batch.cache.hashBlock)
        /\ mode = "replaying" => Shield(AsView(batch.cache, db), At)

\* The best tree of such a view is one of its anchors, and so is the empty one.
LEMMA ShieldKnown ==
    ASSUME AncestorStepsFact, ChainRootFact,
           NEW v, NEW b \in Nodes, Shield(v, b)
    PROVE  v.anchor \in v.anchors /\ EmptyRoot \in v.anchors
<1>1. <<>> \in ChainRoots(b) /\ EmptyRoot = <<>>
  BY ChainAssumption DEF ChainRoots
<1>2. ChainRoot[b] \in ChainRoots(b)
  <2>1. CASE b = Null
    BY <1>1, <2>1 DEF ChainRootFact
  <2>2. CASE b # Null
    <3>1. b \in Ancestors[b]
      BY <2>2 DEF AncestorStepsFact, Nodes
    <3> QED BY <3>1 DEF ChainRoots
  <2> QED BY <2>1, <2>2
<1> QED BY <1>1, <1>2 DEF Shield

\* A block without joinsplits changes nothing, and the genesis block has none.
LEMMA ShieldPlain ==
    ASSUME ParentFact, RootsFact, ChainRootFact, ChainGrowsFact,
           NEW b \in Blocks, ~HasJoinSplits(b), NEW v
    PROVE  Shield(v, Parent[b]) <=> Shield(v, b)
<1>1. NullifiersOf(b) = {} /\ Commitments(b) = <<>>
  BY DEF HasJoinSplits
<1>2. Parent[b] \in Nodes
  BY DEF ParentFact
<1>3. ChainRoot[Parent[b]] \in Roots /\ ChainRoot[b] = ChainRoot[Parent[b]] \o Commitments(b)
  BY <1>2 DEF ChainRootFact
<1>4. ChainRoot[b] = ChainRoot[Parent[b]]
  BY <1>1, <1>3 DEF RootsFact
<1>5. ChainRoots(b) = ChainRoots(Parent[b]) /\ ChainNullifiers(b) = ChainNullifiers(Parent[b])
  <2>1. /\ ChainRoots(b) = ChainRoots(Parent[b]) \cup {ChainRoot[b]}
        /\ ChainNullifiers(b) = ChainNullifiers(Parent[b]) \cup NullifiersOf(b)
        /\ ChainRoot[Parent[b]] \in ChainRoots(Parent[b])
    BY DEF ChainGrowsFact
  <2>2. ChainRoots(b) = ChainRoots(Parent[b])
    BY <1>4, <2>1
  <2>3. ChainNullifiers(b) = ChainNullifiers(Parent[b])
    BY <1>1, <2>1
  <2> QED BY <2>2, <2>3
<1> QED BY <1>4, <1>5 DEF Shield

\* The genesis block has no joinsplits.
LEMMA GenesisPlain ==
    ASSUME CommitmentsFact, NEW b \in Blocks, IsGenesis(b) PROVE ~HasJoinSplits(b)
BY DEF CommitmentsFact, HasJoinSplits

\* A step back.
LEMMA ShieldBack ==
    ASSUME ChainGrowsFact, NEW b \in Blocks, ~IsGenesis(b), NEW u, UndoClean(b, u), NEW v, NEW w, Shield(v, b),
           w.nullifiers = v.nullifiers \ NullifiersOf(b),
           w.anchors = IF v.anchor = u.old_tree_root THEN v.anchors
                       ELSE v.anchors \ {v.anchor},
           w.anchor = u.old_tree_root
    PROVE  Shield(w, Parent[b])
<1>1. /\ ChainRoots(b) = ChainRoots(Parent[b]) \cup {ChainRoot[b]}
      /\ ChainNullifiers(b) = ChainNullifiers(Parent[b]) \cup NullifiersOf(b)
      /\ ChainRoot[Parent[b]] \in ChainRoots(Parent[b])
      /\ ChainRoot[b] # ChainRoot[Parent[b]] => ChainRoot[b] \notin ChainRoots(Parent[b])
  BY Zenon DEF ChainGrowsFact
<1>2. /\ u.old_tree_root = ChainRoot[Parent[b]]
      /\ NullifiersOf(b) \cap ChainNullifiers(Parent[b]) = {}
  BY DEF UndoClean
<1>3. w.nullifiers = ChainNullifiers(Parent[b])
  BY <1>1, <1>2 DEF Shield
<1>4. w.anchors = ChainRoots(Parent[b])
  <2>1. v.anchor = ChainRoot[b] /\ v.anchors = ChainRoots(b)
    BY DEF Shield
  <2>2. CASE ChainRoot[b] = ChainRoot[Parent[b]]
    BY <1>1, <1>2, <2>1, <2>2
  <2>3. CASE ChainRoot[b] # ChainRoot[Parent[b]]
    <3>1. w.anchors = ChainRoots(b) \ {ChainRoot[b]}
      BY <1>2, <2>1, <2>3
    <3> QED BY <1>1, <2>3, <3>1
  <2> QED BY <2>2, <2>3
<1> QED BY <1>2, <1>3, <1>4 DEF Shield

\* ConnectBlock is a step on, and what it writes to the undo data is right.
LEMMA ShieldOn ==
    ASSUME ParentFact, AncestorStepsFact, RootsFact, CommitmentsFact,
           ChainRootFact, ChainGrowsFact, ConnectBlockFact,
           ConnectGenesisFact,
           NEW b \in Blocks, NEW base \in ViewState, base.coins = CC[Parent[b]],
           base.block = Parent[b], Connectable(b, base), Shield(base, Parent[b]),
           base.anchor \o Commitments(b) \in Anchors
    PROVE  LET d == ConnectBlock(b, base)
               w == AsView(d, base)
           IN  /\ d \in Cache
               /\ Sound(d, base)
               /\ w.anchors = ChainRoots(b)
               /\ w.nullifiers = ChainNullifiers(b)
               /\ d.hashBlock = b
               /\ IF IsGenesis(b) THEN d.hashAnchor = Null ELSE d.hashAnchor = ChainRoot[b]
               /\ UndoClean(b, UndoOf(b, base))
<1> DEFINE d == ConnectBlock(b, base)
           p == Parent[b]
<1>1. p \in Nodes
  BY Zenon DEF ParentFact
<1>2. base.anchor \in base.anchors
  BY Zenon, <1>1, ShieldKnown
<1>3. base.anchor = ChainRoot[p] /\ base.anchors = ChainRoots(p) /\ base.nullifiers = ChainNullifiers(p)
  BY DEF Shield
<1>4. CASE IsGenesis(b)
  <2>1. /\ d \in Cache
        /\ Sound(d, base)
        /\ AsView(d, base).nullifiers = base.nullifiers
        /\ AsView(d, base).anchors = base.anchors
        /\ d.hashBlock = b
        /\ d.hashAnchor = Null
    BY Zenon, <1>4 DEF ConnectGenesisFact
  <2>2. Shield(base, b)
    BY <1>4, GenesisPlain, ShieldPlain
  <2>3. UndoClean(b, UndoOf(b, base))
    BY <1>4 DEF UndoClean
  <2> QED BY Zenon, <1>4, <2>1, <2>2, <2>3 DEF Shield
<1>5. CASE ~IsGenesis(b)
  <2> DEFINE rt == base.anchor \o Commitments(b)
  <2>1. /\ d \in Cache
        /\ Sound(d, base)
        /\ AsView(d, base).nullifiers = base.nullifiers \cup NullifiersOf(b)
        /\ AsView(d, base).anchors = base.anchors \cup {rt}
        /\ d.hashBlock = b
        /\ d.hashAnchor = rt
    BY Zenon, <1>2, <1>5 DEF ConnectBlockFact
  <2>2. rt = ChainRoot[b]
    BY Zenon, <1>3 DEF ChainRootFact
  <2>3. /\ ChainRoots(b) = ChainRoots(p) \cup {ChainRoot[b]}
        /\ ChainNullifiers(b) = ChainNullifiers(p) \cup NullifiersOf(b)
    BY DEF ChainGrowsFact
  <2>4. NullifiersOf(b) \cap ChainNullifiers(p) = {}
    <3>1. \A i \in 1 .. Len(Txs[b]) : Txs[b][i].nullifiers \cap base.nullifiers = {}
      BY DEF Connectable
    <3> QED BY <1>3, <3>1 DEF NullifiersOf
  <2>5. UndoOf(b, base).old_tree_root = ChainRoot[p]
    BY <1>3 DEF UndoOf
  <2>6. UndoClean(b, UndoOf(b, base))
    BY <2>4, <2>5 DEF UndoClean
  <2> HIDE DEF rt, d
  <2> QED BY Zenon, <1>3, <1>5, <2>1, <2>2, <2>3, <2>6 DEF d
<1> QED BY Zenon, <1>4, <1>5

\* ConnectTip keeps the shielded part right.
LEMMA ShieldConnectTip ==
    ASSUME AsViewFact, BatchWriteFact, ParentFact, AncestorStepsFact,
           RootsFact, CommitmentsFact, ChainRootFact, ChainGrowsFact,
           ConnectBlockFact, ConnectGenesisFact,
           IInv, SInv, rolled = {}, NEW b \in Blocks, ConnectTip(b) PROVE SInv'
<1> DEFINE base == TipView
           d == ConnectBlock(b, base)
<1>1. /\ TypeOK /\ IndexInv /\ RunInv
      /\ mode = "running"
      /\ Parent[b] = base.block
      /\ Connectable(b, base)
      /\ base.anchor \o Commitments(b) \in Anchors
      /\ tip' = BatchWrite(tip, d)
      /\ undo' = IF undo[b] = NoEntry THEN [undo EXCEPT ![b] = UndoOf(b, base)] ELSE undo
      /\ UNCHANGED <<db, heads, mode, batch, disk, crashes, rolled>>
  BY Zenon DEF IInv, ConnectTip
<1>2. /\ base \in ViewState
      /\ Sound(tip, db)
      /\ base = AsView(tip, db)
      /\ base.coins = CC[Parent[b]]
      /\ heads = <<>>
      /\ tip \in Cache /\ db \in ViewState /\ undo \in Index
  BY Zenon, <1>1, TipViewType DEF RunInv, TipView, TypeOK
<1>3. /\ Shield(base, Parent[b])
      /\ Shield(db, db.block)
      /\ \A a \in Blocks : undo[a] # NoEntry => UndoClean(a, undo[a])
  BY Zenon, <1>1, <1>2 DEF SInv, StoredTip
<1> HIDE DEF base
<1>4. /\ d \in Cache
      /\ Sound(d, base)
      /\ AsView(d, base).anchors = ChainRoots(b)
      /\ AsView(d, base).nullifiers = ChainNullifiers(b)
      /\ d.hashBlock = b
      /\ IF IsGenesis(b) THEN d.hashAnchor = Null ELSE d.hashAnchor = ChainRoot[b]
      /\ UndoClean(b, UndoOf(b, base))
  <2>1. base.block = Parent[b]
    BY Zenon, <1>1
  <2>2. Connectable(b, base) /\ base.anchor \o Commitments(b) \in Anchors
    BY <1>1
  <2> QED BY Zenon, <1>2, <1>3, <2>1, <2>2, ShieldOn
<1> HIDE DEF d
<1>5. /\ AsView(tip', db).anchors = ChainRoots(b)
      /\ AsView(tip', db).nullifiers = ChainNullifiers(b)
      /\ tip'.hashAnchor = d.hashAnchor
      /\ tip'.hashBlock = b
  <2> DEFINE new == BatchWrite(tip, d)
  <2>1. /\ AsView(new, db).anchors = AsView(d, AsView(tip, db)).anchors
        /\ AsView(new, db).nullifiers = AsView(d, AsView(tip, db)).nullifiers
        /\ new.hashAnchor = d.hashAnchor
        /\ new.hashBlock = d.hashBlock
    BY Zenon, <1>2, <1>4 DEF BatchWriteFact
  <2>2. tip' = new
    BY Zenon, <1>1
  <2> HIDE DEF new
  <2> QED BY Zenon, <1>2, <1>4, <2>1, <2>2
<1>6. AsView(tip', db).anchor = ChainRoot[b]
  <2>0. AsView(tip', db).anchor = IF tip'.hashAnchor # Null THEN tip'.hashAnchor ELSE db.anchor
    BY DEF AsView, BestAnchor
  <2>1. CASE IsGenesis(b)
    <3>1. db.block = Null
      BY Zenon, <1>1, <1>2, <2>1 DEF IsGenesis, AsView, BestBlock
    <3>2. Shield(db, b)
      BY Zenon, <1>3, <2>1, <3>1, GenesisPlain, ShieldPlain DEF IsGenesis
    <3> QED BY Zenon, <1>4, <1>5, <2>0, <2>1, <3>2 DEF Shield
  <2>2. CASE ~IsGenesis(b)
    <3>1. ChainRoot[b] \in Anchors
      <4>1. ChainRoot[b] = ChainRoot[Parent[b]] \o Commitments(b) /\ base.anchor = ChainRoot[Parent[b]]
        BY <1>3 DEF ChainRootFact, Shield
      <4> QED BY Zenon, <1>1, <4>1
    <3>2. ChainRoot[b] # Null
      BY <3>1, CoinsAssumption
    <3> QED BY Zenon, <1>4, <1>5, <2>0, <2>2, <3>2
  <2> QED BY Zenon, <2>1, <2>2
<1>7. TipView' = AsView(tip', db)
  BY <1>1 DEF TipView
<1>8. TipView'.block = b
  BY Zenon, <1>5, <1>7, CoinsAssumption DEF AsView, BestBlock
<1>9. Shield(TipView', b)
  BY Zenon, <1>5, <1>6, <1>7 DEF Shield
<1>10. ASSUME NEW a \in Blocks, undo'[a] # NoEntry PROVE UndoClean(a, undo'[a])
  <2>1. CASE a = b /\ undo[b] = NoEntry
    BY Zenon, <1>1, <1>2, <1>4, <2>1 DEF Index
  <2>2. CASE a # b \/ undo[b] # NoEntry
    <3>1. undo'[a] = undo[a]
      BY Zenon, <1>1, <1>2, <2>2 DEF Index
    <3> QED BY <1>3, <1>10, <3>1
  <2> QED BY <2>1, <2>2
<1>11. Shield(db', StoredTip')
  BY Zenon, <1>1, <1>2, <1>3 DEF StoredTip
<1> QED BY Zenon, <1>1, <1>8, <1>9, <1>10, <1>11 DEF SInv, Writing

\* So does DisconnectTip.
LEMMA ShieldDisconnectTip ==
    ASSUME AsViewFact, EmptyFact, EmptyCacheFact, GetBestFact,
           BatchWriteFact, ChainGrowsFact, DisconnectBlockFact,
           IInv, SInv, rolled = {}, DisconnectTip PROVE SInv'
<1> DEFINE base == TipView
           b == base.block
           view == GetBestBlock(EmptyCache, base)
           u == undo[b]
           d == DisconnectBlock(view, base, b, u)
           t == GetBestAnchor(tip, db)
<1>1. /\ TypeOK /\ IndexInv /\ RunInv
      /\ mode = "running"
      /\ b # Null
      /\ ~IsGenesis(b)
      /\ tip' = BatchWrite(t, d)
      /\ UNCHANGED <<db, heads, mode, batch, undo, disk, crashes, rolled>>
  BY Zenon DEF IInv, DisconnectTip
<1>2. /\ base \in ViewState
      /\ Sound(tip, db)
      /\ base = AsView(tip, db)
      /\ Known(undo, b)
      /\ heads = <<>>
      /\ tip \in Cache /\ db \in ViewState /\ undo \in Index
      /\ b \in Nodes
  BY Zenon, <1>1, TipViewType DEF RunInv, TipView, TypeOK
<1>3. b \in Blocks /\ u \in BlockUndo
  <2> HIDE DEF b
  <2> QED BY <1>1, <1>2, UndoType
<1>4. /\ UndoRight(b, u)
      /\ UndoClean(b, u)
      /\ Shield(base, b)
      /\ Shield(db, db.block)
      /\ \A a \in Blocks : undo[a] # NoEntry => UndoClean(a, undo[a])
  BY Zenon, <1>1, <1>2, <1>3 DEF IndexInv, Known, SInv, StoredTip
<1>5. view \in Cache /\ Sound(view, base) /\ AsView(view, base) = base
  <2> HIDE DEF base
  <2> QED BY Zenon, <1>2 DEF EmptyFact, EmptyCacheFact, GetBestFact
<1>6. t \in Cache /\ Sound(t, db) /\ AsView(t, db) = base
  BY Zenon, <1>2 DEF GetBestFact
<1> HIDE DEF view, t, u, b, base
<1>7. StepsBack(d, view, base, b, u)
  BY Zenon, <1>1, <1>2, <1>3, <1>4, <1>5 DEF DisconnectBlockFact
<1> HIDE DEF d
<1>8. /\ d \in Cache
      /\ Sound(d, base)
      /\ AsView(d, base).nullifiers = base.nullifiers \ NullifiersOf(b)
      /\ AsView(d, base).anchors = IF base.anchor = u.old_tree_root THEN base.anchors
                                   ELSE base.anchors \ {base.anchor}
      /\ AsView(d, base).anchor = u.old_tree_root
      /\ d.hashBlock = Parent[b]
      /\ d.hashAnchor = u.old_tree_root
  BY <1>5, <1>7 DEF StepsBack
<1>9. Shield(AsView(d, base), Parent[b])
  BY Zenon, <1>1, <1>3, <1>4, <1>8, ShieldBack
<1>10. Parent[b] # Null /\ u.old_tree_root # Null
  BY <1>1, <1>3, CoinsAssumption DEF IsGenesis, BlockUndo
<1>11. /\ AsView(tip', db).anchors = AsView(d, base).anchors
       /\ AsView(tip', db).nullifiers = AsView(d, base).nullifiers
       /\ tip'.hashAnchor = u.old_tree_root
       /\ tip'.hashBlock = Parent[b]
  <2> DEFINE new == BatchWrite(t, d)
  <2>0. Sound(d, AsView(t, db))
    BY Zenon, <1>6, <1>8
  <2>1. /\ AsView(new, db).anchors = AsView(d, AsView(t, db)).anchors
        /\ AsView(new, db).nullifiers = AsView(d, AsView(t, db)).nullifiers
        /\ new.hashAnchor = d.hashAnchor
        /\ new.hashBlock = d.hashBlock
    BY Zenon, <1>2, <1>6, <1>8, <2>0 DEF BatchWriteFact
  <2>2. tip' = new
    BY <1>1
  <2> HIDE DEF new
  <2> QED BY Zenon, <1>6, <1>8, <2>1, <2>2
<1>12. AsView(tip', db).anchor = u.old_tree_root /\ AsView(tip', db).block = Parent[b]
  BY Zenon, <1>10, <1>11 DEF AsView, BestAnchor, BestBlock
<1>13. TipView' = AsView(tip', db)
  BY <1>1 DEF TipView
<1>14. Shield(TipView', TipView'.block)
  BY Zenon, <1>8, <1>9, <1>11, <1>12, <1>13 DEF Shield
<1>15. Shield(db', StoredTip')
  BY Zenon, <1>1, <1>2, <1>4 DEF StoredTip
<1>16. \A a \in Blocks : undo'[a] # NoEntry => UndoClean(a, undo'[a])
  BY <1>1, <1>4
<1> QED BY Zenon, <1>1, <1>14, <1>15, <1>16 DEF SInv, Writing

\* So does a write of the block index, and the start of a flush.
LEMMA ShieldFlush ==
    ASSUME GetBestFact, IInv, SInv, rolled = {}, PeriodicWrite \/ FlushStateToDisk PROVE SInv'
<1>1. /\ mode = "running"
      /\ UNCHANGED <<db, heads, tip, undo, rolled>>
  BY DEF PeriodicWrite, FlushStateToDisk
<1>2. /\ \A b \in Blocks : undo[b] # NoEntry => UndoClean(b, undo[b])
      /\ Shield(db, StoredTip)
      /\ Shield(TipView, TipView.block)
  BY <1>1 DEF SInv
<1>3. StoredTip' = StoredTip /\ TipView' = TipView
  BY <1>1 DEF StoredTip, TipView
<1>4. CASE PeriodicWrite
  <2>1. mode' = "running"
    BY <1>4 DEF PeriodicWrite
  <2> QED BY <1>1, <1>2, <1>3, <2>1 DEF SInv, Writing
<1>5. CASE FlushStateToDisk
  <2> DEFINE c == GetBestBlock(tip, db)
  <2>1. mode' = "flushing" /\ batch'.cache = c
    BY <1>5 DEF FlushStateToDisk
  <2>2. tip \in Cache /\ db \in ViewState
    BY DEF IInv, TypeOK
  <2>3. AsView(c, db) = TipView /\ c.hashBlock = TipView.block
    BY <2>2 DEF GetBestFact, TipView
  <2> HIDE DEF c
  <2> QED BY Zenon, <1>1, <1>2, <1>3, <2>1, <2>3 DEF SInv
<1> QED BY <1>4, <1>5

\* So does a batch: anchors and nullifiers are in the final one.
LEMMA ShieldWriteBatch ==
    ASSUME OneBatchFact, IInv, SInv, rolled = {}, NEW outpoints \in SUBSET Outpoints, WriteBatch(outpoints)
    PROVE  SInv'
<1> DEFINE c == batch.cache
           e == Stored(db, c, outpoints)
           r == Rest(c, outpoints)
           b == c.hashBlock
           old == batch.old_tip
<1>1. TypeOK /\ DbInv /\ WriteInv
  BY DEF IInv
<1>2. /\ Writing
      /\ \A o \in outpoints : c.coins[o] # NoEntry
      /\ db' = e
      /\ heads' = <<b, old>>
      /\ batch' = [batch EXCEPT !.cache.coins =
                     [o \in Outpoints |-> IF o \in outpoints THEN NoEntry ELSE @[o]]]
      /\ UNCHANGED <<tip, mode, undo, disk, crashes, rolled>>
  BY DEF WriteBatch, Stored
<1>3. batch \in Batches /\ Sound(c, db) /\ old = OldTip
  BY <1>1, <1>2 DEF WriteInv
<1>4. c \in Cache /\ db \in ViewState
  BY <1>1, <1>3 DEF Batches, TypeOK
<1>5. batch'.cache = r
  BY <1>2, <1>3 DEF Rest, Batches
<1>6. /\ AsView(r, e).anchors = AsView(c, db).anchors
      /\ AsView(r, e).nullifiers = AsView(c, db).nullifiers
      /\ e.anchors = db.anchors
      /\ e.nullifiers = db.nullifiers
      /\ e.anchor = db.anchor
      /\ r.hashBlock = b
      /\ r.hashAnchor = c.hashAnchor
  <2> HIDE DEF c
  <2> QED BY <1>2, <1>3, <1>4 DEF OneBatchFact, b
<1> HIDE DEF e, r
<1>7. AsView(r, e).anchor = AsView(c, db).anchor
  BY Zenon, <1>6 DEF AsView, BestAnchor
<1>8. StoredTip' = StoredTip
  <2>1. StoredTip' = old
    BY <1>2 DEF StoredTip
  <2>2. StoredTip = OldTip
    BY <1>1 DEF StoredTip, OldTip, DbInv
  <2> QED BY <1>3, <2>1, <2>2
<1>9. /\ \A a \in Blocks : undo[a] # NoEntry => UndoClean(a, undo[a])
      /\ Shield(db, StoredTip)
      /\ Shield(AsView(c, db), b)
  BY <1>2 DEF SInv
<1>10. Shield(db', StoredTip') /\ Shield(AsView(r, e), b)
  BY <1>2, <1>6, <1>7, <1>8, <1>9 DEF Shield
<1> QED BY <1>2, <1>5, <1>6, <1>9, <1>10 DEF SInv, Writing

\* So does the final batch.
LEMMA ShieldWriteFinalBatch ==
    ASSUME DBBatchWriteFact, AncestorStepsFact, ChainRootFact, LoadedFact,
           IInv, SInv, rolled = {}, WriteFinalBatch PROVE SInv'
<1> DEFINE c == batch.cache
           e == DBBatchWrite(db, c)
           b == c.hashBlock
<1>1. TypeOK /\ WriteInv
  BY DEF IInv
<1>2. /\ Writing
      /\ db' = e
      /\ heads' = <<>>
      /\ tip' = Flushed(c) \/ tip' = Loaded(e)
      /\ mode' = "running"
      /\ UNCHANGED <<undo, disk, crashes, rolled>>
  BY DEF WriteFinalBatch
<1>3. c \in Cache /\ db \in ViewState /\ Sound(c, db) /\ b # Null /\ b \in Nodes
  <2>1. batch \in Batches
    BY Zenon, <1>1, <1>2 DEF WriteInv
  <2>2. c \in Cache
    BY <2>1 DEF Batches
  <2> QED BY Zenon, <1>1, <1>2, <2>2 DEF WriteInv, TypeOK, Cache, Nodes
<1>4. /\ Shield(AsView(c, db), b)
      /\ \A a \in Blocks : undo[a] # NoEntry => UndoClean(a, undo[a])
  BY <1>2 DEF SInv
<1>5. EmptyRoot \in AsView(c, db).anchors
  BY Zenon, <1>3, <1>4, ShieldKnown
<1>6. /\ e \in ViewState
      /\ e = AsView(c, db)
      /\ AsView(Flushed(c), e) = AsView(c, db)
  <2> HIDE DEF c
  <2> QED BY <1>3, <1>5 DEF DBBatchWriteFact, b
<1>7. e.block = b
  BY DEF DBBatchWrite
<1> HIDE DEF e
<1>8. AsView(tip', e) = e
  BY <1>2, <1>6 DEF LoadedFact
<1>9. TipView' = e
  BY <1>2, <1>8 DEF TipView
<1>10. Shield(e, e.block)
  BY Zenon, <1>4, <1>6, <1>7
<1> QED BY Zenon, <1>2, <1>4, <1>9, <1>10 DEF SInv, StoredTip, Writing

\* So do the end of the process and a restart.
LEMMA ShieldStop ==
    ASSUME LoadedFact, IInv, SInv, rolled = {}, Stop \/ Restart PROVE SInv'
<1>1. /\ \A b \in Blocks : undo[b] # NoEntry => UndoClean(b, undo[b])
      /\ Shield(db, StoredTip)
  BY DEF SInv
<1>2. CASE Stop
  <2>1. /\ mode' = "down"
        /\ undo' = disk
        /\ UNCHANGED <<db, heads, rolled>>
    BY <1>2 DEF Stop
  <2>2. ASSUME NEW b \in Blocks, undo'[b] # NoEntry PROVE UndoClean(b, undo'[b])
    <3>1. disk[b] # NoEntry /\ undo[b] = disk[b]
      BY Zenon, <2>1, <2>2 DEF IInv, IndexInv
    <3> QED BY <1>1, <2>1, <3>1
  <2>3. StoredTip' = StoredTip
    BY <2>1 DEF StoredTip
  <2> QED BY <1>1, <2>1, <2>2, <2>3 DEF SInv, Writing
<1>3. CASE Restart
  <2>1. /\ heads = <<>>
        /\ mode' = "running"
        /\ tip' = Loaded(db)
        /\ UNCHANGED <<db, heads, undo, rolled>>
    BY <1>3 DEF Restart
  <2>2. db \in ViewState
    BY DEF IInv, TypeOK
  <2>3. TipView' = db
    BY <2>1, <2>2 DEF LoadedFact, TipView
  <2>4. StoredTip' = StoredTip /\ StoredTip = db.block
    BY <2>1 DEF StoredTip
  <2> QED BY <1>1, <2>1, <2>3, <2>4 DEF SInv, Writing
<1> QED BY <1>2, <1>3

\* ReplayBlocks begins where the anchors, the nullifiers and the tree are: at
\* the old tip.
LEMMA ShieldReplayBlocks ==
    ASSUME EmptyCacheFact, ParentFact, AncestorLineFact, GetAncestorFact,
           BranchesFact, ChainCoinsFact, RootsFact, CommitmentsFact,
           ChainRootFact, ChainGrowsFact,
           IInv, SInv, rolled = {}, ReplayBlocks PROVE SInv'
<1>1. TypeOK
  BY DEF IInv
<1>2. /\ heads # <<>>
      /\ mode' = "replaying"
      /\ batch' = [cache |-> EmptyCache, old_tip |-> Null,
                   pindexOld |-> heads[2], height |-> ForkHeight + 1]
      /\ UNCHANGED <<db, heads, undo, rolled>>
  BY DEF ReplayBlocks
<1>3. /\ \A b \in Blocks : undo[b] # NoEntry => UndoClean(b, undo[b])
      /\ Shield(db, StoredTip)
      /\ StoredTip = heads[2]
  BY Zenon, <1>2 DEF SInv, StoredTip
<1>4. batch'.cache = EmptyCache /\ batch'.pindexOld = heads[2] /\ batch'.height = ForkHeight + 1
  BY <1>2
<1>5. AsView(EmptyCache, db) = db
  BY <1>1 DEF EmptyCacheFact, TypeOK
<1>6. Fork' = Fork /\ ForkHeight' = ForkHeight
  BY <1>2 DEF Fork, ForkHeight
<1>7. /\ heads[1] \in Blocks /\ heads[2] \in Nodes
      /\ nHeight[heads[1]] \in Nat
      /\ ForkHeight \in 0 .. nHeight[heads[1]]
      /\ heads[2] = Null => Fork = Null
      /\ heads[2] # Null => Fork = GetAncestor(heads[1], ForkHeight)
  BY <1>1, <1>2, HeadsType, ForkIs
<1>8. Shield(db, At')
  <2>1. CASE heads[2] # Fork
    <3>1. At' = heads[2]
      BY <1>4, <1>6, <2>1 DEF At
    <3> QED BY <1>3, <3>1
  <2>2. CASE heads[2] = Fork
    <3>1. (ForkHeight + 1) - 1 = ForkHeight
      BY <1>7
    <3>2. At' = GetAncestor(heads[1], ForkHeight)
      BY <1>2, <1>4, <1>6, <2>2, <3>1 DEF At
    <3>3. CASE heads[2] # Null
      BY <1>3, <1>7, <2>2, <3>2, <3>3
    <3>4. CASE heads[2] = Null
      <4> DEFINE g == GetAncestor(heads[1], 0)
      <4>1. ForkHeight = 0
        BY <1>7, <3>4 DEF ForkHeight
      <4>2. g \in Blocks /\ IsGenesis(g)
        <5>1. 0 \in 0 .. nHeight[heads[1]]
          BY <1>7
        <5> QED BY <1>7, <5>1 DEF GetAncestorFact
      <4>3. At' = g
        BY <3>2, <4>1
      <4> HIDE DEF g
      <4>4. Shield(db, Parent[g])
        BY <1>3, <3>4, <4>2 DEF IsGenesis
      <4>5. Shield(db, g)
        BY <4>2, <4>4, GenesisPlain, ShieldPlain
      <4> QED BY <4>3, <4>5
    <3> QED BY <3>3, <3>4
  <2> QED BY <2>1, <2>2
<1>9. StoredTip' = StoredTip
  BY <1>2 DEF StoredTip
<1> QED BY <1>2, <1>3, <1>4, <1>5, <1>8, <1>9 DEF SInv, Writing

\* DisconnectBlock takes the joinsplits of the old branch back.
LEMMA ShieldRollback ==
    ASSUME ParentFact, AncestorsFact, AncestorLineFact, GetAncestorFact,
           BranchesFact, AncestorsKnownFact, ChainCoinsFact, ChainGrowsFact,
           DisconnectBlockFact,
           IInv, SInv, rolled = {}, Rollback PROVE SInv'
<1> DEFINE b == batch.pindexOld
           c == batch.cache
           u == undo[b]
           d == DisconnectBlock(c, db, b, u)
           p == Parent[b]
<1>1. TypeOK /\ IndexInv /\ DbInv /\ ReplayInv
  BY DEF IInv
<1>2. /\ mode = "replaying"
      /\ b # Fork
      /\ batch' = [batch EXCEPT !.cache = IF nHeight[b] > 0 THEN d ELSE c, !.pindexOld = p]
      /\ UNCHANGED <<db, heads, mode, undo, rolled>>
  BY DEF Rollback
<1>3. /\ heads # <<>> /\ heads[2] # Null
      /\ b \in Blocks
      /\ nHeight[b] > 0
      /\ ~IsGenesis(b)
      /\ u \in BlockUndo
      /\ UndoRight(b, u)
  BY <1>1, <1>2, OnOldBranch
<1>4. /\ batch \in Batches
      /\ Sound(c, db)
      /\ batch.height = ForkHeight + 1
  BY <1>1, <1>2 DEF ReplayInv
<1>5. c \in Cache /\ db \in ViewState
  BY <1>1, <1>4 DEF Batches, TypeOK
<1>6. StepsBack(d, c, db, b, u)
  <2> HIDE DEF b, c, u
  <2> QED BY <1>3, <1>4, <1>5 DEF DisconnectBlockFact
<1>7. /\ \A a \in Blocks : undo[a] # NoEntry => UndoClean(a, undo[a])
      /\ Shield(db, StoredTip)
      /\ Shield(AsView(c, db), b)
  BY <1>2 DEF SInv, At
<1>8. UndoClean(b, u)
  BY Zenon, <1>3, <1>7, ChainAssumption
<1> HIDE DEF d
<1>9. Shield(AsView(d, db), p)
  <2> DEFINE v == AsView(c, db)
             w == AsView(d, db)
  <2>1. /\ w.nullifiers = v.nullifiers \ NullifiersOf(b)
        /\ w.anchors = IF v.anchor = u.old_tree_root THEN v.anchors
                       ELSE v.anchors \ {v.anchor}
        /\ w.anchor = u.old_tree_root
    BY Zenon, <1>6 DEF StepsBack
  <2> HIDE DEF v, w, u, b
  <2> QED BY Zenon, <1>3, <1>7, <1>8, <2>1, ShieldBack DEF v, w
<1>10. batch'.cache = d /\ batch'.pindexOld = p /\ batch'.height = batch.height
  BY <1>2, <1>3, <1>4 DEF Batches
<1>11. Fork' = Fork /\ ForkHeight' = ForkHeight
  BY <1>2 DEF Fork, ForkHeight
<1>12. /\ ForkHeight \in 0 .. nHeight[heads[1]]
       /\ nHeight[heads[1]] \in Nat
       /\ Fork = GetAncestor(heads[1], ForkHeight)
  BY Zenon, <1>1, <1>3, ForkIs
<1>13. At' = p
  <2>1. CASE p # Fork
    BY <1>10, <1>11, <2>1 DEF At
  <2>2. CASE p = Fork
    <3>1. batch.height - 1 = ForkHeight
      BY <1>4, <1>12
    <3>2. At' = GetAncestor(heads[1], ForkHeight)
      BY <1>2, <1>10, <1>11, <2>2, <3>1 DEF At
    <3> QED BY <1>12, <2>2, <3>2
  <2> QED BY <2>1, <2>2
<1>14. Shield(AsView(batch'.cache, db'), At')
  BY <1>2, <1>9, <1>10, <1>13
<1>15. StoredTip' = StoredTip
  BY <1>2 DEF StoredTip
<1> QED BY <1>2, <1>7, <1>14, <1>15 DEF SInv, Writing

\* RollforwardBlock is a step on for a block without joinsplits.
LEMMA ShieldRollForward ==
    ASSUME ParentFact, AncestorLineFact, GetAncestorFact, BranchesFact,
           ChainCoinsFact, RootsFact, ChainRootFact, ChainGrowsFact,
           RollforwardBlockFact,
           IInv, SInv, rolled = {}, rolled' = {}, RollForward PROVE SInv'
<1> DEFINE h == batch.height
           b == GetAncestor(heads[1], h)
           c == batch.cache
           d == RollforwardBlock(c, db, b)
<1>1. TypeOK /\ ReplayInv
  BY DEF IInv
<1>2. /\ mode = "replaying"
      /\ batch.pindexOld = Fork
      /\ h <= nHeight[heads[1]]
      /\ batch' = [batch EXCEPT !.cache = d, !.height = h + 1]
      /\ rolled' = IF HasJoinSplits(b) THEN rolled \cup {b} ELSE rolled
      /\ UNCHANGED <<db, heads, mode, undo>>
  BY DEF RollForward
<1>3. ~HasJoinSplits(b)
  BY <1>2
<1>4. /\ batch \in Batches
      /\ heads # <<>>
      /\ Sound(c, db)
      /\ h \in ForkHeight + 1 .. nHeight[heads[1]] + 1
  BY <1>1, <1>2 DEF ReplayInv
<1>5. c \in Cache /\ db \in ViewState /\ h \in Nat
  BY <1>1, <1>4 DEF Batches, TypeOK
<1>6. /\ heads[1] \in Blocks
      /\ nHeight[heads[1]] \in Nat
      /\ ForkHeight \in 0 .. nHeight[heads[1]]
  BY <1>1, <1>4, HeadsType, ForkIs
<1>7. h \in 1 .. nHeight[heads[1]] /\ h \in 0 .. nHeight[heads[1]]
  BY <1>2, <1>4, <1>5, <1>6
<1>8. b \in Blocks /\ ~IsGenesis(b) /\ Parent[b] = GetAncestor(heads[1], h - 1)
  <2> HIDE DEF h
  <2> QED BY <1>6, <1>7 DEF GetAncestorFact
<1>9. StepsOn(d, c, db, b)
  <2> HIDE DEF b, c
  <2> QED BY <1>4, <1>5, <1>8 DEF RollforwardBlockFact
<1>10. /\ \A a \in Blocks : undo[a] # NoEntry => UndoClean(a, undo[a])
       /\ Shield(db, StoredTip)
       /\ Shield(AsView(c, db), GetAncestor(heads[1], h - 1))
  BY <1>2 DEF SInv, At
<1> HIDE DEF d
<1>11. Shield(AsView(d, db), b)
  <2>1. Shield(AsView(d, db), Parent[b])
    BY Zenon, <1>8, <1>9, <1>10 DEF StepsOn, Shield
  <2> HIDE DEF b
  <2> QED BY <1>3, <1>8, <2>1, ShieldPlain
<1>12. /\ batch'.cache = d
       /\ batch'.pindexOld = batch.pindexOld
       /\ batch'.height = h + 1
  <2> DEFINE k == h + 1
  <2> HIDE DEF k, b, c
  <2>1. batch' = [batch EXCEPT !.cache = d, !.height = k]
    BY <1>2 DEF k
  <2>2. /\ batch'.cache = d
        /\ batch'.pindexOld = batch.pindexOld
        /\ batch'.height = k
    BY <1>4, <2>1 DEF Batches
  <2> QED BY <2>2 DEF k
<1>13. Fork' = Fork /\ ForkHeight' = ForkHeight
  BY <1>2 DEF Fork, ForkHeight
<1>14. At' = b
  <2>1. (h + 1) - 1 = h
    BY <1>5
  <2> QED BY <1>2, <1>12, <1>13, <2>1 DEF At
<1>15. Shield(AsView(batch'.cache, db'), At')
  BY <1>2, <1>11, <1>12, <1>14
<1>16. StoredTip' = StoredTip
  BY <1>2 DEF StoredTip
<1> QED BY <1>2, <1>10, <1>15, <1>16 DEF SInv, Writing

\* The replay has arrived at the new tip when it is written.
LEMMA ShieldReplayFlush ==
    ASSUME SetBestBlockFact, ParentFact, AncestorStepsFact, AncestorLineFact,
           GetAncestorFact, BranchesFact, ChainCoinsFact,
           IInv, SInv, rolled = {}, ReplayFlush PROVE SInv'
<1> DEFINE h == batch.height
           c == batch.cache
           b == heads[1]
           d == SetBestBlock(c, b)
<1>1. TypeOK /\ ReplayInv
  BY DEF IInv
<1>2. /\ mode = "replaying"
      /\ batch.pindexOld = Fork
      /\ h > nHeight[b]
      /\ mode' = "rewriting"
      /\ batch' = [batch EXCEPT !.cache = d, !.old_tip = OldTip]
      /\ UNCHANGED <<db, heads, undo, rolled>>
  BY DEF ReplayFlush
<1>3. /\ batch \in Batches
      /\ heads # <<>>
      /\ Sound(c, db)
      /\ h \in ForkHeight + 1 .. nHeight[b] + 1
  BY <1>1, <1>2 DEF ReplayInv
<1>4. c \in Cache /\ db \in ViewState /\ h \in Nat
  BY <1>1, <1>3 DEF Batches, TypeOK
<1>5. /\ b \in Blocks
      /\ nHeight[b] \in Nat
      /\ ForkHeight \in 0 .. nHeight[b]
  <2>1. heads[1] \in Blocks
    BY <1>1, <1>3, HeadsType
  <2>2. nHeight[heads[1]] \in Nat /\ ForkHeight \in 0 .. nHeight[heads[1]]
    BY <1>1, <1>3, ForkIs
  <2> QED BY <2>1, <2>2
<1>6. h - 1 = nHeight[b]
  BY <1>2, <1>3, <1>4, <1>5
<1>7. GetAncestor(b, nHeight[b]) = b
  <2> HIDE DEF b
  <2> QED BY <1>5 DEF AncestorStepsFact, GetAncestorFact
<1>8. /\ \A a \in Blocks : undo[a] # NoEntry => UndoClean(a, undo[a])
      /\ Shield(db, StoredTip)
      /\ Shield(AsView(c, db), b)
  <2>1. At = b
    BY <1>2, <1>6, <1>7 DEF At
  <2> QED BY <1>2, <2>1 DEF SInv
<1>9. Shield(AsView(d, db), b) /\ d.hashBlock = b
  <2> HIDE DEF b, c
  <2>1. /\ AsView(d, db).anchors = AsView(c, db).anchors
        /\ AsView(d, db).nullifiers = AsView(c, db).nullifiers
        /\ AsView(d, db).anchor = AsView(c, db).anchor
        /\ d.hashBlock = b
    BY Zenon, <1>3, <1>4, <1>5 DEF SetBestBlockFact
  <2> HIDE DEF d
  <2> QED BY Zenon, <1>8, <2>1 DEF Shield
<1> HIDE DEF d
<1>10. batch'.cache = d
  BY <1>2, <1>3 DEF Batches
<1>11. StoredTip' = StoredTip
  BY <1>2 DEF StoredTip
<1>12. Shield(AsView(batch'.cache, db'), batch'.cache.hashBlock)
  BY <1>2, <1>9, <1>10
<1> QED BY <1>2, <1>8, <1>11, <1>12 DEF SInv, Writing

\* At the start the database has the anchors, nullifiers and tree of no block.
LEMMA InitSInv ==
    ASSUME EmptyFact, EmptyCacheFact, AncestorsFact, ChainRootFact PROVE Init => SInv
<1> SUFFICES ASSUME Init PROVE SInv
  OBVIOUS
<1>1. /\ db = EmptyDB /\ heads = <<>> /\ tip = EmptyCache /\ mode = "running"
      /\ undo = NoIndex
  BY DEF Init
<1>2. db \in ViewState /\ TipView = db /\ StoredTip = db.block /\ db.block = Null
  BY <1>1 DEF EmptyFact, EmptyCacheFact, TipView, StoredTip, EmptyDB
<1>3. Shield(db, Null)
  <2>1. Ancestors[Null] = {} /\ ChainRoot[Null] = <<>>
    BY Zenon DEF AncestorsFact, ChainRootFact
  <2>2. ChainRoots(Null) = {<<>>} /\ ChainNullifiers(Null) = {}
    BY Zenon, <2>1 DEF ChainRoots, ChainNullifiers
  <2> QED BY Zenon, <1>1, <2>1, <2>2, ChainAssumption DEF Shield, EmptyDB
<1>4. \A b \in Blocks : undo[b] = NoEntry
  BY <1>1 DEF NoIndex
<1> QED BY Zenon, <1>1, <1>2, <1>3, <1>4 DEF SInv, Writing

\* Every step keeps the anchors, the nullifiers and the tree those of the
\* chain, unless it rolls joinsplits forward.
LEMMA NextSInv == ASSUME Facts, IInv, SInv, [Next]_vars PROVE SInv'
<1>1. rolled \subseteq rolled'
  BY Zenon DEF Next, vars, ConnectTip, DisconnectTip, PeriodicWrite, FlushStateToDisk, WriteBatch,
         WriteFinalBatch, Crash, Abort, Stop, Restart, ReplayBlocks, Rollback, RollForward,
         ReplayFlush
<1>2. CASE rolled' # {}
  BY Zenon, <1>2 DEF SInv
<1>3. CASE rolled' = {}
  <2>1. rolled = {}
    BY <1>1, <1>3
  <2>2. ASSUME NEW b \in Blocks, ConnectTip(b) PROVE SInv'
    BY <2>1, <2>2, ShieldConnectTip DEF Facts
  <2>3. CASE DisconnectTip
    BY <2>1, <2>3, ShieldDisconnectTip DEF Facts
  <2>4. CASE PeriodicWrite \/ FlushStateToDisk
    BY <2>1, <2>4, ShieldFlush DEF Facts
  <2>5. ASSUME NEW outpoints \in SUBSET Outpoints, WriteBatch(outpoints) PROVE SInv'
    BY <2>1, <2>5, ShieldWriteBatch DEF Facts
  <2>6. CASE WriteFinalBatch
    BY <2>1, <2>6, ShieldWriteFinalBatch DEF Facts
  <2>7. CASE Crash \/ Abort \/ Restart
    BY <2>1, <2>7, ShieldStop DEF Facts, Crash, Abort
  <2>8. CASE ReplayBlocks
    BY <2>1, <2>8, ShieldReplayBlocks DEF Facts
  <2>9. CASE Rollback
    BY <2>1, <2>9, ShieldRollback DEF Facts
  <2>10. CASE RollForward
    BY <1>3, <2>1, <2>10, ShieldRollForward DEF Facts
  <2>11. CASE ReplayFlush
    BY <2>1, <2>11, ShieldReplayFlush DEF Facts
  <2>12. CASE UNCHANGED vars
    BY Zenon, <2>12 DEF vars, SInv, StoredTip, TipView, Writing, At, Fork, ForkHeight
  <2> QED BY <2>2, <2>3, <2>4, <2>5, <2>6, <2>7, <2>8, <2>9, <2>10, <2>11, <2>12 DEF Next
<1> QED BY <1>2, <1>3

-----------------------------------------------------------------------------
(* What follows for the anchors, the nullifiers and the tree. *)

\* As long as ReplayBlocks has rolled no joinsplit forward, the anchors, the
\* nullifiers and the tree of the database are those of its old tip while a
\* flush is under way, and those of the block where a cache stands otherwise.
LEMMA ShieldInductiveGiven ==
    ASSUME Facts PROVE Spec => []SInv
<1>1. Init => SInv
  BY InitSInv DEF Facts
<1>2. IInv /\ SInv /\ [Next]_vars => SInv'
  BY NextSInv
<1> QED BY <1>1, <1>2, InductiveGiven, PTL DEF Spec

\* The chain state names the anchors, the nullifiers and the tree of its best
\* block, whatever crashes there were, unless ReplayBlocks rolled a block with
\* joinsplits forward: RollforwardBlock leaves them out.
LEMMA ShieldedAlwaysMatchesGiven ==
    ASSUME Facts PROVE Spec => []ShieldedUnlessRolled
<1>1. SInv => ShieldedUnlessRolled
  BY Zenon DEF SInv, ShieldedUnlessRolled, ShieldedMatchesChain, StoredTip, Shield
<1> QED BY <1>1, ShieldInductiveGiven, PTL

\* Whatever the crashes, LoadChainTip finds the best block in the index, and
\* ReplayBlocks both heads and each block on its way with its undo data: the
\* index is written before the coins.
LEMMA StartFindsBlocksGiven ==
    ASSUME Facts PROVE Spec => []BlocksFound
<1>1. ASSUME IInv PROVE BlocksFound
  <2>1. TypeOK /\ IndexInv /\ DbInv /\ ReplayInv
    BY <1>1 DEF IInv
  <2>2. heads = <<>> => CanLoad
    <3>1. db.block \in Nodes
      BY <2>1 DEF TypeOK, ViewState, Nodes
    <3> QED BY <2>1, <3>1, DiskKnown DEF DbInv, CanLoad, Known
  <2>3. heads # <<>> => /\ heads[1] \in Blocks
                        /\ heads[2] \in Nodes
                        /\ Known(undo, heads[1])
                        /\ Known(undo, heads[2])
    <3>1. heads # <<>> => heads[1] \in Nodes /\ heads[1] \in Blocks /\ heads[2] \in Nodes
      BY <2>1, HeadsType DEF Nodes
    <3> QED BY <2>1, <3>1, DiskKnown DEF DbInv
  <2>4. heads # <<>> => HeadsIndexed
    <3> SUFFICES ASSUME heads # <<>>, NEW i \in 1 .. 2, heads[i] # Null
                 PROVE  undo[heads[i]] # NoEntry
      BY DEF HeadsIndexed
    <3>1. i = 1 \/ i = 2
      OBVIOUS
    <3> QED BY <2>3, <3>1 DEF Known
  <2>5. ASSUME mode = "replaying", NEW h \in batch.height .. nHeight[heads[1]]
        PROVE  undo[GetAncestor(heads[1], h)] # NoEntry
    <3>1. heads # <<>> /\ batch.height \in ForkHeight + 1 .. nHeight[heads[1]] + 1
      BY Zenon, <2>1, <2>5 DEF ReplayInv
    <3>2. nHeight[heads[1]] \in Nat /\ ForkHeight \in 0 .. nHeight[heads[1]]
      BY <2>1, <3>1, ForkIs DEF Facts
    <3>3. h \in 0 .. nHeight[heads[1]]
      BY <3>1, <3>2
    <3>4. GetAncestor(heads[1], h) \in Ancestors[heads[1]]
      BY <2>3, <3>1, <3>3 DEF Facts, GetAncestorFact
    <3>5. \A a \in Blocks : undo[a] # NoEntry => Known(undo, Parent[a])
      BY <2>1 DEF IndexInv
    <3> QED BY <2>3, <3>1, <3>4, <3>5 DEF Facts, AncestorsKnownFact
  <2>6. ASSUME mode = "replaying", batch.pindexOld # Fork
        PROVE  undo[batch.pindexOld] # NoEntry
    <3>1. undo[batch.pindexOld] \in BlockUndo
      BY Zenon, <2>1, <2>6, OnOldBranch DEF Facts
    <3> QED BY <3>1, ChainAssumption
  <2> QED BY <2>2, <2>4, <2>5, <2>6 DEF BlocksFound
<1>2. IInv => BlocksFound
  BY <1>1
<1> QED BY <1>2, InductiveGiven, PTL

\* Until ReplayBlocks has rolled joinsplits forward a node that stopped can
\* start again: PopAnchor's assertion holds at each block of the old branch.
LEMMA RecoverableUnlessRolledGiven ==
    ASSUME Facts PROVE Spec => [](rolled = {} => Recoverable)
<1>1. ASSUME IInv, SInv, BlocksFound PROVE rolled = {} => Recoverable
  <2> SUFFICES ASSUME rolled = {}, mode = "replaying", batch.pindexOld # Fork
               PROVE  CanRollback(batch.pindexOld)
    BY <1>1 DEF Recoverable
  <2> DEFINE b == batch.pindexOld
             v == AsView(batch.cache, db)
  <2>1. TypeOK /\ IndexInv /\ DbInv /\ ReplayInv
    BY <1>1 DEF IInv
  <2>2. b \in Blocks /\ undo[b] # NoEntry
    BY <1>1, <2>1, OnOldBranch DEF Facts, BlocksFound
  <2>3. Shield(v, b)
    BY Zenon, <1>1 DEF SInv, At
  <2>4. v.anchor \in v.anchors
    <3> HIDE DEF b, v
    <3> QED BY <2>2, <2>3, ShieldKnown DEF Facts, Nodes
  <2>5. HasAnchor(batch.cache, db, BestAnchor(batch.cache, db))
    BY <2>4 DEF AsView
  <2> QED BY <2>2, <2>5 DEF CanRollback, PopAnchorAsserts
<1>2. IInv /\ SInv /\ BlocksFound => (rolled = {} => Recoverable)
  BY <1>1
<1> QED BY <1>2, InductiveGiven, ShieldInductiveGiven, StartFindsBlocksGiven, PTL

\* Until then a running node has the commitment tree of its tip: the asserts
\* of ConnectTip, ConnectBlock, DisconnectTip and PopAnchor on it hold.
LEMMA NoAbortUnlessRolledGiven ==
    ASSUME Facts PROVE Spec => [](rolled = {} /\ mode = "running" => TreeKnown)
<1>1. ASSUME IInv, SInv, rolled = {}, mode = "running" PROVE TreeKnown
  <2>1. Shield(TipView, TipView.block)
    BY <1>1 DEF SInv
  <2>2. TipView \in ViewState
    BY <1>1, TipViewType DEF Facts, IInv
  <2>3. TipView.block \in Nodes
    BY <2>2 DEF ViewState, Nodes
  <2> QED BY <2>1, <2>3, ShieldKnown DEF Facts, TreeKnown
<1>2. IInv /\ SInv => (rolled = {} /\ mode = "running" => TreeKnown)
  BY <1>1
<1> QED BY <1>2, InductiveGiven, ShieldInductiveGiven, PTL
=============================================================================
