--------------------------- MODULE CoinsViewCache ---------------------------
(***************************************************************************)
(* The stack of coins views the node runs on (src/validation.cpp):         *)
(*                                                                         *)
(*     view  - the CCoinsViewCache that ConnectTip and DisconnectTip make  *)
(*             for one block, flushed into pcoinsTip or dropped            *)
(*     tip   - pcoinsTip, the long-lived CCoinsViewCache                   *)
(*     db    - pcoinsdbview, the CCoinsViewDB                              *)
(*                                                                         *)
(* All of it runs under cs_main, so a step is one call on a view.  The     *)
(* calls that ConnectBlock and DisconnectBlock make between their first    *)
(* and last lines come in any order; crashes are the subject of module     *)
(* ChainFlush.                                                             *)
(***************************************************************************)
EXTENDS Coins, Integers, Sequences

VARIABLES db, tip, view, phase, chain

vars == <<db, tip, view, phase, chain>>

Phases == {"idle", "connect", "connected", "disconnect", "disconnected"}
ChainEntries == [hash : Blocks, old_tree_root : Anchors]

TypeOK ==
    /\ db \in ViewState
    /\ tip \in Cache
    /\ view \in Cache
    /\ phase \in Phases
    /\ chain \in Seq(ChainEntries)

Init ==
    /\ db = EmptyDB
    /\ tip = EmptyCache
    /\ view = EmptyCache
    /\ phase = "idle"
    /\ chain = <<>>

\* What the two caches answer.
TipView == AsView(tip, db)
BlockView == AsView(view, TipView)

ChainTip == chain[Len(chain)]

-----------------------------------------------------------------------------
(* pcoinsTip between blocks: reads on behalf of the mempool and the RPCs,  *)
(* Uncache after a rejected transaction, and the flush to disk.            *)

TipFetchCoin(o) ==
    /\ phase = "idle"
    /\ tip' = FetchCoin(tip, db, o)
    /\ UNCHANGED <<db, view, phase, chain>>

TipGetAnchorAt(rt) ==
    /\ phase = "idle"
    /\ tip' = GetAnchorAt(tip, db, rt)
    /\ UNCHANGED <<db, view, phase, chain>>

TipGetNullifier(nf) ==
    /\ phase = "idle"
    /\ tip' = GetNullifier(tip, db, nf)
    /\ UNCHANGED <<db, view, phase, chain>>

TipUncache(o) ==
    /\ phase = "idle"
    /\ tip' = Uncache(tip, o)
    /\ UNCHANGED <<db, view, phase, chain>>

\* FlushStateToDisk: the chain state is written only if there is a best block.
FlushStateToDisk ==
    /\ phase = "idle"
    /\ TipView.block # Null
    /\ LET c == GetBestBlock(tip, db)
       IN  /\ db' = DBBatchWrite(db, c)
           /\ tip' = Flushed(c)
    /\ UNCHANGED <<view, phase, chain>>

-----------------------------------------------------------------------------
(* A read on the block's view that misses there goes through pcoinsTip     *)
(* and leaves an entry in both.                                            *)

InBlock == phase \in {"connect", "disconnect"}

ViewFetchCoin(o) ==
    /\ InBlock
    /\ tip' = IF view.coins[o] = NoEntry THEN FetchCoin(tip, db, o) ELSE tip
    /\ view' = FetchCoin(view, TipView, o)
    /\ UNCHANGED <<db, phase, chain>>

ViewGetAnchorAt(rt) ==
    /\ InBlock
    /\ tip' = IF view.anchors[rt] = NoEntry THEN GetAnchorAt(tip, db, rt) ELSE tip
    /\ view' = GetAnchorAt(view, TipView, rt)
    /\ UNCHANGED <<db, phase, chain>>

ViewGetNullifier(nf) ==
    /\ InBlock
    /\ tip' = IF view.nullifiers[nf] = NoEntry THEN GetNullifier(tip, db, nf) ELSE tip
    /\ view' = GetNullifier(view, TipView, nf)
    /\ UNCHANGED <<db, phase, chain>>

\* Every caller that passes possible_overwrite = false has seen HaveCoin fail:
\* the BIP30 loop of ConnectBlock, ApplyTxInUndo, and AddCoins with check.
ViewAddCoin(o, coin, possible_overwrite) ==
    /\ InBlock
    /\ possible_overwrite \/ BlockView.coins[o] = Spent
    /\ view' = AddCoin(view, o, coin, possible_overwrite)
    /\ UNCHANGED <<db, tip, phase, chain>>

ViewSpendCoin(o) ==
    /\ InBlock
    /\ tip' = IF view.coins[o] = NoEntry THEN FetchCoin(tip, db, o) ELSE tip
    /\ view' = SpendCoin(view, TipView, o)
    /\ UNCHANGED <<db, phase, chain>>

ViewSetNullifier(nf) ==
    /\ InBlock
    /\ view' = SetNullifier(view, nf, phase = "connect")
    /\ UNCHANGED <<db, tip, phase, chain>>

-----------------------------------------------------------------------------
(* The life of a block's view. *)

\* A cache whose best block, best anchor and tree have been read.
ReadTree(c, base) ==
    LET d == GetBestAnchor(GetBestBlock(c, base), base)
    IN  GetAnchorAt(d, base, d.hashAnchor)

\* ConnectTip up to the consistency check of the tree in ConnectBlock.
BeginConnect ==
    /\ phase = "idle"
    /\ chain # <<>>
    /\ phase' = "connect"
    /\ tip' = ReadTree(tip, db)
    /\ view' = ReadTree(EmptyCache, TipView)
    /\ UNCHANGED <<db, chain>>

\* ConnectBlock of the genesis block returns before it looks at the anchor.
ConnectGenesis(b) ==
    /\ phase = "idle"
    /\ chain = <<>>
    /\ phase' = "connected"
    /\ tip' = ReadTree(tip, db)
    /\ view' = SetBestBlock(EmptyCache, b)
    /\ UNCHANGED <<db, chain>>

\* The end of ConnectBlock.  Appending commitments to the tree gives a root
\* that no shorter tree of the chain has.
EndConnect(b, rt) ==
    /\ phase = "connect"
    /\ \A i \in 1 .. Len(chain) : chain[i].hash # b
    /\ rt = BlockView.anchor \/ rt \notin BlockView.anchors
    /\ phase' = "connected"
    /\ view' = SetBestBlock(PushAnchor(view, TipView, rt), b)
    /\ UNCHANGED <<db, tip, chain>>

\* DisconnectTip reads pcoinsTip's best anchor and the view's best block.  It
\* never gets to the genesis block.
BeginDisconnect ==
    /\ phase = "idle"
    /\ Len(chain) > 1
    /\ phase' = "disconnect"
    /\ tip' = GetBestAnchor(GetBestBlock(tip, db), db)
    /\ view' = GetBestBlock(EmptyCache, TipView)
    /\ UNCHANGED <<db, chain>>

\* The end of DisconnectBlock.  PopAnchor looks the current root up, through
\* pcoinsTip if need be, unless the block left the tree alone.
EndDisconnect ==
    /\ phase = "disconnect"
    /\ phase' = "disconnected"
    /\ LET rt == ChainTip.old_tree_root
           t == GetBestAnchor(tip, db)
           lookup == BlockView.anchor # rt /\ view.anchors[BlockView.anchor] = NoEntry
       IN  /\ tip' = IF lookup THEN GetAnchorAt(t, db, t.hashAnchor) ELSE t
           /\ view' = SetBestBlock(PopAnchor(view, TipView, rt),
                                   chain[Len(chain) - 1].hash)
    /\ UNCHANGED <<db, chain>>

\* view.Flush(); ConnectBlock wrote the undo data, with the tree's old root.
\* DisconnectTip then reads the current tree through pcoinsTip.
FlushView ==
    /\ phase \in {"connected", "disconnected"}
    /\ phase' = "idle"
    /\ LET t == BatchWrite(tip, view)
       IN  tip' = IF phase = "disconnected" THEN GetAnchorAt(t, db, t.hashAnchor) ELSE t
    /\ view' = EmptyCache
    /\ chain' = IF phase = "connected"
                THEN Append(chain, [hash |-> view.hashBlock,
                                    old_tree_root |-> TipView.anchor])
                ELSE SubSeq(chain, 1, Len(chain) - 1)
    /\ UNCHANGED db

\* A block that does not connect, TestBlockValidity, VerifyDB: the view goes
\* out of scope.
DropView ==
    /\ phase # "idle"
    /\ phase' = "idle"
    /\ view' = EmptyCache
    /\ UNCHANGED <<db, tip, chain>>

Next ==
    \/ \E o \in Outpoints :
          \/ TipFetchCoin(o)
          \/ TipUncache(o)
          \/ ViewFetchCoin(o)
          \/ ViewSpendCoin(o)
          \/ \E coin \in CoinValues, possible_overwrite \in BOOLEAN :
                ViewAddCoin(o, coin, possible_overwrite)
    \/ \E rt \in Anchors : TipGetAnchorAt(rt) \/ ViewGetAnchorAt(rt)
    \/ \E nf \in Nullifiers :
          TipGetNullifier(nf) \/ ViewGetNullifier(nf) \/ ViewSetNullifier(nf)
    \/ \E b \in Blocks : ConnectGenesis(b) \/ \E rt \in Anchors : EndConnect(b, rt)
    \/ BeginConnect \/ BeginDisconnect \/ EndDisconnect
    \/ FlushView \/ DropView \/ FlushStateToDisk

Spec == Init /\ [][Next]_vars

-----------------------------------------------------------------------------
(* Correctness. *)

\* The DIRTY and FRESH flags of both caches are right after any sequence of
\* calls: a clean entry can be dropped (Uncache) or left out of a flush, and a
\* FRESH one erased instead of written, without anybody seeing a difference.
FlagsSound == Sound(tip, db) /\ Sound(view, TipView)

\* Flushing a block's view never throws "FRESH flag misapplied to cache entry
\* for base transaction with spendable outputs" (CCoinsViewCache::BatchWrite),
\* and a coin the callers know to be new is never found unspent (AddCoin).
NeverThrows ==
    /\ phase \in {"connected", "disconnected"} =>
          \A o \in Outpoints : ~MergeThrows(tip.coins[o], view.coins[o])
    /\ InBlock =>
          \A o \in Outpoints, coin \in CoinValues :
              BlockView.coins[o] = Spent => ~AddCoinThrows(view, o, coin, FALSE)

\* The asserts on the tree that PopAnchor and ConnectBlock make: the best anchor
\* of the view is always one of its anchors.
BestAnchorKnown ==
    /\ BlockView.anchor \in BlockView.anchors
    /\ phase = "disconnect" =>
          PopAnchorAsserts(view, TipView, ChainTip.old_tree_root)

-----------------------------------------------------------------------------
(* The caches are invisible: the stack behaves as the specification with    *)
(* plain states.                                                            *)

Abstract == INSTANCE CoinsView WITH tipState <- TipView, viewState <- BlockView

\* Whatever the caches hold, fetch, forget or flush, the tip's and the block's
\* view answer as if every call acted on the full state (class CCoinsViewCache).
RefinesCoinsView == Abstract!Spec

\* pcoinsTip accepts as an anchor exactly the roots the active chain went
\* through, and its best block and best anchor are the chain's, whatever mix of
\* connects, disconnects, failed blocks and flushes led here (PushAnchor,
\* PopAnchor, BatchWrite).
AnchorsAreChainRoots == Abstract!AnchorsAreChainRoots

\* The caches hand no null hash down, except for the genesis block, when there
\* is no anchor to lose: BatchWrite takes the child's best anchor unseen.
HashesSet ==
    /\ phase = "idle" => view = EmptyCache
    /\ phase = "connect" => view.hashAnchor # Null
    /\ phase \in {"connected", "disconnected"} =>
          view.hashBlock # Null /\ (chain # <<>> => view.hashAnchor # Null)
    /\ chain = <<>> => db = EmptyDB

\* The inductive invariant of the proofs.
IInv == TypeOK /\ FlagsSound /\ HashesSet /\ Abstract!Inv
=============================================================================
