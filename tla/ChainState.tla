----------------------------- MODULE ChainState -----------------------------
(***************************************************************************)
(* CChainState of src/validation.cpp: the tree of block headers, the set   *)
(* of candidates for the tip, and the search for the best chain.           *)
(*                                                                         *)
(*     index      - mapBlockIndex: of each block the validity level and    *)
(*                  the FAILED and HAVE_DATA flags of nStatus, whether     *)
(*                  nChainTx is set, and nSequenceId.  nTx > 0 is          *)
(*                  valid >= TRANSACTIONS                                  *)
(*     candidates, unlinked, failedBlocks - setBlockIndexCandidates,       *)
(*                  mapBlocksUnlinked in the order of its insertions, and  *)
(*                  m_failed_blocks                                        *)
(*     tip        - chainActive.Tip(); the active chain is its ancestors   *)
(*     ids        - nBlockSequenceId, nBlockReverseSequenceId and          *)
(*                  nLastPreciousChainwork                                 *)
(*     dirty      - setDirtyBlockIndex                                     *)
(*     disk       - the block index database and the best block of the     *)
(*                  coins database                                         *)
(*     coinsDue   - FlushStateToDisk has written the index and is about    *)
(*                  to flush the coins                                     *)
(*     abc        - the locals of ActivateBestChain and where it stands    *)
(*     inv        - the locals of InvalidateBlock, or Nil                  *)
(*     waiting    - some caller of ActivateBestChain waits for             *)
(*                  m_cs_chainstate                                        *)
(*     manual, crashes - the RPC calls and the crashes so far              *)
(*                                                                         *)
(* One action is what a thread does without releasing cs_main, except that *)
(* every block connected or disconnected is a step of its own, with        *)
(* cs_main held: the node may crash there.  Two callers that wait for      *)
(* m_cs_chainstate are one: the second finds nothing to do that the first  *)
(* did not see or that did not bring a caller of its own.  pindexBestHeader*)
(* and pindexBestInvalid only feed messages and are left out.              *)
(***************************************************************************)
EXTENDS Integers, Sequences, SequencesExt, FiniteSets, FiniteSetsExt

CONSTANTS
    Blocks,        \* the blocks of the tree
    Genesis,       \* the genesis block, known and connected from the start
    Nil,           \* no block: nullptr
    Path,          \* the blocks from the genesis block to each block
    Proof,         \* GetBlockProof of each block
    Addr,          \* the address of each CBlockIndex, the last tie breaker
    BadContext,    \* blocks that ContextualCheckBlock refuses
    BadConnect,    \* blocks that ConnectBlock refuses
    MinWork,       \* nMinimumChainWork
    Keep,          \* MIN_BLOCKS_TO_KEEP
    Announced,     \* blocks whose header may come before the block
    Received,      \* blocks that may come
    Prunable,      \* blocks in files that may be pruned
    Operable,      \* blocks the RPC calls are made for
    MaxIds,        \* bound on nBlockSequenceId, and so on the blocks received
    MaxManual,     \* bound on the RPC calls of a behaviour
    MaxCrashes,    \* bound on the crashes of a behaviour
    MaxEvents,     \* bound on the sum of the two
    Permits        \* the orders of events of AllPermits that may happen

\* What the code allows and a run may leave out, to see that it is what breaks
\* the block index: reconsiderblock for a block below the invalid one or above
\* data that could not be linked; invalidateblock while ActivateBestChain works
\* towards a chain it chose earlier; an index write that is not followed by
\* a flush of the coins after invalidateblock disconnected flushed blocks.
AllPermits == {"reconsider", "invalidate-activating", "index-alone"}

ASSUME ChainStateAssumption ==
    /\ Genesis \in Blocks /\ Nil \notin Blocks
    /\ Path[Genesis] = <<Genesis>>
    /\ \A b \in Blocks \ {Genesis} : \E a \in Blocks : Path[b] = Append(Path[a], b)
    /\ Proof \in [Blocks -> Nat \ {0}]
    /\ \A a, b \in Blocks : Addr[a] = Addr[b] => a = b
    /\ BadContext \cup BadConnect \cup Operable \cup Prunable \cup Announced \cup Received \subseteq Blocks \ {Genesis}
    /\ MinWork \in Nat /\ Keep \in Nat /\ MaxIds \in Nat
    /\ MaxManual \in Nat /\ MaxCrashes \in Nat /\ MaxEvents \in Nat
    /\ Permits \subseteq AllPermits

VARIABLES index, candidates, unlinked, failedBlocks, tip, ids, dirty, disk,
          coinsDue, abc, inv, waiting, manual, crashes

memory == <<index, candidates, unlinked, failedBlocks, tip, ids>>
vars == <<index, candidates, unlinked, failedBlocks, tip, ids, dirty, disk,
          coinsDue, abc, inv, waiting, manual, crashes>>

---------------------------------------------------------------------------
\* The block tree.

\* pprev, the block with its ancestors, nHeight and nChainWork.
Prev == [b \in Blocks \ {Genesis} |-> Last(Front(Path[b]))]
Ancestors == [b \in Blocks |-> Range(Path[b])]
Height == [b \in Blocks |-> Len(Path[b]) - 1]
ChainWork == [b \in Blocks |-> FoldSeq(LAMBDA a, sum : Proof[a] + sum, 0, Path[b])]
Between(a, b) == Ancestors[b] \ Ancestors[a]    \* from b back to a or the fork with it

\* The levels of BlockStatus that are used; 0 is a block not in mapBlockIndex.
TREE == 2
TRANSACTIONS == 3
SCRIPTS == 5
NoBlock == [valid |-> 0, failed |-> {}, data |-> FALSE, linked |-> FALSE, seq |-> 0]

Known == {b \in Blocks : index[b].valid > 0}
IsValid(entry, level) == entry.failed = {} /\ entry.valid >= level
Raise(entry, level) ==
    IF entry.failed = {} /\ entry.valid < level THEN [entry EXCEPT !.valid = level] ELSE entry
Flag(idx, S, flag) ==
    [b \in Blocks |-> IF b \in S THEN [idx[b] EXCEPT !.failed = @ \cup {flag}] ELSE idx[b]]

\* m_failed_blocks once b is found invalid.
Failing(b) == failedBlocks \cup {b}

\* CBlockIndexWorkComparator: a sorts before b, the best block sorts last.
Less(idx, a, b) ==
    \/ ChainWork[a] < ChainWork[b]
    \/ /\ ChainWork[a] = ChainWork[b]
       /\ \/ idx[a].seq > idx[b].seq
          \/ idx[a].seq = idx[b].seq /\ Addr[a] > Addr[b]
Best(idx, S) == CHOOSE b \in S : \A a \in S \ {b} : Less(idx, a, b)

\* PruneBlockIndexCandidates
Pruned(idx, S, t) == {b \in S : ~Less(idx, b, t)}

Abc == [pc : {"idle", "loop", "find", "inner", "step", "flush", "abort"}, most : Blocks \cup {Nil},
        start : Blocks, old : Blocks]
TypeOK ==
    /\ index \in [Blocks -> [valid : {0, TREE, TRANSACTIONS, SCRIPTS},
                             failed : SUBSET {"VALID", "CHILD"},
                             data : BOOLEAN, linked : BOOLEAN, seq : Int]]
    /\ candidates \subseteq Blocks /\ failedBlocks \subseteq Blocks /\ dirty \subseteq Blocks
    /\ unlinked \in Seq(Blocks \X Blocks)
    /\ tip \in Blocks
    /\ ids \in [next : Nat, reverse : Int, precious : Nat]
    /\ disk \in [index : [Blocks -> [valid : {0, TREE, TRANSACTIONS, SCRIPTS},
                                     failed : SUBSET {"VALID", "CHILD"}, data : BOOLEAN]],
                 tip : Blocks]
    /\ coinsDue \in BOOLEAN /\ waiting \in BOOLEAN
    /\ abc \in Abc
    /\ inv \in [block : Blocks, walk : Blocks] \cup {Nil}
    /\ manual \in 0 .. MaxManual /\ crashes \in 0 .. MaxCrashes

Idle == [pc |-> "idle", most |-> Nil, start |-> Genesis, old |-> Genesis]
Connected == [valid |-> SCRIPTS, failed |-> {}, data |-> TRUE, linked |-> TRUE, seq |-> 1]
Record(idx) == [b \in Blocks |-> [valid |-> idx[b].valid, failed |-> idx[b].failed, data |-> idx[b].data]]

Init ==
    /\ index = [[b \in Blocks |-> NoBlock] EXCEPT ![Genesis] = Connected]
    /\ candidates = {Genesis} /\ unlinked = <<>> /\ failedBlocks = {} /\ tip = Genesis
    /\ ids = [next |-> 2, reverse |-> -1, precious |-> 0]
    /\ dirty = {} /\ disk = [index |-> Record(index), tip |-> Genesis] /\ coinsDue = FALSE
    /\ abc = Idle /\ inv = Nil /\ waiting = FALSE
    /\ manual = 0 /\ crashes = 0

\* The bounds.
MayCall == manual < MaxManual /\ manual + crashes < MaxEvents
MayRestart == crashes < MaxCrashes /\ manual + crashes < MaxEvents

\* No thread holds cs_main.
Free == abc.pc \notin {"find", "inner", "step", "abort"} /\ inv = Nil /\ ~coinsDue

\* The tip that the other threads saw last.
VisibleTip ==
    IF abc.pc \in {"find", "inner", "step", "abort"} THEN abc.start
    ELSE IF inv # Nil THEN inv.walk ELSE tip

---------------------------------------------------------------------------
\* FlushStateToDisk, called with the index idx and the dirty entries dirt, does
\* nothing, writes the index ("index"), or writes it and then flushes the coins
\* ("full"): the time and the size of the cache decide.  Writes that no restart
\* can follow any more are left out.
FlushStateToDisk(idx, dirt, how) ==
    /\ disk' = IF how = "none" THEN disk
               ELSE [disk EXCEPT !.index = [b \in Blocks |-> IF b \in dirt THEN Record(idx)[b] ELSE @[b]]]
    /\ dirty' = IF how = "none" THEN dirt ELSE {}
    /\ coinsDue' = (how = "full")
IfNeeded == IF MayRestart THEN {"none", "full"} ELSE {"none"}
Periodic == IF MayRestart THEN {"none", "index", "full"} ELSE {"none"}

\* pcoinsTip->Flush(), the second half of a full flush.
FlushCoins ==
    /\ coinsDue
    /\ disk' = [disk EXCEPT !.tip = tip]
    /\ coinsDue' = FALSE
    /\ UNCHANGED <<memory, dirty, abc, inv, waiting, manual, crashes>>

---------------------------------------------------------------------------
\* Headers and blocks that arrive.

\* AcceptBlockHeader, the part for a header that is not known yet: the failed
\* blocks that its parent descends from.
FailedAbove(h) ==
    IF IsValid(index[Prev[h]], SCRIPTS) THEN {} ELSE Ancestors[Prev[h]] \cap failedBlocks
Addable(h) ==
    /\ h \notin Known
    /\ Prev[h] \in Known /\ index[Prev[h]].failed = {}
    /\ FailedAbove(h) = {}
HeaderOk(h) == Addable(h) \/ (h \in Known /\ index[h].failed = {})

\* AddToBlockIndex: the index once the header of h has been accepted.
WithHeader(h) == IF h \in Known THEN index ELSE [index EXCEPT ![h] = [NoBlock EXCEPT !.valid = TREE]]

AddHeader(h) ==
    /\ Free /\ Addable(h)
    /\ index' = WithHeader(h)
    /\ dirty' = dirty \cup {h}
    /\ UNCHANGED <<candidates, unlinked, failedBlocks, tip, ids, disk, coinsDue, abc, inv,
                   waiting, manual, crashes>>

\* AcceptBlockHeader when the parent is not known to fail but descends from a
\* block that does: what is between them is marked, the header refused.
RefuseHeader(h) ==
    /\ Free
    /\ h \notin Known /\ Prev[h] \in Known /\ index[Prev[h]].failed = {}
    /\ \E f \in FailedAbove(h) :
         /\ index' = Flag(index, Between(f, Prev[h]), "CHILD")
         /\ dirty' = dirty \cup Between(f, Prev[h])
    /\ UNCHANGED <<candidates, unlinked, failedBlocks, tip, ids, disk, coinsDue, abc, inv,
                   waiting, manual, crashes>>

\* ReceivedBlockTransactions: the loop over the queue of blocks that b links,
\* n blocks taken off the queue.
Link(idx, b) ==
    LET step[n \in Nat] ==
            IF n = 0
            THEN [queue |-> <<b>>, index |-> idx, cand |-> candidates, unl |-> unlinked, next |-> ids.next]
            ELSE LET s == step[n - 1]
                     p == Head(s.queue)
                     linked == [s.index EXCEPT ![p].linked = TRUE, ![p].seq = s.next]
                 IN  IF s.queue = <<>> THEN s
                     ELSE [queue |-> Tail(s.queue)
                                     \o [i \in 1 .. Len(SelectSeq(s.unl, LAMBDA e : e[1] = p)) |->
                                            SelectSeq(s.unl, LAMBDA e : e[1] = p)[i][2]],
                           index |-> linked,
                           cand |-> s.cand \cup (IF Less(linked, p, tip) THEN {} ELSE {p}),
                           unl |-> SelectSeq(s.unl, LAMBDA e : e[1] # p),
                           next |-> s.next + 1]
    IN  step[1 + Len(unlinked)]

ReceivedBlockTransactions(idx, b) ==
    LET stored == [idx EXCEPT ![b] = [Raise(@, TRANSACTIONS) EXCEPT !.data = TRUE, !.linked = FALSE]]
    IN  IF idx[Prev[b]].linked
        THEN LET s == Link(stored, b)
             IN  /\ index' = s.index /\ candidates' = s.cand /\ unlinked' = s.unl
                 /\ ids' = [ids EXCEPT !.next = s.next]
        ELSE /\ index' = stored
             /\ unlinked' = IF IsValid(idx[Prev[b]], TREE) THEN Append(unlinked, <<Prev[b], b>>) ELSE unlinked
             /\ UNCHANGED <<candidates, ids>>

\* What AcceptBlock leaves alone: blocks it has, and unrequested ones that were
\* pruned, that have too little work or that are too far ahead.
Skipped(b, requested) ==
    \/ index[b].data
    \/ /\ ~requested
       /\ \/ index[b].valid >= TRANSACTIONS
          \/ ChainWork[b] < ChainWork[tip]
          \/ Height[b] > Height[tip] + Keep
          \/ ChainWork[b] < MinWork

\* AcceptBlock in ProcessNewBlock, which calls ActivateBestChain if it succeeds;
\* the header of a block that is skipped or refused stays.  The flush at the end
\* prunes or does nothing: see PruneBlockFiles.  Only blocks outside the active
\* chain are ever requested (net_processing.cpp, FindNextBlocksToDownload).
AcceptBlock(b, requested) ==
    /\ Free /\ HeaderOk(b) /\ (requested => b \notin Ancestors[tip])
    /\ LET idx == WithHeader(b)
       IN  \/ /\ Skipped(b, requested)
              /\ index' = idx
              /\ dirty' = dirty \cup ({b} \ Known)
              /\ waiting' = TRUE
              /\ UNCHANGED <<candidates, unlinked, ids>>
           \/ /\ ~Skipped(b, requested) /\ b \in BadContext
              /\ index' = Flag(idx, {b}, "VALID")
              /\ dirty' = dirty \cup {b}
              /\ UNCHANGED <<candidates, unlinked, ids, waiting>>
           \/ /\ ~Skipped(b, requested) /\ b \notin BadContext /\ ids.next <= MaxIds
              /\ ReceivedBlockTransactions(idx, b)
              /\ dirty' = dirty \cup {b}
              /\ waiting' = TRUE
    /\ UNCHANGED <<failedBlocks, tip, disk, coinsDue, abc, inv, manual, crashes>>

\* PruneBlockFilesManual, and pruning by FlushStateToDisk in general, for a file
\* that holds one block b: PruneOneBlockFile, and then a full flush.
PruneBlockFiles(b) ==
    /\ Free /\ index[b].data /\ Height[b] + Keep <= Height[tip]
    /\ index' = [index EXCEPT ![b].data = FALSE]
    /\ unlinked' = SelectSeq(unlinked, LAMBDA e : e[2] # b)
    /\ FlushStateToDisk(index', dirty \cup {b}, "full")
    /\ UNCHANGED <<candidates, failedBlocks, tip, ids, abc, inv, waiting, manual, crashes>>

---------------------------------------------------------------------------
\* The search for the best chain.

\* A caller enters ActivateBestChain: it has m_cs_chainstate.
ActivateBestChain ==
    /\ waiting /\ abc.pc = "idle"
    /\ abc' = [Idle EXCEPT !.pc = "loop"]
    /\ waiting' = FALSE
    /\ UNCHANGED <<memory, dirty, disk, coinsDue, inv, manual, crashes>>

\* The blocks between the active chain and b that fail or have no data.
UnusableMissing(b) == {a \in Between(tip, b) : ~index[a].data}    \* mutant: failed blocks pass
Unusable(b) == {a \in Between(tip, b) : index[a].failed # {} \/ ~index[a].data}

\* ActivateBestChain is where it looks for a chain: cs_main is taken unless it
\* is held already.
Looking == ~coinsDue /\ abc.pc \in {"loop", "find", "inner"} /\ (abc.pc = "loop" => Free)
Start == IF abc.pc = "loop" THEN tip ELSE abc.start

\* The entries of mapBlocksUnlinked for blocks that miss the data of an ancestor.
NotRequeued(above) == <<>>    \* mutant: they are forgotten
Requeued(above) ==
    SetToSortSeq({<<Prev[a], a>> : a \in above}, LAMBDA e, f : Height[e[2]] > Height[f[2]])

\* FindMostWorkChain, the loop body for a best candidate that is not usable: it
\* and what is between it and the first block that is in the way leave the set.
DropCandidate ==
    /\ Looking /\ abc.most = Nil /\ candidates # {}
    /\ LET new == Best(index, candidates)
           test == CHOOSE a \in Unusable(new) : \A c \in Unusable(new) : Height[c] <= Height[a]
           above == Between(test, new)
       IN  /\ Unusable(new) # {}
           /\ candidates' = candidates \ (above \cup {test})
           /\ \/ /\ index[test].failed # {}
                 /\ index' = Flag(index, above, "CHILD")
                 /\ UNCHANGED unlinked
              \/ /\ index[test].failed = {}
                 /\ unlinked' = unlinked \o Requeued(above)
                 /\ UNCHANGED index
    /\ abc' = [abc EXCEPT !.start = Start, !.pc = IF @ = "loop" THEN "find" ELSE @]
    /\ UNCHANGED <<failedBlocks, tip, ids, dirty, disk, coinsDue, inv, waiting, manual, crashes>>

\* The rest of the inner loop's head: the chain to work towards is kept from the
\* last round, or is the best candidate.  If that is the tip there is nothing to
\* do: ActivateBestChain returns, unless this round moved the tip before.
ChooseChain ==
    /\ Looking
    /\ \E most \in Blocks \cup {Nil} :
         /\ IF abc.most # Nil THEN most = abc.most
            ELSE IF candidates = {} THEN most = Nil
            ELSE most = Best(index, candidates) /\ Unusable(most) = {}
         /\ abc' = IF most \notin {Nil, tip}
                   THEN [pc |-> "step", most |-> most, start |-> Start, old |-> tip]
                   ELSE IF abc.pc # "inner" THEN Idle
                   ELSE [Idle EXCEPT !.pc = IF most = tip THEN "flush" ELSE "loop", !.most = most]
    /\ UNCHANGED <<memory, dirty, disk, coinsDue, inv, waiting, manual, crashes>>

StepDoneStops(idx, t, most) ==    \* mutant: one round only
    IF Less(idx, t, abc.start) THEN [abc EXCEPT !.pc = "inner", !.most = most]
    ELSE [Idle EXCEPT !.pc = "flush", !.most = most]
StepDoneReleases(idx, t, most) ==    \* mutant: cs_main is released in a worse position
    [Idle EXCEPT !.pc = IF t = most THEN "flush" ELSE "loop", !.most = most]
\* What follows ActivateBestChainStep: another round with cs_main held while the
\* tip is worse than where this round began; else cs_main is released, and the
\* outer loop goes on until the tip is the chain worked towards.
StepDone(idx, t, most) ==
    IF Less(idx, t, abc.start) THEN [abc EXCEPT !.pc = "inner", !.most = most]
    ELSE [Idle EXCEPT !.pc = IF t = most THEN "flush" ELSE "loop", !.most = most]

\* DisconnectTip, in ActivateBestChainStep down to the fork and in
\* InvalidateBlock as long as the block is in the active chain.
Disconnecting ==
    /\ ~coinsDue
    /\ \/ abc.pc = "step" /\ tip \notin Ancestors[abc.most]
       \/ inv # Nil /\ inv.block \in Ancestors[tip]
DisconnectTip ==
    /\ Disconnecting /\ index[tip].data
    /\ tip' = Prev[tip]
    /\ \E how \in IfNeeded : FlushStateToDisk(index, dirty, how)
    /\ UNCHANGED <<index, candidates, unlinked, failedBlocks, ids, abc, inv, waiting, manual, crashes>>

\* DisconnectTip of a block that was pruned: AbortNode, the node shuts down.
DisconnectTipFails ==
    /\ Disconnecting /\ ~index[tip].data
    /\ abc' = [Idle EXCEPT !.pc = "abort", !.start = VisibleTip]
    /\ inv' = Nil
    /\ UNCHANGED <<memory, dirty, disk, coinsDue, waiting, manual, crashes>>

\* The next block of ActivateBestChainStep.
NextBlock == CHOOSE b \in Between(tip, abc.most) : Prev[b] = tip
Connecting == abc.pc = "step" /\ ~coinsDue /\ tip \in Ancestors[abc.most]

\* What ConnectBlock makes dirty.
Unraised(b) == {}    \* mutant: nothing
Raised(b) == IF IsValid(index[b], SCRIPTS) THEN {} ELSE {b}

\* ConnectTip and PruneBlockIndexCandidates; a better tip than before is a
\* reason to release the lock.
ConnectTip ==
    /\ Connecting /\ NextBlock \notin BadConnect
    /\ LET b == NextBlock
       IN  /\ index' = [index EXCEPT ![b] = Raise(@, SCRIPTS)]
           /\ candidates' = Pruned(index', candidates, b)
           /\ tip' = b
           /\ \E how \in IfNeeded : FlushStateToDisk(index', dirty \cup Raised(b), how)
           /\ abc' = IF b = abc.most \/ ChainWork[b] > ChainWork[abc.old]
                     THEN StepDone(index', b, abc.most) ELSE abc
    /\ UNCHANGED <<unlinked, failedBlocks, ids, inv, waiting, manual, crashes>>

ConnectTipRetries ==    \* mutant: the block is neither marked nor dropped
    /\ Connecting /\ NextBlock \in BadConnect
    /\ abc' = StepDone(index, tip, Nil)
    /\ UNCHANGED <<memory, dirty, disk, coinsDue, inv, waiting, manual, crashes>>
\* ConnectTip of a block that breaks a rule: InvalidBlockFound.
ConnectTipFails ==
    /\ Connecting /\ NextBlock \in BadConnect
    /\ LET b == NextBlock
       IN  /\ index' = Flag(index, {b}, "VALID")
           /\ failedBlocks' = Failing(b)
           /\ dirty' = dirty \cup {b}
           /\ candidates' = candidates \ {b}
           /\ abc' = StepDone(index', tip, Nil)
    /\ UNCHANGED <<unlinked, tip, ids, disk, coinsDue, inv, waiting, manual, crashes>>

\* The periodic flush at the end of ActivateBestChain.
ActivateEnds ==
    /\ abc.pc = "flush" /\ Free
    /\ \E how \in Periodic : FlushStateToDisk(index, dirty, how)
    /\ abc' = Idle
    /\ UNCHANGED <<memory, inv, waiting, manual, crashes>>

---------------------------------------------------------------------------
\* The RPC calls that overrule validation.

\* invalidateblock: InvalidateBlock begins; DisconnectTip follows while the block
\* is in the active chain.
InvalidateBlock(b) ==
    /\ Free /\ b \in Known /\ MayCall
    /\ abc.most = Nil \/ "invalidate-activating" \in Permits
    /\ inv' = [block |-> b, walk |-> tip]
    /\ manual' = manual + 1
    /\ UNCHANGED <<memory, dirty, disk, coinsDue, abc, waiting, crashes>>

\* The blocks that InvalidateBlock makes candidates again.
Refilled(idx) ==
    {a \in Known : IsValid(idx[a], TRANSACTIONS) /\ idx[a].linked /\ ~Less(idx, a, tip)}

\* The rest of InvalidateBlock, and the call of ActivateBestChain after it.
MarkInvalid ==
    /\ inv # Nil /\ ~coinsDue /\ inv.block \notin Ancestors[tip]
    /\ LET b == inv.block
           walked == IF b \in Ancestors[inv.walk] THEN Between(b, inv.walk) ELSE {}
       IN  /\ index' = Flag(Flag(index, walked, "CHILD"), {b}, "VALID")
           /\ candidates' = (candidates \ (walked \cup {b})) \cup Refilled(index')
           /\ dirty' = dirty \cup walked \cup {b}
           /\ failedBlocks' = Failing(b)
    /\ inv' = Nil
    /\ waiting' = TRUE
    /\ UNCHANGED <<unlinked, tip, ids, disk, coinsDue, abc, manual, crashes>>

\* The blocks from b on whose flags reconsiderblock clears.
Below(b) == {a \in Known : b \in Ancestors[a] /\ ~IsValid(index[a], TRANSACTIONS)}

\* reconsiderblock: ResetBlockFailureFlags, and the call of ActivateBestChain.
ResetBlockFailureFlags(b) ==
    /\ Free /\ b \in Known /\ MayCall
    /\ LET below == Below(b)
           above == {a \in Ancestors[b] : index[a].failed # {}}
       IN  /\ "reconsider" \notin Permits =>
                 /\ above \subseteq {b}
                 /\ \A a \in Known \ {Genesis} :
                       index[a].data /\ Prev[a] \in below => index[Prev[a]].valid >= TRANSACTIONS
           /\ index' = [a \in Blocks |-> IF a \in below \cup above
                                         THEN [index[a] EXCEPT !.failed = {}] ELSE index[a]]
           /\ dirty' = dirty \cup below \cup above
           /\ candidates' = candidates \cup
                 {a \in below : /\ IsValid(index'[a], TRANSACTIONS) /\ index[a].linked
                                /\ Less(index, tip, a)}
           /\ failedBlocks' = failedBlocks \ (below \cup above)
    /\ waiting' = TRUE
    /\ manual' = manual + 1
    /\ UNCHANGED <<unlinked, tip, ids, disk, coinsDue, abc, inv, crashes>>

\* preciousblock: PreciousBlock, and the call of ActivateBestChain.
PreciousBlock(b) ==
    /\ Free /\ b \in Known /\ MayCall
    /\ ChainWork[b] >= ChainWork[tip]
    /\ LET reverse == IF ChainWork[tip] > ids.precious THEN -1 ELSE ids.reverse
       IN  /\ ids' = [ids EXCEPT !.reverse = reverse - 1, !.precious = ChainWork[tip]]
           /\ index' = [index EXCEPT ![b].seq = reverse]
           /\ candidates' = IF IsValid(index[b], TRANSACTIONS) /\ index[b].linked
                            THEN Pruned(index', candidates \cup {b}, tip) ELSE candidates \ {b}
    /\ waiting' = TRUE
    /\ manual' = manual + 1
    /\ UNCHANGED <<unlinked, failedBlocks, tip, dirty, disk, coinsDue, abc, inv, crashes>>

---------------------------------------------------------------------------
\* LoadBlockIndex, in the order of the heights: the blocks that are below a
\* failed one and not marked yet, and those whose parents lack data.
Unmarked(db) == {}    \* mutant: no descendant is marked
Children(db) ==
    {b \in Blocks : /\ db.index[b].valid > 0 /\ db.index[b].failed = {}
                    /\ \E a \in Ancestors[b] : db.index[a].failed # {}}
Linked(db) == {b \in Blocks : \A a \in Ancestors[b] : db.index[a].valid >= TRANSACTIONS}
Waits(db) == {b \in Blocks \ {Genesis} : db.index[b].valid >= TRANSACTIONS /\ Prev[b] \notin Linked(db)}

\* LoadBlockIndex, LoadChainTip and ThreadImport's call of ActivateBestChain.
Load(db) ==
    /\ index' = [b \in Blocks |->
          [valid |-> db.index[b].valid, data |-> db.index[b].data, linked |-> b \in Linked(db), seq |-> 0,
           failed |-> db.index[b].failed \cup (IF b \in Children(db) THEN {"CHILD"} ELSE {})]]
    /\ unlinked' = SetToSortSeq({<<Prev[b], b>> : b \in Waits(db)},
          LAMBDA e, f : \/ Height[e[2]] < Height[f[2]]
                        \/ Height[e[2]] = Height[f[2]] /\ Addr[e[2]] < Addr[f[2]])
    /\ candidates' = Pruned(index', {b \in Linked(db) : IsValid(index'[b], TRANSACTIONS)}, db.tip)
    /\ dirty' = Children(db)
    /\ tip' = db.tip
    /\ failedBlocks' = {}
    /\ ids' = [next |-> 1, reverse |-> -1, precious |-> 0]
    /\ disk' = db
    /\ coinsDue' = FALSE /\ abc' = Idle /\ inv' = Nil /\ waiting' = TRUE
    /\ crashes' = crashes + 1
    /\ UNCHANGED manual

\* The node starts again after a crash, at any point; after a shutdown, which
\* flushes everything between two critical sections.
Crash ==
    /\ MayRestart
    /\ "index-alone" \in Permits \/ \A a \in Ancestors[disk.tip] : disk.index[a].failed = {}
    /\ Load(disk)
Shutdown ==
    /\ MayRestart /\ (Free \/ abc.pc = "abort")
    /\ Load([index |-> [b \in Blocks |-> IF b \in dirty THEN Record(index)[b] ELSE disk.index[b]],
             tip |-> tip])

\* The threads that run ActivateBestChain and InvalidateBlock once they began.
Progress ==
    \/ FlushCoins \/ ActivateBestChain \/ DropCandidate \/ ChooseChain \/ DisconnectTip
    \/ DisconnectTipFails \/ ConnectTip \/ ConnectTipFails \/ ActivateEnds \/ MarkInvalid

Next ==
    \/ Progress \/ Crash \/ Shutdown
    \/ \E b \in Blocks \ {Genesis} :
          \/ b \in Announced /\ AddHeader(b)
          \/ RefuseHeader(b)
          \/ b \in Received /\ \E requested \in BOOLEAN : AcceptBlock(b, requested)
    \/ \E b \in Prunable : PruneBlockFiles(b)
    \/ \E b \in Operable : InvalidateBlock(b) \/ ResetBlockFailureFlags(b) \/ PreciousBlock(b)

\* The scheduler runs the threads; no message and no RPC call need ever come.
Spec == Init /\ [][Next]_vars /\ WF_vars(Progress)

---------------------------------------------------------------------------
\* Properties.  The ones about the block index are what CheckBlockIndex asserts
\* where no thread holds cs_main.

Missing(b) == {a \in Ancestors[b] : ~index[a].data}
Invalid(b) == {a \in Ancestors[b] : "VALID" \in index[a].failed}

\* A block that is at least as good as the tip, has all its data and no invalid
\* ancestor is a candidate, and so is the tip; a candidate is linked and has
\* no less work than the tip.  Whatever order blocks, failures and RPC calls come in,
\* no candidate is lost (validation.cpp:4629-4644).
CandidatesRight ==
    Free => \A b \in Known :
        /\ index[b].linked /\ ~Less(index, b, tip) /\ Invalid(b) = {} /\ (Missing(b) = {} \/ b = tip)
              => b \in candidates
        /\ b \in candidates => index[b].linked /\ ChainWork[b] >= ChainWork[tip]

\* The FAILED flags are only on blocks that have an invalid ancestor or are
\* invalid themselves (validation.cpp:4625-4628).
FailedHasCause == Free => \A b \in Known : index[b].failed # {} => Invalid(b) # {}

\* A block with data and without an invalid ancestor that is not linked, or was
\* dropped from the candidates because some ancestor was pruned, waits in
\* mapBlocksUnlinked for the missing data (validation.cpp:4656-4679).
UnlinkedWaits ==
    Free => \A b \in Known \ {Genesis} :
        /\ index[b].data /\ Invalid(b) = {}
        /\ ~index[b].linked \/ (Missing(b) # {} /\ ~Less(index, b, tip) /\ b \notin candidates)
        => <<Prev[b], b>> \in Range(unlinked)

\* Every block of the active chain is valid and was connected: ActivateBestChain
\* takes it for granted (validation.cpp:2493).
ActiveChainValid ==
    Free => \A a \in Ancestors[tip] : IsValid(index[a], SCRIPTS) /\ a \notin BadContext \cup BadConnect

\* A block below an invalid one is either marked itself, or found by walking
\* m_failed_blocks: no header is accepted on top of it, before a restart and
\* after one, which empties that set (validation.cpp:128-145).
FailedTracked ==
    Free => \A b \in Known : Invalid(b) # {} =>
        index[b].failed # {} \/ Ancestors[b] \cap failedBlocks # {}

\* All of these together, whenever cs_main is free: the asserts of CheckBlockIndex
\* (validation.cpp:4545-4727), which by default run on regtest only, and the rule
\* about m_failed_blocks, which nothing asserts.
IndexConsistent ==
    TypeOK /\ CandidatesRight /\ FailedHasCause /\ UnlinkedWaits /\ FailedTracked

\* When every caller of ActivateBestChain has returned, no chain that is
\* completely there and not known to be invalid is better than the tip.
TipBest ==
    Free /\ abc.pc = "idle" /\ ~waiting =>
        \A b \in Known : Missing(b) = {} /\ Invalid(b) = {} => ~Less(index, tip, b)

\* ActivateBestChain returns: whatever fails on the way, it does not go round in
\* circles between chains (validation.cpp:2679-2752).
ActivateReturns == abc.pc # "idle" ~> abc.pc \in {"idle", "abort"}

\* The promise of module BestChain, with the tip that other threads can see.
Promise == INSTANCE BestChain WITH
    tip <- VisibleTip, connected <- {b \in Blocks : index[b].valid = SCRIPTS},
    invalidating <- inv # Nil, restarts <- crashes
\* CChainState implements BestChain (validation.cpp:2697-2698).
RefinesBestChain == Promise!Spec
=============================================================================
