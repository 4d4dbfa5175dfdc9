----------------------------- MODULE TxMemPool -----------------------------
(***************************************************************************)
(* The memory pool (src/txmempool.cpp): the entries, the links between     *)
(* them and the totals each entry keeps of its ancestors and descendants,  *)
(* with the code of src/validation.cpp that changes it: acceptance, the    *)
(* connection and disconnection of blocks, UpdateMempoolForReorg and       *)
(* LoadMempool.                                                            *)
(*                                                                         *)
(* A step is a critical section of CTxMemPool::cs.  A reorganisation holds *)
(* cs_main throughout but takes the pool's lock once per transaction, so   *)
(* it is many steps, between which only LoadMempool, which prioritises     *)
(* without cs_main, may run.                                               *)
(*                                                                         *)
(* An outpoint is a pair <<transaction, index>>.  Absolute and relative    *)
(* lock times are both the height from which a transaction is final.       *)
(* Scripts always verify.  Signature operations are totalled exactly as    *)
(* sizes are, and memory usage is the total size of the transactions.      *)
(***************************************************************************)
EXTENDS Integers, Sequences, SequencesExt, FiniteSets, FiniteSetsExt, Functions

CONSTANTS
    Tx,             \* the transactions
    Coinbases,      \* those that are coinbases
    Replaceable,    \* those that signal BIP 125 replacement
    Shielded,       \* those with a joinsplit
    Vin,            \* the outpoints each one spends, in order
    TxSize, TxFee,
    LockHeight,     \* the last height at which each one is not final
    Base,           \* the outpoints unspent before the first block
    Blocks,         \* the transactions of each block that may arrive
    Files,          \* what mempool.dat may hold: pairs of a transaction and its nFeeDelta
    Maturity,       \* COINBASE_MATURITY
    Unit,           \* the size a fee rate is for (1000)
    minRelayTxFee, incrementalRelayFee,
    LimitAncestors, LimitAncestorSize, LimitDescendants, LimitDescendantSize,
    MaxToVisit,     \* maxDescendantsToVisit (100)
    SizeLimit,      \* -maxmempool
    MaxDisconnected,\* the transactions that fit in MAX_DISCONNECTED_TX_POOL_SIZE
    FeeDeltas,      \* the pairs that prioritisetransaction may be called with
    MaxHeight,      \* bound: the length of the chain
    MaxDelta        \* bound: the total delta of a transaction

ASSUME MemPoolAssumption ==
    /\ Coinbases \cup Replaceable \cup Shielded \subseteq Tx
    /\ TxSize \in [Tx -> Nat \ {0}] /\ TxFee \in [Tx -> Nat] /\ LockHeight \in [Tx -> Nat]
    /\ Unit \in Nat \ {0} /\ Maturity \in Nat /\ FeeDeltas \subseteq Tx \X Int
    /\ \A t \in Tx : \A i \in DOMAIN Vin[t] : Vin[t][i] \in Base \/ Vin[t][i][1] \in Tx

VARIABLES
    chain,       \* the blocks above the first, as sequences of transactions
    pool,        \* the members of CTxMemPool
    stage,       \* what the thread that holds cs_main does
    queuedTx,    \* disconnectpool, the first inserted first
    fAddToMempool,
    vHashUpdate, \* the disconnected transactions that are back in the pool
    file         \* what LoadMempool has still to read: the entries, whether
                 \* the delta of the first one is applied, the other deltas

vars == <<chain, pool, stage, queuedTx, fAddToMempool, vHashUpdate, file>>

----------------------------------------------------------------------------
(* Fee rates, the chain and its coins. *)

\* C++ rounds towards zero.
Rate(fee, size) ==
    IF fee < 0 THEN -((-fee * Unit) \div size) ELSE (fee * Unit) \div size

GetFee(rate, size) ==
    LET fee == (rate * size) \div Unit IN IF fee = 0 /\ rate > 0 THEN 1 ELSE fee

Inputs(t) == Range(Vin[t])
Confirmed(c) == UNION {Range(c[h]) : h \in DOMAIN c}

\* pcoinsTip: what a chain has created and not spent.
HaveCoin(c, o) ==
    /\ o \in Base \/ o[1] \in Confirmed(c)
    /\ \A t \in Confirmed(c) : o \notin Inputs(t)

HeightOf(c, t) == CHOOSE h \in DOMAIN c : t \in Range(c[h])

\* CheckFinalTx and CheckSequenceLocks for the block after the tip.
Final(c, t) == LockHeight[t] < Len(c) + 1

Mature(c, o, nSpendHeight) ==
    o[1] \in Coinbases => nSpendHeight - HeightOf(c, o[1]) >= Maturity
MatureNext(c, o) == Mature(c, o, Len(c) + 1)

\* ConnectBlock: each transaction spends what the chain and those before it left.
ValidBlock(c, b) ==
    \A i \in DOMAIN b :
        LET before == IF i = 1 THEN c ELSE Append(c, SubSeq(b, 1, i - 1)) IN
        /\ b[i] \notin Confirmed(before) /\ (b[i] \in Coinbases <=> i = 1)
        /\ Final(c, b[i])
        /\ \A o \in Inputs(b[i]) : HaveCoin(before, o) /\ Mature(before, o, Len(c) + 1)

----------------------------------------------------------------------------
(* Entries, links and totals. *)

Exists(p, t) == t \in DOMAIN p.mapTx
GetModifiedFee(p, t) == TxFee[t] + p.mapTx[t].feeDelta
DeltaOf(p, t) == IF t \in DOMAIN p.mapDeltas THEN p.mapDeltas[t] ELSE 0

\* The three totals that a set of entries stands for.
Weight(p, S) == [count |-> Cardinality(S), size |-> MapThenSumSet(LAMBDA t : TxSize[t], S),
                 fees |-> MapThenSumSet(LAMBDA t : GetModifiedFee(p, t), S)]
Plus(a, b) == [count |-> a.count + b.count, size |-> a.size + b.size, fees |-> a.fees + b.fees]
Minus(a, b) == [count |-> a.count - b.count, size |-> a.size - b.size, fees |-> a.fees - b.fees]

\* The asserts of UpdateDescendantState and UpdateAncestorState.
Positive(e) == e.desc.count > 0 /\ e.desc.size > 0 /\ e.anc.count > 0 /\ e.anc.size > 0

\* Everything reached from S through the links f.
Reach(f, S) ==
    LET step[n \in 0 .. Cardinality(Tx)] ==
            IF n = 0 THEN S ELSE LET s == step[n - 1] IN s \cup UNION {f[t] : t \in s}
    IN  step[Cardinality(Tx)]

CalculateDescendants(p, S) == Reach(p.children, S)
ParentsInPool(p, t) == {o[1] : o \in Inputs(t)} \cap DOMAIN p.mapTx

\* CalculateMemPoolAncestors, searching for the parents, or going by the links.
CalculateMemPoolAncestors(p, t) == Reach(p.parents, ParentsInPool(p, t))
LinkedAncestors(p, t) == Reach(p.parents, p.parents[t])

\* Its limits.
\* Mutant: the new transaction is not counted.
CountWithoutNew(p, a) == p.mapTx[a].desc.count <= LimitDescendants
FewDescendants(p, a) == p.mapTx[a].desc.count + 1 <= LimitDescendants

WithinLimits(p, t) ==
    LET anc == CalculateMemPoolAncestors(p, t) IN
    /\ Cardinality(anc) + 1 <= LimitAncestors
    /\ TxSize[t] + Weight(p, anc).size <= LimitAncestorSize \/ anc = {}
    /\ \A a \in anc : /\ p.mapTx[a].desc.size + TxSize[t] <= LimitDescendantSize
                      /\ FewDescendants(p, a)

\* ApplyDelta.
\* Mutant: the delta is forgotten.
NoDelta(p, t) == 0
ApplyDelta(p, t) == DeltaOf(p, t)

\* addUnchecked, with UpdateAncestorsOf and UpdateEntryForAncestors.
AddUnchecked(p, t, anc) ==
    LET delta == ApplyDelta(p, t)
        own == [count |-> 1, size |-> TxSize[t], fees |-> TxFee[t] + delta]
        new == [feeDelta |-> delta, desc |-> own, anc |-> Plus(own, Weight(p, anc))]
        parents == ParentsInPool(p, t)
    IN  [p EXCEPT
            !.mapTx = [x \in DOMAIN @ \cup {t} |->
                          IF x = t THEN new
                          ELSE IF x \in anc THEN [@[x] EXCEPT !.desc = Plus(@, own)] ELSE @[x]],
            !.mapNextTx = [o \in DOMAIN @ \cup Inputs(t) |-> IF o \in Inputs(t) THEN t ELSE @[o]],
            !.parents = [x \in DOMAIN @ \cup {t} |-> IF x = t THEN parents ELSE @[x]],
            !.children = [x \in DOMAIN @ \cup {t} |->
                             IF x = t THEN {} ELSE @[x] \cup (IF x \in parents THEN {t} ELSE {})]]

\* UpdateForRemoveFromMempool: what the totals become when S is to leave.
UpdateForRemove(p, S, updateDescendants) ==
    [x \in DOMAIN p.mapTx |->
        LET below == {r \in S : x \in LinkedAncestors(p, r)}
            above == {r \in S \ {x} : x \in CalculateDescendants(p, {r})}
        IN  [p.mapTx[x] EXCEPT
                !.desc = Minus(@, Weight(p, below)),
                !.anc = IF updateDescendants THEN Minus(@, Weight(p, above)) ELSE @]]

\* RemoveStaged, with removeUnchecked for each entry.
RemoveStaged(p, S, updateDescendants) ==
    LET mapTx == UpdateForRemove(p, S, updateDescendants)
        kept == DOMAIN mapTx \ S
    IN  [p EXCEPT
            !.mapTx = Restrict(mapTx, kept),
            !.mapNextTx = Restrict(@, {o \in DOMAIN @ : @[o] \notin S}),
            !.parents = [x \in kept |-> @[x] \ {r \in S : x \in p.children[r]}],
            !.children = [x \in kept |-> @[x] \ {r \in S : x \in p.parents[r]}],
            !.asserts = @ /\ \A x \in DOMAIN mapTx : Positive(mapTx[x])]

Spenders(p, t) == {p.mapNextTx[o] : o \in {o \in DOMAIN p.mapNextTx : o[1] = t}}

\* removeRecursive: the transaction, or its children if it is not there itself.
RemoveRoots(p, t) == IF Exists(p, t) THEN {t} ELSE Spenders(p, t)
RemoveRecursive(p, t) == RemoveStaged(p, CalculateDescendants(p, RemoveRoots(p, t)), FALSE)

ClearPrioritisation(p, t) == [p EXCEPT !.mapDeltas = Restrict(@, DOMAIN @ \ {t})]

RemoveConflicts(p, t) ==
    FoldLeft(LAMBDA q, o : IF o \in DOMAIN q.mapNextTx /\ q.mapNextTx[o] # t
                           THEN RemoveRecursive(ClearPrioritisation(q, q.mapNextTx[o]), q.mapNextTx[o])
                           ELSE q,
             p, Vin[t])

\* removeForBlock.
RemoveForBlock(p, vtx) ==
    [FoldLeft(LAMBDA q, t :
                  LET gone == IF Exists(q, t) THEN RemoveStaged(q, {t}, TRUE) ELSE q
                  IN  ClearPrioritisation(RemoveConflicts(gone, t), t),
              p, vtx)
        EXCEPT !.blockSince = TRUE]

----------------------------------------------------------------------------
(* Limiting the pool. *)

DynamicMemoryUsage(p) == Weight(p, DOMAIN p.mapTx).size

\* The feerate the eviction order compares: the larger of the entry's own and
\* that of the entry with its descendants.  Of equals any may come first, for
\* the times of entry are not modelled.
Score(p, t) ==
    LET d == p.mapTx[t].desc IN
    IF d.fees * TxSize[t] > GetModifiedFee(p, t) * d.size THEN <<d.fees, d.size>>
    ELSE <<GetModifiedFee(p, t), TxSize[t]>>

LowestScores(p) ==
    {t \in DOMAIN p.mapTx : \A u \in DOMAIN p.mapTx :
        Score(p, t)[1] * Score(p, u)[2] <= Score(p, u)[1] * Score(p, t)[2]}

TrackPackageRemoved(p, rate) ==
    IF rate > p.rolling THEN [p EXCEPT !.rolling = rate, !.blockSince = FALSE] ELSE p

EvictOne(p, t) ==
    LET d == p.mapTx[t].desc IN
    RemoveStaged(TrackPackageRemoved(p, Rate(d.fees, d.size) + incrementalRelayFee),
                 CalculateDescendants(p, {t}), FALSE)

\* TrimToSize: the pools it may end with.
TrimToSize(p) ==
    LET step[n \in 0 .. Cardinality(Tx)] ==
            IF n = 0 THEN {p}
            ELSE UNION {IF DynamicMemoryUsage(q) > SizeLimit
                        THEN {EvictOne(q, t) : t \in LowestScores(q)} ELSE {q} : q \in step[n - 1]}
    IN  step[Cardinality(Tx)]

\* Expire: no entry, or one of those not in spared with its descendants.
\* Bound: at most one entry at a time is past its time.
Expire(p, spared) ==
    {p} \cup {RemoveStaged(p, CalculateDescendants(p, {t}), FALSE) : t \in DOMAIN p.mapTx \ spared}

LimitMempoolSize(p, spared) == UNION {TrimToSize(q) : q \in Expire(p, spared)}

----------------------------------------------------------------------------
(* Acceptance. *)

\* GetMinFee, after any decay; see MinFeeDecays.
GetMinFee(p) ==
    IF ~p.blockSince \/ p.rolling = 0 \/ p.rolling > incrementalRelayFee THEN p.rolling
    ELSE incrementalRelayFee

Conflicts(p, t) == {p.mapNextTx[o] : o \in Inputs(t) \cap DOMAIN p.mapNextTx}
InputsExist(p, t) == \A o \in Inputs(t) : Exists(p, o[1]) \/ HaveCoin(chain, o)

\* Consensus::CheckTxInputs.  The view has cached the coins, but the anchors
\* and nullifiers are asked of its backend, by then the empty CCoinsView, in
\* which no anchor is known: HaveJoinSplitRequirements.
JoinSplitRequirements(t) == t \notin Shielded
CheckTxInputs(p, t) ==
    /\ JoinSplitRequirements(t)
    /\ \A o \in Inputs(t) : Exists(p, o[1]) \/ MatureNext(chain, o)

PaysEnough(p, t) ==
    LET fee == TxFee[t] + DeltaOf(p, t) IN
    fee >= GetFee(GetMinFee(p), TxSize[t]) /\ fee >= GetFee(minRelayTxFee, TxSize[t])

\* The rules for a replacement, lines 774 to 887.
MayReplace(p, t) ==
    LET fee == TxFee[t] + DeltaOf(p, t)
        direct == Conflicts(p, t)
        fees == Weight(p, CalculateDescendants(p, direct)).fees
        parents == {o[1] : o \in UNION {Inputs(c) : c \in direct}}
    IN  direct # {} =>
            /\ \A c \in direct : Rate(fee, TxSize[t]) > Rate(GetModifiedFee(p, c), TxSize[c])
            /\ MapThenSumSet(LAMBDA c : p.mapTx[c].desc.count, direct) <= MaxToVisit
            /\ \A o \in Inputs(t) : o[1] \in parents \/ ~Exists(p, o[1])
            /\ fee >= fees /\ fee - fees >= GetFee(incrementalRelayFee, TxSize[t])

Loose(t) == t \notin Coinbases

\* What AcceptToMemoryPoolWorker asks of a transaction but for its joinsplits.
Admissible(p, t, bypass_limits) ==
    /\ Loose(t) /\ Final(chain, t) /\ ~Exists(p, t)
    /\ Conflicts(p, t) \subseteq Replaceable
    /\ InputsExist(p, t)
    /\ bypass_limits \/ PaysEnough(p, t)
    /\ WithinLimits(p, t)
    /\ CalculateMemPoolAncestors(p, t) \cap Conflicts(p, t) = {}
    /\ MayReplace(p, t)

Accepted(p, bypass_limits) ==
    {t \in Tx : Admissible(p, t, bypass_limits) /\ CheckTxInputs(p, t)}

\* RemoveStaged for what is replaced, then addUnchecked.
Stored(p, t) ==
    AddUnchecked(RemoveStaged(p, CalculateDescendants(p, Conflicts(p, t)), FALSE), t,
                 CalculateMemPoolAncestors(p, t))

AcceptToMemoryPool(t) ==
    /\ stage = "idle"
    /\ t \in Accepted(pool, FALSE)
    /\ pool' \in LimitMempoolSize(Stored(pool, t), {t})
    /\ UNCHANGED <<chain, stage, queuedTx, fAddToMempool, vHashUpdate, file>>

\* The rolling minimum halves with time once a block has come: GetMinFee.
MinFeeDecays ==
    /\ pool.blockSince /\ pool.rolling # 0
    /\ \E r \in 0 .. pool.rolling - 1 :
          /\ r = 0 \/ 2 * r >= incrementalRelayFee
          /\ pool' = [pool EXCEPT !.rolling = r]
    /\ UNCHANGED <<chain, stage, queuedTx, fAddToMempool, vHashUpdate, file>>

\* CTxMemPool::PrioritiseTransaction.
Prioritised(p, t, d) ==
    LET q == [p EXCEPT !.mapDeltas = [x \in DOMAIN @ \cup {t} |->
                                         DeltaOf(p, x) + (IF x = t THEN d ELSE 0)]]
        anc == LinkedAncestors(p, t)
        desc == CalculateDescendants(p, {t}) \ {t}
    IN  IF ~Exists(p, t) THEN q
        ELSE [q EXCEPT !.mapTx = [x \in DOMAIN @ |->
                [@[x] EXCEPT !.feeDelta = IF x = t THEN DeltaOf(q, t) ELSE @,
                             !.desc.fees = @ + (IF x \in anc \cup {t} THEN d ELSE 0),
                             !.anc.fees = @ + (IF x \in desc \cup {t} THEN d ELSE 0)]]]

\* The RPC, under cs_main.
PrioritiseTransaction(t, d) ==
    /\ stage = "idle" /\ DeltaOf(pool, t) + d \in -MaxDelta .. MaxDelta
    /\ pool' = Prioritised(pool, t, d)
    /\ UNCHANGED <<chain, stage, queuedTx, fAddToMempool, vHashUpdate, file>>

----------------------------------------------------------------------------
(* Blocks and reorganisations. *)

\* ConnectTip, as the next block of the chain or after a disconnection.
ConnectTip(b) ==
    /\ stage \in {"idle", "disconnecting", "connecting"}
    /\ Len(chain) < MaxHeight /\ ValidBlock(chain, b)
    /\ chain' = Append(chain, b)
    /\ pool' = RemoveForBlock(pool, b)
    /\ queuedTx' = SelectSeq(queuedTx, LAMBDA t : t \notin Range(b))
    /\ stage' = IF stage = "idle" THEN "idle" ELSE "connecting"
    /\ UNCHANGED <<fAddToMempool, vHashUpdate, file>>

\* Mutant: their children stay in the pool.
DropsOnly(p, q) == p

\* What DisconnectTip drops when too much is disconnected: the first inserted.
Dropped(q) == SubSeq(q, 1, Len(q) - MaxDisconnected)

\* The pool loses what depends on the dropped ones.
DropFromPool(p, q) == FoldLeft(RemoveRecursive, p, Dropped(q))
DisconnectTip ==
    /\ stage \in {"idle", "disconnecting"} /\ chain # <<>>
    /\ LET q == queuedTx \o Reverse(Last(chain)) IN
       /\ pool' = DropFromPool(pool, q)
       /\ queuedTx' = SubSeq(q, Len(Dropped(q)) + 1, Len(q))
    /\ chain' = Front(chain)
    /\ stage' = "disconnecting"
    /\ UNCHANGED <<fAddToMempool, vHashUpdate, file>>

\* UpdateMempoolForReorg is called: with true when all is done or a block was
\* found invalid, with false when a disconnection or a connection met an error.
BeginUpdate(add) ==
    /\ stage \in {"disconnecting", "connecting"}
    /\ stage' = "readding" /\ fAddToMempool' = add
    /\ UNCHANGED <<chain, pool, queuedTx, vHashUpdate, file>>

\* One turn of its loop, on the last inserted that is left.
ReAdd ==
    /\ stage = "readding" /\ queuedTx # <<>>
    /\ LET t == Last(queuedTx)
           back == fAddToMempool /\ t \in Accepted(pool, TRUE)
       IN  /\ pool' = IF back THEN Stored(pool, t) ELSE RemoveRecursive(pool, t)
           /\ vHashUpdate' = IF back THEN Append(vHashUpdate, t) ELSE vHashUpdate
    /\ queuedTx' = Front(queuedTx)
    /\ UNCHANGED <<chain, stage, fAddToMempool, file>>

\* Mutant: links and totals are not repaired.
NoUpdate(s, t, included) == s

\* One turn of UpdateTransactionsFromBlock, with UpdateForDescendants: s is the
\* pool and the descendants found for the transactions already visited.
UpdateFromBlock(s, t, included) ==
    LET p == s.pool
        kids == Spenders(p, t) \ included
        children == [p.children EXCEPT ![t] = @ \cup kids]
        walked == Reach([x \in DOMAIN children |-> children[x] \ DOMAIN s.cached], children[t])
        found == walked \cup UNION {s.cached[c] : c \in DOMAIN s.cached \cap UNION {children[w] : w \in walked}}
        counted == found \ included
        own == Weight(p, {t})
    IN  IF ~Exists(p, t) THEN s
        ELSE [cached |-> IF counted = {} THEN s.cached
                         ELSE [x \in DOMAIN s.cached \cup {t} |-> IF x = t THEN counted ELSE s.cached[x]],
              pool |-> [p EXCEPT
                  !.children = children,
                  !.parents = [x \in DOMAIN @ |-> @[x] \cup (IF x \in kids THEN {t} ELSE {})],
                  !.mapTx = [x \in DOMAIN @ |->
                      IF x = t THEN [@[x] EXCEPT !.desc = Plus(@, Weight(p, counted))]
                      ELSE IF x \in counted THEN [@[x] EXCEPT !.anc = Plus(@, own)] ELSE @[x]]]]

UpdateTransactionsFromBlock ==
    /\ stage = "readding" /\ queuedTx = <<>>
    /\ LET visit(s, t) == UpdateFromBlock(s, t, Range(vHashUpdate))
       IN  pool' = FoldLeft(visit, [pool |-> pool, cached |-> <<>>], Reverse(vHashUpdate)).pool
    /\ stage' = "removing" /\ vHashUpdate' = <<>>
    /\ UNCHANGED <<chain, queuedTx, fAddToMempool, file>>

\* Mutant: coinbases are not looked at.
NotFinalOnly(p, t) == ~Final(chain, t)

\* The inputs removeForReorg looks up: of spenders of coinbases, not in the pool.
Rescanned(p, t) ==
    IF \E o \in Inputs(t) : o[1] \in Coinbases
    THEN {o \in Inputs(t) : ~Exists(p, o[1])} ELSE {}

NoLongerMinable(p, t) ==
    ~Final(chain, t) \/ \E o \in Rescanned(p, t) : ~HaveCoin(chain, o) \/ ~MatureNext(chain, o)

RemoveForReorg ==
    /\ stage = "removing"
    /\ LET roots == {t \in DOMAIN pool.mapTx : NoLongerMinable(pool, t)}
           unspent == \A t \in DOMAIN pool.mapTx : \A o \in Rescanned(pool, t) :
                          Final(chain, t) => HaveCoin(chain, o)
       IN  pool' = [RemoveStaged(pool, CalculateDescendants(pool, roots), FALSE)
                       EXCEPT !.asserts = @ /\ unspent]
    /\ stage' = "limiting"
    /\ UNCHANGED <<chain, queuedTx, fAddToMempool, vHashUpdate, file>>

\* Mutant: the pool is not limited again.
NotRelimited(p) == {p}
Relimited(p) == LimitMempoolSize(p, {})

\* LimitMempoolSize, and the lock is released.
EndUpdate ==
    /\ stage = "limiting"
    /\ pool' \in Relimited(pool)
    /\ stage' = "idle"
    /\ UNCHANGED <<chain, queuedTx, fAddToMempool, vHashUpdate, file>>

----------------------------------------------------------------------------
(* LoadMempool, in the thread that imports blocks at the start. *)

\* The delta of the next entry, without cs_main.
LoadDelta ==
    /\ file.entries # <<>> /\ ~file.applied
    /\ LET e == Head(file.entries)
       IN  pool' = IF e[2] = 0 THEN pool ELSE Prioritised(pool, e[1], e[2])
    /\ file' = [file EXCEPT !.applied = TRUE]
    /\ UNCHANGED <<chain, stage, queuedTx, fAddToMempool, vHashUpdate>>

\* Then the entry itself, unless it is past its time or refused.
LoadEntry ==
    /\ file.entries # <<>> /\ file.applied /\ stage = "idle"
    /\ LET t == Head(file.entries)[1]
       IN  \/ pool' = pool
           \/ /\ t \in Accepted(pool, FALSE)
              /\ pool' \in LimitMempoolSize(Stored(pool, t), {})
    /\ file' = [file EXCEPT !.entries = Tail(@), !.applied = FALSE]
    /\ UNCHANGED <<chain, stage, queuedTx, fAddToMempool, vHashUpdate>>

\* Last, one of the deltas of transactions that were not in the pool.
LoadOtherDelta ==
    /\ file.entries = <<>> /\ file.deltas # <<>>
    /\ pool' = Prioritised(pool, Head(file.deltas)[1], Head(file.deltas)[2])
    /\ file' = [file EXCEPT !.deltas = Tail(@)]
    /\ UNCHANGED <<chain, stage, queuedTx, fAddToMempool, vHashUpdate>>

----------------------------------------------------------------------------

Init ==
    /\ chain = <<>>
    /\ pool = [mapTx |-> <<>>, mapNextTx |-> <<>>, parents |-> <<>>, children |-> <<>>,
               mapDeltas |-> <<>>, rolling |-> 0, blockSince |-> FALSE, asserts |-> TRUE]
    /\ stage = "idle" /\ queuedTx = <<>> /\ fAddToMempool = TRUE /\ vHashUpdate = <<>>
    /\ file \in Files

Next ==
    \/ \E t \in Tx : AcceptToMemoryPool(t)
    \/ MinFeeDecays
    \/ \E c \in FeeDeltas : PrioritiseTransaction(c[1], c[2])
    \/ \E b \in Blocks : ConnectTip(b)
    \/ DisconnectTip
    \/ \E add \in BOOLEAN : BeginUpdate(add)
    \/ ReAdd
    \/ UpdateTransactionsFromBlock
    \/ RemoveForReorg
    \/ EndUpdate
    \/ LoadDelta
    \/ LoadEntry
    \/ LoadOtherDelta

Spec == Init /\ [][Next]_vars

----------------------------------------------------------------------------
(* What holds. *)

\* The types of the state, and that the three maps of the pool have the same keys.
TypeOK ==
    /\ chain \in Seq(Blocks) /\ Len(chain) <= MaxHeight
    /\ DOMAIN pool.mapTx \subseteq Tx \ Coinbases
    /\ DOMAIN pool.parents = DOMAIN pool.mapTx /\ DOMAIN pool.children = DOMAIN pool.mapTx
    /\ DOMAIN pool.mapDeltas \subseteq Tx
    /\ pool.rolling \in Nat /\ pool.blockSince \in BOOLEAN /\ pool.asserts \in BOOLEAN
    /\ stage \in {"idle", "disconnecting", "connecting", "readding", "removing", "limiting"}
    /\ Range(queuedTx) \subseteq Tx /\ Range(vHashUpdate) \subseteq Tx
    /\ fAddToMempool \in BOOLEAN

\* The ancestors and descendants that the inputs of the entries really make.
InputAncestors(t) ==
    LET up == [x \in DOMAIN pool.mapTx |-> ParentsInPool(pool, x)] IN Reach(up, up[t])
InputDescendants(t) == {x \in DOMAIN pool.mapTx : t \in InputAncestors(x)}
WithOwn(t, S) == Weight(pool, S \cup {t})

\* Outside a reorganisation, and in one as soon as the links are repaired.
Linked == stage \in {"idle", "removing", "limiting"}

\* CTxMemPool::check, called after every step of ActivateBestChain: once
\* UpdateTransactionsFromBlock has repaired the links, every entry spends an
\* unspent coin or an output of another entry, is the one spender of each of its
\* inputs, has for parents and children exactly the entries its inputs and
\* outputs name, and the totals it keeps of its ancestors are theirs.  So are
\* those of its descendants, by which entries are evicted and packages limited,
\* and of which check only compares the size with that of the children, "not
\* definitive that this calc is correct" (txmempool.cpp:690).
CheckPasses ==
    /\ TypeOK
    /\ Linked =>
        /\ \A o \in DOMAIN pool.mapNextTx : Exists(pool, pool.mapNextTx[o])
        /\ \A t \in DOMAIN pool.mapTx :
              /\ InputsExist(pool, t)
              /\ \A o \in Inputs(t) : o \in DOMAIN pool.mapNextTx /\ pool.mapNextTx[o] = t
              /\ pool.parents[t] = ParentsInPool(pool, t)
              /\ pool.children[t] = Spenders(pool, t)
              /\ pool.mapTx[t].anc = WithOwn(t, InputAncestors(t))
              /\ pool.mapTx[t].desc = WithOwn(t, InputDescendants(t))

\* No assert of UpdateDescendantState, UpdateAncestorState or removeForReorg
\* fails, in the middle of a reorganisation either.
AssertsHold == pool.asserts

\* At every step of a reorganisation an entry's input is an unspent coin, an
\* output of another entry, or an output of a transaction that waits in the
\* disconnectpool: none is lost track of (DisconnectTip, UpdateMempoolForReorg).
NoOrphans ==
    \A t \in DOMAIN pool.mapTx : \A o \in Inputs(t) :
        Exists(pool, o[1]) \/ HaveCoin(chain, o) \/ o[1] \in Range(queuedTx)

\* An entry counts the delta that mapDeltas holds for it, once, whatever the
\* order in which prioritisation, LoadMempool, blocks and conflicts touch them.
DeltasAgree == \A t \in DOMAIN pool.mapTx : pool.mapTx[t].feeDelta = DeltaOf(pool, t)

\* Whenever cs_main is free, every entry may go into the next block as far as
\* its lock times, the maturity of its coinbases and the chain are concerned,
\* also after the chain got shorter (removeForReorg).
MinableNext ==
    stage = "idle" =>
        \A t \in DOMAIN pool.mapTx :
            /\ Final(chain, t) /\ t \notin Confirmed(chain)
            /\ \A o \in Inputs(t) : HaveCoin(chain, o) => MatureNext(chain, o)

\* Whenever cs_main is free the pool is within -maxmempool, also when a
\* reorganisation, which accepts with bypass_limits, has put transactions back
\* (LimitMempoolSize, TrimToSize).
PoolBounded == stage = "idle" => DynamicMemoryUsage(pool) <= SizeLimit

\* Accepting a transaction leaves it with no more ancestors, and none of them
\* with more descendants, than the limits allow, counted over the inputs and not
\* by the totals that CalculateMemPoolAncestors compares.
AcceptKeepsLimits ==
    [][stage = "idle" /\ stage' = "idle" /\ chain' = chain =>
        \A t \in DOMAIN pool'.mapTx \ DOMAIN pool.mapTx :
            /\ Cardinality(InputAncestors(t)') + 1 <= LimitAncestors
            /\ \A a \in InputAncestors(t)' :
                  Cardinality(InputDescendants(a)') + 1 <= LimitDescendants]_vars

\* A transaction that the chain and the pool would let in is not refused for
\* its joinsplits: "we have all inputs cached now, so switch back to dummy"
\* (validation.cpp:675).
JoinSplitsAdmitted ==
    stage = "idle" =>
        \A t \in Shielded \ Confirmed(chain) : Admissible(pool, t, FALSE) => t \in Accepted(pool, FALSE)
=============================================================================
