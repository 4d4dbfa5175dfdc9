----------------------------- MODULE CoinsView -----------------------------
(***************************************************************************)
(* What the chain state promises, with no cache in sight: one view of the  *)
(* active chain's tip, and one view per block being connected or           *)
(* disconnected, which starts as a copy of the tip's and either replaces   *)
(* it as a whole or leaves no trace.                                       *)
(***************************************************************************)
EXTENDS Coins, Integers, Sequences

VARIABLES
    tipState,   \* what pcoinsTip answers
    viewState,  \* what the block's view answers
    phase,      \* where ConnectTip or DisconnectTip stands
    chain       \* the active chain, each block with its undo data

vars == <<tipState, viewState, phase, chain>>

Phases == {"idle", "connect", "connected", "disconnect", "disconnected"}
ChainEntries == [hash : Blocks, old_tree_root : Anchors]

TypeOK ==
    /\ tipState \in ViewState
    /\ viewState \in ViewState
    /\ phase \in Phases
    /\ chain \in Seq(ChainEntries)

Init ==
    /\ tipState = EmptyDB
    /\ viewState = EmptyDB
    /\ phase = "idle"
    /\ chain = <<>>

Begin(p) ==
    /\ phase = "idle"
    /\ chain # <<>>
    /\ p = "disconnect" => Len(chain) > 1
    /\ phase' = p
    /\ viewState' = tipState
    /\ UNCHANGED <<tipState, chain>>

Update(s) ==
    /\ phase \in {"connect", "disconnect"}
    /\ viewState' = s
    /\ UNCHANGED <<tipState, phase, chain>>

\* An output is created, or an input restored; an unspendable one is not kept.
Add(o, coin) ==
    Update(IF coin \in Unspendable THEN viewState
           ELSE [viewState EXCEPT !.coins[o] = coin])

Spend(o) == Update([viewState EXCEPT !.coins[o] = Spent])

\* Connecting a block spends nullifiers, disconnecting it gives them back.
MarkNullifier(nf) ==
    Update([viewState EXCEPT !.nullifiers =
               IF phase = "connect" THEN @ \cup {nf} ELSE @ \ {nf}])

\* The genesis block: only the best block moves.
ConnectGenesis(b) ==
    /\ phase = "idle"
    /\ chain = <<>>
    /\ phase' = "connected"
    /\ viewState' = [tipState EXCEPT !.block = b]
    /\ UNCHANGED <<tipState, chain>>

\* The root is the tree's old one, or one the chain never had.
EndConnect(b, rt) ==
    /\ phase = "connect"
    /\ \A i \in 1 .. Len(chain) : chain[i].hash # b
    /\ rt = viewState.anchor \/ rt \notin viewState.anchors
    /\ phase' = "connected"
    /\ viewState' = [viewState EXCEPT !.anchors = @ \cup {rt},
                                      !.anchor = rt, !.block = b]
    /\ UNCHANGED <<tipState, chain>>

EndDisconnect ==
    /\ phase = "disconnect"
    /\ phase' = "disconnected"
    /\ LET rt == chain[Len(chain)].old_tree_root
       IN  viewState' = [viewState EXCEPT
                            !.anchors = IF viewState.anchor = rt THEN @
                                        ELSE @ \ {viewState.anchor},
                            !.anchor = rt,
                            !.block = chain[Len(chain) - 1].hash]
    /\ UNCHANGED <<tipState, chain>>

Commit ==
    /\ phase \in {"connected", "disconnected"}
    /\ tipState' = viewState
    /\ phase' = "idle"
    /\ chain' = IF phase = "connected"
                THEN Append(chain, [hash |-> viewState.block,
                                    old_tree_root |-> tipState.anchor])
                ELSE SubSeq(chain, 1, Len(chain) - 1)
    /\ UNCHANGED viewState

Discard ==
    /\ phase # "idle"
    /\ phase' = "idle"
    /\ viewState' = tipState
    /\ UNCHANGED <<tipState, chain>>

Next ==
    \/ \E p \in {"connect", "disconnect"} : Begin(p)
    \/ \E o \in Outpoints, coin \in CoinValues : Add(o, coin)
    \/ \E o \in Outpoints : Spend(o)
    \/ \E nf \in Nullifiers : MarkNullifier(nf)
    \/ \E b \in Blocks : ConnectGenesis(b)
    \/ \E b \in Blocks, rt \in Anchors : EndConnect(b, rt)
    \/ EndDisconnect
    \/ Commit
    \/ Discard

Spec == Init /\ [][Next]_vars

-----------------------------------------------------------------------------
(* The anchors of the tip are the history of its commitment tree. *)

\* The root of the tree before block i of the chain; the current one at the end.
Root(i) == IF i = Len(chain) + 1 THEN tipState.anchor ELSE chain[i].old_tree_root

\* The tip accepts as an anchor exactly the roots its chain went through, and
\* its best block is the chain's: PushAnchor and PopAnchor keep step with the
\* blocks (ConnectBlock, DisconnectBlock).
AnchorsAreChainRoots ==
    /\ tipState.anchors = {Root(i) : i \in 1 .. Len(chain) + 1}
    /\ Root(1) = EmptyRoot
    /\ tipState.block = IF chain = <<>> THEN Null ELSE chain[Len(chain)].hash

\* A root, once left, does not come back within the chain.  Without this,
\* PopAnchor could drop a root that an earlier block still stands on.
RootsNeverRecur ==
    \A i, j, k \in 1 .. Len(chain) + 1 :
        i <= j /\ j <= k /\ Root(i) = Root(k) => Root(j) = Root(i)

\* How the block's view stands to the tip's, phase by phase.
ViewFollowsTip ==
    /\ chain = <<>> => phase \in {"idle", "connected"}
    /\ phase \in {"disconnect", "disconnected"} => Len(chain) > 1
    /\ phase = "idle" => viewState = tipState
    /\ phase \in {"connect", "disconnect"} =>
          viewState.anchors = tipState.anchors /\ viewState.anchor = tipState.anchor
    /\ phase = "connected" =>
          /\ viewState.anchors = tipState.anchors \cup {viewState.anchor}
          /\ \/ viewState.anchor = tipState.anchor
             \/ chain # <<>> /\ viewState.anchor \notin tipState.anchors
          /\ viewState.block \in Blocks
    /\ phase = "disconnected" =>
          /\ viewState.anchor = Root(Len(chain))
          /\ viewState.anchors = IF viewState.anchor = tipState.anchor
                                 THEN tipState.anchors
                                 ELSE tipState.anchors \ {tipState.anchor}
          /\ viewState.block = chain[Len(chain) - 1].hash

Inv == AnchorsAreChainRoots /\ RootsNeverRecur /\ ViewFollowsTip
=============================================================================
