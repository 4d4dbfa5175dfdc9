----------------------------- MODULE BestChain ------------------------------
(***************************************************************************)
(* What CChainState promises the rest of the node about the active chain:  *)
(* whoever takes cs_main finds a tip that was fully connected, and         *)
(* validation alone never replaces it by one with less work, however many  *)
(* blocks it has to disconnect and however many of the new ones fail.      *)
(* Only invalidateblock and a restart take work away: the one ends below   *)
(* the tip, the other at a block that had been connected.                  *)
(*                                                                         *)
(*     tip          - chainActive.Tip()                                    *)
(*     connected    - the blocks with BLOCK_VALID_SCRIPTS                  *)
(*     invalidating - invalidateblock is at work                           *)
(*     restarts     - how often the node has started again                 *)
(***************************************************************************)
EXTENDS Naturals

CONSTANTS Blocks, Genesis, Ancestors, ChainWork

VARIABLES tip, connected, invalidating, restarts

vars == <<tip, connected, invalidating, restarts>>

Init == tip = Genesis /\ connected = {Genesis} /\ invalidating = FALSE /\ restarts = 0

\* ActivateBestChain releases cs_main, or has connected one more block; or
\* invalidateblock begins.
Advance ==
    /\ \E b \in Blocks : ChainWork[b] >= ChainWork[tip] /\ tip' = b
    /\ connected \subseteq connected' /\ connected' \subseteq Blocks
    /\ Ancestors[tip'] \subseteq connected'
    /\ invalidating' \in BOOLEAN
    /\ UNCHANGED restarts

\* invalidateblock ends.
Invalidate ==
    /\ invalidating /\ ~invalidating'
    /\ tip' \in Ancestors[tip]
    /\ UNCHANGED <<connected, restarts>>

\* The node starts again.
Restart ==
    /\ connected' \subseteq connected
    /\ \E b \in connected' : tip' = b /\ Ancestors[b] \subseteq connected'
    /\ ~invalidating'
    /\ restarts' = restarts + 1

Next == Advance \/ Invalidate \/ Restart

Spec == Init /\ [][Next]_vars
=============================================================================
