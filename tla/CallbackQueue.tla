--------------------------- MODULE CallbackQueue ---------------------------
(***************************************************************************)
(* What SingleThreadedSchedulerClient promises (src/scheduler.h):          *)
(* callbacks run one at a time, in the order in which they were added, as  *)
(* if by a single thread.  The callbacks are numbered as they are added.   *)
(***************************************************************************)
EXTENDS Naturals, Sequences

VARIABLES posted, running, delivered
vars == <<posted, running, delivered>>

Init == posted = 0 /\ running = 0 /\ delivered = <<>>

Post ==
    /\ posted' = posted + 1
    /\ UNCHANGED <<running, delivered>>

Start ==
    /\ running = 0
    /\ Len(delivered) < posted
    /\ running' = Len(delivered) + 1
    /\ UNCHANGED <<posted, delivered>>

Finish ==
    /\ running # 0
    /\ delivered' = Append(delivered, running)
    /\ running' = 0
    /\ UNCHANGED posted

Next == Post \/ Start \/ Finish

Spec == Init /\ [][Next]_vars
=============================================================================
