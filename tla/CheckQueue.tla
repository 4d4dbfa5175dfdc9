----------------------------- MODULE CheckQueue -----------------------------
(***************************************************************************)
(* The queue of script checks (CCheckQueue and CCheckQueueControl,         *)
(* src/checkqueue.h).  A master adds the checks of a block and then joins  *)
(* the workers until all of them are done.                                 *)
(*                                                                         *)
(* A check is the verdict it will return.  A step is a critical section of *)
(* mutex; the checks of a batch are executed at the start of the step that *)
(* accounts for them, as nobody sees them before.                          *)
(***************************************************************************)
EXTENDS Integers, Sequences, FiniteSetsExt

CONSTANTS
    Workers,     \* the threads in Thread()
    Masters,     \* the threads that may create a CCheckQueueControl
    nBatchSize,
    MaxChecks,   \* bound: the checks a master adds to one control object
    None         \* ControlMutex is free

ASSUME CheckQueueAssumption ==
    /\ nBatchSize \in Nat \ {0} /\ MaxChecks \in Nat
    /\ Workers \cap Masters = {} /\ None \notin Masters
    /\ IsFiniteSet(Workers) /\ IsFiniteSet(Masters)

Threads == Workers \cup Masters

VARIABLES
    queue, nIdle, nTotal, fAllOk, nTodo,
    ControlMutex,  \* the master that holds it
    pc,            \* where each thread stands
    vChecks,       \* the batch of each thread; nNow is its length
    fOk,           \* and the verdict it started that batch with
    fRet,          \* what Wait last returned
    added          \* history: the checks added to the present control object

vars == <<queue, nIdle, nTotal, fAllOk, nTodo, ControlMutex, pc, vChecks, fOk, fRet, added>>

\* out: a master without a control object; control: with one; done: after Wait;
\* enter: in Loop, before the lock; wait: in cond.wait; woken: notified
Places == {"out", "control", "done", "enter", "wait", "woken"}

TypeOK ==
    /\ queue \in Seq(BOOLEAN)
    /\ nIdle \in Nat /\ nTotal \in Nat /\ nTodo \in Nat
    /\ fAllOk \in BOOLEAN /\ fRet \in BOOLEAN
    /\ ControlMutex \in Masters \cup {None}
    /\ pc \in [Threads -> Places]
    /\ vChecks \in [Threads -> Seq(BOOLEAN)]
    /\ fOk \in [Threads -> BOOLEAN]
    /\ added \in Seq(BOOLEAN)

Init ==
    /\ queue = <<>> /\ nIdle = 0 /\ nTotal = 0 /\ fAllOk = TRUE /\ nTodo = 0
    /\ ControlMutex = None
    /\ pc = [t \in Threads |-> IF t \in Workers THEN "enter" ELSE "out"]
    /\ vChecks = [t \in Threads |-> <<>>]
    /\ fOk = [t \in Threads |-> TRUE]
    /\ fRet = TRUE
    /\ added = <<>>

AllTrue(checks) == \A i \in DOMAIN checks : checks[i]

\* What one call of Add may bring: of each check, whether it will succeed.
CheckLists == UNION {[1 .. n -> BOOLEAN] : n \in 0 .. MaxChecks}

-----------------------------------------------------------------------------
(* Loop. *)

\* How many checks a thread takes.
NNow(n, total, idle) == Max({1, Min({nBatchSize, n \div (total + idle + 1)})})

\* Mutant: the status is not reset.
ReturnKeepsStatus(t, total, idle, todo, ok, p) ==
    /\ queue = <<>> /\ t \in Masters /\ todo = 0
    /\ nTotal' = total - 1
    /\ fRet' = ok
    /\ fAllOk' = ok
    /\ pc' = [p EXCEPT ![t] = "done"]
    /\ UNCHANGED queue
    /\ nIdle' = idle
    /\ vChecks' = [vChecks EXCEPT ![t] = <<>>]
    /\ fOk' = [fOk EXCEPT ![t] = TRUE]

\* Mutant: the master stays counted.
ReturnKeepsTotal(t, total, idle, todo, ok, p) ==
    /\ queue = <<>> /\ t \in Masters /\ todo = 0
    /\ nTotal' = total
    /\ fRet' = ok
    /\ fAllOk' = TRUE
    /\ pc' = [p EXCEPT ![t] = "done"]
    /\ UNCHANGED queue
    /\ nIdle' = idle
    /\ vChecks' = [vChecks EXCEPT ![t] = <<>>]
    /\ fOk' = [fOk EXCEPT ![t] = TRUE]

\* The master finds that everything is done.
Return(t, total, idle, todo, ok, p) ==
    /\ queue = <<>> /\ t \in Masters /\ todo = 0
    /\ nTotal' = total - 1
    /\ fRet' = ok
    /\ fAllOk' = TRUE
    /\ pc' = [p EXCEPT ![t] = "done"]
    /\ UNCHANGED queue
    /\ nIdle' = idle
    /\ vChecks' = [vChecks EXCEPT ![t] = <<>>]
    /\ fOk' = [fOk EXCEPT ![t] = TRUE]

\* The thread waits for work, or the master for the end.
Idle(t, total, idle, todo, ok, p) ==
    /\ queue = <<>> /\ ~(t \in Masters /\ todo = 0)
    /\ nTotal' = total
    /\ nIdle' = idle + 1
    /\ fAllOk' = ok
    /\ pc' = [p EXCEPT ![t] = "wait"]
    /\ vChecks' = [vChecks EXCEPT ![t] = <<>>]
    /\ UNCHANGED <<queue, fOk, fRet>>

\* The thread takes a batch from the end of the queue.
Take(t, total, idle, todo, ok, p) ==
    /\ queue # <<>>
    /\ LET n == Len(queue)
           k == NNow(n, total, idle)
       IN  /\ vChecks' = [vChecks EXCEPT ![t] = SubSeq(queue, n - k + 1, n)]
           /\ queue' = SubSeq(queue, 1, n - k)
    /\ fOk' = [fOk EXCEPT ![t] = ok]
    /\ nTotal' = total
    /\ nIdle' = idle
    /\ fAllOk' = ok
    /\ pc' = [p EXCEPT ![t] = "enter"]
    /\ UNCHANGED fRet

\* "logically, the do loop starts here"
LoopBody(t, total, idle, todo, ok, p) ==
    /\ \/ Return(t, total, idle, todo, ok, p)
       \/ Idle(t, total, idle, todo, ok, p)
       \/ Take(t, total, idle, todo, ok, p)
    /\ nTodo' = todo
    /\ UNCHANGED <<ControlMutex, added>>

\* A waiting master is notified on condMaster; at most one is inside.
NotifyMaster == [t \in Threads |-> IF t \in Masters /\ pc[t] = "wait" THEN "woken" ELSE pc[t]]

\* The first iteration.
Enter(t) ==
    /\ pc[t] = "enter" /\ vChecks[t] = <<>>
    /\ LoopBody(t, nTotal + 1, nIdle, nTodo, fAllOk, pc)

\* Mutant: the verdict of the batch replaces the others.
CleanUpOverwrites(t) ==
    /\ pc[t] = "enter" /\ vChecks[t] # <<>>
    /\ LET todo == nTodo - Len(vChecks[t])
       IN  LoopBody(t, nTotal, nIdle, todo, fOk[t] /\ AllTrue(vChecks[t]),
                    IF todo = 0 /\ t \in Workers THEN NotifyMaster ELSE pc)

\* Mutant: the worker that does the last check tells nobody.
CleanUpSilent(t) ==
    /\ pc[t] = "enter" /\ vChecks[t] # <<>>
    /\ LoopBody(t, nTotal, nIdle, nTodo - Len(vChecks[t]),
                fAllOk /\ fOk[t] /\ AllTrue(vChecks[t]), pc)

\* The later ones: the clean-up of the batch first.
CleanUp(t) ==
    /\ pc[t] = "enter" /\ vChecks[t] # <<>>
    /\ LET todo == nTodo - Len(vChecks[t])
       IN  LoopBody(t, nTotal, nIdle, todo, fAllOk /\ fOk[t] /\ AllTrue(vChecks[t]),
                    IF todo = 0 /\ t \in Workers THEN NotifyMaster ELSE pc)

\* cond.wait returns.
Wake(t) ==
    /\ pc[t] = "woken"
    /\ LoopBody(t, nTotal, nIdle - 1, nTodo, fAllOk, pc)

\* It may do so without a notification.
SpuriousWakeup(t) ==
    /\ pc[t] = "wait"
    /\ pc' = [pc EXCEPT ![t] = "woken"]
    /\ UNCHANGED <<queue, nIdle, nTotal, fAllOk, nTodo, ControlMutex, vChecks, fOk, fRet, added>>

-----------------------------------------------------------------------------
(* CCheckQueueControl. *)

\* The constructor waits for ControlMutex.
Control(m) ==
    /\ pc[m] = "out"
    /\ ControlMutex = None
    /\ ControlMutex' = m
    /\ pc' = [pc EXCEPT ![m] = "control"]
    /\ added' = <<>>
    /\ UNCHANGED <<queue, nIdle, nTotal, fAllOk, nTodo, vChecks, fOk, fRet>>

\* One waiting worker is notified of one check, all of them of several.
NotifyWorkers(n) ==
    LET waiting == {w \in Workers : pc[w] = "wait"}
    IN  IF n = 1 /\ waiting # {}
        THEN \E w \in waiting : pc' = [pc EXCEPT ![w] = "woken"]
        ELSE pc' = [t \in Threads |-> IF n > 1 /\ t \in waiting THEN "woken" ELSE pc[t]]

Add(m, checks) ==
    /\ pc[m] = "control"
    /\ Len(added) + Len(checks) <= MaxChecks
    /\ queue' = queue \o checks
    /\ nTodo' = nTodo + Len(checks)
    /\ added' = added \o checks
    /\ NotifyWorkers(Len(checks))
    /\ UNCHANGED <<nIdle, nTotal, fAllOk, ControlMutex, vChecks, fOk, fRet>>

\* The caller asks for the verdict, or an early return of ConnectBlock runs the
\* destructor, which waits as well.
Wait(m) ==
    /\ pc[m] = "control"
    /\ pc' = [pc EXCEPT ![m] = "enter"]
    /\ UNCHANGED <<queue, nIdle, nTotal, fAllOk, nTodo, ControlMutex, vChecks, fOk, fRet, added>>

\* The destructor.
Destroy(m) ==
    /\ pc[m] = "done"
    /\ pc' = [pc EXCEPT ![m] = "out"]
    /\ ControlMutex' = None
    /\ UNCHANGED <<queue, nIdle, nTotal, fAllOk, nTodo, vChecks, fOk, fRet, added>>

-----------------------------------------------------------------------------

Next ==
    \/ \E t \in Threads : Enter(t) \/ CleanUp(t) \/ Wake(t) \/ SpuriousWakeup(t)
    \/ \E m \in Masters : Control(m) \/ Wait(m) \/ Destroy(m)
    \/ \E m \in Masters : \E checks \in CheckLists : Add(m, checks)

\* Every thread that can run is scheduled, and its checks come to an end.  What
\* the caller of the control object does next is up to it.
Fairness == \A t \in Threads : WF_vars(Enter(t) \/ CleanUp(t) \/ Wake(t))

Spec == Init /\ [][Next]_vars /\ Fairness

-----------------------------------------------------------------------------
(* Correctness. *)

\* The counters are what their comments say: nTodo counts the checks that are
\* queued or in some thread's batch, nTotal the threads inside Loop and nIdle
\* those in cond.wait, the master included.
Accounted ==
    /\ TypeOK
    /\ nTodo = Len(queue) + MapThenSumSet(LAMBDA t : Len(vChecks[t]), Threads)
    /\ nIdle = Cardinality({t \in Threads : pc[t] \in {"wait", "woken"}})
    /\ nTotal = Cardinality({t \in Threads : pc[t] \in {"wait", "woken"} \/ vChecks[t] # <<>>})

\* Wait returns whether every check added to the control object succeeded, no
\* matter who ran it, in which order and batches, and who gave up early.
VerdictRight ==
    \A m \in Masters : pc[m] = "done" => fRet = AllTrue(added)

\* Nothing of a block is left for the next one: when no control object exists,
\* no check is queued or running and the status is reset.
CleanBetween ==
    ControlMutex = None =>
        /\ queue = <<>> /\ nTodo = 0 /\ fAllOk
        /\ \A t \in Threads : vChecks[t] = <<>>

\* The master comes back from Wait: a worker that ends the last check wakes it
\* up, and checks queued while every worker is busy or asleep are not forgotten.
WaitReturns ==
    \A m \in Masters : ControlMutex = m /\ pc[m] \in {"enter", "wait", "woken"} ~> pc[m] = "done"
=============================================================================
