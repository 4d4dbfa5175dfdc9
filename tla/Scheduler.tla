----------------------------- MODULE Scheduler -----------------------------
(***************************************************************************)
(* The task scheduler and the queue of validation callbacks on top of it   *)
(* (src/scheduler.cpp), as used by src/validationinterface.cpp and ended   *)
(* by Shutdown (src/init.cpp).                                             *)
(*                                                                         *)
(* A step is a critical section of newTaskMutex or m_cs_callbacks_pending, *)
(* a notification, or the call of a callback.  The tasks are the calls of  *)
(* ProcessQueue, all alike, so that taskQueue is their number; when a      *)
(* task is due is left open.  Callbacks are numbered as they are added.    *)
(***************************************************************************)
EXTENDS Integers, Sequences, Functions, FiniteSets

CONSTANTS
    Threads,   \* the threads in serviceQueue
    Callers,   \* the threads that add callbacks
    Group,     \* those of them in threadGroup: ThreadImport
    Main,      \* the thread that runs Shutdown
    StopKinds, \* the values of drain that stop may be called with
    SyncAbove, \* how many pending callbacks make ActivateBestChain wait (10)
    MaxPosts   \* bound: the callbacks that the callers add

ASSUME SchedulerAssumption ==
    /\ Group \subseteq Callers /\ StopKinds \subseteq BOOLEAN /\ MaxPosts \in Nat /\ SyncAbove \in Nat
    /\ Threads \cap Callers = {} /\ Main \notin Threads \cup Callers /\ IsFiniteSet(Threads)

Actors == Threads \cup Callers \cup {Main}

VARIABLES
    taskQueue, stopRequested, stopWhenEmpty, nThreadsServicingQueue,
    interrupted,          \* the threads that interrupt_all has marked
    m_callbacks_pending, m_are_callbacks_running,
    pc,                   \* where each thread stands
    callback,             \* the callback a thread runs, or 0
    promise,              \* the callback a caller waits for, or 0
    posted, delivered     \* history: how many were added, and which were run

vars == <<taskQueue, stopRequested, stopWhenEmpty, nThreadsServicingQueue, interrupted,
          m_callbacks_pending, m_are_callbacks_running, pc, callback, promise,
          posted, delivered>>

schedulerVars == <<taskQueue, stopRequested, stopWhenEmpty, nThreadsServicingQueue, interrupted>>
clientVars == <<m_callbacks_pending, m_are_callbacks_running>>
history == <<posted, delivered>>

\* serviceQueue: start, loop, seed (RandAddSeedSleep, or woken from wait), wait,
\* timed (wait_until), retimed (woken from it), gone.  The client: process,
\* callback, clear, maybe, schedule, notify.  A caller: idle, sync, gone.
\* Shutdown: idle, join, flush, empty, gone.
Places == {"start", "loop", "seed", "wait", "timed", "retimed", "gone", "process", "callback",
           "clear", "maybe", "schedule", "notify", "idle", "sync", "join", "flush", "empty"}
Servicing == Places \ {"start", "gone"}

TypeOK ==
    /\ taskQueue \in Nat /\ nThreadsServicingQueue \in Nat
    /\ stopRequested \in BOOLEAN /\ stopWhenEmpty \in BOOLEAN
    /\ interrupted \subseteq Threads \cup Group
    /\ m_callbacks_pending \in Seq(1 .. posted)
    /\ m_are_callbacks_running \in BOOLEAN
    /\ pc \in [Actors -> Places]
    /\ callback \in [Actors -> 0 .. posted]
    /\ promise \in [Callers -> 0 .. posted]
    /\ posted \in Nat /\ delivered \in Seq(1 .. posted)

Init ==
    /\ taskQueue = 0 /\ nThreadsServicingQueue = 0
    /\ stopRequested = FALSE /\ stopWhenEmpty = FALSE /\ interrupted = {}
    /\ m_callbacks_pending = <<>> /\ m_are_callbacks_running = FALSE
    /\ pc = [a \in Actors |-> IF a \in Threads THEN "start" ELSE "idle"]
    /\ callback = [a \in Actors |-> 0]
    /\ promise = [c \in Callers |-> 0]
    /\ posted = 0 /\ delivered = <<>>

shouldStop == stopRequested \/ (stopWhenEmpty /\ taskQueue = 0)

\* Where a thread that waits on newTaskScheduled goes when it is notified.
Woken(place) == IF place = "wait" THEN "seed" ELSE "retimed"

\* p: the places after one waiting thread, if there is one, was notified.
NotifyOne(p) ==
    LET waiting == {t \in Threads : p[t] \in {"wait", "timed"}}
    IN  IF waiting = {} THEN {p} ELSE {[p EXCEPT ![t] = Woken(p[t])] : t \in waiting}

NotifyAll(p) == [a \in Actors |-> IF p[a] \in {"wait", "timed"} THEN Woken(p[a]) ELSE p[a]]

-----------------------------------------------------------------------------
(* CScheduler. *)

serviceQueue(t) ==
    /\ pc[t] = "start"
    /\ nThreadsServicingQueue' = nThreadsServicingQueue + 1
    /\ pc' = [pc EXCEPT ![t] = "loop"]
    /\ UNCHANGED <<taskQueue, stopRequested, stopWhenEmpty, interrupted, clientVars,
                   callback, promise, history>>

\* A wait is an interruption point: thread_interrupted leaves serviceQueue.
WaitAt(t, place) ==
    IF t \in interrupted
    THEN /\ nThreadsServicingQueue' = nThreadsServicingQueue - 1
         /\ pc' = [pc EXCEPT ![t] = "gone"]
    ELSE /\ pc' = [pc EXCEPT ![t] = place]
         /\ UNCHANGED nThreadsServicingQueue

\* The head of the loop.  A thread that leaves notifies another one.
Loop(t) ==
    /\ pc[t] = "loop"
    /\ \/ /\ shouldStop
          /\ nThreadsServicingQueue' = nThreadsServicingQueue - 1
          /\ pc' \in NotifyOne([pc EXCEPT ![t] = "gone"])
       \/ /\ ~shouldStop /\ taskQueue = 0
          /\ pc' = [pc EXCEPT ![t] = "seed"]
          /\ UNCHANGED nThreadsServicingQueue
       \/ /\ ~shouldStop /\ taskQueue > 0
          /\ WaitAt(t, "timed")
    /\ UNCHANGED <<taskQueue, stopRequested, stopWhenEmpty, interrupted, clientVars,
                   callback, promise, history>>

\* while (!shouldStop() && taskQueue.empty()) wait, and on to wait_until.
Empty(t) ==
    /\ pc[t] = "seed"
    /\ IF shouldStop
       THEN pc' = [pc EXCEPT ![t] = "loop"] /\ UNCHANGED nThreadsServicingQueue
       ELSE WaitAt(t, IF taskQueue = 0 THEN "wait" ELSE "timed")
    /\ UNCHANGED <<taskQueue, stopRequested, stopWhenEmpty, interrupted, clientVars,
                   callback, promise, history>>

\* Woken from wait_until before the time.
Retimed(t) ==
    /\ pc[t] = "retimed"
    /\ IF shouldStop \/ taskQueue = 0
       THEN pc' = [pc EXCEPT ![t] = "loop"] /\ UNCHANGED nThreadsServicingQueue
       ELSE WaitAt(t, "timed")
    /\ UNCHANGED <<taskQueue, stopRequested, stopWhenEmpty, interrupted, clientVars,
                   callback, promise, history>>

\* The time of the first task has come; another thread may have taken it.
Timeout(t) ==
    /\ pc[t] = "timed"
    /\ IF shouldStop \/ taskQueue = 0
       THEN pc' = [pc EXCEPT ![t] = "loop"] /\ UNCHANGED taskQueue
       ELSE pc' = [pc EXCEPT ![t] = "process"] /\ taskQueue' = taskQueue - 1
    /\ UNCHANGED <<stopRequested, stopWhenEmpty, nThreadsServicingQueue, interrupted,
                   clientVars, callback, promise, history>>

SpuriousWakeup(t) ==
    /\ pc[t] \in {"wait", "timed"}
    /\ pc' = [pc EXCEPT ![t] = Woken(pc[t])]
    /\ UNCHANGED <<schedulerVars, clientVars, callback, promise, history>>

\* A waiting thread is interrupted.
Interrupted(t) ==
    /\ t \in interrupted
    /\ pc[t] \in {"wait", "timed"}
    /\ pc' = [pc EXCEPT ![t] = "gone"]
    /\ nThreadsServicingQueue' = nThreadsServicingQueue - 1
    /\ UNCHANGED <<taskQueue, stopRequested, stopWhenEmpty, interrupted, clientVars,
                   callback, promise, history>>

\* Mutant: the waiting threads are not notified.
stopSilent(drain) ==
    /\ ~stopRequested /\ ~stopWhenEmpty
    /\ stopWhenEmpty' = drain
    /\ stopRequested' = ~drain
    /\ UNCHANGED <<taskQueue, nThreadsServicingQueue, interrupted, clientVars, pc,
                   callback, promise, history>>

stop(drain) ==
    /\ ~stopRequested /\ ~stopWhenEmpty
    /\ stopWhenEmpty' = drain
    /\ stopRequested' = ~drain
    /\ pc' = NotifyAll(pc)
    /\ UNCHANGED <<taskQueue, nThreadsServicingQueue, interrupted, clientVars, callback,
                   promise, history>>

-----------------------------------------------------------------------------
(* SingleThreadedSchedulerClient. *)

\* Where a thread goes when it is done with the client.
Back(a) ==
    CASE a \in Threads -> "loop"
      [] a \in Callers -> IF promise[a] # 0 THEN "sync" ELSE "idle"
      [] a = Main -> "empty"

\* Mutant: a callback may be started while another one runs.
ProcessQueueUnchecked(a) ==
    /\ pc[a] = "process"
    /\ IF m_callbacks_pending = <<>>
       THEN /\ pc' = [pc EXCEPT ![a] = Back(a)]
            /\ UNCHANGED <<clientVars, callback>>
       ELSE /\ m_are_callbacks_running' = TRUE
            /\ callback' = [callback EXCEPT ![a] = Head(m_callbacks_pending)]
            /\ m_callbacks_pending' = Tail(m_callbacks_pending)
            /\ pc' = [pc EXCEPT ![a] = "callback"]
    /\ UNCHANGED <<schedulerVars, promise, history>>

ProcessQueue(a) ==
    /\ pc[a] = "process"
    /\ IF m_are_callbacks_running \/ m_callbacks_pending = <<>>
       THEN /\ pc' = [pc EXCEPT ![a] = Back(a)]
            /\ UNCHANGED <<clientVars, callback>>
       ELSE /\ m_are_callbacks_running' = TRUE
            /\ callback' = [callback EXCEPT ![a] = Head(m_callbacks_pending)]
            /\ m_callbacks_pending' = Tail(m_callbacks_pending)
            /\ pc' = [pc EXCEPT ![a] = "callback"]
    /\ UNCHANGED <<schedulerVars, promise, history>>

Call(a) ==
    /\ pc[a] = "callback"
    /\ delivered' = Append(delivered, callback[a])
    /\ callback' = [callback EXCEPT ![a] = 0]
    /\ pc' = [pc EXCEPT ![a] = "clear"]
    /\ UNCHANGED <<schedulerVars, clientVars, promise, posted>>

\* Mutant: the rest of the queue is not scheduled again.
ClearForgets(a) ==
    /\ pc[a] = "clear"
    /\ m_are_callbacks_running' = FALSE
    /\ pc' = [pc EXCEPT ![a] = Back(a)]
    /\ UNCHANGED <<schedulerVars, m_callbacks_pending, callback, promise, history>>

\* Mutant: the flag is not reset.
ClearKeepsFlag(a) ==
    /\ pc[a] = "clear"
    /\ pc' = [pc EXCEPT ![a] = "maybe"]
    /\ UNCHANGED <<schedulerVars, clientVars, callback, promise, history>>

\* ~RAIICallbacksRunning
Clear(a) ==
    /\ pc[a] = "clear"
    /\ m_are_callbacks_running' = FALSE
    /\ pc' = [pc EXCEPT ![a] = "maybe"]
    /\ UNCHANGED <<schedulerVars, m_callbacks_pending, callback, promise, history>>

MaybeScheduleProcessQueue(a) ==
    /\ pc[a] = "maybe"
    /\ pc' = [pc EXCEPT ![a] = IF m_are_callbacks_running \/ m_callbacks_pending = <<>>
                               THEN Back(a) ELSE "schedule"]
    /\ UNCHANGED <<schedulerVars, clientVars, callback, promise, history>>

schedule(a) ==
    /\ pc[a] = "schedule"
    /\ taskQueue' = taskQueue + 1
    /\ pc' = [pc EXCEPT ![a] = "notify"]
    /\ UNCHANGED <<stopRequested, stopWhenEmpty, nThreadsServicingQueue, interrupted,
                   clientVars, callback, promise, history>>

Notify(a) ==
    /\ pc[a] = "notify"
    /\ pc' \in NotifyOne([pc EXCEPT ![a] = Back(a)])
    /\ UNCHANGED <<schedulerVars, clientVars, callback, promise, history>>

\* Mutant: the callback goes to the front.
EnqueueFirst(a) ==
    /\ m_callbacks_pending' = <<posted + 1>> \o m_callbacks_pending
    /\ posted' = posted + 1
    /\ pc' = [pc EXCEPT ![a] = "maybe"]
    /\ UNCHANGED <<schedulerVars, m_are_callbacks_running, callback, delivered>>

\* AddToProcessQueue, up to MaybeScheduleProcessQueue.
Enqueue(a) ==
    /\ m_callbacks_pending' = Append(m_callbacks_pending, posted + 1)
    /\ posted' = posted + 1
    /\ pc' = [pc EXCEPT ![a] = "maybe"]
    /\ UNCHANGED <<schedulerVars, m_are_callbacks_running, callback, delivered>>

-----------------------------------------------------------------------------
(* The callers: a signal of CMainSignals, and waiting for the queue. *)

AddToProcessQueue(c) ==
    /\ pc[c] = "idle"
    /\ posted < MaxPosts
    /\ Enqueue(c)
    /\ UNCHANGED promise

\* ThreadImport comes here from ActivateBestChain, past an interruption point.
SyncWithValidationInterfaceQueue(c) ==
    /\ pc[c] = "idle" /\ c \notin interrupted
    /\ c \in Group => Len(m_callbacks_pending) > SyncAbove
    /\ posted < MaxPosts
    /\ Enqueue(c)
    /\ promise' = [promise EXCEPT ![c] = posted + 1]

\* promise.get_future().wait() is no interruption point.
Wait(c) ==
    /\ pc[c] = "sync"
    /\ promise[c] \in Range(delivered)
    /\ promise' = [promise EXCEPT ![c] = 0]
    /\ pc' = [pc EXCEPT ![c] = "idle"]
    /\ UNCHANGED <<schedulerVars, clientVars, callback, history>>

-----------------------------------------------------------------------------
(* Shutdown. *)

\* The other callers have been stopped when the thread group is interrupted.
interrupt_all ==
    /\ pc[Main] = "idle"
    /\ \A c \in Callers \ Group : pc[c] = "idle"
    /\ interrupted' = Threads \cup Group
    /\ pc' = [a \in Actors |-> IF a = Main THEN "join"
                               ELSE IF a \in Callers \ Group THEN "gone" ELSE pc[a]]
    /\ UNCHANGED <<taskQueue, stopRequested, stopWhenEmpty, nThreadsServicingQueue,
                   clientVars, callback, promise, history>>

\* ThreadImport comes to an interruption point or to its end.
ImportEnds(c) ==
    /\ c \in interrupted
    /\ pc[c] = "idle"
    /\ pc' = [pc EXCEPT ![c] = "gone"]
    /\ UNCHANGED <<schedulerVars, clientVars, callback, promise, history>>

join_all ==
    /\ pc[Main] = "join"
    /\ \A a \in Threads \cup Group : pc[a] = "gone"
    /\ pc' = [pc EXCEPT ![Main] = "flush"]
    /\ UNCHANGED <<schedulerVars, clientVars, callback, promise, history>>

\* FlushStateToDisk adds ChainStateFlushed.
ChainStateFlushed ==
    /\ pc[Main] = "flush"
    /\ Enqueue(Main)
    /\ UNCHANGED promise

\* Mutant: the last callback is left.
EmptyQueueShort ==
    /\ pc[Main] = "empty"
    /\ pc' = [pc EXCEPT ![Main] = IF Len(m_callbacks_pending) > 1 THEN "process" ELSE "gone"]
    /\ UNCHANGED <<schedulerVars, clientVars, callback, promise, history>>

\* One round of the loop; the queue is not empty in the first one.
EmptyQueue ==
    /\ pc[Main] = "empty"
    /\ pc' = [pc EXCEPT ![Main] = IF m_callbacks_pending # <<>> THEN "process" ELSE "gone"]
    /\ UNCHANGED <<schedulerVars, clientVars, callback, promise, history>>

-----------------------------------------------------------------------------

ClientStep(a) ==
    \/ ProcessQueue(a) \/ Call(a) \/ Clear(a)
    \/ MaybeScheduleProcessQueue(a) \/ schedule(a) \/ Notify(a)

ThreadStep(t) ==
    \/ serviceQueue(t) \/ Loop(t) \/ Empty(t) \/ Retimed(t) \/ Timeout(t) \/ Interrupted(t)

Next ==
    \/ \E a \in Actors :
          \/ ProcessQueue(a) \/ Call(a) \/ Clear(a)
          \/ MaybeScheduleProcessQueue(a) \/ schedule(a) \/ Notify(a)
    \/ \E t \in Threads :
          \/ serviceQueue(t) \/ Loop(t) \/ Empty(t) \/ Retimed(t) \/ Timeout(t)
          \/ Interrupted(t) \/ SpuriousWakeup(t)
    \/ \E drain \in StopKinds : stop(drain)
    \/ \E c \in Callers :
          AddToProcessQueue(c) \/ SyncWithValidationInterfaceQueue(c) \/ Wait(c) \/ ImportEnds(c)
    \/ interrupt_all \/ join_all \/ ChainStateFlushed \/ EmptyQueue

\* Threads are scheduled, time passes, whatever wakes a thread up before (once
\* the task is due wait_until returns timeout), and an interrupted ThreadImport comes to
\* its next interruption point.  Nobody has to call anything, but Shutdown goes
\* on once it has begun.
Fairness ==
    /\ \A a \in Actors : WF_vars(ClientStep(a))
    /\ \A t \in Threads : WF_vars(ThreadStep(t)) /\ SF_vars(Timeout(t))
    /\ \A c \in Callers : WF_vars(Wait(c) \/ ImportEnds(c))
    /\ WF_vars(join_all \/ ChainStateFlushed \/ EmptyQueue)

Spec == Init /\ [][Next]_vars /\ Fairness

-----------------------------------------------------------------------------
(* Correctness. *)

\* The callbacks run one at a time and in the order in which they were added,
\* by however many threads of the scheduler and by EmptyQueue.
Queue == INSTANCE CallbackQueue WITH
    running <- IF \E a \in Actors : callback[a] # 0
               THEN callback[CHOOSE a \in Actors : callback[a] # 0] ELSE 0
RefinesCallbackQueue == Queue!Spec

\* "guaranteeing any callbacks generated prior to now are finished when the
\* function is called": who comes back from SyncWithValidationInterfaceQueue
\* finds all of them done.
SyncAfterAll ==
    [][\A c \in Callers :
          pc[c] = "sync" /\ pc'[c] = "idle" => \A i \in 1 .. promise[c] : i \in Range(delivered)]_vars

\* nThreadsServicingQueue counts the threads inside serviceQueue, also those
\* that leave it by an exception, and so the assertion of EmptyQueue holds.
ServicingCounted ==
    /\ TypeOK
    /\ nThreadsServicingQueue = Cardinality({t \in Threads : pc[t] \in Servicing})
    /\ pc[Main] = "empty" => nThreadsServicingQueue = 0

\* No callback is dropped: when Shutdown has emptied the queue, all were run.
Flushed == pc[Main] = "gone" => Range(delivered) = 1 .. posted

\* EmptyQueue is called when no thread services the queue any more, as it
\* asserts, and leaves nothing behind.
EmptyQueueRight == ServicingCounted /\ Flushed

\* A callback that is added is run unless the scheduler is stopped, although
\* MaybeScheduleProcessQueue does nothing while another one runs.
Delivered ==
    \A i \in 1 .. MaxPosts :
        posted >= i ~> (i \in Range(delivered) \/ stopRequested \/ stopWhenEmpty)

\* Shutdown comes to its end once it has interrupted the thread group.
ShutdownCompletes == pc[Main] = "join" ~> pc[Main] = "gone"

\* After stop all threads leave serviceQueue, at once or when the queue is empty.
ThreadsStop == (stopRequested \/ stopWhenEmpty) ~> \A t \in Threads : pc[t] = "gone"
=============================================================================
