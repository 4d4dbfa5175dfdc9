-------------------------- MODULE SchedulerProofs --------------------------
(***************************************************************************)
(* Proofs about Scheduler, for any number of scheduler threads, callers    *)
(* and callbacks: callbacks run one at a time and in the order in which    *)
(* they were added, who waits for the queue finds everything before done,  *)
(* and Shutdown empties the queue with nobody else in it.                  *)
(***************************************************************************)
EXTENDS Scheduler, FiniteSetTheorems, TLAPS

Serving == {t \in Threads : pc[t] \in Servicing}

\* A thread is between taking a callback and ~RAIICallbacksRunning.
InCallback(place) == place \in {"callback", "clear"}

\* How many callbacks were taken from the queue.
Taken == IF \E a \in Actors : pc[a] = "callback" THEN Len(delivered) + 1 ELSE Len(delivered)

TypeInv ==
    /\ taskQueue \in Nat
    /\ stopRequested \in BOOLEAN /\ stopWhenEmpty \in BOOLEAN /\ m_are_callbacks_running \in BOOLEAN
    /\ interrupted \subseteq Threads \cup Group
    /\ m_callbacks_pending \in Seq(Nat) /\ delivered \in Seq(Nat) /\ posted \in Nat
    /\ pc \in [Actors -> Places] /\ callback \in [Actors -> Nat]
    /\ promise \in [Callers -> 0 .. posted]

ServiceInv == nThreadsServicingQueue = Cardinality(Serving)

\* One thread at most runs a callback, with m_are_callbacks_running set, and it
\* is the one after the last that was run.
RunInv ==
    /\ \A a \in Actors : InCallback(pc[a]) => m_are_callbacks_running = TRUE
    /\ \A a, b \in Actors : InCallback(pc[a]) /\ InCallback(pc[b]) => a = b
    /\ \A a \in Actors : callback[a] = IF pc[a] = "callback" THEN Len(delivered) + 1 ELSE 0

\* What was run, what is taken and what is pending are the callbacks in the
\* order of their numbers.
OrderInv ==
    /\ \A i \in 1 .. Len(delivered) : delivered[i] = i
    /\ posted = Taken + Len(m_callbacks_pending)
    /\ \A i \in 1 .. Len(m_callbacks_pending) : m_callbacks_pending[i] = Taken + i

\* Shutdown goes past join_all when all the others are gone.
ShutdownInv ==
    /\ pc[Main] \notin {"idle", "join"} => \A a \in Threads \cup Callers : pc[a] = "gone"
    /\ pc[Main] = "join" => \A c \in Callers \ Group : pc[c] = "gone"
    /\ pc[Main] = "gone" => m_callbacks_pending = <<>>

IInv == TypeInv /\ ServiceInv /\ RunInv /\ OrderInv /\ ShutdownInv

-----------------------------------------------------------------------------
(* The parts of a step. *)

\* Actor a goes to a place, and others may be woken by a notification.
Moves(a, place) ==
    /\ pc' \in [Actors -> Places]
    /\ pc'[a] = place
    /\ \A b \in Actors \ {a} : pc'[b] = pc[b] \/ (pc[b] \in {"wait", "timed"} /\ pc'[b] \in {"seed", "retimed"})

\* Nothing changes for the callbacks: nobody starts or ends one.
Quiet ==
    /\ \A b \in Actors : InCallback(pc[b]) \/ InCallback(pc'[b]) => pc'[b] = pc[b]
    /\ UNCHANGED <<m_callbacks_pending, m_are_callbacks_running, callback, posted, delivered>>

\* Who is who: scheduler threads, callers and the main thread are different.
LEMMA ActorsAre ==
  /\ Threads \subseteq Actors /\ Callers \subseteq Actors /\ Main \in Actors
  /\ Main \notin Threads /\ Main \notin Callers
  /\ \A a \in Actors : a # Main => a \in Threads \cup Callers
  /\ \A t \in Threads : t \notin Callers
BY SchedulerAssumption DEF Actors

\* Where the client leaves a thread: in the loop, at the caller, in EmptyQueue.
LEMMA BackIs ==
  ASSUME NEW a \in Actors
  PROVE  /\ a \in Threads => Back(a) = "loop"
         /\ a \in Callers => Back(a) \in {"sync", "idle"}
         /\ a = Main => Back(a) = "empty"
         /\ Back(a) \in {"loop", "sync", "idle", "empty"}
<1>1. a \in Threads => Back(a) = "loop"
  BY ActorsAre DEF Back
<1>2. a \in Callers => Back(a) \in {"sync", "idle"}
  BY ActorsAre DEF Back
<1>3. a = Main => Back(a) = "empty"
  BY ActorsAre DEF Back
<1> QED BY <1>1, <1>2, <1>3, ActorsAre

\* An assignment of the actor's own place is a move.
LEMMA MovesBy ==
  ASSUME TypeInv, NEW a \in Actors, NEW place \in Places, pc' = [pc EXCEPT ![a] = place]
  PROVE  Moves(a, place)
BY DEF Moves, TypeInv

\* So is one with the notification of a waiting thread.
LEMMA MovesNotify ==
  ASSUME TypeInv, NEW a \in Actors, NEW place \in Places \ {"wait", "timed"},
         pc' \in NotifyOne([pc EXCEPT ![a] = place])
  PROVE  Moves(a, place)
<1> DEFINE p == [pc EXCEPT ![a] = place]
<1>1. p \in [Actors -> Places] /\ p[a] = place /\ \A b \in Actors \ {a} : p[b] = pc[b]
  BY DEF TypeInv
<1>2. pc' \in NotifyOne(p)
  OBVIOUS
<1> HIDE DEF p
<1>3. pc' = p \/ \E t \in Threads : p[t] \in {"wait", "timed"} /\ pc' = [p EXCEPT ![t] = Woken(p[t])]
  BY <1>2 DEF NotifyOne
<1>4. CASE pc' = p
  BY <1>1, <1>4 DEF Moves
<1>5. ASSUME NEW t \in Threads, p[t] \in {"wait", "timed"}, pc' = [p EXCEPT ![t] = Woken(p[t])]
      PROVE  Moves(a, place)
  <2>1. t \in Actors /\ t # a /\ Woken(p[t]) \in {"seed", "retimed"}
    BY <1>1, <1>5, ActorsAre DEF Woken
  <2> QED BY <1>1, <1>5, <2>1 DEF Moves, Places
<1> QED BY <1>3, <1>4, <1>5

\* A move inside serviceQueue, or of another actor, leaves the number of the
\* threads in serviceQueue alone.
LEMMA ServeStep ==
  ASSUME TypeInv, ServiceInv, NEW a \in Actors, NEW place, Moves(a, place),
         a \in Threads => pc[a] \in Servicing /\ place \in Servicing,
         UNCHANGED nThreadsServicingQueue
  PROVE  ServiceInv'
<1>1. Serving' = Serving
  BY ActorsAre DEF Serving, Moves, Servicing, Places
<1> QED BY <1>1 DEF ServiceInv

\* A thread that leaves serviceQueue is counted no more.
LEMMA LeaveStep ==
  ASSUME TypeInv, ServiceInv, NEW t \in Threads, Moves(t, "gone"), pc[t] \in Servicing,
         nThreadsServicingQueue' = nThreadsServicingQueue - 1
  PROVE  ServiceInv'
<1>1. Serving' = Serving \ {t} /\ t \in Serving
  BY ActorsAre DEF Serving, Moves, Servicing, Places
<1>2. IsFiniteSet(Serving)
  BY SchedulerAssumption, FS_Subset DEF Serving
<1> QED BY <1>1, <1>2, FS_RemoveElement DEF ServiceInv

\* Only Main moves once it is past join_all.
LEMMA ShutdownStep ==
  ASSUME TypeInv, ShutdownInv, NEW a \in Actors, NEW place, Moves(a, place), pc[a] # "gone",
         a = Main => /\ pc[Main] \notin {"idle", "join"} /\ place \notin {"idle", "join"}
                     /\ place = "gone" => m_callbacks_pending' = <<>>
  PROVE  ShutdownInv'
<1>1. CASE a = Main
  BY <1>1, ActorsAre DEF ShutdownInv, Moves
<1>2. CASE a # Main
  <2>1. pc[Main] \in {"idle", "join"} /\ pc'[Main] = pc[Main]
    BY <1>2, ActorsAre DEF ShutdownInv, Moves
  <2>2. pc[Main] = "join" => \A c \in Callers \ Group : pc'[c] = "gone"
    BY <1>2, ActorsAre DEF ShutdownInv, Moves
  <2> QED BY <2>1, <2>2 DEF ShutdownInv
<1> QED BY <1>1, <1>2

\* Without a start or an end of a callback what is running and in which order
\* stays as it is.
LEMMA QuietStep ==
  ASSUME RunInv, OrderInv, Quiet
  PROVE  RunInv' /\ OrderInv' /\ Taken' = Taken
<1>1. \A b \in Actors : /\ InCallback(pc'[b]) <=> InCallback(pc[b])
                        /\ pc'[b] = "callback" <=> pc[b] = "callback"
  BY DEF Quiet, InCallback
<1>2. Taken' = Taken
  BY <1>1 DEF Taken, Quiet
<1>3. RunInv'
  BY <1>1 DEF RunInv, Quiet
<1>4. OrderInv'
  BY <1>2 DEF OrderInv, Quiet
<1> QED BY <1>2, <1>3, <1>4

\* A move to and from a place outside a callback starts and ends none.
LEMMA QuietBy ==
  ASSUME NEW a \in Actors, NEW place, Moves(a, place), ~InCallback(pc[a]), ~InCallback(place),
         UNCHANGED <<m_callbacks_pending, m_are_callbacks_running, callback, posted, delivered>>
  PROVE  Quiet
BY DEF Quiet, Moves, InCallback

\* What all steps inside serviceQueue and the client keep that are not about a
\* callback itself.
LEMMA PlaceStep ==
  ASSUME IInv, NEW a \in Actors, NEW place, Moves(a, place),
         pc[a] \notin {"gone", "start", "callback", "clear"},
         place \notin {"gone", "start", "callback", "clear"},
         a = Main => pc[Main] \notin {"idle", "join"} /\ place \notin {"idle", "join"},
         taskQueue' \in Nat, promise' \in [Callers -> 0 .. posted],
         UNCHANGED <<stopRequested, stopWhenEmpty, nThreadsServicingQueue, interrupted, clientVars,
                     callback, history>>
  PROVE  IInv'
<1>1. TypeInv /\ ServiceInv /\ RunInv /\ OrderInv /\ ShutdownInv
  BY DEF IInv
<1>2. place \in Places
  BY DEF Moves
<1>3. a \in Threads => pc[a] \in Servicing /\ place \in Servicing
  BY <1>1, <1>2, ActorsAre DEF Servicing, TypeInv
<1>4. Quiet
  BY QuietBy DEF InCallback, clientVars, history
<1>5. RunInv' /\ OrderInv'
  BY <1>1, <1>4, QuietStep
<1>6. ServiceInv'
  BY <1>1, <1>3, ServeStep
<1>7. ShutdownInv'
  BY <1>1, ShutdownStep
<1>8. TypeInv'
  BY <1>1 DEF TypeInv, Moves, clientVars, history
<1> QED BY <1>5, <1>6, <1>7, <1>8 DEF IInv

\* A thread leaves serviceQueue, at a stop or by an exception.
LEMMA GoneStep ==
  ASSUME IInv, NEW t \in Threads, Moves(t, "gone"), pc[t] \in Servicing \ {"callback", "clear"},
         nThreadsServicingQueue' = nThreadsServicingQueue - 1,
         UNCHANGED <<taskQueue, stopRequested, stopWhenEmpty, interrupted, clientVars,
                     callback, promise, history>>
  PROVE  IInv'
<1>1. TypeInv /\ ServiceInv /\ RunInv /\ OrderInv /\ ShutdownInv
  BY DEF IInv
<1>2. t \in Actors /\ t # Main /\ pc[t] # "gone"
  BY ActorsAre DEF Servicing
<1>3. Quiet
  BY <1>2, QuietBy DEF InCallback, clientVars, history
<1>4. RunInv' /\ OrderInv'
  BY <1>1, <1>3, QuietStep
<1>5. ServiceInv'
  BY <1>1, LeaveStep
<1>6. ShutdownInv'
  BY <1>1, <1>2, ShutdownStep
<1>7. TypeInv'
  BY <1>1 DEF TypeInv, Moves, clientVars, history
<1> QED BY <1>4, <1>5, <1>6, <1>7 DEF IInv

-----------------------------------------------------------------------------
(* CScheduler. *)

\* A thread comes into serviceQueue and is counted.
LEMMA serviceQueueStep ==
  ASSUME IInv, NEW t \in Threads, serviceQueue(t)
  PROVE  IInv'
<1>1. TypeInv /\ ServiceInv /\ RunInv /\ OrderInv /\ ShutdownInv /\ pc[t] = "start"
  BY DEF IInv, serviceQueue
<1>2. t \in Actors /\ t # Main
  BY SMTT(30), ActorsAre
<1>3. Moves(t, "loop")
  BY Zenon, <1>1, <1>2, MovesBy DEF serviceQueue, Places
<1>4. Quiet
  BY <1>1, <1>2, <1>3, QuietBy DEF InCallback, clientVars, history, serviceQueue
<1>5. RunInv' /\ OrderInv'
  BY <1>1, <1>4, QuietStep
<1>6. ServiceInv'
  <2>1. Serving' = Serving \cup {t} /\ t \notin Serving
    BY <1>1, <1>2, <1>3, ActorsAre DEF Serving, Moves, Servicing, Places
  <2>2. IsFiniteSet(Serving)
    BY SchedulerAssumption, FS_Subset DEF Serving
  <2>3. Cardinality(Serving') = Cardinality(Serving) + 1
    BY Zenon, <2>1, <2>2, FS_AddElement
  <2> QED BY <1>1, <2>3 DEF ServiceInv, serviceQueue
<1>7. ShutdownInv'
  BY <1>1, <1>2, <1>3, ShutdownStep
<1>8. TypeInv'
  BY <1>1, <1>3 DEF TypeInv, Moves, clientVars, history, serviceQueue
<1> QED BY <1>5, <1>6, <1>7, <1>8 DEF IInv

\* A wait, or the exception in its place.
LEMMA WaitAtStep ==
  ASSUME IInv, NEW t \in Threads, NEW place \in {"wait", "timed"}, WaitAt(t, place),
         pc[t] \in {"loop", "seed", "retimed"},
         UNCHANGED <<taskQueue, stopRequested, stopWhenEmpty, interrupted, clientVars,
                     callback, promise, history>>
  PROVE  IInv'
<1>1. TypeInv /\ t \in Actors /\ t # Main
  BY ActorsAre DEF IInv
<1>2. CASE t \in interrupted
  <2>1. Moves(t, "gone") /\ nThreadsServicingQueue' = nThreadsServicingQueue - 1
    BY <1>1, <1>2, MovesBy DEF WaitAt, Places
  <2>2. pc[t] \in Servicing \ {"callback", "clear"}
    BY DEF Servicing, Places
  <2> QED BY <2>1, <2>2, GoneStep
<1>3. CASE t \notin interrupted
  <2>1. Moves(t, place) /\ UNCHANGED nThreadsServicingQueue
    BY <1>1, <1>3, MovesBy DEF WaitAt, Places
  <2>2. taskQueue' \in Nat /\ promise' \in [Callers -> 0 .. posted]
    BY <1>1 DEF TypeInv
  <2> QED BY <1>1, <2>1, <2>2, PlaceStep
<1> QED BY <1>2, <1>3

\* A thread goes on without leaving serviceQueue.
LEMMA GoOnStep ==
  ASSUME IInv, NEW t \in Threads,
         NEW place \in Places \ {"gone", "start", "callback", "clear"},
         pc' = [pc EXCEPT ![t] = place],
         pc[t] \notin {"gone", "start", "callback", "clear"}, taskQueue' \in Nat,
         UNCHANGED <<stopRequested, stopWhenEmpty, nThreadsServicingQueue, interrupted, clientVars,
                     callback, promise, history>>
  PROVE  IInv'
<1>1. TypeInv /\ t \in Actors /\ t # Main
  BY ActorsAre DEF IInv
<1>2. Moves(t, place)
  BY Zenon, <1>1, MovesBy
<1>3. promise' \in [Callers -> 0 .. posted]
  BY <1>1 DEF TypeInv
<1> QED BY <1>1, <1>2, <1>3, PlaceStep

\* The head of the loop.
LEMMA LoopStep ==
  ASSUME IInv, NEW t \in Threads, Loop(t)
  PROVE  IInv'
<1>1. TypeInv /\ t \in Actors /\ pc[t] = "loop"
      /\ UNCHANGED <<taskQueue, stopRequested, stopWhenEmpty, interrupted, clientVars,
                     callback, promise, history>>
  BY ActorsAre DEF IInv, Loop
<1>2. CASE nThreadsServicingQueue' = nThreadsServicingQueue - 1 /\ pc' \in NotifyOne([pc EXCEPT ![t] = "gone"])
  <2>1. Moves(t, "gone") /\ pc[t] \in Servicing \ {"callback", "clear"}
    BY <1>1, <1>2, MovesNotify DEF Servicing, Places
  <2> QED BY <1>1, <1>2, <2>1, GoneStep
<1>3. CASE pc' = [pc EXCEPT ![t] = "seed"] /\ UNCHANGED nThreadsServicingQueue
  <2>1. taskQueue' \in Nat /\ "seed" \in Places \ {"gone", "start", "callback", "clear"}
    BY <1>1 DEF TypeInv, Places
  <2> QED BY Zenon, <1>1, <1>3, <2>1, GoOnStep
<1>4. CASE WaitAt(t, "timed")
  BY <1>1, <1>4, WaitAtStep
<1> QED BY <1>2, <1>3, <1>4 DEF Loop

\* The loop that waits for a task, and the one that waits for its time.
LEMMA EmptyRetimedStep ==
  ASSUME IInv, NEW t \in Threads, Empty(t) \/ Retimed(t)
  PROVE  IInv'
<1>1. /\ pc[t] \in {"seed", "retimed"}
      /\ UNCHANGED <<taskQueue, stopRequested, stopWhenEmpty, interrupted, clientVars,
                     callback, promise, history>>
  BY DEF Empty, Retimed
<1>2. taskQueue' \in Nat /\ "loop" \in Places \ {"gone", "start", "callback", "clear"}
  BY <1>1 DEF IInv, TypeInv, Places
<1>3. CASE pc' = [pc EXCEPT ![t] = "loop"] /\ UNCHANGED nThreadsServicingQueue
  BY Zenon, <1>1, <1>2, <1>3, GoOnStep
<1>4. CASE WaitAt(t, "wait") \/ WaitAt(t, "timed")
  BY <1>1, <1>4, WaitAtStep
<1> QED BY <1>3, <1>4 DEF Empty, Retimed

\* A task is taken, or was taken by another thread.
LEMMA TimeoutStep ==
  ASSUME IInv, NEW t \in Threads, Timeout(t)
  PROVE  IInv'
<1>1. taskQueue \in Nat /\ {"loop", "process"} \subseteq Places \ {"gone", "start", "callback", "clear"}
  BY DEF IInv, TypeInv, Places
<1>2. /\ pc[t] = "timed"
      /\ UNCHANGED <<stopRequested, stopWhenEmpty, nThreadsServicingQueue, interrupted,
                     clientVars, callback, promise, history>>
  BY DEF Timeout
<1>3. CASE pc' = [pc EXCEPT ![t] = "loop"] /\ UNCHANGED taskQueue
  BY Zenon, <1>1, <1>2, <1>3, GoOnStep
<1>4. CASE taskQueue # 0 /\ pc' = [pc EXCEPT ![t] = "process"] /\ taskQueue' = taskQueue - 1
  <2>1. taskQueue' \in Nat
    BY <1>1, <1>4
  <2> QED BY Zenon, <1>1, <1>2, <1>4, <2>1, GoOnStep
<1> QED BY <1>3, <1>4 DEF Timeout

\* An exception ends a wait.
LEMMA InterruptedStep ==
  ASSUME IInv, NEW t \in Threads, Interrupted(t)
  PROVE  IInv'
<1>1. TypeInv /\ t \in Actors
  BY ActorsAre DEF IInv
<1>2. Moves(t, "gone")
  BY Zenon, <1>1, MovesBy DEF Interrupted, Places
<1>3. pc[t] \in Servicing \ {"callback", "clear"}
  BY DEF Interrupted, Servicing, Places
<1> QED BY <1>2, <1>3, GoneStep DEF Interrupted

\* A wait ends without a notification.
LEMMA SpuriousWakeupStep ==
  ASSUME IInv, NEW t \in Threads, SpuriousWakeup(t)
  PROVE  IInv'
<1>1. taskQueue' \in Nat /\ pc[t] \in {"wait", "timed"}
  BY DEF IInv, TypeInv, SpuriousWakeup, schedulerVars
<1>2. Woken(pc[t]) \in Places \ {"gone", "start", "callback", "clear"}
  BY DEF Woken, Places
<1> QED BY Zenon, <1>1, <1>2, GoOnStep DEF SpuriousWakeup, schedulerVars

\* stop wakes everybody up, whom it finds waiting.
LEMMA stopStep ==
  ASSUME IInv, NEW drain \in StopKinds, stop(drain)
  PROVE  IInv'
<1>1. TypeInv /\ ServiceInv /\ RunInv /\ OrderInv /\ ShutdownInv
  BY DEF IInv
<1>2. /\ pc' \in [Actors -> Places]
      /\ \A b \in Actors : pc'[b] = pc[b] \/ (pc[b] \in {"wait", "timed"} /\ pc'[b] \in {"seed", "retimed"})
  BY <1>1 DEF stop, NotifyAll, Woken, TypeInv, Places
<1>3. Quiet
  BY <1>2 DEF Quiet, InCallback, stop, clientVars, history
<1>4. RunInv' /\ OrderInv'
  BY <1>1, <1>3, QuietStep
<1>5. ServiceInv'
  <2>1. Serving' = Serving
    BY <1>2, ActorsAre DEF Serving, Servicing, Places
  <2> QED BY <1>1, <2>1 DEF ServiceInv, stop
<1>6. ShutdownInv'
  BY <1>1, <1>2, ActorsAre DEF ShutdownInv, stop, clientVars
<1>7. stopRequested' \in BOOLEAN /\ stopWhenEmpty' \in BOOLEAN
  BY SchedulerAssumption DEF stop
<1>8. TypeInv'
  BY <1>1, <1>2, <1>7 DEF TypeInv, stop, clientVars, history
<1> QED BY <1>4, <1>5, <1>6, <1>8 DEF IInv

-----------------------------------------------------------------------------
(* SingleThreadedSchedulerClient. *)

\* Who works for the client is not gone, and Main does so past join_all.
LEMMA ClientPlaces ==
  ASSUME IInv, NEW a \in Actors,
         pc[a] \in {"process", "callback", "clear", "maybe", "schedule", "notify"}
  PROVE  /\ pc[a] \notin {"gone", "start"} /\ Back(a) \notin {"gone", "start", "callback", "clear"}
         /\ Back(a) \in Places /\ (a = Main => pc[Main] \notin {"idle", "join"} /\ Back(a) \notin {"idle", "join"})
         /\ a \in Threads => pc[a] \in Servicing
BY BackIs DEF Places, Servicing

\* Steps of the client outside a callback: there is nothing to do, or another
\* ProcessQueue is scheduled.
LEMMA ClientStepQuiet ==
  ASSUME IInv, NEW a \in Actors,
         pc[a] \in {"process", "maybe", "schedule", "notify"},
         Moves(a, Back(a)) \/ Moves(a, "schedule") \/ Moves(a, "notify"), taskQueue' \in Nat,
         UNCHANGED <<stopRequested, stopWhenEmpty, nThreadsServicingQueue, interrupted, clientVars,
                     callback, promise, history>>
  PROVE  IInv'
<1>1. promise' \in [Callers -> 0 .. posted]
  BY DEF IInv, TypeInv
<1>2. CASE Moves(a, Back(a))
  BY <1>1, <1>2, ClientPlaces, PlaceStep
<1>3. CASE Moves(a, "schedule") \/ Moves(a, "notify")
  BY <1>1, <1>3, ClientPlaces, PlaceStep
<1> QED BY <1>2, <1>3

\* MaybeScheduleProcessQueue, schedule and its notification.
LEMMA ScheduleSteps ==
  ASSUME IInv, NEW a \in Actors, MaybeScheduleProcessQueue(a) \/ schedule(a) \/ Notify(a)
  PROVE  IInv'
<1>1. TypeInv /\ Back(a) \in Places \ {"wait", "timed"} /\ {"schedule", "notify"} \subseteq Places
  BY BackIs DEF IInv, Places
<1>2. CASE MaybeScheduleProcessQueue(a)
  <2>1. Moves(a, Back(a)) \/ Moves(a, "schedule")
    BY Zenon, <1>1, <1>2, MovesBy DEF MaybeScheduleProcessQueue
  <2>2. taskQueue' \in Nat
    BY <1>1, <1>2 DEF MaybeScheduleProcessQueue, schedulerVars, TypeInv
  <2> QED BY <1>2, <2>1, <2>2, ClientStepQuiet DEF MaybeScheduleProcessQueue, schedulerVars
<1>3. CASE schedule(a)
  <2>1. Moves(a, "notify")
    BY Zenon, <1>1, <1>3, MovesBy DEF schedule
  <2>2. taskQueue' \in Nat
    BY <1>1, <1>3 DEF schedule, TypeInv
  <2> QED BY <1>3, <2>1, <2>2, ClientStepQuiet DEF schedule
<1>4. CASE Notify(a)
  <2>1. Moves(a, Back(a))
    BY <1>1, <1>4, MovesNotify DEF Notify
  <2>2. taskQueue' \in Nat
    BY <1>1, <1>4 DEF Notify, schedulerVars, TypeInv
  <2> QED BY <1>4, <2>1, <2>2, ClientStepQuiet DEF Notify, schedulerVars
<1> QED BY <1>2, <1>3, <1>4

\* The part of a callback's step that is not about the callback.
LEMMA CallbackPlaces ==
  ASSUME IInv, NEW a \in Actors, pc[a] \in {"process", "callback", "clear"},
         NEW place \in {"callback", "clear", "maybe"}, pc' = [pc EXCEPT ![a] = place],
         UNCHANGED nThreadsServicingQueue
  PROVE  Moves(a, place) /\ ServiceInv' /\ ShutdownInv'
<1>1. TypeInv /\ ServiceInv /\ ShutdownInv /\ place \in Places
  BY DEF IInv, Places
<1>2. Moves(a, place)
  BY Zenon, <1>1, MovesBy
<1>3. a \in Threads => pc[a] \in Servicing /\ place \in Servicing
  BY DEF Servicing, Places
<1>4. ServiceInv'
  BY <1>1, <1>2, <1>3, ServeStep
<1>5. ShutdownInv'
  BY <1>1, <1>2, ShutdownStep
<1> QED BY <1>2, <1>4, <1>5

\* ProcessQueue takes the first pending callback, which is the next one.
LEMMA ProcessQueueTakes ==
  ASSUME IInv, NEW a \in Actors, ProcessQueue(a), m_are_callbacks_running = FALSE,
         m_callbacks_pending # <<>>
  PROVE  /\ IInv'
         /\ \A b \in Actors : callback[b] = 0
         /\ callback'[a] = Len(delivered) + 1 /\ Len(delivered) < posted
<1>1. TypeInv /\ RunInv /\ OrderInv /\ pc[a] = "process"
  BY DEF IInv, ProcessQueue
<1>2. /\ m_are_callbacks_running' = TRUE
      /\ callback' = [callback EXCEPT ![a] = Head(m_callbacks_pending)]
      /\ m_callbacks_pending' = Tail(m_callbacks_pending)
      /\ pc' = [pc EXCEPT ![a] = "callback"]
      /\ UNCHANGED <<schedulerVars, promise, history>>
  BY DEF ProcessQueue
<1>3. Moves(a, "callback") /\ ServiceInv' /\ ShutdownInv'
  BY Zenon, <1>1, <1>2, CallbackPlaces DEF schedulerVars
<1>4. \A b \in Actors : ~InCallback(pc[b])
  BY <1>1 DEF RunInv
<1>5. (\A b \in Actors : pc[b] # "callback") /\ pc'[a] = "callback"
      /\ \A b \in Actors \ {a} : ~InCallback(pc'[b]) /\ pc'[b] # "callback"
  BY <1>1, <1>2, <1>4 DEF InCallback, TypeInv
<1>6. Taken = Len(delivered) /\ Taken' = Len(delivered) + 1
  BY <1>2, <1>5 DEF Taken, history
<1>7. /\ m_callbacks_pending \in Seq(Nat) /\ Len(m_callbacks_pending) \in Nat \ {0}
      /\ Len(delivered) \in Nat
      /\ m_callbacks_pending' \in Seq(Nat) /\ Len(m_callbacks_pending') = Len(m_callbacks_pending) - 1
      /\ \A i \in 1 .. Len(m_callbacks_pending') : m_callbacks_pending'[i] = m_callbacks_pending[i + 1]
      /\ Head(m_callbacks_pending) = m_callbacks_pending[1]
  BY <1>1, <1>2 DEF TypeInv
<1>8. Head(m_callbacks_pending) = Len(delivered) + 1 /\ Len(delivered) < posted
  BY <1>1, <1>6, <1>7 DEF OrderInv
<1>9. OrderInv'
  <2>1. posted' = Taken' + Len(m_callbacks_pending')
    BY <1>1, <1>2, <1>6, <1>7 DEF OrderInv, history
  <2>2. ASSUME NEW i \in 1 .. Len(m_callbacks_pending')
        PROVE  m_callbacks_pending'[i] = Taken' + i
    <3>1. i + 1 \in 1 .. Len(m_callbacks_pending)
      BY <1>7
    <3>2. m_callbacks_pending[i + 1] = Len(delivered) + (i + 1)
      BY <1>1, <1>6, <3>1 DEF OrderInv
    <3> QED BY <1>6, <1>7, <3>2
  <2> QED BY <1>1, <1>2, <2>1, <2>2 DEF OrderInv, history
<1>10. /\ \A b \in Actors : callback[b] = 0
       /\ \A b \in Actors : callback'[b] = IF pc'[b] = "callback" THEN Len(delivered) + 1 ELSE 0
       /\ callback' \in [Actors -> Nat]
  <2>1. \A b \in Actors : callback[b] = 0
    BY <1>1, <1>5 DEF RunInv
  <2>2. callback'[a] = Len(delivered) + 1 /\ \A b \in Actors \ {a} : callback'[b] = 0
    BY <1>1, <1>2, <1>8, <2>1 DEF TypeInv
  <2>3. callback' \in [Actors -> Nat]
    BY <1>1, <1>2, <1>7, <1>8 DEF TypeInv
  <2> QED BY <1>5, <2>1, <2>2, <2>3
<1>11. RunInv'
  <2>1. \A b \in Actors : callback'[b] = IF pc'[b] = "callback" THEN Len(delivered') + 1 ELSE 0
    BY <1>2, <1>10 DEF history
  <2> QED BY <1>2, <1>5, <2>1 DEF RunInv
<1>12. TypeInv'
  <2>1. m_are_callbacks_running' \in BOOLEAN
    BY <1>2
  <2> QED BY <1>1, <1>2, <1>3, <1>7, <1>10, <2>1 DEF TypeInv, Moves, schedulerVars, history
<1> QED BY <1>3, <1>8, <1>9, <1>10, <1>11, <1>12, <1>5 DEF IInv

\* ProcessQueue finds a callback running or nothing pending.
LEMMA ProcessQueueReturns ==
  ASSUME IInv, NEW a \in Actors, ProcessQueue(a),
         m_are_callbacks_running = TRUE \/ m_callbacks_pending = <<>>
  PROVE  IInv' /\ UNCHANGED <<callback, posted, delivered>>
<1>1. TypeInv /\ Back(a) \in Places
  BY BackIs DEF IInv, Places
<1>2. pc' = [pc EXCEPT ![a] = Back(a)] /\ UNCHANGED <<clientVars, callback>>
  BY DEF ProcessQueue
<1>3. Moves(a, Back(a))
  BY Zenon, <1>1, <1>2, MovesBy
<1>4. taskQueue' \in Nat /\ UNCHANGED <<schedulerVars, promise, history>> /\ pc[a] = "process"
  BY <1>1 DEF ProcessQueue, schedulerVars, TypeInv
<1> QED BY <1>2, <1>3, <1>4, ClientStepQuiet DEF schedulerVars, history

\* The callback is run: the next of the numbers is delivered.
LEMMA CallStep ==
  ASSUME IInv, NEW a \in Actors, Call(a)
  PROVE  IInv' /\ callback[a] = Len(delivered) + 1 /\ \A b \in Actors : callback'[b] = 0
<1>1. TypeInv /\ RunInv /\ OrderInv /\ pc[a] = "callback"
  BY DEF IInv, Call
<1>2. /\ delivered' = Append(delivered, callback[a])
      /\ callback' = [callback EXCEPT ![a] = 0]
      /\ pc' = [pc EXCEPT ![a] = "clear"]
      /\ UNCHANGED <<schedulerVars, clientVars, promise, posted>>
  BY DEF Call
<1>3. Moves(a, "clear") /\ ServiceInv' /\ ShutdownInv'
  BY Zenon, <1>1, <1>2, CallbackPlaces DEF schedulerVars
<1>4. callback[a] = Len(delivered) + 1 /\ Len(delivered) \in Nat
  BY <1>1 DEF RunInv, TypeInv
<1>5. \A b \in Actors : b # a => ~InCallback(pc[b]) /\ pc[b] # "callback"
  BY <1>1 DEF RunInv, InCallback
<1>6. /\ \A b \in Actors : pc'[b] # "callback" /\ (InCallback(pc'[b]) => b = a)
      /\ InCallback(pc[a])
  BY <1>1, <1>2, <1>5 DEF InCallback, TypeInv
<1>7. /\ delivered' \in Seq(Nat) /\ Len(delivered') = Len(delivered) + 1
      /\ delivered'[Len(delivered) + 1] = Len(delivered) + 1
      /\ \A i \in 1 .. Len(delivered) : delivered'[i] = delivered[i]
  BY <1>1, <1>2, <1>4 DEF TypeInv
<1>8. Taken = Len(delivered) + 1 /\ Taken' = Len(delivered')
  BY <1>1, <1>6 DEF Taken
<1>9. OrderInv'
  <2>1. \A i \in 1 .. Len(delivered') : delivered'[i] = i
    BY SMTT(30), <1>1, <1>4, <1>7 DEF OrderInv
  <2>2. Taken' = Taken
    BY <1>7, <1>8
  <2> QED BY <1>1, <1>2, <2>1, <2>2 DEF OrderInv, clientVars
<1>10. \A b \in Actors : callback'[b] = 0
  BY <1>1, <1>2, <1>5 DEF RunInv, TypeInv
<1>11. RunInv'
  BY <1>1, <1>2, <1>6, <1>10 DEF RunInv, clientVars
<1>12. TypeInv'
  <2>1. callback' \in [Actors -> Nat]
    BY <1>1, <1>2 DEF TypeInv
  <2> QED BY <1>1, <1>2, <1>3, <1>7, <2>1 DEF TypeInv, Moves, schedulerVars, clientVars
<1> QED BY <1>3, <1>4, <1>9, <1>10, <1>11, <1>12 DEF IInv

\* ~RAIICallbacksRunning: the flag is reset by the one thread that had set it.
LEMMA ClearStep ==
  ASSUME IInv, NEW a \in Actors, Clear(a)
  PROVE  IInv'
<1>1. TypeInv /\ RunInv /\ OrderInv /\ pc[a] = "clear"
  BY DEF IInv, Clear
<1>2. /\ m_are_callbacks_running' = FALSE
      /\ pc' = [pc EXCEPT ![a] = "maybe"]
      /\ UNCHANGED <<schedulerVars, m_callbacks_pending, callback, promise, history>>
  BY DEF Clear
<1>3. Moves(a, "maybe") /\ ServiceInv' /\ ShutdownInv'
  BY Zenon, <1>1, <1>2, CallbackPlaces DEF schedulerVars
<1>4. \A b \in Actors : b # a => ~InCallback(pc[b]) /\ pc[b] # "callback"
  BY <1>1 DEF RunInv, InCallback
<1>5. \A b \in Actors : pc[b] # "callback" /\ pc'[b] # "callback" /\ ~InCallback(pc'[b])
  BY <1>1, <1>2, <1>4 DEF InCallback, TypeInv
<1>6. Taken' = Taken
  BY <1>2, <1>5 DEF Taken, history
<1>7. OrderInv'
  BY <1>1, <1>2, <1>6 DEF OrderInv, history
<1>8. RunInv'
  BY <1>1, <1>2, <1>5 DEF RunInv
<1>9. TypeInv'
  <2>1. m_are_callbacks_running' \in BOOLEAN
    BY Zenon, <1>2
  <2> QED BY <1>1, <1>2, <1>3, <2>1 DEF TypeInv, Moves, schedulerVars, history
<1> QED BY <1>3, <1>7, <1>8, <1>9 DEF IInv

\* AddToProcessQueue: the new callback is the last of the queue.
LEMMA EnqueueStep ==
  ASSUME IInv, NEW a \in Actors, Enqueue(a),
         (a \in Callers /\ pc[a] = "idle") \/ (a = Main /\ pc[a] = "flush"),
         promise' \in [Callers -> 0 .. posted + 1]
  PROVE  IInv'
<1>1. TypeInv /\ ServiceInv /\ RunInv /\ OrderInv /\ ShutdownInv
  BY DEF IInv
<1>2. /\ m_callbacks_pending' = Append(m_callbacks_pending, posted + 1)
      /\ posted' = posted + 1
      /\ pc' = [pc EXCEPT ![a] = "maybe"]
      /\ UNCHANGED <<schedulerVars, m_are_callbacks_running, callback, delivered>>
  BY DEF Enqueue
<1>3. Moves(a, "maybe") /\ a \notin Threads /\ pc[a] \in {"idle", "flush"}
  BY Zenon, <1>1, <1>2, MovesBy, ActorsAre DEF Places
<1>4. ServiceInv'
  BY <1>1, <1>2, <1>3, ServeStep DEF schedulerVars
<1>5. ShutdownInv'
  BY <1>1, <1>3, ActorsAre, ShutdownStep
<1>6. \A b \in Actors : /\ InCallback(pc'[b]) <=> InCallback(pc[b])
                        /\ pc'[b] = "callback" <=> pc[b] = "callback"
  BY <1>1, <1>2, <1>3 DEF InCallback, TypeInv
<1>7. RunInv'
  BY <1>1, <1>2, <1>6 DEF RunInv
<1>8. Taken' = Taken /\ Taken \in Nat
  BY <1>1, <1>2, <1>6 DEF Taken, TypeInv
<1>9. /\ m_callbacks_pending' \in Seq(Nat) /\ Len(m_callbacks_pending') = Len(m_callbacks_pending) + 1
      /\ Len(m_callbacks_pending) \in Nat
      /\ m_callbacks_pending'[Len(m_callbacks_pending) + 1] = posted + 1
      /\ \A i \in 1 .. Len(m_callbacks_pending) : m_callbacks_pending'[i] = m_callbacks_pending[i]
  BY <1>1, <1>2 DEF TypeInv
<1>10. OrderInv'
  <2>1. posted' = Taken' + Len(m_callbacks_pending')
    <3>1. posted = Taken + Len(m_callbacks_pending)
      BY <1>1 DEF OrderInv
    <3> QED BY <1>2, <1>8, <1>9, <3>1
  <2>2. ASSUME NEW i \in 1 .. Len(m_callbacks_pending')
        PROVE  m_callbacks_pending'[i] = Taken' + i
    <3>1. CASE i \in 1 .. Len(m_callbacks_pending)
      BY <1>1, <1>8, <1>9, <3>1 DEF OrderInv
    <3>2. CASE i = Len(m_callbacks_pending) + 1
      <4>1. posted = Taken + Len(m_callbacks_pending)
        BY <1>1 DEF OrderInv
      <4> QED BY <1>8, <1>9, <3>2, <4>1
    <3> QED BY <1>9, <3>1, <3>2
  <2> QED BY <1>1, <1>2, <2>1, <2>2 DEF OrderInv
<1>11. posted' \in Nat /\ promise' \in [Callers -> 0 .. posted']
  BY <1>1, <1>2 DEF TypeInv
<1>12. TypeInv'
  BY <1>1, <1>2, <1>3, <1>9, <1>11 DEF TypeInv, Moves, schedulerVars
<1> QED BY <1>4, <1>5, <1>7, <1>10, <1>12 DEF IInv

-----------------------------------------------------------------------------
(* The callers and Shutdown. *)

\* A signal, with or without waiting for the queue afterwards.
LEMMA CallerStep ==
  ASSUME IInv, NEW c \in Callers, AddToProcessQueue(c) \/ SyncWithValidationInterfaceQueue(c)
  PROVE  IInv' /\ Enqueue(c)
<1>1. c \in Actors /\ pc[c] = "idle" /\ Enqueue(c)
  BY ActorsAre DEF AddToProcessQueue, SyncWithValidationInterfaceQueue
<1>2. promise \in [Callers -> 0 .. posted] /\ posted \in Nat
  BY DEF IInv, TypeInv
<1>3. promise' = promise \/ promise' = [promise EXCEPT ![c] = posted + 1]
  BY DEF AddToProcessQueue, SyncWithValidationInterfaceQueue
<1>4. promise' \in [Callers -> 0 .. posted + 1]
  BY <1>2, <1>3
<1> QED BY <1>1, <1>4, EnqueueStep

\* The future is ready.
LEMMA WaitStep ==
  ASSUME IInv, NEW c \in Callers, Wait(c)
  PROVE  IInv'
<1>1. TypeInv /\ c \in Actors /\ c # Main
  BY SMTT(30), ActorsAre DEF IInv
<1>2. Moves(c, "idle") /\ pc[c] = "sync"
  BY Zenon, <1>1, MovesBy DEF Wait, Places
<1>3. promise' \in [Callers -> 0 .. posted]
  BY <1>1 DEF Wait, TypeInv
<1>4. taskQueue' \in Nat
  BY <1>1 DEF Wait, TypeInv, schedulerVars
<1> QED BY <1>1, <1>2, <1>3, <1>4, PlaceStep DEF Wait, schedulerVars

\* ThreadImport ends.
LEMMA ImportEndsStep ==
  ASSUME IInv, NEW c \in Callers, ImportEnds(c)
  PROVE  IInv'
<1>1. TypeInv /\ ServiceInv /\ RunInv /\ OrderInv /\ ShutdownInv
  BY DEF IInv
<1>2. c \in Actors /\ c # Main /\ c \notin Threads /\ pc[c] = "idle"
  BY SMTT(30), ActorsAre DEF ImportEnds
<1>3. Moves(c, "gone")
  BY Zenon, <1>1, <1>2, MovesBy DEF ImportEnds, Places
<1>4. Quiet
  BY <1>2, <1>3, QuietBy DEF InCallback, ImportEnds, clientVars, history
<1>5. RunInv' /\ OrderInv'
  BY <1>1, <1>4, QuietStep
<1>6. ServiceInv'
  BY <1>1, <1>2, <1>3, ServeStep DEF ImportEnds, schedulerVars
<1>7. ShutdownInv'
  BY <1>1, <1>2, <1>3, ShutdownStep
<1>8. TypeInv'
  BY <1>1, <1>3 DEF TypeInv, Moves, ImportEnds, schedulerVars, clientVars, history
<1> QED BY <1>5, <1>6, <1>7, <1>8 DEF IInv

\* The thread group is interrupted, with the other callers stopped.
LEMMA interrupt_allStep ==
  ASSUME IInv, interrupt_all
  PROVE  IInv'
<1>1. TypeInv /\ ServiceInv /\ RunInv /\ OrderInv /\ ShutdownInv
  BY DEF IInv
<1>2. /\ pc' \in [Actors -> Places] /\ pc[Main] = "idle" /\ pc'[Main] = "join"
      /\ \A c \in Callers \ Group : pc[c] = "idle" /\ pc'[c] = "gone"
      /\ \A a \in Actors : a # Main /\ a \notin Callers \ Group => pc'[a] = pc[a]
  BY <1>1, ActorsAre DEF interrupt_all, TypeInv, Places
<1>3. Quiet
  <2>1. \A b \in Actors : InCallback(pc[b]) \/ InCallback(pc'[b]) => pc'[b] = pc[b]
    BY <1>2 DEF InCallback
  <2> QED BY <2>1 DEF Quiet, interrupt_all, clientVars, history
<1>4. RunInv' /\ OrderInv'
  BY <1>1, <1>3, QuietStep
<1>5. ServiceInv'
  <2>1. \A t \in Threads : pc'[t] = pc[t]
    BY <1>2, ActorsAre
  <2>2. Serving' = Serving
    BY <2>1 DEF Serving
  <2> QED BY <1>1, <2>2 DEF ServiceInv, interrupt_all
<1>6. ShutdownInv'
  BY <1>2 DEF ShutdownInv
<1>7. TypeInv'
  BY <1>1, <1>2 DEF TypeInv, interrupt_all, clientVars, history
<1> QED BY <1>4, <1>5, <1>6, <1>7 DEF IInv

\* join_all returns when the threads of the group are gone.
LEMMA join_allStep ==
  ASSUME IInv, join_all
  PROVE  IInv'
<1>1. TypeInv /\ ServiceInv /\ RunInv /\ OrderInv /\ ShutdownInv
  BY DEF IInv
<1>2. pc[Main] = "join" /\ Main \in Actors /\ Main \notin Threads
  BY SMTT(30), ActorsAre DEF join_all
<1>3. Moves(Main, "flush")
  BY Zenon, <1>1, <1>2, MovesBy DEF join_all, Places
<1>4. Quiet
  BY <1>2, <1>3, QuietBy DEF InCallback, join_all, clientVars, history
<1>5. RunInv' /\ OrderInv'
  BY <1>1, <1>4, QuietStep
<1>6. ServiceInv'
  BY <1>1, <1>2, <1>3, ServeStep DEF join_all, schedulerVars
<1>7. ShutdownInv'
  <2>1. \A a \in Threads \cup Callers : pc[a] = "gone"
    BY <1>1, <1>2 DEF ShutdownInv, join_all
  <2> QED BY <1>3, <2>1, ActorsAre DEF ShutdownInv, Moves
<1>8. TypeInv'
  BY <1>1, <1>3 DEF TypeInv, Moves, join_all, schedulerVars, clientVars, history
<1> QED BY <1>5, <1>6, <1>7, <1>8 DEF IInv

\* The last callback of all.
LEMMA ChainStateFlushedStep ==
  ASSUME IInv, ChainStateFlushed
  PROVE  IInv' /\ Enqueue(Main)
<1>1. promise' \in [Callers -> 0 .. posted + 1]
  BY DEF IInv, TypeInv, ChainStateFlushed
<1> QED BY <1>1, ActorsAre, EnqueueStep DEF ChainStateFlushed

\* EmptyQueue goes on while something is pending.
LEMMA EmptyQueueStep ==
  ASSUME IInv, EmptyQueue
  PROVE  IInv'
<1>1. TypeInv /\ ServiceInv /\ RunInv /\ OrderInv /\ ShutdownInv
  BY DEF IInv
<1>2. pc[Main] = "empty" /\ Main \in Actors /\ Main \notin Threads
  BY ActorsAre DEF EmptyQueue
<1> DEFINE place == IF m_callbacks_pending # <<>> THEN "process" ELSE "gone"
<1>3. place \in {"process", "gone"} /\ (place = "gone" => m_callbacks_pending = <<>>)
  OBVIOUS
<1>4. pc' = [pc EXCEPT ![Main] = place] /\ UNCHANGED <<schedulerVars, clientVars, callback, promise, history>>
  BY SMTT(30) DEF EmptyQueue
<1> HIDE DEF place
<1>5. Moves(Main, place)
  BY Zenon, <1>1, <1>2, <1>3, <1>4, MovesBy DEF Places
<1>6. Quiet
  BY <1>2, <1>3, <1>4, <1>5, QuietBy DEF InCallback, clientVars, history
<1>7. RunInv' /\ OrderInv'
  BY <1>1, <1>6, QuietStep
<1>8. ServiceInv'
  BY <1>1, <1>2, <1>4, <1>5, ServeStep DEF schedulerVars
<1>9. ShutdownInv'
  BY <1>1, <1>2, <1>3, <1>4, <1>5, ShutdownStep DEF clientVars
<1>10. TypeInv'
  BY <1>1, <1>4, <1>5 DEF TypeInv, Moves, schedulerVars, clientVars, history
<1> QED BY <1>7, <1>8, <1>9, <1>10 DEF IInv

-----------------------------------------------------------------------------
(* The inductive invariant. *)

\* Nobody has started and nothing is pending.
LEMMA InitIInv == Init => IInv
<1> SUFFICES ASSUME Init PROVE IInv
  OBVIOUS
<1>1. TypeInv
  <2>1. /\ stopRequested \in BOOLEAN /\ stopWhenEmpty \in BOOLEAN
        /\ m_are_callbacks_running \in BOOLEAN
    BY Zenon DEF Init
  <2>2. /\ pc \in [Actors -> Places] /\ callback \in [Actors -> Nat]
        /\ promise \in [Callers -> 0 .. posted]
    BY DEF Init, Places
  <2>3. m_callbacks_pending \in Seq(Nat) /\ delivered \in Seq(Nat)
    BY DEF Init
  <2> QED BY <2>1, <2>2, <2>3 DEF Init, TypeInv
<1>2. /\ \A a \in Actors : pc[a] \in {"start", "idle"} /\ callback[a] = 0
      /\ \A t \in Threads : pc[t] = "start"
      /\ pc[Main] = "idle" /\ Len(delivered) = 0 /\ Len(m_callbacks_pending) = 0 /\ posted = 0
  BY ActorsAre DEF Init
<1>3. ServiceInv
  <2>1. Serving = {}
    BY <1>2 DEF Serving, Servicing
  <2> QED BY <2>1, FS_EmptySet DEF ServiceInv, Init
<1>4. RunInv
  BY <1>2 DEF RunInv, InCallback
<1>5. Taken = 0
  BY <1>2 DEF Taken
<1>6. OrderInv
  BY <1>2, <1>5 DEF OrderInv
<1>7. ShutdownInv
  BY <1>2 DEF ShutdownInv
<1> QED BY <1>1, <1>3, <1>4, <1>6, <1>7 DEF IInv

\* A step of the scheduler, the client, the callers or Shutdown keeps it.
LEMMA NextIInv == IInv /\ [Next]_vars => IInv'
<1> SUFFICES ASSUME IInv, [Next]_vars PROVE IInv'
  OBVIOUS
<1>1. ASSUME NEW a \in Actors, ProcessQueue(a) PROVE IInv'
  <2>1. m_are_callbacks_running \in BOOLEAN
    BY DEF IInv, TypeInv
  <2> QED BY Zenon, <1>1, <2>1, ProcessQueueTakes, ProcessQueueReturns
<1>2. CASE \E a \in Actors : \/ ProcessQueue(a) \/ Call(a) \/ Clear(a)
                             \/ MaybeScheduleProcessQueue(a) \/ schedule(a) \/ Notify(a)
  BY <1>1, <1>2, CallStep, ClearStep, ScheduleSteps
<1>3. CASE \E t \in Threads : \/ serviceQueue(t) \/ Loop(t) \/ Empty(t) \/ Retimed(t) \/ Timeout(t)
                              \/ Interrupted(t) \/ SpuriousWakeup(t)
  BY <1>3, serviceQueueStep, LoopStep, EmptyRetimedStep, TimeoutStep, InterruptedStep,
     SpuriousWakeupStep
<1>4. CASE \E drain \in StopKinds : stop(drain)
  BY <1>4, stopStep
<1>5. CASE \E c \in Callers : \/ AddToProcessQueue(c) \/ SyncWithValidationInterfaceQueue(c)
                              \/ Wait(c) \/ ImportEnds(c)
  BY <1>5, CallerStep, WaitStep, ImportEndsStep
<1>6. CASE interrupt_all \/ join_all \/ ChainStateFlushed \/ EmptyQueue
  BY <1>6, interrupt_allStep, join_allStep, ChainStateFlushedStep, EmptyQueueStep
<1>7. CASE UNCHANGED vars
  <2>1. Taken' = Taken /\ Serving' = Serving
    BY <1>7 DEF Taken, Serving, vars
  <2> QED BY <1>7, <2>1 DEF vars, IInv, TypeInv, ServiceInv, RunInv, OrderInv, ShutdownInv
<1> QED BY <1>2, <1>3, <1>4, <1>5, <1>6, <1>7 DEF Next

\* The order of the callbacks, who runs one and who is in serviceQueue stay
\* related as the invariant says in every reachable state.
THEOREM Inductive == Spec => []IInv
BY InitIInv, NextIInv, PTL DEF Spec

-----------------------------------------------------------------------------
(* What it implies. *)

\* A sequence whose elements lie in a set is a sequence over that set.
LEMMA SeqInto ==
  ASSUME NEW s \in Seq(Nat), NEW T, \A i \in 1 .. Len(s) : s[i] \in T
  PROVE  s \in Seq(T)
<1>1. s \in [1 .. Len(s) -> T] /\ Len(s) \in Nat
  OBVIOUS
<1> QED BY <1>1

\* The types, with the numbers of the callbacks bounded by those added.
LEMMA IInvTypeOK == IInv => TypeOK
<1> SUFFICES ASSUME IInv PROVE TypeOK
  OBVIOUS
<1>1. TypeInv /\ ServiceInv /\ RunInv /\ OrderInv
  BY DEF IInv
<1>2. nThreadsServicingQueue \in Nat
  <2>1. IsFiniteSet(Serving)
    BY SchedulerAssumption, FS_Subset DEF Serving
  <2> QED BY <1>1, <2>1, FS_CardinalityType DEF ServiceInv
<1>3. /\ posted \in Nat /\ Len(delivered) \in Nat /\ Len(m_callbacks_pending) \in Nat
      /\ posted = Taken + Len(m_callbacks_pending) /\ Len(delivered) <= Taken /\ Taken \in Nat
      /\ (\E a \in Actors : pc[a] = "callback") => Taken = Len(delivered) + 1
  BY <1>1 DEF TypeInv, OrderInv, Taken
<1>4. delivered \in Seq(1 .. posted)
  <2>1. \A i \in 1 .. Len(delivered) : delivered[i] \in 1 .. posted
    BY <1>1, <1>3 DEF OrderInv
  <2> QED BY <1>1, <2>1, SeqInto DEF TypeInv
<1>5. m_callbacks_pending \in Seq(1 .. posted)
  <2>1. \A i \in 1 .. Len(m_callbacks_pending) : m_callbacks_pending[i] \in 1 .. posted
    BY <1>1, <1>3 DEF OrderInv
  <2> QED BY Zenon, <1>1, <2>1, SeqInto DEF TypeInv
<1>6. callback \in [Actors -> 0 .. posted]
  <2>1. \A a \in Actors : callback[a] \in 0 .. posted
    BY <1>1, <1>3 DEF RunInv
  <2> QED BY <1>1, <2>1 DEF TypeInv
<1> QED BY <1>1, <1>2, <1>4, <1>5, <1>6 DEF TypeInv, TypeOK

\* nThreadsServicingQueue counts the threads in serviceQueue, EmptyQueue finds
\* none there, as it asserts, and Shutdown leaves no callback behind.
THEOREM EmptyQueueSafe == Spec => []EmptyQueueRight
<1>1. IInv => ServicingCounted
  <2> SUFFICES ASSUME IInv PROVE ServicingCounted
    OBVIOUS
  <2>1. TypeOK /\ nThreadsServicingQueue = Cardinality(Serving)
    BY IInvTypeOK DEF IInv, ServiceInv
  <2>2. pc[Main] = "empty" => Serving = {}
    BY DEF IInv, ShutdownInv, Serving, Servicing
  <2>3. Cardinality({}) = 0
    BY FS_EmptySet
  <2> QED BY <2>1, <2>2, <2>3 DEF ServicingCounted, Serving
<1>2. IInv => Flushed
  <2> SUFFICES ASSUME IInv, pc[Main] = "gone" PROVE Range(delivered) = 1 .. posted
    BY DEF Flushed
  <2>1. m_callbacks_pending = <<>> /\ \A a \in Actors : pc[a] # "callback"
    BY ActorsAre DEF IInv, ShutdownInv
  <2>2. posted = Len(delivered)
    BY <2>1 DEF IInv, TypeInv, OrderInv, Taken
  <2> QED BY <2>2 DEF IInv, TypeInv, OrderInv, Range
<1> QED BY <1>1, <1>2, Inductive, PTL DEF EmptyQueueRight

\* What was run is an initial part of what was added, in that order.
LEMMA DeliveredIs ==
  ASSUME IInv
  PROVE  Range(delivered) = 1 .. Len(delivered) /\ Len(delivered) \in Nat
<1>1. /\ delivered \in Seq(Nat) /\ \A i \in 1 .. Len(delivered) : delivered[i] = i
  BY DEF IInv, TypeInv, OrderInv
<1>2. DOMAIN delivered = 1 .. Len(delivered) /\ Len(delivered) \in Nat
  BY SMTT(30), <1>1
<1> QED BY <1>1, <1>2 DEF Range

\* Only the future's completion brings a caller back from
\* SyncWithValidationInterfaceQueue.
LEMMA OnlyWaitReturns ==
  ASSUME IInv, Next, NEW c \in Callers, pc[c] = "sync", pc'[c] = "idle"
  PROVE  Wait(c)
<1>1. TypeInv /\ c \in Actors /\ c \notin Threads /\ c # Main /\ pc \in [Actors -> Places]
  BY ActorsAre DEF IInv, TypeInv
<1>2. ASSUME NEW a \in Actors, NEW place, Moves(a, place), pc[a] # "sync"
      PROVE  FALSE
  BY <1>1, <1>2 DEF Moves
<1>3. ASSUME NEW a \in Actors, NEW place \in Places, pc[a] # "sync", pc' = [pc EXCEPT ![a] = place]
      PROVE  FALSE
  BY <1>1, <1>2, <1>3, MovesBy
<1>4. ASSUME NEW a \in Actors, NEW place \in Places \ {"wait", "timed"}, pc[a] # "sync",
             pc' \in NotifyOne([pc EXCEPT ![a] = place])
      PROVE  FALSE
  BY Zenon, <1>1, <1>2, <1>4, MovesNotify
<1>5. {"gone", "loop", "seed", "wait", "timed", "process", "callback", "clear", "maybe", "schedule",
       "notify", "flush", "retimed"} \subseteq Places /\ "gone" \in Places \ {"wait", "timed"}
  BY DEF Places
<1>6. ASSUME NEW a \in Actors, \/ ProcessQueue(a) \/ Call(a) \/ Clear(a)
                                \/ MaybeScheduleProcessQueue(a) \/ schedule(a) \/ Notify(a)
      PROVE  FALSE
  <2>1. Back(a) \in Places \ {"wait", "timed"}
    BY BackIs DEF Places
  <2>2. CASE ProcessQueue(a)
    BY <1>3, <1>5, <2>1, <2>2 DEF ProcessQueue
  <2>3. CASE Call(a) \/ Clear(a) \/ schedule(a)
    BY <1>3, <1>5, <2>3 DEF Call, Clear, schedule
  <2>4. CASE MaybeScheduleProcessQueue(a)
    BY <1>3, <1>5, <2>1, <2>4 DEF MaybeScheduleProcessQueue
  <2>5. CASE Notify(a)
    BY SMTT(30), <1>4, <2>1, <2>5 DEF Notify
  <2> QED BY <1>6, <2>2, <2>3, <2>4, <2>5
<1>7. ASSUME NEW t \in Threads, \/ serviceQueue(t) \/ Loop(t) \/ Empty(t) \/ Retimed(t) \/ Timeout(t)
                                 \/ Interrupted(t) \/ SpuriousWakeup(t)
      PROVE  FALSE
  <2>1. t \in Actors
    BY ActorsAre
  <2>2. CASE serviceQueue(t) \/ Timeout(t) \/ Interrupted(t)
    BY <1>3, <1>5, <2>1, <2>2 DEF serviceQueue, Timeout, Interrupted
  <2>3. CASE SpuriousWakeup(t)
    BY SMTT(30), <1>3, <1>5, <2>1, <2>3 DEF SpuriousWakeup, Woken
  <2>4. CASE Empty(t) \/ Retimed(t)
    BY SMTT(30), <1>3, <1>5, <2>1, <2>4 DEF Empty, Retimed, WaitAt
  <2>5. CASE Loop(t)
    BY <1>3, <1>4, <1>5, <2>1, <2>5 DEF Loop, WaitAt
  <2> QED BY <1>7, <2>2, <2>3, <2>4, <2>5
<1>8. ASSUME NEW drain \in StopKinds, stop(drain) PROVE FALSE
  BY <1>1, <1>8 DEF stop, NotifyAll
<1>9. ASSUME NEW d \in Callers, AddToProcessQueue(d) \/ SyncWithValidationInterfaceQueue(d) \/ ImportEnds(d)
      PROVE  FALSE
  BY <1>3, <1>5, <1>9, ActorsAre DEF AddToProcessQueue, SyncWithValidationInterfaceQueue, ImportEnds, Enqueue
<1>10. ASSUME NEW d \in Callers, Wait(d) PROVE Wait(c)
  BY Zenon, <1>1, <1>10, ActorsAre DEF Wait
<1>11. ASSUME join_all \/ ChainStateFlushed \/ EmptyQueue PROVE FALSE
  BY <1>3, <1>5, <1>11, ActorsAre DEF join_all, ChainStateFlushed, EmptyQueue, Enqueue
<1>12. ASSUME interrupt_all PROVE FALSE
  BY <1>1, <1>12 DEF interrupt_all
<1> QED BY SMTT(30), <1>6, <1>7, <1>8, <1>9, <1>10, <1>11, <1>12 DEF Next

\* Who comes back from SyncWithValidationInterfaceQueue finds its own callback
\* and all that were added before it run.
THEOREM SyncFindsAll == Spec => SyncAfterAll
<1> DEFINE A == \A c \in Callers :
                   pc[c] = "sync" /\ pc'[c] = "idle" => \A i \in 1 .. promise[c] : i \in Range(delivered)
<1>1. IInv /\ [Next]_vars => [A]_vars
  <2> SUFFICES ASSUME IInv, Next, NEW c \in Callers, pc[c] = "sync", pc'[c] = "idle",
                      NEW i \in 1 .. promise[c]
               PROVE  i \in Range(delivered)
    OBVIOUS
  <2>1. promise[c] \in Range(delivered)
    BY OnlyWaitReturns DEF Wait
  <2>2. promise[c] \in Nat
    BY DEF IInv, TypeInv
  <2> QED BY <2>1, <2>2, DeliveredIs
<1> HIDE DEF A
<1>2. Spec => [][A]_vars
  BY <1>1, Inductive, PTL DEF Spec
<1> QED BY <1>2 DEF SyncAfterAll, A

-----------------------------------------------------------------------------
(* One at a time and in order: the refinement. *)

\* The callback that runs, when none does and when one thread runs one.
LEMMA TheCallback ==
  ASSUME NEW f
  PROVE  LET r == IF \E a \in Actors : f[a] # 0 THEN f[CHOOSE a \in Actors : f[a] # 0] ELSE 0
         IN  /\ (\A a \in Actors : f[a] = 0) => r = 0
             /\ \A a \in Actors : (f[a] # 0 /\ \A b \in Actors \ {a} : f[b] = 0) => r = f[a]
OBVIOUS

\* Adding a callback is Post, taking it Start, running it Finish; the other
\* steps of the scheduler, the client and Shutdown change nothing of the queue.
LEMMA NextRefines == IInv /\ [Next]_vars => [Queue!Next]_(Queue!vars)
<1> SUFFICES ASSUME IInv, [Next]_vars PROVE [Queue!Next]_(Queue!vars)
  OBVIOUS
<1> DEFINE r == IF \E a \in Actors : callback[a] # 0
                THEN callback[CHOOSE a \in Actors : callback[a] # 0] ELSE 0
<1>1. ASSUME UNCHANGED <<callback, posted, delivered>> PROVE UNCHANGED Queue!vars
  BY <1>1 DEF Queue!vars
<1>2. ASSUME NEW a \in Actors, Enqueue(a) PROVE Queue!Post
  BY <1>2 DEF Enqueue, Queue!Post
<1>3. ASSUME NEW a \in Actors, ProcessQueue(a) PROVE Queue!Start \/ UNCHANGED Queue!vars
  <2>1. CASE m_are_callbacks_running = FALSE /\ m_callbacks_pending # <<>>
    <3>1. /\ \A b \in Actors : callback[b] = 0
          /\ callback'[a] = Len(delivered) + 1 /\ Len(delivered) < posted
      BY Zenon, <1>3, <2>1, ProcessQueueTakes
    <3>2. callback' = [callback EXCEPT ![a] = Head(m_callbacks_pending)]
          /\ UNCHANGED <<posted, delivered>>
      BY <1>3, <2>1 DEF ProcessQueue, history
    <3>3. callback'[a] # 0 /\ \A b \in Actors \ {a} : callback'[b] = 0
      BY <3>1, <3>2 DEF IInv, TypeInv
    <3>4. r = 0 /\ r' = callback'[a]
      BY <3>1, <3>3, TheCallback
    <3>5. r' = Len(delivered) + 1
      BY <3>1, <3>4
    <3> QED BY <3>1, <3>2, <3>4, <3>5 DEF Queue!Start
  <2>2. CASE m_are_callbacks_running = TRUE \/ m_callbacks_pending = <<>>
    BY Zenon, <1>1, <1>3, <2>2, ProcessQueueReturns
  <2>3. m_are_callbacks_running \in BOOLEAN
    BY DEF IInv, TypeInv
  <2> QED BY Zenon, <2>1, <2>2, <2>3
<1>4. ASSUME NEW a \in Actors, Call(a) PROVE Queue!Finish
  <2>1. callback[a] = Len(delivered) + 1 /\ \A b \in Actors : callback'[b] = 0
    BY <1>4, CallStep
  <2>2. callback[a] # 0 /\ \A b \in Actors \ {a} : callback[b] = 0
    BY <1>4, <2>1 DEF IInv, TypeInv, RunInv, InCallback, Call
  <2>3. r = callback[a] /\ r' = 0
    BY <2>1, <2>2, TheCallback
  <2>4. delivered' = Append(delivered, r) /\ r # 0 /\ posted' = posted
    BY <1>4, <2>2, <2>3 DEF Call
  <2> QED BY <2>3, <2>4 DEF Queue!Finish
<1>5. CASE \E a \in Actors : \/ ProcessQueue(a) \/ Call(a) \/ Clear(a)
                             \/ MaybeScheduleProcessQueue(a) \/ schedule(a) \/ Notify(a)
  BY SMTT(30), <1>1, <1>3, <1>4, <1>5 DEF Clear, MaybeScheduleProcessQueue, schedule, Notify, history, Queue!Next
<1>6. CASE \E t \in Threads : \/ serviceQueue(t) \/ Loop(t) \/ Empty(t) \/ Retimed(t) \/ Timeout(t)
                              \/ Interrupted(t) \/ SpuriousWakeup(t)
  BY <1>1, <1>6 DEF serviceQueue, Loop, Empty, Retimed, Timeout, Interrupted, SpuriousWakeup, history
<1>7. CASE \E drain \in StopKinds : stop(drain)
  BY <1>1, <1>7 DEF stop, history
<1>8. CASE \E c \in Callers : \/ AddToProcessQueue(c) \/ SyncWithValidationInterfaceQueue(c)
                              \/ Wait(c) \/ ImportEnds(c)
  BY <1>1, <1>2, <1>8, ActorsAre
     DEF AddToProcessQueue, SyncWithValidationInterfaceQueue, Wait, ImportEnds, history, Queue!Next
<1>9. CASE interrupt_all \/ join_all \/ ChainStateFlushed \/ EmptyQueue
  BY <1>1, <1>2, <1>9, ActorsAre
     DEF interrupt_all, join_all, ChainStateFlushed, EmptyQueue, history, Queue!Next
<1>10. CASE UNCHANGED vars
  BY <1>1, <1>10 DEF vars
<1> QED BY <1>5, <1>6, <1>7, <1>8, <1>9, <1>10 DEF Next

\* The callbacks run one at a time and in the order in which they were added,
\* whatever number of threads services the queue and whoever empties it.
THEOREM OneAtATimeInOrder == Spec => RefinesCallbackQueue
<1>1. Init => Queue!Init
  <2> SUFFICES ASSUME Init PROVE Queue!Init
    OBVIOUS
  <2>1. \A a \in Actors : callback[a] = 0
    BY DEF Init
  <2> QED BY <2>1, TheCallback DEF Init, Queue!Init
<1> QED BY <1>1, NextRefines, Inductive, PTL DEF Spec, RefinesCallbackQueue, Queue!Spec
=============================================================================
