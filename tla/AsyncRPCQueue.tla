--------------------------- MODULE AsyncRPCQueue ---------------------------
(***************************************************************************)
(* The queue of asynchronous RPC operations (src/asyncrpcqueue.cpp) and    *)
(* the operations it runs (src/asyncrpcoperation.cpp).                     *)
(*                                                                         *)
(* A step is a critical section of lock_, or one access to an atomic: the  *)
(* state_ of an operation is read and written by the worker that runs it,  *)
(* by close() and by getStatus() without a common lock.  lock_ is held     *)
(* over several steps only while close() cancels the operations.           *)
(***************************************************************************)
EXTENDS Integers, Sequences, Functions, FiniteSets

CONSTANTS
    Ops,      \* the operations that occur
    Watched,  \* those somebody asks the status of
    Workers,  \* the threads that addWorker may spawn
    None      \* no operation: the null shared_ptr

ASSUME AsyncAssumption == None \notin Ops /\ Watched \subseteq Ops

VARIABLES
    closed_, finish_,  \* the two atomic flags
    operation_map_,    \* the operations in the map
    operation_id_queue_,
    state_,            \* of each operation
    result_,           \* the operations whose result_ is set
    worker,            \* where each thread stands in run() and main()
    operation,         \* what it holds there
    owner,             \* where the thread that ends the queue stands
    cancelling,        \* the operations close() has still to cancel
    unready,           \* the one it has just found READY
    added,             \* history: the operations addOperation accepted
    status             \* what getStatus has put together

vars == <<closed_, finish_, operation_map_, operation_id_queue_, state_, result_,
          worker, operation, owner, cancelling, unready, added, status>>

queueVars == <<operation_map_, operation_id_queue_, added>>
opVars == <<state_, result_>>
workerVars == <<worker, operation>>
ownerVars == <<closed_, finish_, owner, cancelling, unready>>

OperationStatus == {"READY", "EXECUTING", "CANCELLED", "FAILED", "SUCCESS"}
Terminal == {"CANCELLED", "FAILED", "SUCCESS"}

\* absent: not spawned; run: before the lock; wait: in condition_.wait;
\* popped: has an operation; main, execute, work: in main(), which "success"
\* and "failure" are about to leave; exit: joinable
Places == {"absent", "run", "wait", "popped", "main", "execute", "work",
           "success", "failure", "exit"}
OwnerPlaces == {"open", "finish", "finished", "close", "cancel", "notify", "join", "gone"}

\* read: the number of loads of state_ that getStatus has made
Reports == [op : Ops \cup {None}, read : 0 .. 3, status : OperationStatus,
            error : BOOLEAN, result : BOOLEAN]

TypeOK ==
    /\ closed_ \in BOOLEAN /\ finish_ \in BOOLEAN
    /\ operation_map_ \subseteq Ops
    /\ operation_id_queue_ \in Seq(Ops)
    /\ state_ \in [Ops -> OperationStatus]
    /\ result_ \subseteq Ops
    /\ worker \in [Workers -> Places]
    /\ operation \in [Workers -> Ops \cup {None}]
    /\ owner \in OwnerPlaces
    /\ cancelling \subseteq Ops /\ unready \in Ops \cup {None}
    /\ added \subseteq Ops
    /\ status \in Reports

NoReport == [op |-> None, read |-> 0, status |-> "READY", error |-> FALSE, result |-> FALSE]

Init ==
    /\ closed_ = FALSE /\ finish_ = FALSE
    /\ operation_map_ = {} /\ operation_id_queue_ = <<>> /\ added = {}
    /\ state_ = [op \in Ops |-> "READY"] /\ result_ = {}
    /\ worker = [w \in Workers |-> "absent"]
    /\ operation = [w \in Workers |-> None]
    /\ owner = "open" /\ cancelling = {} /\ unready = None
    /\ status = NoReport

Unlocked == owner # "cancel"   \* lock_ can be taken

-----------------------------------------------------------------------------
(* The callers of the queue. *)

\* Threads are spawned before the queue is told to end: wait_for_worker_threads
\* walks workers_ without the lock.
addWorker(w) ==
    /\ owner = "open"
    /\ worker[w] = "absent"
    /\ worker' = [worker EXCEPT ![w] = "run"]
    /\ UNCHANGED <<queueVars, opVars, operation, ownerVars, status>>

\* notify_one: a waiting thread, if there is one, goes on to take the lock.
NotifyOne ==
    IF \E w \in Workers : worker[w] = "wait"
    THEN \E w \in Workers : worker[w] = "wait" /\ worker' = [worker EXCEPT ![w] = "run"]
    ELSE UNCHANGED worker

\* Mutant: nobody is notified.
NotifyAllForgotten == worker

NotifyAll == [w \in Workers |-> IF worker[w] = "wait" THEN "run" ELSE worker[w]]

\* Mutant: the flags are not looked at.
addOperationUnchecked(op) ==
    /\ Unlocked
    /\ op \notin added
    /\ operation_map_' = operation_map_ \cup {op}
    /\ operation_id_queue_' = Append(operation_id_queue_, op)
    /\ added' = added \cup {op}
    /\ NotifyOne
    /\ UNCHANGED <<opVars, operation, ownerVars, status>>

\* Mutant: no worker is notified.
addOperationSilent(op) ==
    /\ Unlocked
    /\ op \notin added
    /\ ~closed_ /\ ~finish_
    /\ operation_map_' = operation_map_ \cup {op}
    /\ operation_id_queue_' = Append(operation_id_queue_, op)
    /\ added' = added \cup {op}
    /\ UNCHANGED <<opVars, workerVars, ownerVars, status>>

addOperation(op) ==
    /\ Unlocked
    /\ op \notin added
    /\ ~closed_ /\ ~finish_
    /\ operation_map_' = operation_map_ \cup {op}
    /\ operation_id_queue_' = Append(operation_id_queue_, op)
    /\ added' = added \cup {op}
    /\ NotifyOne
    /\ UNCHANGED <<opVars, operation, ownerVars, status>>

\* Two critical sections, of which only the second changes anything.
popOperationForId(op) ==
    /\ Unlocked
    /\ op \in operation_map_
    /\ operation_map_' = operation_map_ \ {op}
    /\ UNCHANGED <<operation_id_queue_, added, opVars, workerVars, ownerVars, status>>

\* getStatus loads state_ for the status, again in getError, and in getResult.
getStatus(op) ==
    /\ status' = [NoReport EXCEPT !.op = op, !.read = 1, !.status = state_[op]]
    /\ UNCHANGED <<queueVars, opVars, workerVars, ownerVars>>

getError ==
    /\ status.read = 1
    /\ status' = [status EXCEPT !.read = 2, !.error = state_[status.op] = "FAILED"]
    /\ UNCHANGED <<queueVars, opVars, workerVars, ownerVars>>

getResult ==
    /\ status.read = 2
    /\ status' = [status EXCEPT !.read = 3, !.result = state_[status.op] = "SUCCESS"
                                                      /\ status.op \in result_]
    /\ UNCHANGED <<queueVars, opVars, workerVars, ownerVars>>

-----------------------------------------------------------------------------
(* A worker thread. *)

\* Mutant: the id is left in the queue.
runPeeks(w) ==
    /\ worker[w] = "run"
    /\ Unlocked
    /\ operation_id_queue_ # <<>>
    /\ worker' = [worker EXCEPT ![w] = "popped"]
    /\ operation' = [operation EXCEPT ![w] = Head(operation_id_queue_)]
    /\ UNCHANGED <<queueVars, opVars, ownerVars, status>>

\* The critical section of run().
run(w) ==
    /\ worker[w] = "run"
    /\ Unlocked
    /\ IF operation_id_queue_ = <<>>
       THEN /\ worker' = [worker EXCEPT ![w] = IF closed_ \/ finish_ THEN "exit" ELSE "wait"]
            /\ UNCHANGED <<operation_id_queue_, operation>>
       ELSE IF closed_
       THEN /\ worker' = [worker EXCEPT ![w] = "exit"]
            /\ operation_id_queue_' = <<>>
            /\ UNCHANGED operation
       ELSE LET key == Head(operation_id_queue_)
            IN  /\ worker' = [worker EXCEPT ![w] = "popped"]
                /\ operation_id_queue_' = Tail(operation_id_queue_)
                /\ operation' = [operation EXCEPT ![w] =
                                    IF key \in operation_map_ THEN key ELSE None]
    /\ UNCHANGED <<operation_map_, added, opVars, ownerVars, status>>

\* condition_.wait may return without a notification.
SpuriousWakeup(w) ==
    /\ worker[w] = "wait"
    /\ worker' = [worker EXCEPT ![w] = "run"]
    /\ UNCHANGED <<queueVars, opVars, operation, ownerVars, status>>

\* An operation that is gone or cancelled is skipped.
skip(w) ==
    /\ worker[w] = "popped"
    /\ worker' = [worker EXCEPT ![w] =
          IF operation[w] # None /\ state_[operation[w]] # "CANCELLED" THEN "main" ELSE "run"]
    /\ UNCHANGED <<queueVars, opVars, operation, ownerVars, status>>

\* main() looks again ...
mainCancelled(w) ==
    /\ worker[w] = "main"
    /\ worker' = [worker EXCEPT ![w] =
                     IF state_[operation[w]] = "CANCELLED" THEN "run" ELSE "execute"]
    /\ UNCHANGED <<queueVars, opVars, operation, ownerVars, status>>

\* ... and then says that it runs.
mainExecuting(w) ==
    /\ worker[w] = "execute"
    /\ worker' = [worker EXCEPT ![w] = "work"]
    /\ state_' = [state_ EXCEPT ![operation[w]] = "EXECUTING"]
    /\ UNCHANGED <<queueVars, result_, operation, ownerVars, status>>

\* Mutant: the result is not recorded.
mainWorkNoResult(w) ==
    /\ worker[w] = "work"
    /\ \E end \in {"success", "failure"} : worker' = [worker EXCEPT ![w] = end]
    /\ UNCHANGED <<queueVars, opVars, operation, ownerVars, status>>

\* The work ends with set_result, or it fails, by an exception or not.
mainWork(w) ==
    /\ worker[w] = "work"
    /\ \/ /\ worker' = [worker EXCEPT ![w] = "success"]
          /\ result_' = result_ \cup {operation[w]}
       \/ /\ worker' = [worker EXCEPT ![w] = "failure"]
          /\ UNCHANGED result_
    /\ UNCHANGED <<queueVars, state_, operation, ownerVars, status>>

mainStore(w) ==
    /\ worker[w] \in {"success", "failure"}
    /\ worker' = [worker EXCEPT ![w] = "run"]
    /\ state_' = [state_ EXCEPT ![operation[w]] =
                     IF worker[w] = "success" THEN "SUCCESS" ELSE "FAILED"]
    /\ UNCHANGED <<queueVars, result_, operation, ownerVars, status>>

-----------------------------------------------------------------------------
(* The thread that ends the queue: finishAndWait, if it calls it, and then  *)
(* closeAndWait, which the destructor calls in any case.                    *)

finish ==
    /\ owner = "open"
    /\ finish_' = TRUE
    /\ owner' = "finish"
    /\ UNCHANGED <<queueVars, opVars, workerVars, closed_, cancelling, unready, status>>

AllJoined == \A w \in Workers : worker[w] \in {"absent", "exit"}

\* wait_for_worker_threads: notify_all under the lock, then join.
finishAndWait ==
    /\ owner = "finish"
    /\ owner' = "finished"
    /\ worker' = NotifyAll
    /\ UNCHANGED <<queueVars, opVars, operation, closed_, finish_, cancelling,
                   unready, status>>

close ==
    /\ \/ owner = "open"
       \/ owner = "finished" /\ AllJoined
    /\ closed_' = TRUE
    /\ owner' = "close"
    /\ UNCHANGED <<queueVars, opVars, workerVars, finish_, cancelling, unready, status>>

\* cancelAllOperations takes the lock ...
cancelAllOperations ==
    /\ owner = "close"
    /\ owner' = "cancel"
    /\ cancelling' = operation_map_
    /\ UNCHANGED <<queueVars, opVars, workerVars, closed_, finish_, unready, status>>

\* ... and cancels one operation after the other: cancel() tests isReady() ...
cancel(op) ==
    /\ owner = "cancel"
    /\ unready = None
    /\ op \in cancelling
    /\ cancelling' = cancelling \ {op}
    /\ unready' = IF state_[op] = "READY" THEN op ELSE None
    /\ UNCHANGED <<queueVars, opVars, workerVars, closed_, finish_, owner, status>>

\* ... and calls set_state.
cancelStore ==
    /\ unready # None
    /\ state_' = [state_ EXCEPT ![unready] = "CANCELLED"]
    /\ unready' = None
    /\ UNCHANGED <<queueVars, result_, workerVars, closed_, finish_, owner,
                   cancelling, status>>

\* notify_all and unlock.
cancelled ==
    /\ owner = "cancel"
    /\ cancelling = {} /\ unready = None
    /\ owner' = "notify"
    /\ worker' = NotifyAll
    /\ UNCHANGED <<queueVars, opVars, operation, closed_, finish_, cancelling,
                   unready, status>>

closeAndWait ==
    /\ owner = "notify"
    /\ owner' = "join"
    /\ worker' = NotifyAll
    /\ UNCHANGED <<queueVars, opVars, operation, closed_, finish_, cancelling,
                   unready, status>>

joined ==
    /\ owner = "join"
    /\ AllJoined
    /\ owner' = "gone"
    /\ UNCHANGED <<queueVars, opVars, workerVars, closed_, finish_, cancelling,
                   unready, status>>

-----------------------------------------------------------------------------

Step(w) ==
    \/ run(w) \/ skip(w) \/ mainCancelled(w) \/ mainExecuting(w)
    \/ mainWork(w) \/ mainStore(w)

Ending ==
    \/ finishAndWait
    \/ close /\ owner # "open"
    \/ cancelAllOperations \/ (\E op \in Ops : cancel(op)) \/ cancelStore
    \/ cancelled \/ closeAndWait \/ joined

Next ==
    \/ \E w \in Workers : addWorker(w) \/ SpuriousWakeup(w)
    \/ \E w \in Workers :
          \/ run(w) \/ skip(w) \/ mainCancelled(w) \/ mainExecuting(w)
          \/ mainWork(w) \/ mainStore(w)
    \/ \E op \in Ops :
          addOperation(op) \/ popOperationForId(op) \/ cancel(op)
    \/ \E op \in Watched : getStatus(op)
    \/ getError \/ getResult
    \/ finish \/ finishAndWait \/ close
    \/ cancelAllOperations \/ cancelStore \/ cancelled \/ closeAndWait \/ joined

\* Every thread is scheduled, the work of an operation ends, and the owner goes
\* on once it has begun to end the queue.
Fairness == (\A w \in Workers : WF_vars(Step(w))) /\ WF_vars(Ending)

Spec == Init /\ [][Next]_vars /\ Fairness

-----------------------------------------------------------------------------
(* Correctness. *)

Running(w) == worker[w] \in {"main", "execute", "work", "success", "failure"}

\* No operation is run by two workers or twice, whatever popOperationForId,
\* close and the wake-ups of several workers do in between: the queue holds an
\* id once, and not while a worker has it.
RunOnce ==
    /\ \A i, j \in 1 .. Len(operation_id_queue_) :
          operation_id_queue_[i] = operation_id_queue_[j] => i = j
    /\ \A w \in Workers : Running(w) =>
          /\ operation[w] \in added \ Range(operation_id_queue_)
          /\ \A v \in Workers : Running(v) /\ operation[v] = operation[w] => v = w
    /\ \A op \in Range(operation_id_queue_) : state_[op] \in {"READY", "CANCELLED"}

\* The types of the queue, and RunOnce: no worker runs what another one has (run).
Inv == TypeOK /\ RunOnce

\* close() leaves no operation it knows of waiting to be run: addOperation tests
\* closed_ under the lock that cancelAllOperations takes after closed_ is set.
CloseCancels ==
    owner \in {"notify", "join", "gone"} =>
        \A op \in operation_map_ : state_[op] # "READY"

\* When closeAndWait has returned, every operation that was accepted has come to
\* an end, unless popOperationForId took it away before a worker saw it.
Settled ==
    owner = "gone" => \A op \in added : state_[op] \in Terminal \/ op \notin operation_map_

\* finishAndWait returns when every operation was run, to success or failure:
\* no operation slips in between the flag and the last look at the queue.
FinishDrains ==
    owner = "finished" /\ AllJoined /\ (\E w \in Workers : worker[w] = "exit") =>
        /\ operation_id_queue_ = <<>>
        /\ \A op \in added \cap operation_map_ : state_[op] \in {"FAILED", "SUCCESS"}

\* No accepted operation is forgotten, unless popOperationForId takes it away,
\* however the queue ends: close() leaves none waiting, closeAndWait returns
\* with all of them ended, and so does finishAndWait if there was a worker.
NoneForgotten == CloseCancels /\ Settled /\ FinishDrains

\* An operation that is queued is taken off the queue as long as there is a
\* worker: no notification of addOperation is lost.
Served ==
    \A op \in Ops :
        op \in Range(operation_id_queue_) /\ (\E w \in Workers : worker[w] # "absent")
            ~> op \notin Range(operation_id_queue_)

\* closeAndWait and finishAndWait return: no worker sleeps through the flags,
\* which are set without the lock.
ShutsDown == owner # "open" ~> owner = "gone"

\* "If the operation has failed, it will include an error object.  If the
\* operation has succeeded, it will include the result value.  If the operation
\* was cancelled, there will be no error object or result value." (getStatus)
StatusAgrees ==
    status.read = 3 =>
        /\ status.status = "FAILED" => status.error
        /\ status.status = "SUCCESS" => status.result
        /\ status.status = "CANCELLED" => ~status.error /\ ~status.result

\* It is so as long as nobody closes the queue: what getStatus reads piece by
\* piece fits together although a worker moves the operation on in between.
StatusAgreesWhileOpen == ~closed_ => StatusAgrees
=============================================================================
