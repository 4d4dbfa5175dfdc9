------------------------ MODULE AsyncRPCQueueProofs ------------------------
(***************************************************************************)
(* Proofs about the queue of asynchronous operations: what AsyncRPCQueue   *)
(* checks on two operations and two workers holds for any number of both.  *)
(***************************************************************************)
EXTENDS AsyncRPCQueue, TLAPS

\* A worker has an operation from the moment it takes the id off the queue.
Holding == {"popped", "main", "execute", "work", "success", "failure"}
Held(w) == worker[w] \in Holding /\ operation[w] # None

\* What addOperation accepted and no worker has taken.
QueueInv ==
    /\ operation_map_ \subseteq added
    /\ \A i \in DOMAIN operation_id_queue_ :
          /\ operation_id_queue_[i] \in added
          /\ state_[operation_id_queue_[i]] \in {"READY", "CANCELLED"}
          /\ \A j \in DOMAIN operation_id_queue_ :
                operation_id_queue_[i] = operation_id_queue_[j] => i = j

\* What a worker has, no other worker and no place of the queue has.
HeldInv ==
    \A w \in Workers :
        /\ Running(w) => operation[w] # None
        /\ Held(w) =>
              /\ operation[w] \in added
              /\ \A i \in DOMAIN operation_id_queue_ : operation_id_queue_[i] # operation[w]
              /\ \A v \in Workers : Held(v) /\ operation[v] = operation[w] => v = w
              /\ worker[w] \in {"popped", "main", "execute"} =>
                    state_[operation[w]] \in {"READY", "CANCELLED"}
              /\ worker[w] = "success" => operation[w] \in result_

\* The state of an operation and who can change it: EXECUTING is a worker's.
StateInv ==
    \A op \in Ops :
        /\ op \notin added => state_[op] = "READY"
        /\ state_[op] = "EXECUTING" =>
              \E w \in Workers : worker[w] \in {"work", "success", "failure"}
                                 /\ operation[w] = op

\* The flags follow the owner, and close() has cancelled what it has passed.
OwnerInv ==
    /\ closed_ <=> owner \in {"close", "cancel", "notify", "join", "gone"}
    /\ owner \in {"finish", "finished"} => finish_
    /\ finish_ => owner # "open"
    /\ owner # "cancel" => cancelling = {} /\ unready = None
    /\ cancelling \subseteq added /\ unready \in added \cup {None}
    /\ owner = "cancel" =>
          \A op \in operation_map_ : op \in cancelling \/ op = unready \/ state_[op] # "READY"
    /\ CloseCancels
    /\ owner = "gone" => AllJoined

\* As long as nobody closes the queue: nothing is cancelled, an operation in the
\* map is queued, with a worker or done, and a worker that left saw no queue.
OpenInv ==
    ~closed_ =>
        /\ \A op \in Ops :
              /\ state_[op] # "CANCELLED"
              /\ state_[op] = "SUCCESS" => op \in result_
              /\ op \in operation_map_ =>
                    \/ \E i \in DOMAIN operation_id_queue_ : operation_id_queue_[i] = op
                    \/ \E w \in Workers : Held(w) /\ operation[w] = op
                    \/ state_[op] \in {"FAILED", "SUCCESS"}
        /\ \A w \in Workers :
              /\ Held(w) /\ worker[w] \in {"work", "success", "failure"} =>
                    state_[operation[w]] = "EXECUTING"
              /\ worker[w] = "exit" => finish_ /\ operation_id_queue_ = <<>>

\* What getStatus has read is still so when it reads on.
StatusInv ==
    /\ status.read > 0 => status.op \in Ops
    /\ ~closed_ /\ status.read > 0 =>
          /\ status.status # "CANCELLED"
          /\ status.status \in {"FAILED", "SUCCESS"} => state_[status.op] = status.status
          /\ status.read > 1 /\ status.status = "FAILED" => status.error
          /\ status.read > 2 /\ status.status = "SUCCESS" => status.result

IInv == TypeOK /\ QueueInv /\ HeldInv /\ StateInv /\ OwnerInv /\ OpenInv /\ StatusInv

-----------------------------------------------------------------------------
(* IInv is inductive: one lemma for the steps of the callers, of the        *)
(* workers and of the owner, one step for each action.                      *)

\* The initial state of the constructor.
LEMMA InitIInv == Init => IInv
<1> SUFFICES ASSUME Init PROVE IInv
  OBVIOUS
<1> USE AsyncAssumption DEF Init
<1>1. TypeOK
  <2>1. NoReport \in Reports
    BY DEF NoReport, Reports, OperationStatus
  <2>2. closed_ \in BOOLEAN /\ finish_ \in BOOLEAN
    BY Zenon
  <2>3. /\ state_ \in [Ops -> OperationStatus]
        /\ worker \in [Workers -> Places]
        /\ operation \in [Workers -> Ops \cup {None}]
    BY DEF Places, OperationStatus
  <2>4. owner \in OwnerPlaces /\ operation_id_queue_ \in Seq(Ops)
    BY DEF OwnerPlaces
  <2> QED BY <2>1, <2>2, <2>3, <2>4 DEF TypeOK
<1>2. QueueInv
  BY DEF QueueInv
<1>3. HeldInv /\ StateInv
  BY DEF HeldInv, StateInv, Held, Holding, Running
<1>4. OwnerInv /\ OpenInv /\ StatusInv
  BY DEF OwnerInv, CloseCancels, OpenInv, StatusInv, NoReport, Held, Holding
<1> QED BY <1>1, <1>2, <1>3, <1>4 DEF IInv

\* addWorker and a spurious wake-up only send a worker that has nothing to "run".
LEMMA WorkerReadyStep ==
  ASSUME IInv, NEW w \in Workers, addWorker(w) \/ SpuriousWakeup(w)
  PROVE  IInv'
<1> USE DEF addWorker, SpuriousWakeup, queueVars, opVars, ownerVars, IInv, TypeOK
<1>1. TypeOK' /\ QueueInv' /\ StatusInv'
  BY DEF Places, QueueInv, StatusInv
<1>2. HeldInv' /\ StateInv'
  BY DEF HeldInv, StateInv, Held, Holding, Running
<1>3. OwnerInv'
  BY DEF OwnerInv, CloseCancels, AllJoined
<1>4. OpenInv'
  BY DEF OpenInv, Held, Holding
<1> QED BY <1>1, <1>2, <1>3, <1>4

\* notify_one and notify_all wake workers that have nothing: whatever a step does
\* to the threads, who holds what is as before.
LEMMA NotifyHolds ==
  ASSUME TypeOK, NotifyOne \/ worker' = NotifyAll
  PROVE  /\ worker' \in [Workers -> Places]
         /\ \A w \in Workers : \/ worker'[w] = worker[w]
                               \/ worker[w] = "wait" /\ worker'[w] = "run"
<1>1. CASE NotifyOne
  BY <1>1 DEF NotifyOne, TypeOK, Places
<1>2. CASE worker' = NotifyAll
  BY <1>2 DEF NotifyAll, TypeOK, Places
<1> QED BY <1>1, <1>2

\* addOperation puts a new operation at the end of the queue and into the map,
\* unless the queue was closed.
LEMMA addOperationStep ==
  ASSUME IInv, NEW op \in Ops, addOperation(op)
  PROVE  IInv'
<1> USE DEF addOperation, queueVars, opVars, ownerVars, IInv, TypeOK
<1> DEFINE q == operation_id_queue_
<1>1. /\ worker' \in [Workers -> Places]
      /\ \A w \in Workers : \/ worker'[w] = worker[w]
                            \/ worker[w] = "wait" /\ worker'[w] = "run"
  BY NotifyHolds
<1>2. /\ q' \in Seq(Ops) /\ DOMAIN q' = DOMAIN q \cup {Len(q) + 1} /\ DOMAIN q = 1 .. Len(q)
      /\ \A i \in DOMAIN q : q'[i] = q[i]
      /\ q'[Len(q) + 1] = op
  OBVIOUS
<1>3. state_[op] = "READY" /\ op \notin operation_map_
      /\ \A i \in DOMAIN q : q[i] # op
  BY DEF StateInv, QueueInv
<1> HIDE DEF q
<1>4. TypeOK' /\ StatusInv'
  BY <1>1, <1>2 DEF StatusInv, q
<1>5. QueueInv'
  BY <1>2, <1>3 DEF QueueInv, q
<1>6. HeldInv' /\ StateInv'
  BY <1>1, <1>2, <1>3 DEF HeldInv, StateInv, Held, Holding, Running, q
<1>7. OwnerInv'
  BY <1>1, <1>3 DEF OwnerInv, CloseCancels, AllJoined, Unlocked
<1>8. OpenInv'
  BY SMTT(30), <1>1, <1>2, <1>3 DEF OpenInv, OwnerInv, Held, Holding, q
<1> QED BY <1>4, <1>5, <1>6, <1>7, <1>8

\* popOperationForId takes an operation out of the map, wherever it is otherwise.
LEMMA popOperationForIdStep ==
  ASSUME IInv, NEW op \in Ops, popOperationForId(op)
  PROVE  IInv'
<1> USE DEF popOperationForId, opVars, workerVars, ownerVars, IInv, TypeOK
<1>1. TypeOK' /\ QueueInv' /\ StatusInv'
  BY DEF QueueInv, StatusInv
<1>2. HeldInv' /\ StateInv'
  BY DEF HeldInv, StateInv, Held, Running
<1>3. OwnerInv'
  BY DEF OwnerInv, CloseCancels, AllJoined
<1>4. OpenInv'
  BY DEF OpenInv, Held
<1> QED BY <1>1, <1>2, <1>3, <1>4

\* The three loads of getStatus: they change nothing but the report, and as long
\* as the queue is open a state that was FAILED or SUCCESS is so still.
LEMMA getStatusStep ==
  ASSUME IInv,
         (\E op \in Watched : getStatus(op)) \/ getError \/ getResult
  PROVE  IInv'
<1>1. UNCHANGED <<closed_, finish_, operation_map_, operation_id_queue_, state_, result_,
                  worker, operation, owner, cancelling, unready, added>>
  BY Zenon DEF getStatus, getError, getResult, queueVars, opVars, workerVars, ownerVars
<1>2. QueueInv' /\ HeldInv' /\ StateInv' /\ OwnerInv' /\ OpenInv'
  BY <1>1 DEF QueueInv, HeldInv, StateInv, OwnerInv, OpenInv, CloseCancels, AllJoined,
              Held, Running, IInv
<1>3. status \in Reports /\ state_ \in [Ops -> OperationStatus] /\ StatusInv /\ OpenInv
  BY DEF IInv, TypeOK
<1>4. ASSUME NEW op \in Watched, getStatus(op)
      PROVE  status' \in Reports /\ StatusInv'
  <2>1. status' = [op |-> op, read |-> 1, status |-> state_[op], error |-> FALSE,
                   result |-> FALSE]
    BY Zenon, <1>4 DEF getStatus, NoReport
  <2> QED BY <1>1, <1>3, <2>1, AsyncAssumption DEF StatusInv, OpenInv, Reports
<1>5. ASSUME getError
      PROVE  status' \in Reports /\ StatusInv'
  <2>1. PICK e \in BOOLEAN : /\ e <=> state_[status.op] = "FAILED"
                             /\ status' = [status EXCEPT !.read = 2, !.error = e]
    BY Zenon, <1>5 DEF getError
  <2>2. status.read = 1
    BY <1>5 DEF getError
  <2>3. status' = [op |-> status.op, read |-> 2, status |-> status.status, error |-> e,
                   result |-> status.result]
    BY Zenon, <1>3, <2>1 DEF Reports
  <2>4. state_[status.op] = "FAILED" => status'.error
    BY <2>1, <2>3
  <2>5. StatusInv'
    BY <1>1, <1>3, <2>2, <2>3, <2>4 DEF StatusInv
  <2> QED BY SMTT(30), <1>3, <2>3, <2>5 DEF Reports
<1>6. ASSUME getResult
      PROVE  status' \in Reports /\ StatusInv'
  <2>1. PICK r \in BOOLEAN : /\ r <=> state_[status.op] = "SUCCESS" /\ status.op \in result_
                             /\ status' = [status EXCEPT !.read = 3, !.result = r]
    BY Zenon, <1>6 DEF getResult
  <2>2. status.read = 2
    BY <1>6 DEF getResult
  <2>3. status' = [op |-> status.op, read |-> 3, status |-> status.status,
                   error |-> status.error, result |-> r]
    BY Zenon, <1>3, <2>1 DEF Reports
  <2>4. state_[status.op] = "SUCCESS" /\ status.op \in result_ => status'.result
    BY <2>1, <2>3
  <2>5. StatusInv'
    BY <1>1, <1>3, <2>2, <2>3, <2>4 DEF StatusInv, OpenInv
  <2> QED BY <1>3, <2>3, <2>5 DEF Reports
<1> QED BY <1>1, <1>2, <1>4, <1>5, <1>6 DEF IInv, TypeOK

\* The critical section of run(): a worker leaves, waits, drops the queue of a
\* closed one, or takes the first id.
LEMMA runStep ==
  ASSUME IInv, NEW w \in Workers, run(w)
  PROVE  IInv'
<1> DEFINE q == operation_id_queue_
<1>1. /\ UNCHANGED <<closed_, finish_, operation_map_, state_, result_, owner, cancelling,
                     unready, added, status>>
      /\ worker[w] = "run" /\ owner # "cancel" /\ owner # "gone"
  BY DEF run, Unlocked, opVars, ownerVars, IInv, OwnerInv, AllJoined
<1>2. TypeOK /\ QueueInv /\ HeldInv /\ StateInv /\ OwnerInv /\ OpenInv /\ StatusInv
  BY DEF IInv
<1>3. StatusInv'
  BY <1>1, <1>2 DEF StatusInv
<1>4. ASSUME NEW p \in {"exit", "wait"}, worker' = [worker EXCEPT ![w] = p],
             UNCHANGED operation, q' = q \/ (q' = <<>> /\ closed_),
             p = "exit" /\ ~closed_ => finish_ /\ q' = <<>>
      PROVE  IInv'
  <2>1. TypeOK' /\ QueueInv'
    <3>1. worker' \in [Workers -> Places]
      BY <1>2, <1>4 DEF TypeOK, Places
    <3>2. CASE q' = q
      BY <1>1, <1>2, <1>4, <3>1, <3>2 DEF TypeOK, QueueInv
    <3>3. CASE q' = <<>>
      BY <1>1, <1>2, <1>4, <3>1, <3>3 DEF TypeOK, QueueInv
    <3> QED BY <1>4, <3>2, <3>3
  <2>2. HeldInv' /\ StateInv'
    BY <1>1, <1>2, <1>4 DEF TypeOK, HeldInv, StateInv, Held, Holding, Running
  <2>3. OwnerInv'
    BY <1>1, <1>2, <1>4 DEF OwnerInv, CloseCancels
  <2>4. OpenInv'
    BY <1>1, <1>2, <1>4 DEF TypeOK, OpenInv, Held, Holding
  <2> QED BY <1>3, <2>1, <2>2, <2>3, <2>4 DEF IInv
<1>5. CASE q = <<>>
  <2> DEFINE p == IF closed_ \/ finish_ THEN "exit" ELSE "wait"
  <2>1. worker' = [worker EXCEPT ![w] = p] /\ UNCHANGED operation /\ q' = q
    BY <1>5 DEF run
  <2>2. p \in {"exit", "wait"} /\ (p = "exit" /\ ~closed_ => finish_)
    OBVIOUS
  <2> HIDE DEF p
  <2> QED BY Zenon, <1>4, <1>5, <2>1, <2>2
<1>6. CASE q # <<>> /\ closed_
  BY <1>4, <1>6 DEF run
<1>7. CASE q # <<>> /\ ~closed_
  <2> DEFINE key == Head(q)
             held == IF key \in operation_map_ THEN key ELSE None
  <2>1. /\ worker' = [worker EXCEPT ![w] = "popped"]
        /\ operation' = [operation EXCEPT ![w] = held]
    BY <1>7 DEF run
  <2>2. /\ q' \in Seq(Ops) /\ q \in Seq(Ops) /\ Len(q) > 0 /\ key = q[1] /\ key \in Ops
        /\ DOMAIN q = 1 .. Len(q) /\ DOMAIN q' = 1 .. Len(q) - 1
        /\ \A i \in DOMAIN q' : q'[i] = q[i + 1]
    <3>1. q' = Tail(q) /\ q \in Seq(Ops)
      BY <1>2, <1>7 DEF run, TypeOK
    <3> QED BY <1>7, <3>1
  <2>3. /\ key \in added /\ state_[key] \in {"READY", "CANCELLED"}
        /\ \A v \in Workers : Held(v) => operation[v] # key
    BY <1>2, <2>2 DEF QueueInv, HeldInv
  <2>4. \A i \in DOMAIN q' : q'[i] # key
    BY <1>2, <2>2 DEF QueueInv
  <2> HIDE DEF q, key
  <2>5. held \in Ops \cup {None} /\ (held # None => held = key)
    BY <2>2
  <2> HIDE DEF held
  <2>6. TypeOK'
    BY <1>1, <1>2, <2>1, <2>2, <2>5 DEF TypeOK, Places, q
  <2>7. QueueInv'
    BY SMTT(30), <1>1, <1>2, <2>2 DEF QueueInv, q
  <2>8. HeldInv' /\ StateInv'
    BY SMTT(30), <1>1, <1>2, <2>1, <2>2, <2>3, <2>4, <2>5
       DEF TypeOK, HeldInv, StateInv, Held, Holding, Running, q
  <2>9. OwnerInv'
    BY <1>1, <1>2 DEF OwnerInv, CloseCancels
  <2>10. OpenInv'
    <3>1. ASSUME NEW i \in DOMAIN q, q[i] # key
          PROVE  \E j \in DOMAIN q' : q'[j] = q[i]
      <4>1. i - 1 \in DOMAIN q' /\ q'[i - 1] = q[i]
        BY <2>2, <3>1
      <4> QED BY <4>1
    <3>2. key \in operation_map_ => held = key /\ key # None
      BY <2>2, AsyncAssumption DEF held
    <3> QED BY <1>1, <1>2, <1>7, <2>1, <2>3, <2>5, <3>1, <3>2
           DEF TypeOK, OpenInv, Held, Holding, q
  <2> QED BY <1>3, <2>6, <2>7, <2>8, <2>9, <2>10 DEF IInv
<1> QED BY <1>5, <1>6, <1>7

\* The steps of a worker that only move it: it goes on with what it has, or drops
\* an operation that is gone or, which only close() brings about, cancelled.
LEMMA MoveStep ==
  ASSUME IInv, NEW w \in Workers, skip(w) \/ mainCancelled(w)
  PROVE  IInv'
<1> DEFINE p == worker'[w]
<1>1. UNCHANGED <<closed_, finish_, operation_map_, operation_id_queue_, state_, result_,
                  operation, owner, cancelling, unready, added, status>>
  BY DEF skip, mainCancelled, queueVars, opVars, ownerVars
<1>2. TypeOK /\ QueueInv /\ HeldInv /\ StateInv /\ OwnerInv /\ OpenInv /\ StatusInv
  BY DEF IInv
<1>3. /\ worker' = [worker EXCEPT ![w] = p]
      /\ worker[w] \in {"popped", "main"} /\ p \in {"main", "execute", "run"}
      /\ IF p = "run" THEN operation[w] # None => state_[operation[w]] = "CANCELLED"
                      ELSE operation[w] # None
  BY <1>2 DEF TypeOK, skip, mainCancelled, HeldInv, Running
<1> HIDE DEF p
<1>4. TypeOK' /\ QueueInv' /\ StatusInv'
  BY <1>1, <1>2, <1>3 DEF TypeOK, Places, QueueInv, StatusInv
<1>5. HeldInv' /\ StateInv'
  BY <1>1, <1>2, <1>3 DEF TypeOK, HeldInv, StateInv, Held, Holding, Running
<1>6. OwnerInv'
  BY <1>1, <1>2, <1>3 DEF OwnerInv, CloseCancels, AllJoined
<1>7. OpenInv'
  BY <1>1, <1>2, <1>3 DEF TypeOK, OpenInv, Held, Holding
<1> QED BY <1>4, <1>5, <1>6, <1>7 DEF IInv

\* set_state(EXECUTING): between main()'s test and this store close() may have
\* cancelled the operation, which then runs all the same.
LEMMA mainExecutingStep ==
  ASSUME IInv, NEW w \in Workers, mainExecuting(w)
  PROVE  IInv'
<1> USE DEF mainExecuting, queueVars, ownerVars, IInv, TypeOK
<1>1. operation[w] \in Ops /\ Held(w)
  BY DEF HeldInv, Held, Holding, Running
<1>2. TypeOK' /\ QueueInv'
  BY <1>1 DEF Places, OperationStatus, QueueInv, HeldInv
<1>3. HeldInv'
  BY <1>1 DEF HeldInv, Held, Holding, Running
<1>4. StateInv'
  BY <1>1 DEF StateInv, HeldInv, Held
<1>5. OwnerInv'
  BY <1>1 DEF OwnerInv, CloseCancels, AllJoined
<1>6. OpenInv' /\ StatusInv'
  BY <1>1 DEF OpenInv, StatusInv, HeldInv, Held, Holding
<1> QED BY <1>2, <1>3, <1>4, <1>5, <1>6

\* The work of main() between two stores of the state: only the worker that
\* popped the operation does it.
LEMMA mainWorkStep ==
  ASSUME IInv, NEW w \in Workers, mainWork(w)
  PROVE  IInv'
<1> USE DEF queueVars, ownerVars, IInv, TypeOK
<1>1. operation[w] \in Ops /\ Held(w)
  BY DEF HeldInv, Held, Holding, Running, mainWork
<1>2. PICK p \in {"success", "failure"} :
        /\ worker[w] = "work" /\ worker' = [worker EXCEPT ![w] = p]
        /\ result_' = IF p = "success" THEN result_ \cup {operation[w]} ELSE result_
        /\ UNCHANGED <<closed_, finish_, operation_map_, operation_id_queue_, state_,
                       operation, owner, cancelling, unready, added, status>>
  BY DEF mainWork
<1>3. TypeOK' /\ QueueInv' /\ StatusInv'
  BY <1>1, <1>2 DEF Places, QueueInv, StatusInv
<1>4. HeldInv'
  BY <1>1, <1>2 DEF HeldInv, Held, Holding, Running
<1>5. StateInv'
  BY <1>1, <1>2 DEF StateInv
<1>6. OwnerInv'
  BY <1>2 DEF OwnerInv, CloseCancels, AllJoined
<1>7. OpenInv'
  BY <1>1, <1>2 DEF OpenInv, Held, Holding
<1> QED BY <1>3, <1>4, <1>5, <1>6, <1>7

\* set_state(SUCCESS) or set_state(FAILED), which ends the run of an operation.
LEMMA mainStoreStep ==
  ASSUME IInv, NEW w \in Workers, mainStore(w)
  PROVE  IInv'
<1> USE DEF queueVars, ownerVars, IInv, TypeOK
<1>1. operation[w] \in Ops /\ Held(w)
  BY DEF HeldInv, Held, Holding, Running, mainStore
<1>2. PICK s \in {"SUCCESS", "FAILED"} :
        /\ worker[w] = (IF s = "SUCCESS" THEN "success" ELSE "failure")
        /\ worker' = [worker EXCEPT ![w] = "run"]
        /\ state_' = [state_ EXCEPT ![operation[w]] = s]
        /\ UNCHANGED <<closed_, finish_, operation_map_, operation_id_queue_, result_,
                       operation, owner, cancelling, unready, added, status>>
  BY Zenon DEF mainStore
<1>3. TypeOK' /\ QueueInv'
  BY <1>1, <1>2 DEF Places, OperationStatus, QueueInv, HeldInv
<1>4. HeldInv'
  BY <1>1, <1>2 DEF HeldInv, Held, Holding, Running
<1>5. StateInv'
  BY <1>1, <1>2 DEF StateInv, HeldInv, Held
<1>6. OwnerInv'
  BY <1>1, <1>2 DEF OwnerInv, CloseCancels, AllJoined
<1>7. OpenInv'
  BY <1>1, <1>2 DEF OpenInv, HeldInv, Held, Holding
<1>8. StatusInv'
  BY <1>1, <1>2 DEF StatusInv, OpenInv, Held
<1> QED BY <1>3, <1>4, <1>5, <1>6, <1>7, <1>8

\* The steps of the owner that move it and wake workers, without an operation.
LEMMA OwnerMoveStep ==
  ASSUME IInv,
         finish \/ finishAndWait \/ close \/ cancelled \/ closeAndWait \/ joined
  PROVE  IInv'
<1>1. /\ UNCHANGED <<operation_map_, operation_id_queue_, state_, result_, operation,
                     cancelling, unready, added, status>>
      /\ closed_' \in BOOLEAN /\ finish_' \in BOOLEAN /\ owner' \in OwnerPlaces
      /\ closed_ => closed_'
      /\ finish_ => finish_'
  BY Zenon DEF finish, finishAndWait, close, cancelled, closeAndWait, joined, queueVars, opVars,
         workerVars, IInv, TypeOK, OwnerPlaces
<1>2. TypeOK /\ QueueInv /\ HeldInv /\ StateInv /\ OwnerInv /\ OpenInv /\ StatusInv
  BY DEF IInv
<1>3. /\ worker' \in [Workers -> Places]
      /\ \A w \in Workers : \/ worker'[w] = worker[w]
                            \/ worker[w] = "wait" /\ worker'[w] = "run"
  <2>1. worker' = worker \/ worker' = NotifyAll
    BY DEF finish, finishAndWait, close, cancelled, closeAndWait, joined, workerVars
  <2> QED BY <1>2, <2>1, NotifyHolds DEF TypeOK
<1>4. TypeOK' /\ QueueInv' /\ StatusInv'
  BY <1>1, <1>2, <1>3 DEF TypeOK, QueueInv, StatusInv
<1>5. HeldInv' /\ StateInv'
  BY <1>1, <1>2, <1>3 DEF TypeOK, HeldInv, StateInv, Held, Holding, Running
<1>6. OwnerInv'
  <2>1. CASE finish \/ finishAndWait
    BY <1>1, <1>2, <2>1 DEF OwnerInv, CloseCancels, finish, finishAndWait
  <2>2. CASE close
    BY <1>1, <1>2, <2>2 DEF OwnerInv, CloseCancels, close
  <2>3. CASE cancelled
    BY <1>1, <1>2, <2>3, AsyncAssumption DEF OwnerInv, CloseCancels, cancelled, TypeOK
  <2>4. CASE closeAndWait \/ joined
    BY <1>1, <1>2, <2>4 DEF OwnerInv, CloseCancels, closeAndWait, joined, AllJoined, workerVars
  <2> QED BY <2>1, <2>2, <2>3, <2>4
<1>7. OpenInv'
  BY <1>1, <1>2, <1>3 DEF TypeOK, OpenInv, Held, Holding
<1> QED BY <1>4, <1>5, <1>6, <1>7 DEF IInv

\* cancelAllOperations holds the lock while it tests and cancels one operation
\* after the other: what it has passed is not READY.
LEMMA CancelStep ==
  ASSUME IInv,
         cancelAllOperations \/ (\E op \in Ops : cancel(op)) \/ cancelStore
  PROVE  IInv'
<1>1. UNCHANGED <<operation_map_, operation_id_queue_, result_, worker, operation,
                  closed_, finish_, added, status>>
  BY DEF cancelAllOperations, cancel, cancelStore, queueVars, opVars, workerVars
<1>2. TypeOK /\ QueueInv /\ HeldInv /\ StateInv /\ OwnerInv /\ OpenInv /\ StatusInv
  BY DEF IInv
<1>3. closed_
  BY <1>2 DEF cancelAllOperations, cancel, cancelStore, OwnerInv
<1>4. \/ state_' = state_
      \/ \E op \in added : state_' = [state_ EXCEPT ![op] = "CANCELLED"]
  BY <1>2 DEF cancelAllOperations, cancel, cancelStore, OwnerInv, opVars
<1>5. TypeOK'
  BY <1>1, <1>2 DEF TypeOK, cancelAllOperations, cancel, cancelStore, opVars, OwnerPlaces,
                    OperationStatus
<1>6. QueueInv' /\ HeldInv' /\ StateInv'
  BY <1>1, <1>2, <1>4 DEF TypeOK, QueueInv, HeldInv, StateInv, Held, Running
<1>7. OwnerInv'
  <2>1. CASE cancelAllOperations
    BY <1>1, <1>2, <2>1 DEF OwnerInv, CloseCancels, cancelAllOperations, QueueInv, opVars
  <2>2. ASSUME NEW op \in Ops, cancel(op) PROVE OwnerInv'
    BY <1>1, <1>2, <2>2, AsyncAssumption DEF OwnerInv, CloseCancels, cancel, opVars, TypeOK
  <2>3. CASE cancelStore
    BY SMTT(30), <1>1, <1>2, <2>3 DEF OwnerInv, CloseCancels, cancelStore, TypeOK
  <2> QED BY <2>1, <2>2, <2>3
<1>8. OpenInv' /\ StatusInv'
  BY <1>1, <1>2, <1>3 DEF OpenInv, StatusInv
<1> QED BY <1>5, <1>6, <1>7, <1>8 DEF IInv

\* Every step of workers, callers and owner keeps the invariant.
LEMMA NextIInv == IInv /\ [Next]_vars => IInv'
<1> SUFFICES ASSUME IInv, [Next]_vars PROVE IInv'
  OBVIOUS
<1>1. CASE Next
  BY SMTT(30), <1>1, WorkerReadyStep, addOperationStep, popOperationForIdStep, getStatusStep, runStep,
     MoveStep, mainExecutingStep, mainWorkStep, mainStoreStep, OwnerMoveStep, CancelStep
     DEF Next
<1>2. CASE UNCHANGED vars
  BY <1>2 DEF vars, IInv, TypeOK, QueueInv, HeldInv, StateInv, OwnerInv, OpenInv, StatusInv,
              CloseCancels, AllJoined, Held, Running
<1> QED BY <1>1, <1>2

\* The inductive invariant of the queue: it relates the queue, the map, what the
\* workers hold and the states that their operations are in.
THEOREM Inductive == Spec => []IInv
BY InitIInv, NextIInv, PTL DEF Spec

-----------------------------------------------------------------------------
(* What it implies. *)

\* No operation is run by two workers or twice, and every variable has its type,
\* in every reachable state, for any number of operations and workers (run).
THEOREM RunsOnce == Spec => []Inv
<1>1. IInv => Inv
  BY DEF IInv, TypeOK, Inv, RunOnce, QueueInv, HeldInv, Held, Holding, Running, Range
<1> QED BY <1>1, Inductive, PTL

\* close() leaves no operation of the map READY, closeAndWait returns when every
\* operation still in the map has ended, and finishAndWait, if there is a worker,
\* when every one was run.
THEOREM NoOperationForgotten == Spec => []NoneForgotten
<1>1. IInv => CloseCancels
  BY DEF IInv, OwnerInv
<1>2. IInv => Settled
  BY DEF IInv, TypeOK, OwnerInv, CloseCancels, StateInv, AllJoined, Settled, Terminal,
         OperationStatus
<1>3. IInv => FinishDrains
  BY DEF IInv, TypeOK, OwnerInv, OpenInv, AllJoined, FinishDrains, Held, Holding
<1> QED BY <1>1, <1>2, <1>3, Inductive, PTL DEF NoneForgotten

\* What getStatus puts together from three loads of state_ is consistent as long
\* as nobody closes the queue, however the worker moves the operation meanwhile.
THEOREM StatusConsistent == Spec => []StatusAgreesWhileOpen
<1>1. IInv => StatusAgreesWhileOpen
  BY DEF IInv, TypeOK, Reports, StatusInv, StatusAgreesWhileOpen, StatusAgrees
<1> QED BY <1>1, Inductive, PTL
=============================================================================
