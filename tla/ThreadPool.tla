---------------------------- MODULE ThreadPool ----------------------------
(***************************************************************************)
(* ThreadPoolExecutor (Lib/concurrent/futures/thread.py): the clients      *)
(* submit calls to a SimpleQueue, worker threads are started when the      *)
(* count of idle ones is used up, and None on the queue makes the workers  *)
(* leave one after the other.                                              *)
(***************************************************************************)
EXTENDS Future, Sequences, SequencesExt

CONSTANTS Worker,         \* the threads the executor may start
          MaxWorkers,     \* _max_workers
          Owner,          \* the clients that have the executor
          Raises,         \* whether a call raised: the outcomes it may have
          NoOne, None,    \* no holder of a lock; the wake-up on the queue
          InitializerFails, \* whether there is an initializer that may raise
          Ends,           \* whether the executor may get lost, or Python exit
          Cancels,        \* the values of shutdown's cancel_futures
          MaxWakeUps      \* bound on the None on the queue at a shutdown

ASSUME ThreadPoolAssumption ==
  /\ IsFiniteSet(Worker) /\ IsFiniteSet(Work)
  /\ MaxWorkers \in 1 .. Cardinality(Worker)
  /\ NoOne \notin Client \cup Worker /\ None \notin Work
  /\ InitializerFails \in BOOLEAN /\ Ends \in BOOLEAN /\ Cancels \subseteq BOOLEAN
  /\ MaxWakeUps \in Nat /\ Owner \subseteq Client /\ Raises \subseteq BOOLEAN

VARIABLES
  workQueue,        \* _work_queue
  idleSemaphore,    \* the value of _idle_semaphore
  shutdownLock,     \* holder of _shutdown_lock
  shutdown, broken, \* _shutdown and _broken of the executor
  collected,        \* the executor is gone, but not its workers
  exiting,          \* the module's _shutdown, set when Python exits
  mainPc,           \* where _python_exit is
  workerPc, item    \* where each worker is, and the work item it has

poolFlags == <<shutdown, broken, collected, exiting, mainPc>>
workers   == <<workerPc, item>>
poolVars  == <<futureVars, workQueue, idleSemaphore, shutdownLock, poolFlags, workers>>

WakeUps(n) == [i \in 1 .. n |-> None]

Started == {w \in Worker : workerPc[w] # "unborn"}
Alive   == {w \in Started : workerPc[w] \notin {"exited", "dead"}}
Failed  == {w \in Started : workerPc[w] \in {"failed", "drain", "drained", "dead"}}

PoolTypeOK ==
  /\ state \in [Work -> {"NEW", "PENDING", "RUNNING", "CANCELLED",
                         "CANCELLED_AND_NOTIFIED", "FINISHED"}]
  /\ raised \subseteq Work
  /\ parked \in [Work -> SUBSET Client] /\ hooked \in [Work -> SUBSET Client]
  /\ listed \in [Work -> BOOLEAN] /\ ran \in [Work -> Nat]
  /\ clientPc \in [Client -> {"idle", "callbacks", "result", "wait", "unhook", "adjust",
                              "drain", "drained", "wakeup", "join"}]
  /\ target \in [Client -> Work \cup {NoWork}]
  /\ fs \in [Client -> SUBSET Work] /\ mode \in [Client -> Modes]
  /\ finished \in [Client -> SUBSET Work] /\ batch \in [Client -> SUBSET Work]
  /\ pendingCalls \in [Client -> Nat] /\ event \subseteq Client
  /\ workQueue \in Seq(Work \cup {None}) /\ idleSemaphore \in Nat
  /\ shutdownLock \in Client \cup Worker \cup {NoOne}
  /\ <<shutdown, broken, collected, exiting>> \in BOOLEAN \X BOOLEAN \X BOOLEAN \X BOOLEAN
  /\ mainPc \in {"running", "exit", "join", "gone"}
  /\ workerPc \in [Worker -> {"unborn", "initializer", "failed", "drain", "drained",
                              "get_nowait", "empty", "get", "run", "call", "callbacks",
                              "none", "exited", "dead"}]
  /\ item \in [Worker -> Work \cup {NoWork}]

PoolInit ==
  /\ FutureInit
  /\ workQueue = <<>> /\ idleSemaphore = 0 /\ shutdownLock = NoOne
  /\ shutdown = FALSE /\ broken = FALSE /\ collected = FALSE
  /\ exiting = FALSE /\ mainPc = "running"
  /\ workerPc = [w \in Worker |-> "unborn"] /\ item = [w \in Worker |-> NoWork]

WorkerGoes(w, l)   == workerPc' = [workerPc EXCEPT ![w] = l]
WorkerTakes(w, x)  == item' = [item EXCEPT ![w] = x]
-----------------------------------------------------------------------------
(* Variants named "faulty" are not part of the model: each stands for a    *)
(* mistake in the code that the properties are tried on.                   *)
(* Faulty: shutdown is not tested.                                         *)
faultyAccepts == ~collected /\ ~broken /\ ~exiting

(* submit raises if the pool is broken or shut down, or Python exits.      *)
Accepts == ~collected /\ ~broken /\ ~shutdown /\ ~exiting

(* submit.  The future and its work item are on the queue before the       *)
(* number of threads is looked at; both locks are held over the two steps. *)
Submit(c, f) ==
  /\ clientPc[c] = "idle" /\ shutdownLock = NoOne
  /\ Accepts
  /\ state[f] = "NEW"
  /\ state' = [state EXCEPT ![f] = "PENDING"]
  /\ workQueue' = Append(workQueue, f)
  /\ shutdownLock' = c /\ ClientGoes(c, "adjust")
  /\ UNCHANGED <<raised, parked, hooked, listed, ran, target, askVars, waiterVars,
                 idleSemaphore, poolFlags, workers>>

(* _idle_semaphore.acquire(timeout=0) succeeds. *)
HasIdle == idleSemaphore > 0

(* _adjust_thread_count, and the end of submit. *)
AdjustThreadCount(c) ==
  /\ clientPc[c] = "adjust"
  /\ \/ /\ HasIdle
        /\ idleSemaphore' = idleSemaphore - 1 /\ UNCHANGED workerPc
     \/ /\ ~HasIdle /\ Cardinality(Started) < MaxWorkers
        /\ \E w \in Worker \ Started : WorkerGoes(w, "initializer")
        /\ UNCHANGED idleSemaphore
     \/ /\ ~HasIdle /\ Cardinality(Started) >= MaxWorkers
        /\ UNCHANGED <<idleSemaphore, workerPc>>
  /\ shutdownLock' = NoOne /\ ClientGoes(c, "idle")
  /\ UNCHANGED <<callVars, parked, hooked, listed, ran, target, askVars, waiterVars,
                 workQueue, poolFlags, item>>
-----------------------------------------------------------------------------
(* shutdown(wait, cancel_futures). *)
ShutdownBegins(c, cancel) ==
  /\ clientPc[c] = "idle" /\ shutdownLock = NoOne /\ ~collected
  /\ Cardinality({i \in DOMAIN workQueue : workQueue[i] = None}) < MaxWakeUps
  /\ shutdown' = TRUE
  /\ shutdownLock' = c /\ ClientGoes(c, IF cancel THEN "drain" ELSE "wakeup")
  /\ UNCHANGED <<callVars, parked, hooked, listed, ran, target, askVars, waiterVars,
                 workQueue, idleSemaphore, broken, collected, exiting, mainPc, workers>>

(* One turn of the loop that empties the queue: the future is cancelled,   *)
(* or was before.  Its callbacks are called before the next turn.          *)
ShutdownDrains(c) ==
  /\ clientPc[c] = "drain"
  /\ \/ /\ workQueue = <<>>
        /\ ClientGoes(c, "wakeup")
        /\ UNCHANGED <<callVars, parked, waiterVars, target, workQueue>>
     \/ /\ workQueue # <<>> /\ Head(workQueue) = None
        /\ workQueue' = Tail(workQueue)
        /\ UNCHANGED <<callVars, parked, waiterVars, target, clientPc>>
     \/ /\ workQueue # <<>> /\ Head(workQueue) # None
        /\ workQueue' = Tail(workQueue)
        /\ IF Cancellable(Head(workQueue))
           THEN /\ Cancelled(Head(workQueue))
                /\ ClientGoes(c, "drained") /\ target' = [target EXCEPT ![c] = Head(workQueue)]
           ELSE UNCHANGED <<callVars, parked, waiterVars, target, clientPc>>
  /\ UNCHANGED <<hooked, listed, ran, askVars, idleSemaphore, shutdownLock, poolFlags, workers>>

ShutdownCallbacks(c) ==
  /\ clientPc[c] = "drained"
  /\ InvokeCallbacks(target[c])
  /\ ClientGoes(c, "drain") /\ target' = [target EXCEPT ![c] = NoWork]
  /\ UNCHANGED <<callVars, parked, hooked, listed, askVars, waiterVars,
                 workQueue, idleSemaphore, shutdownLock, poolFlags, workers>>

(* The wake-up for the workers, and then their threads are joined.         *)
ShutdownWakes(c, wait) ==
  /\ clientPc[c] = "wakeup"
  /\ workQueue' = Append(workQueue, None)
  /\ shutdownLock' = NoOne /\ ClientGoes(c, IF wait THEN "join" ELSE "idle")
  /\ UNCHANGED <<callVars, parked, hooked, listed, ran, target, askVars, waiterVars,
                 idleSemaphore, poolFlags, workers>>

ShutdownReturns(c) ==
  /\ clientPc[c] = "join" /\ Alive = {}
  /\ ClientGoes(c, "idle")
  /\ UNCHANGED <<callVars, parked, hooked, listed, ran, target, askVars, waiterVars,
                 workQueue, idleSemaphore, shutdownLock, poolFlags, workers>>

(* The last reference to the executor is dropped: the callback of each of  *)
(* the weak references its workers have puts a wake-up on the queue.  A    *)
(* call of one of its methods is a reference, and so has a worker that is  *)
(* in _initializer_failed.                                                 *)
ExecutorLost ==
  /\ Ends /\ ~collected
  /\ \A c \in Client : clientPc[c] \notin {"adjust", "drain", "drained", "wakeup", "join"}
  /\ \A w \in Worker : workerPc[w] \notin {"failed", "drain", "drained"}
  /\ collected' = TRUE
  /\ workQueue' = workQueue \o WakeUps(Cardinality(Alive))
  /\ UNCHANGED <<futureVars, idleSemaphore, shutdownLock, shutdown, broken, exiting,
                 mainPc, workers>>

(* _python_exit: no submit is in the middle, for it holds                  *)
(* _global_shutdown_lock; then there is a wake-up for each thread that     *)
(* _threads_queues has, which may have ended.                              *)
PythonExits ==
  /\ Ends /\ mainPc = "running"
  /\ \A c \in Client : clientPc[c] # "adjust"
  /\ exiting' = TRUE /\ mainPc' = "exit"
  /\ UNCHANGED <<futureVars, workQueue, idleSemaphore, shutdownLock, shutdown, broken,
                 collected, workers>>

PythonExitWakes ==
  /\ mainPc = "exit" /\ mainPc' = "join"
  /\ \E n \in Cardinality(Alive) .. Cardinality(Started) :
       workQueue' = workQueue \o WakeUps(n)
  /\ UNCHANGED <<futureVars, idleSemaphore, shutdownLock, shutdown, broken, collected,
                 exiting, workers>>

PythonExitJoins ==
  /\ mainPc = "join" /\ Alive = {} /\ mainPc' = "gone"
  /\ UNCHANGED <<futureVars, workQueue, idleSemaphore, shutdownLock, shutdown, broken,
                 collected, exiting, workers>>
-----------------------------------------------------------------------------
(* _worker.  First the initializer, if there is one. *)
InitializerReturns(w) ==
  /\ workerPc[w] = "initializer" /\ WorkerGoes(w, "get_nowait")
  /\ UNCHANGED <<futureVars, workQueue, idleSemaphore, shutdownLock, poolFlags, item>>

InitializerRaises(w) ==
  /\ InitializerFails
  /\ workerPc[w] = "initializer" /\ WorkerGoes(w, IF collected THEN "dead" ELSE "failed")
  /\ UNCHANGED <<futureVars, workQueue, idleSemaphore, shutdownLock, poolFlags, item>>

(* _initializer_failed: the pool is broken, and the calls on the queue are *)
(* given an exception.  set_exception raises InvalidStateError if one was  *)
(* cancelled, which ends the loop and the thread.                          *)
InitializerFailed(w) ==
  /\ workerPc[w] = "failed" /\ shutdownLock = NoOne
  /\ broken' = TRUE
  /\ shutdownLock' = w /\ WorkerGoes(w, "drain")
  /\ UNCHANGED <<futureVars, workQueue, idleSemaphore, shutdown, collected, exiting,
                 mainPc, item>>

FailedDrains(w) ==
  /\ workerPc[w] = "drain"
  /\ \/ /\ workQueue = <<>>
        /\ WorkerGoes(w, "dead") /\ shutdownLock' = NoOne
        /\ UNCHANGED <<callVars, parked, waiterVars, workQueue, item>>
     \/ /\ workQueue # <<>> /\ Head(workQueue) = None
        /\ workQueue' = Tail(workQueue)
        /\ UNCHANGED <<callVars, parked, waiterVars, workerPc, item, shutdownLock>>
     \/ /\ workQueue # <<>> /\ Head(workQueue) # None
        /\ workQueue' = Tail(workQueue)
        /\ IF Done(Head(workQueue))
           THEN /\ WorkerGoes(w, "dead") /\ shutdownLock' = NoOne
                /\ UNCHANGED <<callVars, parked, waiterVars, item>>
           ELSE /\ SetOutcome(Head(workQueue), TRUE)
                /\ WorkerGoes(w, "drained") /\ WorkerTakes(w, Head(workQueue))
                /\ UNCHANGED shutdownLock
  /\ UNCHANGED <<hooked, listed, ran, clientPc, target, askVars, idleSemaphore, poolFlags>>

FailedCallbacks(w) ==
  /\ workerPc[w] = "drained"
  /\ InvokeCallbacks(item[w])
  /\ WorkerGoes(w, "drain") /\ WorkerTakes(w, NoWork)
  /\ UNCHANGED <<callVars, parked, hooked, listed, clientPc, target, askVars, waiterVars,
                 workQueue, idleSemaphore, shutdownLock, poolFlags>>

(* get_nowait: an empty queue makes the worker count as idle, in a step of *)
(* its own, before it blocks in get.                                       *)
FoundEmpty(w) ==
  /\ workerPc[w] = "get_nowait" /\ workQueue = <<>>
  /\ WorkerGoes(w, "empty")
  /\ UNCHANGED <<futureVars, workQueue, idleSemaphore, shutdownLock, poolFlags, item>>

BecomesIdle(w) ==
  /\ workerPc[w] = "empty"
  /\ idleSemaphore' = IF collected THEN idleSemaphore ELSE idleSemaphore + 1
  /\ WorkerGoes(w, "get")
  /\ UNCHANGED <<futureVars, workQueue, shutdownLock, poolFlags, item>>

(* get_nowait with an item there, and get(block=True). *)
TakeItem(w) ==
  /\ workerPc[w] \in {"get_nowait", "get"} /\ workQueue # <<>>
  /\ workQueue' = Tail(workQueue)
  /\ IF Head(workQueue) = None
     THEN WorkerGoes(w, "none") /\ UNCHANGED item
     ELSE WorkerGoes(w, "run") /\ WorkerTakes(w, Head(workQueue))
  /\ UNCHANGED <<futureVars, idleSemaphore, shutdownLock, poolFlags>>

(* _WorkItem.run *)
RunItem(w) ==
  /\ workerPc[w] = "run"
  /\ StartOrNotify(item[w])
  /\ IF state[item[w]] = "CANCELLED"
     THEN WorkerGoes(w, "get_nowait") /\ WorkerTakes(w, NoWork)
     ELSE WorkerGoes(w, "call") /\ UNCHANGED item
  /\ UNCHANGED <<hooked, listed, ran, clientPc, target, askVars, workQueue,
                 idleSemaphore, shutdownLock, poolFlags>>

CallEnds(w, ex) ==
  /\ workerPc[w] = "call" /\ ~Done(item[w])
  /\ SetOutcome(item[w], ex)
  /\ WorkerGoes(w, "callbacks")
  /\ UNCHANGED <<hooked, listed, ran, clientPc, target, askVars, workQueue,
                 idleSemaphore, shutdownLock, poolFlags, item>>

WorkerCallbacks(w) ==
  /\ workerPc[w] = "callbacks"
  /\ InvokeCallbacks(item[w])
  /\ WorkerGoes(w, "get_nowait") /\ WorkerTakes(w, NoWork)
  /\ UNCHANGED <<callVars, parked, hooked, listed, clientPc, target, askVars, waiterVars,
                 workQueue, idleSemaphore, shutdownLock, poolFlags>>

(* Faulty: the None is not put back for the next.                          *)
faultyGotNone(w) ==
  /\ workerPc[w] = "none"
  /\ IF exiting \/ collected \/ shutdown
     THEN /\ shutdown' = (shutdown \/ ~collected)
          /\ WorkerGoes(w, "exited") /\ UNCHANGED workQueue
     ELSE WorkerGoes(w, "get_nowait") /\ UNCHANGED <<shutdown, workQueue>>
  /\ UNCHANGED <<futureVars, idleSemaphore, shutdownLock, broken, collected, exiting,
                 mainPc, item>>

(* The worker got None: if it is to leave it flags the executor, and puts  *)
(* None back for the others.                                               *)
GotNone(w) ==
  /\ workerPc[w] = "none"
  /\ IF exiting \/ collected \/ shutdown
     THEN /\ shutdown' = (shutdown \/ ~collected)
          /\ workQueue' = Append(workQueue, None)
          /\ WorkerGoes(w, "exited")
     ELSE WorkerGoes(w, "get_nowait") /\ UNCHANGED <<shutdown, workQueue>>
  /\ UNCHANGED <<futureVars, idleSemaphore, shutdownLock, broken, collected, exiting,
                 mainPc, item>>
-----------------------------------------------------------------------------
WorkerStep(w) ==
  \/ InitializerReturns(w) \/ InitializerRaises(w) \/ InitializerFailed(w)
  \/ FailedDrains(w) \/ FailedCallbacks(w)
  \/ FoundEmpty(w) \/ BecomesIdle(w) \/ TakeItem(w) \/ RunItem(w)
  \/ \E ex \in Raises : CallEnds(w, ex)
  \/ WorkerCallbacks(w) \/ GotNone(w)

(* What a client that is in submit or shutdown does next. *)
ClientGoesOn(c) ==
  \/ AdjustThreadCount(c) \/ ShutdownDrains(c) \/ ShutdownCallbacks(c)
  \/ \E wait \in BOOLEAN : ShutdownWakes(c, wait)

PoolNext ==
  \/ \E w \in Worker : WorkerStep(w)
  \/ \E c \in Owner :
       \/ ClientGoesOn(c) \/ ShutdownReturns(c)
       \/ \E f \in Work : Submit(c, f)
       \/ \E cancel \in Cancels : ShutdownBegins(c, cancel)
  \/ ExecutorLost \/ PythonExits \/ PythonExitWakes \/ PythonExitJoins
  \/ /\ FutureNext
     /\ UNCHANGED <<workQueue, idleSemaphore, shutdownLock, poolFlags, workers>>

(* Threads are scheduled, and calls and initializers end.                  *)
PoolFair ==
  /\ WF_poolVars(\E w \in Worker : WorkerStep(w))
  /\ WF_poolVars(\E c \in Owner : ClientGoesOn(c))

PoolSpec == PoolInit /\ [][PoolNext]_poolVars
-----------------------------------------------------------------------------
(* A worker never finds its work item in a state in which the methods of   *)
(* the future raise: it is pending or cancelled before the call, running   *)
(* during it (set_running_or_notify_cancel, set_result).                   *)
ItemUsable ==
  \A w \in Worker :
    /\ workerPc[w] = "run"  => state[item[w]] \in {"PENDING", "CANCELLED"}
    /\ workerPc[w] = "call" => state[item[w]] = "RUNNING"

(* No call is lost and none is there twice: a pending future is on the     *)
(* queue or with the worker that is about to run it, and while no thread's *)
(* initializer failed some thread is left to take it, once submit is over  *)
(* (_adjust_thread_count, the exit of the workers).                        *)
Places(f) == Cardinality({i \in DOMAIN workQueue : workQueue[i] = f}
                         \cup {w \in Worker : item[w] = f})

PendingIsServed ==
  \A f \in Work : state[f] = "PENDING" =>
    /\ Places(f) = 1
    /\ Failed # {} \/ shutdownLock \in Client \/ Alive # {}

(* A callback is called once: not twice, and not never, if the future is   *)
(* done and nobody is at its callbacks (add_done_callback and              *)
(* _invoke_callbacks).                                                     *)
AtCallbacks(f) ==
  \/ \E c \in Client : clientPc[c] \in {"callbacks", "drained"} /\ target[c] = f
  \/ \E w \in Worker : workerPc[w] \in {"callbacks", "drained"} /\ item[w] = f

CallbackOnce ==
  \A f \in Work :
    /\ ran[f] <= 1
    /\ listed[f] /\ Done(f) /\ ~AtCallbacks(f) => ran[f] = 1

(* Nobody sleeps in result() of a future that is done: the notify_all of   *)
(* cancel, set_result and set_exception reaches those that wait.           *)
NoSleeperOnDone == \A f \in Work : Done(f) => parked[f] = {}

(* The count of a waiter is that of its futures that have not told it, so  *)
(* wait() is woken when its condition holds and not before.                *)
WaitersCount ==
  \A c \in Client : clientPc[c] = "wait" =>
    LET open == {f \in fs[c] : ~Notified(f)}
    IN CASE mode[c] = "ALL_COMPLETED"   -> /\ pendingCalls[c] = Cardinality(open)
                                           /\ c \in event <=> open = {}
         [] mode[c] = "FIRST_EXCEPTION" -> c \in event <=> open = {} \/ fs[c] \cap raised # {}
         [] mode[c] = "FIRST_COMPLETED" -> c \in event <=> open # fs[c]
         [] mode[c] = "AS_COMPLETED"    -> /\ c \in event <=> open # fs[c]
                                           /\ finished[c] = fs[c] \ open

(* Without a failed initializer every call that is submitted ends or is    *)
(* cancelled.                                                              *)
CallsEnd == \A f \in Work : state[f] = "PENDING" ~> (Done(f) \/ Failed # {})

(* After a shutdown, the loss of the executor or the exit of Python the    *)
(* workers leave, so that shutdown and _python_exit can join them.         *)
WorkersLeave == (shutdown \/ collected \/ mainPc = "join") ~> (Alive = {} \/ Failed # {})

(* What is true of a pool at any time.                                     *)
PoolInv == PoolTypeOK /\ NoSleeperOnDone /\ ItemUsable /\ PendingIsServed

(* Calls and workers come to an end.                                       *)
PoolEnds == CallsEnd /\ WorkersLeave
=============================================================================
