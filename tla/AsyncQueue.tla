----------------------------- MODULE AsyncQueue -----------------------------
(***************************************************************************)
(* asyncio.Queue (Lib/asyncio/queues.py) with join, which waits for an     *)
(* asyncio.Event (Lib/asyncio/locks.py).  Which items are on the queue     *)
(* does not matter here, only how many.                                    *)
(***************************************************************************)
EXTENDS AsyncTask

CONSTANTS asyncMaxsize,     \* of the queue, at least one
          MaxItems     \* bound on the items put when the last put begins

ASSUME AsyncQueueAssumption == asyncMaxsize \in Nat \ {0} /\ MaxItems \in Nat

VARIABLES
  size, unfinished,   \* qsize() and _unfinished_tasks
  getters, putters,   \* _getters and _putters
  finishedEvent,           \* the Event _finished
  joiners,            \* its _waiters
  queuePc,            \* where each task is
  asyncPuts            \* the items put so far

asyncQueueVars == <<taskVars, size, unfinished, getters, putters, finishedEvent, joiners,
                    queuePc, asyncPuts>>

AsyncQueueTypeOK ==
  /\ TaskTypeOK /\ ScheduledOnce
  /\ size \in 0 .. asyncMaxsize /\ unfinished \in Nat /\ asyncPuts \in Nat
  /\ getters \in Seq(Task) /\ putters \in Seq(Task) /\ joiners \in Seq(Task)
  /\ finishedEvent \in BOOLEAN
  /\ queuePc \in [Task -> {"idle", "put", "get", "join"}]

AsyncQueueInit ==
  /\ TaskInit
  /\ size = 0 /\ unfinished = 0 /\ finishedEvent = TRUE /\ asyncPuts = 0
  /\ getters = <<>> /\ putters = <<>> /\ joiners = <<>>
  /\ queuePc = [t \in Task |-> "idle"]

QueueGoes(t, l) == queuePc' = [queuePc EXCEPT ![t] = l]

Full == size >= asyncMaxsize

Empty == size = 0
-----------------------------------------------------------------------------
(* _wakeup_next takes waiters off the list until one of them can be woken. *)
AfterWakeup(ws) ==
  IF Pending(ws) = <<>> THEN <<>>
  ELSE LET i == CHOOSE j \in DOMAIN ws : ws[j] = Head(Pending(ws))
       IN SubSeq(ws, i + 1, Len(ws))

(* put_nowait and get_nowait, at the end of a step of t, with the putters  *)
(* (getters) ws that are there.                                            *)
PutNowait(t, ws) ==
  /\ size' = size + 1 /\ asyncPuts' = asyncPuts + 1
  /\ unfinished' = unfinished + 1 /\ finishedEvent' = FALSE
  /\ getters' = AfterWakeup(getters) /\ putters' = ws
  /\ QueueGoes(t, "idle") /\ Runs(t, FirstPending(getters), FALSE)
  /\ UNCHANGED joiners

GetNowait(t, ws) ==
  /\ size' = size - 1
  /\ putters' = AfterWakeup(putters) /\ getters' = ws
  /\ QueueGoes(t, "idle") /\ Runs(t, FirstPending(putters), FALSE)
  /\ UNCHANGED <<unfinished, finishedEvent, joiners, asyncPuts>>

(* put and get, at the head of their loops. *)
Begins(t) == queuePc[t] = "idle"

WokenUp(t, call) == queuePc[t] = call /\ Resumes(t) /\ ~Throws(t)

AsyncPut(t) ==
  /\ (Begins(t) /\ asyncPuts < MaxItems) \/ WokenUp(t, "put")
  /\ ~Full
  /\ PutNowait(t, putters)

AsyncPutWaits(t) ==
  /\ (Begins(t) /\ asyncPuts < MaxItems) \/ WokenUp(t, "put")
  /\ Full
  /\ putters' = Append(putters, t)
  /\ QueueGoes(t, "put") /\ Runs(t, NoWake, TRUE)
  /\ UNCHANGED <<size, unfinished, getters, finishedEvent, joiners, asyncPuts>>

AsyncGet(t) ==
  /\ Begins(t) \/ WokenUp(t, "get")
  /\ ~Empty
  /\ GetNowait(t, getters)

AsyncGetWaits(t) ==
  /\ Begins(t) \/ WokenUp(t, "get")
  /\ Empty
  /\ getters' = Append(getters, t)
  /\ QueueGoes(t, "get") /\ Runs(t, NoWake, TRUE)
  /\ UNCHANGED <<size, unfinished, putters, finishedEvent, joiners, asyncPuts>>

(* Variants named "faulty" are not part of the model: each stands for a    *)
(* mistake in the code that the properties are tried on.                   *)
(* Faulty: the wake-up is not handed on.                                   *)
faultyGetCancelled(t) ==
  /\ queuePc[t] = "get" /\ Resumes(t) /\ Throws(t)
  /\ getters' = Others(getters, t)
  /\ QueueGoes(t, "idle") /\ Runs(t, NoWake, FALSE)
  /\ UNCHANGED <<size, unfinished, putters, finishedEvent, joiners, asyncPuts>>

(* The except clauses: a waiter that was woken before it was cancelled     *)
(* wakes the next, if there is still room, or an item.                     *)
PutCancelled(t) ==
  LET others == Others(putters, t)
      wakes  == ~Full /\ fut[t] # "cancelled"
  IN /\ queuePc[t] = "put" /\ Resumes(t) /\ Throws(t)
     /\ putters' = IF wakes THEN AfterWakeup(others) ELSE others
     /\ QueueGoes(t, "idle") /\ Runs(t, IF wakes THEN FirstPending(others) ELSE NoWake, FALSE)
     /\ UNCHANGED <<size, unfinished, getters, finishedEvent, joiners, asyncPuts>>

GetCancelled(t) ==
  LET others == Others(getters, t)
      wakes  == ~Empty /\ fut[t] # "cancelled"
  IN /\ queuePc[t] = "get" /\ Resumes(t) /\ Throws(t)
     /\ getters' = IF wakes THEN AfterWakeup(others) ELSE others
     /\ QueueGoes(t, "idle") /\ Runs(t, IF wakes THEN FirstPending(others) ELSE NoWake, FALSE)
     /\ UNCHANGED <<size, unfinished, putters, finishedEvent, joiners, asyncPuts>>
-----------------------------------------------------------------------------
(* task_done and join, which waits for the event whatever wakes it. *)
AsyncTaskDone(t) ==
  /\ Begins(t) /\ unfinished > size
  /\ unfinished' = unfinished - 1
  /\ IF unfinished = 1
     THEN finishedEvent' = TRUE /\ Runs(t, Pending(joiners), FALSE)
     ELSE UNCHANGED <<finishedEvent, taskVars>>
  /\ UNCHANGED <<size, getters, putters, joiners, queuePc, asyncPuts>>

Join(t) ==
  /\ Begins(t) /\ unfinished > 0 /\ ~finishedEvent
  /\ joiners' = Append(joiners, t)
  /\ QueueGoes(t, "join") /\ Runs(t, NoWake, TRUE)
  /\ UNCHANGED <<size, unfinished, getters, putters, finishedEvent, asyncPuts>>

JoinResumes(t) ==
  /\ queuePc[t] = "join" /\ Resumes(t)
  /\ joiners' = Others(joiners, t)
  /\ QueueGoes(t, "idle") /\ Runs(t, NoWake, FALSE)
  /\ UNCHANGED <<size, unfinished, getters, putters, finishedEvent, asyncPuts>>

AsyncQueueCancel(t) ==
  /\ CancelTask(t)
  /\ UNCHANGED <<size, unfinished, getters, putters, finishedEvent, joiners, queuePc, asyncPuts>>

QueueResumes(t) ==
  \/ ~Begins(t) /\ (AsyncPut(t) \/ AsyncPutWaits(t) \/ AsyncGet(t) \/ AsyncGetWaits(t))
  \/ PutCancelled(t) \/ GetCancelled(t) \/ JoinResumes(t)

AsyncQueueNext ==
  \E t \in Task :
    \/ Begins(t) /\ (AsyncPut(t) \/ AsyncPutWaits(t) \/ AsyncGet(t) \/ AsyncGetWaits(t))
    \/ AsyncTaskDone(t) \/ Join(t) \/ QueueResumes(t) \/ AsyncQueueCancel(t)

AsyncQueueSpec == AsyncQueueInit /\ [][AsyncQueueNext]_asyncQueueVars
-----------------------------------------------------------------------------
WokenFor(call) == {t \in Task : queuePc[t] = call /\ fut[t] = "result"}

(* No wake-up is lost, to whomever it went and whoever was faster: while a *)
(* task sleeps in get, at least as many others were woken and did not run  *)
(* yet as there are items; and while one sleeps in put, as many as there   *)
(* is room for (put, get, _wakeup_next).                                   *)
AsyncNoLostWakeup ==
  /\ Pending(getters) # <<>> => Cardinality(WokenFor("get")) >= size
  /\ Pending(putters) # <<>> => Cardinality(WokenFor("put")) >= asyncMaxsize - size

(* Whoever sleeps in a call can be woken: it is on the list of its call,   *)
(* once; and the lists have nobody on them who is not in the call.         *)
SleepersListed ==
  \A call \in {"put", "get", "join"} :
    LET list == CASE call = "put" -> putters [] call = "get" -> getters [] OTHER -> joiners
    IN /\ IsInjective(list)
       /\ \A i \in DOMAIN list : queuePc[list[i]] = call
       /\ \A t \in Task : queuePc[t] = call /\ fut[t] = "pending" => t \in ToSet(list)

(* Nobody sleeps in join when everything is done, and the event says       *)
(* whether it is (task_done, put_nowait).                                  *)
JoinNeedsWork ==
  /\ finishedEvent <=> unfinished = 0
  /\ Pending(joiners) # <<>> => unfinished > 0

(* What is true of a queue of asyncio at any time.                         *)
AsyncQueueInv == AsyncQueueTypeOK /\ AsyncNoLostWakeup /\ SleepersListed /\ JoinNeedsWork
=============================================================================
