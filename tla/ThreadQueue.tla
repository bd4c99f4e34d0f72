---------------------------- MODULE ThreadQueue ----------------------------
(***************************************************************************)
(* queue.Queue (Lib/queue.py) over threading.Condition (Lib/threading.py): *)
(* a bounded queue whose three conditions share the mutex.                 *)
(*                                                                         *)
(* What a thread does between taking the mutex and giving it back is one   *)
(* step: it ends with the wait of a condition, a return or an exception.   *)
(* A thread in wait has its waiter, a lock, on the list of the condition,  *)
(* and sleeps without the mutex until a notify releases the waiter, its    *)
(* time is up, or a signal handler raises.  The queue itself is a deque, a *)
(* heap or a list; only its length matters here.                           *)
(***************************************************************************)
EXTENDS Naturals, FiniteSets, SequencesExt

CONSTANTS User,          \* the threads that use the queue
          maxsize,
          Signalled,     \* those of them whose signal handlers may raise
          Stale, Spent,  \* waiters whose threads are no longer at them, the
                         \* latter released once more
          MaxPuts        \* bound on the items put before the last calls of put begin

ASSUME ThreadQueueAssumption ==
  /\ maxsize \in Nat \ {0} /\ MaxPuts \in Nat
  /\ Signalled \subseteq User /\ {Stale, Spent} \cap User = {}

Condition == {"not_full", "not_empty", "all_tasks_done"}

VARIABLES
  qsize, unfinished_tasks,
  taken,        \* for each thread, the items it got and is not done with
  putCount,     \* the items put so far
  waiters,      \* _waiters of each condition, by the threads they are of
  released,     \* the threads whose waiter was released
  userPc,       \* where each thread is
  waitsFor,     \* the condition its call may wait for
  hasTimeout,   \* whether its call has a timeout
  broke         \* an exception lost a notification

queueVars == <<qsize, unfinished_tasks, taken, putCount, waiters, released,
               userPc, waitsFor, hasTimeout, broke>>

QueueTypeOK ==
  /\ qsize \in 0 .. maxsize /\ unfinished_tasks \in Nat /\ putCount \in Nat
  /\ taken \in [User -> Nat]
  /\ waiters \in [Condition -> Seq(User \cup {Stale, Spent})] /\ released \subseteq User
  /\ userPc \in [User -> {"idle", "asleep", "gotit", "late", "raising"}]
  /\ waitsFor \in [User -> Condition]
  /\ hasTimeout \in [User -> BOOLEAN] /\ broke \in BOOLEAN

QueueInit ==
  /\ qsize = 0 /\ unfinished_tasks = 0 /\ putCount = 0
  /\ taken = [t \in User |-> 0]
  /\ waiters = [k \in Condition |-> <<>>] /\ released = {}
  /\ userPc = [t \in User |-> "idle"]
  /\ waitsFor = [t \in User |-> "not_full"] /\ hasTimeout = [t \in User |-> FALSE]
  /\ broke = FALSE

(* Variants named "faulty" are not part of the model: each stands for a    *)
(* mistake in the code that the properties are tried against.              *)

(* The waiters of k without that of t, in the thread's name. *)
Without(k, t) == RemoveFirst(waiters[k], t)

(* Where _waiters are once the thread of a wait is back with the mutex:    *)
(* if it did not get its waiter it removes it, if it is still there.       *)
WaitersOnReturn(t) ==
  IF userPc[t] \in {"late", "raising"}
  THEN [waiters EXCEPT ![waitsFor[t]] = Without(waitsFor[t], t)]
  ELSE waiters
-----------------------------------------------------------------------------
(* Condition.notify with n = 1 and notify_all, with the waiters ws that    *)
(* the thread finds.  The waiters up to the first that can be released go; *)
(* threads that gave up and only want the mutex count as well, and so do   *)
(* stale waiters.                                                          *)
Releasable(w) == w \notin released \cup {Spent}

Notify(k, all, ws) ==
  LET live == {i \in DOMAIN ws[k] : Releasable(ws[k][i])}
      n    == IF all \/ live = {} THEN Len(ws[k])
              ELSE CHOOSE i \in live : \A j \in live : i <= j
  IN /\ waiters' = [ws EXCEPT ![k] = SubSeq(@, n + 1, Len(@))]
     /\ released' = (released \cup {ws[k][i] : i \in 1 .. n}) \cap User

(* The same, interrupted between the release of the first waiter and its   *)
(* removal.                                                                *)
NotifyInterrupted(k, ws) ==
  /\ ws[k] # <<>> /\ Releasable(Head(ws[k]))
  /\ waiters' = [ws EXCEPT ![k][1] = IF @ = Stale THEN Spent ELSE @]
  /\ released' = released \cup (User \cap {Head(ws[k])})

(* A thread is in the loop of a call that waits for k: it begins the call, *)
(* or is back from a wait.                                                 *)
AtLoop(t, k) ==
  \/ userPc[t] = "idle"
  \/ userPc[t] \in {"gotit", "late"} /\ waitsFor[t] = k

Leaves(t) ==
  /\ userPc' = [userPc EXCEPT ![t] = "idle"]
  /\ waitsFor' = [waitsFor EXCEPT ![t] = "not_full"]
  /\ hasTimeout' = [hasTimeout EXCEPT ![t] = FALSE]

(* Condition.wait up to where the thread sleeps; a thread that was woken   *)
(* or found its time not up yet may wait again.                            *)
Waits(t, k) ==
  /\ waiters' = [WaitersOnReturn(t) EXCEPT ![k] = Append(@, t)]
  /\ released' = released \ {t}
  /\ userPc' = [userPc EXCEPT ![t] = "asleep"]
  /\ waitsFor' = [waitsFor EXCEPT ![t] = k]
  /\ \E timed \in IF userPc[t] = "idle" /\ k # "all_tasks_done" THEN BOOLEAN
                  ELSE {hasTimeout[t]} :
       hasTimeout' = [hasTimeout EXCEPT ![t] = timed]
  /\ UNCHANGED <<qsize, unfinished_tasks, taken, putCount, broke>>

(* Full or Empty is raised: the call does not block, or its time is up.    *)
RaisesFullOrEmpty(t) ==
  /\ userPc[t] # "idle" => hasTimeout[t]
  /\ waiters' = WaitersOnReturn(t) /\ released' = released \ {t}
  /\ Leaves(t)
  /\ UNCHANGED <<qsize, unfinished_tasks, taken, putCount, broke>>

HasNoRoom == qsize >= maxsize

(* put, with room and without. *)
Put(t) ==
  /\ AtLoop(t, "not_full") /\ ~HasNoRoom
  /\ userPc[t] = "idle" => putCount < MaxPuts
  /\ putCount' = putCount + 1 /\ qsize' = qsize + 1
  /\ unfinished_tasks' = unfinished_tasks + 1
  /\ \/ Notify("not_empty", FALSE, WaitersOnReturn(t)) /\ UNCHANGED broke
     \/ t \in Signalled /\ NotifyInterrupted("not_empty", WaitersOnReturn(t)) /\ broke' = TRUE
  /\ Leaves(t)
  /\ UNCHANGED taken

PutHasNoRoom(t) ==
  /\ AtLoop(t, "not_full") /\ HasNoRoom
  /\ userPc[t] = "idle" => putCount < MaxPuts
  /\ Waits(t, "not_full") \/ RaisesFullOrEmpty(t)

(* get, with an item there and without. *)
GetItem(t) ==
  /\ AtLoop(t, "not_empty") /\ qsize > 0
  /\ qsize' = qsize - 1 /\ taken' = [taken EXCEPT ![t] = @ + 1]
  /\ \/ Notify("not_full", FALSE, WaitersOnReturn(t)) /\ UNCHANGED broke
     \/ t \in Signalled /\ NotifyInterrupted("not_full", WaitersOnReturn(t)) /\ broke' = TRUE
  /\ Leaves(t)
  /\ UNCHANGED <<unfinished_tasks, putCount>>

(* Faulty: a get whose time is up does not look for an item.               *)
faultyGetHasNoItem(t) ==
  /\ AtLoop(t, "not_empty")
  /\ \/ qsize = 0 /\ Waits(t, "not_empty")
     \/ (qsize = 0 \/ userPc[t] = "late") /\ RaisesFullOrEmpty(t)

GetHasNoItem(t) ==
  /\ AtLoop(t, "not_empty") /\ qsize = 0
  /\ Waits(t, "not_empty") \/ RaisesFullOrEmpty(t)

(* task_done, by a thread that is done with an item it got. *)
TaskDone(t) ==
  /\ userPc[t] = "idle" /\ taken[t] > 0
  /\ taken' = [taken EXCEPT ![t] = @ - 1]
  /\ unfinished_tasks' = unfinished_tasks - 1
  /\ IF unfinished_tasks = 1 THEN Notify("all_tasks_done", TRUE, waiters)
                             ELSE UNCHANGED <<waiters, released>>
  /\ UNCHANGED <<qsize, putCount, userPc, waitsFor, hasTimeout, broke>>

(* join *)
JoinWaits(t) ==
  /\ AtLoop(t, "all_tasks_done") /\ unfinished_tasks > 0
  /\ Waits(t, "all_tasks_done")

JoinReturns(t) ==
  /\ userPc[t] = "gotit" /\ waitsFor[t] = "all_tasks_done" /\ unfinished_tasks = 0
  /\ waiters' = WaitersOnReturn(t) /\ released' = released \ {t}
  /\ Leaves(t)
  /\ UNCHANGED <<qsize, unfinished_tasks, taken, putCount, broke>>
-----------------------------------------------------------------------------
(* In wait, without the mutex.  The thread gets its waiter: if that is     *)
(* still on the list, it is stale from now on.  Or the time is up, perhaps *)
(* just when the waiter is released; or a signal handler raises.           *)
GetsWaiter(t) ==
  /\ userPc[t] = "asleep" /\ t \in released
  /\ userPc' = [userPc EXCEPT ![t] = "gotit"] /\ released' = released \ {t}
  /\ waiters' = [waiters EXCEPT ![waitsFor[t]] =
                   [i \in DOMAIN @ |-> IF @[i] = t THEN Stale ELSE @[i]]]
  /\ UNCHANGED <<qsize, unfinished_tasks, taken, putCount, waitsFor, hasTimeout, broke>>

GivesUp(t, l) ==
  /\ userPc[t] = "asleep"
  /\ l = "late" => hasTimeout[t]
  /\ l = "raising" => t \in Signalled
  /\ userPc' = [userPc EXCEPT ![t] = l]
  /\ UNCHANGED <<qsize, unfinished_tasks, taken, putCount, waiters, released, waitsFor,
                 hasTimeout, broke>>

(* The exception leaves the call, once the mutex is taken and the waiter   *)
(* removed: a notification that came meanwhile is lost.                    *)
RaisesOut(t) ==
  /\ userPc[t] = "raising"
  /\ waiters' = WaitersOnReturn(t) /\ released' = released \ {t}
  /\ broke' = (broke \/ t \in released)
  /\ Leaves(t)
  /\ UNCHANGED <<qsize, unfinished_tasks, taken, putCount>>

QueueNext ==
  \E t \in User :
    \/ Put(t) \/ PutHasNoRoom(t) \/ GetItem(t) \/ GetHasNoItem(t)
    \/ TaskDone(t) \/ JoinWaits(t) \/ JoinReturns(t)
    \/ GetsWaiter(t) \/ RaisesOut(t)
    \/ \E l \in {"late", "raising"} : GivesUp(t, l)

QueueSpec == QueueInit /\ [][QueueNext]_queueVars
-----------------------------------------------------------------------------
Sleepers(k) == {t \in User : userPc[t] = "asleep" /\ waitsFor[t] = k /\ t \notin released}
Coming(k)   == {t \in User : /\ waitsFor[t] = k
                             /\ \/ userPc[t] \in {"gotit", "late"}
                                \/ userPc[t] = "asleep" /\ t \in released}

(* An exception out of a notify, or out of a wait that was notified. *)
Lost == broke \/ \E t \in released : userPc[t] = "raising"

(* No wake-up is lost: while a thread sleeps in get, as many others are on *)
(* their way back from a wait in get as there are items; and while one     *)
(* sleeps in put, as many as there is room for.  So a notification that    *)
(* hits a thread whose time was up, or a thread whose item another one     *)
(* took, does no harm (put, get, wait).  Exceptions out of a wait or a     *)
(* notify do lose them.                                                    *)
NoLostWakeUp ==
  ~Lost =>
    /\ Sleepers("not_empty") # {} => Cardinality(Coming("not_empty")) >= qsize
    /\ Sleepers("not_full") # {} => Cardinality(Coming("not_full")) >= maxsize - qsize

(* A thread sleeps in join only while there are unfinished tasks, whatever *)
(* was put, got and done meanwhile (task_done, join).                      *)
JoinersHaveReason == Sleepers("all_tasks_done") # {} => unfinished_tasks > 0

(* A sleeper can be found: it has its waiter on the list of its condition, *)
(* once; and nothing else is on a list, but waiters of threads on their    *)
(* way to remove them, unless a notify was interrupted (wait, notify).     *)
Entries(k, t) == {i \in DOMAIN waiters[k] : waiters[k][i] = t}

WaitersAreListed ==
  /\ \A k \in Condition : \A t \in Sleepers(k) : Cardinality(Entries(k, t)) = 1
  /\ ~broke => \A k \in Condition : \A i \in DOMAIN waiters[k] :
       /\ waiters[k][i] \in User
       /\ userPc[waiters[k][i]] \in {"asleep", "late", "raising"}
       /\ waitsFor[waiters[k][i]] = k

(* What is true of a queue at any time.                                    *)
QueueInv == QueueTypeOK /\ WaitersAreListed /\ NoLostWakeUp /\ JoinersHaveReason
=============================================================================
