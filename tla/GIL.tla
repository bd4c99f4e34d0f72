-------------------------------- MODULE GIL --------------------------------
(***************************************************************************)
(* The Global Interpreter Lock: take_gil and drop_gil of                   *)
(* Python/ceval_gil.c and their callers in the eval loop, at thread exit   *)
(* and at finalization.                                                    *)
(*                                                                         *)
(* One step per access to state that another thread may touch without the  *)
(* lock this thread holds: gil_drop_request and eval_breaker are relaxed   *)
(* atomics that take_gil, drop_gil and an exiting thread write under       *)
(* different mutexes or under none.  What gil->mutex or gil->switch_mutex  *)
(* protects is one step.                                                   *)
(***************************************************************************)
EXTENDS FiniteSets

CONSTANTS Thread,     \* thread states (a PyThreadState runs on one OS thread)
          Interp,     \* the interpreters that share this GIL
          InterpOf,   \* tstate->interp
          Main,       \* the thread that calls Py_FinalizeEx
          NoThread,
          Blocking,   \* threads that make blocking calls (PyEval_SaveThread)
          Finalizes   \* whether Py_FinalizeEx is in scope

ASSUME GILAssumption ==
  /\ Main \in Thread /\ NoThread \notin Thread
  /\ InterpOf \in [Thread -> Interp]
  /\ Blocking \subseteq Thread /\ Finalizes \in BOOLEAN

VARIABLES
  locked,            \* gil->locked
  last_holder,       \* gil->last_holder
  mutex,             \* owner of gil->mutex
  switch_mutex,      \* owner of gil->switch_mutex
  gil_drop_request,  \* interp->ceval.gil_drop_request
  eval_breaker,      \* interp->ceval.eval_breaker (its other causes: EvalBreaker.tla)
  finalizing,        \* _PyRuntimeState_GetFinalizing() is set (to Main)
  pc,                \* where each thread is, see Label
  why,               \* why drop_gil runs, hence what follows it
  ret,               \* what follows COMPUTE_EVAL_BREAKER
  seen,              \* the flag COMPUTE_EVAL_BREAKER loaded and has yet to store
  switched,          \* gil->switch_number moved since saved_switchnum was read
  drop_requested     \* take_gil's local of that name

locks == <<locked, last_holder, mutex, switch_mutex>>
flags == <<gil_drop_request, eval_breaker, seen, ret>>
waits == <<switched, drop_requested>>
vars  == <<locks, flags, finalizing, pc, why, waits>>

Label ==
  {"out",                                  \* without the GIL, outside take_gil
   "take", "lock",                         \* entry of take_gil, MUTEX_LOCK
   "wait", "woken", "timedout",            \* COND_TIMED_WAIT and its two ends
   "request", "setreq", "setbrk",          \* timed out: ask the holder to drop
   "ready", "taken", "settle", "unlock",   \* from _ready to the end of take_gil
   "run", "pending",                       \* the eval loop, _Py_HandlePending
   "drop", "check", "switch",              \* drop_gil
   "sleep", "swait", "swoken",             \* COND_WAIT(switch_cond)
   "reset", "load", "store",               \* RESET_GIL_DROP_REQUEST, COMPUTE_EVAL_BREAKER
   "exited"}
Reason == {"save", "switch", "exit", "delete"}
Return == {"unlock", "sleep", "exited", "run"}

TypeOK ==
  /\ locked \in BOOLEAN /\ finalizing \in BOOLEAN
  /\ last_holder \in Thread
  /\ mutex \in Thread \cup {NoThread} /\ switch_mutex \in Thread \cup {NoThread}
  /\ gil_drop_request \in [Interp -> BOOLEAN] /\ eval_breaker \in [Interp -> BOOLEAN]
  /\ pc \in [Thread -> Label] /\ why \in [Thread -> Reason] /\ ret \in [Thread -> Return]
  /\ seen \in [Thread -> BOOLEAN] /\ switched \in [Thread -> BOOLEAN]
  /\ drop_requested \in [Thread -> BOOLEAN]

(* Main runs with the GIL; the others are about to enter thread_run. *)
Init ==
  /\ locked = TRUE /\ last_holder = Main
  /\ mutex = NoThread /\ switch_mutex = NoThread
  /\ gil_drop_request = [i \in Interp |-> FALSE]
  /\ eval_breaker = [i \in Interp |-> FALSE]
  /\ finalizing = FALSE
  /\ pc = [t \in Thread |-> IF t = Main THEN "run" ELSE "out"]
  /\ why = [t \in Thread |-> "save"]
  /\ ret = [t \in Thread |-> "run"]
  /\ seen = [t \in Thread |-> FALSE]
  /\ switched = [t \in Thread |-> FALSE]
  /\ drop_requested = [t \in Thread |-> FALSE]
-----------------------------------------------------------------------------
(* Variants named "faulty" are not part of the model: each stands for a    *)
(* mistake in the code that the properties are tried against.              *)

(* Faulty: threads are not told to exit. *)
NeverExit(t) == FALSE

MustExit(t) == finalizing /\ t # Main

At(t, l) == pc[t] = l
Goto(t, l) == pc' = [pc EXCEPT ![t] = l]

(* PyCOND_SIGNAL wakes one of the waiters, any one; t goes on at "next". *)
Signal(t, waiting, awake, next) ==
  IF \E w \in Thread \ {t} : At(w, waiting)
  THEN \E w \in Thread \ {t} : At(w, waiting) /\ pc' = [pc EXCEPT ![w] = awake, ![t] = next]
  ELSE Goto(t, next)

(* Faulty: gil->switch_mutex is not taken. *)
SwitchIgnored == TRUE

SwitchFree == switch_mutex = NoThread

(* COMPUTE_EVAL_BREAKER: a load and a store with a gap between them. *)
Compute(t, next) == Goto(t, "load") /\ ret' = [ret EXCEPT ![t] = next]

ResetRequest(t) ==
  /\ At(t, "reset")
  /\ gil_drop_request' = [gil_drop_request EXCEPT ![InterpOf[t]] = FALSE]
  /\ Goto(t, "load")
  /\ UNCHANGED <<locks, eval_breaker, seen, ret, finalizing, why, waits>>

LoadFlags(t) ==
  /\ At(t, "load")
  /\ seen' = [seen EXCEPT ![t] = gil_drop_request[InterpOf[t]]]
  /\ Goto(t, "store")
  /\ UNCHANGED <<locks, gil_drop_request, eval_breaker, ret, finalizing, why, waits>>

StoreBreaker(t) ==
  /\ At(t, "store")
  /\ eval_breaker' = [eval_breaker EXCEPT ![InterpOf[t]] = seen[t]]
  /\ seen' = [seen EXCEPT ![t] = FALSE]
  /\ Goto(t, ret[t])
  /\ ret' = [ret EXCEPT ![t] = "run"]
  /\ UNCHANGED <<locks, gil_drop_request, finalizing, why, waits>>
-----------------------------------------------------------------------------
(* take_gil *)

(* The thread must not touch its thread state any more once it must exit. *)
TakeGil(t) ==
  /\ At(t, "take")
  /\ Goto(t, IF MustExit(t) THEN "exited" ELSE "lock")
  /\ UNCHANGED <<locks, flags, finalizing, why, waits>>

(* COND_TIMED_WAIT gives gil->mutex back; saved_switchnum is read anew at  *)
(* every turn of the loop.                                                 *)
Wait(t) ==
  /\ mutex' = NoThread
  /\ switched' = [switched EXCEPT ![t] = FALSE]
  /\ Goto(t, "wait")

(* Faulty: the first wake-up is taken for a free GIL. *)
NoWait(t) == mutex' = t /\ Goto(t, "ready") /\ UNCHANGED switched

(* while (locked), by a thread that gets gil->mutex in this step. *)
WaitWhileLocked(t) ==
  IF locked THEN Wait(t) ELSE mutex' = t /\ Goto(t, "ready") /\ UNCHANGED switched

TakeLock(t) ==
  /\ At(t, "lock") /\ mutex = NoThread
  /\ WaitWhileLocked(t)
  /\ drop_requested' = [drop_requested EXCEPT ![t] = FALSE]
  /\ UNCHANGED <<locked, last_holder, switch_mutex, flags, finalizing, why>>

WaitTimeout(t) ==
  /\ At(t, "wait")
  /\ Goto(t, "timedout")
  /\ UNCHANGED <<locks, flags, finalizing, why, waits>>

(* COND_TIMED_WAIT has reacquired gil->mutex. *)
Reacquire(t) ==
  /\ pc[t] \in {"woken", "timedout"} /\ mutex = NoThread
  /\ IF At(t, "timedout") /\ locked /\ ~switched[t]
     THEN mutex' = t /\ Goto(t, "request") /\ UNCHANGED switched
     ELSE WaitWhileLocked(t)
  /\ UNCHANGED <<locked, last_holder, switch_mutex, flags, finalizing, why, drop_requested>>

(* The exiting thread gives gil->mutex back before it takes back its drop  *)
(* request (gh-96387).                                                     *)
RequestDrop(t) ==
  /\ At(t, "request")
  /\ IF MustExit(t)
     THEN /\ mutex' = NoThread
          /\ IF drop_requested[t]
             THEN Goto(t, "reset") /\ ret' = [ret EXCEPT ![t] = "exited"]
             ELSE Goto(t, "exited") /\ UNCHANGED ret
     ELSE Goto(t, "setreq") /\ UNCHANGED <<mutex, ret>>
  /\ UNCHANGED <<locked, last_holder, switch_mutex, gil_drop_request, eval_breaker, seen,
                 finalizing, why, waits>>

(* SET_GIL_DROP_REQUEST stores the request, then the breaker.  The GIL is  *)
(* still locked: nobody else had gil->mutex since it was seen locked.      *)
SetRequest(t) ==
  /\ At(t, "setreq")
  /\ gil_drop_request' = [gil_drop_request EXCEPT ![InterpOf[t]] = TRUE]
  /\ Goto(t, "setbrk")
  /\ UNCHANGED <<locks, eval_breaker, seen, ret, finalizing, why, waits>>

(* Faulty: the request without the breaker. *)
SetNoBreaker(t) ==
  /\ At(t, "setbrk")
  /\ drop_requested' = [drop_requested EXCEPT ![t] = TRUE]
  /\ Wait(t)
  /\ UNCHANGED <<locked, last_holder, switch_mutex, flags, finalizing, why>>

SetBreaker(t) ==
  /\ At(t, "setbrk")
  /\ eval_breaker' = [eval_breaker EXCEPT ![InterpOf[t]] = TRUE]
  /\ drop_requested' = [drop_requested EXCEPT ![t] = TRUE]
  /\ Wait(t)
  /\ UNCHANGED <<locked, last_holder, switch_mutex, gil_drop_request, seen, ret, finalizing, why>>

(* _ready: under gil->mutex and gil->switch_mutex. *)
TakeReady(t) ==
  /\ At(t, "ready") /\ SwitchFree
  /\ locked' = TRUE
  /\ last_holder' = t
  /\ switched' = IF t = last_holder THEN switched ELSE [u \in Thread |-> TRUE]
  /\ drop_requested' = [drop_requested EXCEPT ![t] = FALSE]
  /\ Signal(t, "swait", "swoken", "taken")
  /\ UNCHANGED <<mutex, switch_mutex, flags, finalizing, why>>

Taken(t) ==
  /\ At(t, "taken")
  /\ IF MustExit(t)
     THEN /\ mutex' = NoThread
          /\ why' = [why EXCEPT ![t] = "exit"]
          /\ Goto(t, "drop")
     ELSE Goto(t, "settle") /\ UNCHANGED <<mutex, why>>
  /\ UNCHANGED <<locked, last_holder, switch_mutex, flags, finalizing, waits>>

(* Faulty: the request of the thread that got the GIL stays set. *)
SettleUnreset(t) ==
  /\ At(t, "settle")
  /\ Compute(t, "unlock")
  /\ UNCHANGED <<locks, gil_drop_request, eval_breaker, seen, finalizing, why, waits>>

Settle(t) ==
  /\ At(t, "settle")
  /\ Goto(t, IF gil_drop_request[InterpOf[t]] THEN "reset" ELSE "load")
  /\ ret' = [ret EXCEPT ![t] = "unlock"]
  /\ UNCHANGED <<locks, gil_drop_request, eval_breaker, seen, finalizing, why, waits>>

(* take_gil returns: to _Py_HandlePending, which recomputes eval_breaker   *)
(* before the eval loop goes on, or to PyEval_RestoreThread.               *)
TakeReturn(t) ==
  /\ At(t, "unlock")
  /\ mutex' = NoThread
  /\ IF why[t] = "switch" THEN Compute(t, "run") ELSE Goto(t, "run") /\ UNCHANGED ret
  /\ why' = [why EXCEPT ![t] = "save"]
  /\ UNCHANGED <<locked, last_holder, switch_mutex, gil_drop_request, eval_breaker, seen,
                 finalizing, waits>>
-----------------------------------------------------------------------------
(* drop_gil *)

(* Faulty: last_holder gets tstate even if that is NULL. *)
NullHolder(t) == IF why[t] = "delete" THEN NoThread ELSE t

LastHolder(t) == IF why[t] = "delete" THEN last_holder ELSE t

(* With tstate == NULL ("delete") last_holder is left alone and the thread *)
(* never looks at the interpreter again.                                   *)
DropGil(t) ==
  /\ At(t, "drop") /\ mutex = NoThread
  /\ locked' = FALSE
  /\ last_holder' = LastHolder(t)
  /\ Signal(t, "wait", "woken", IF why[t] = "delete" THEN "exited" ELSE "check")
  /\ UNCHANGED <<mutex, switch_mutex, flags, finalizing, why, waits>>

AfterDrop(t) ==
  CASE why[t] = "save"   -> "out"      \* PyEval_SaveThread returns
    [] why[t] = "switch" -> "take"     \* _Py_HandlePending takes the GIL again
    [] OTHER             -> "exited"   \* PyThread_exit_thread

DropCheck(t) ==
  /\ At(t, "check")
  /\ Goto(t, IF gil_drop_request[InterpOf[t]] THEN "switch" ELSE AfterDrop(t))
  /\ UNCHANGED <<locks, flags, finalizing, why, waits>>

(* Faulty: "Not switched yet" is not tested. *)
Unswitched(t) == TRUE

NotSwitched(t) == last_holder = t

DropSwitch(t) ==
  /\ At(t, "switch") /\ SwitchFree
  /\ IF NotSwitched(t)
     THEN switch_mutex' = t /\ Goto(t, "reset") /\ ret' = [ret EXCEPT ![t] = "sleep"]
     ELSE Goto(t, AfterDrop(t)) /\ UNCHANGED <<switch_mutex, ret>>
  /\ UNCHANGED <<locked, last_holder, mutex, gil_drop_request, eval_breaker, seen, finalizing,
                 why, waits>>

SwitchWait(t) ==
  /\ At(t, "sleep")
  /\ switch_mutex' = NoThread
  /\ Goto(t, "swait")
  /\ UNCHANGED <<locked, last_holder, mutex, flags, finalizing, why, waits>>

SwitchWoken(t) ==
  /\ At(t, "swoken") /\ SwitchFree
  /\ Goto(t, AfterDrop(t))
  /\ UNCHANGED <<locks, flags, finalizing, why, waits>>
-----------------------------------------------------------------------------
(* The callers *)

(* CHECK_EVAL_BREAKER at a bytecode boundary. *)
CheckBreaker(t) ==
  /\ At(t, "run") /\ eval_breaker[InterpOf[t]]
  /\ Goto(t, "pending")
  /\ UNCHANGED <<locks, flags, finalizing, why, waits>>

HandlePending(t) ==
  /\ At(t, "pending")
  /\ IF gil_drop_request[InterpOf[t]]
     THEN Goto(t, "drop") /\ why' = [why EXCEPT ![t] = "switch"] /\ UNCHANGED ret
     ELSE Compute(t, "run") /\ UNCHANGED why
  /\ UNCHANGED <<locks, gil_drop_request, eval_breaker, seen, finalizing, waits>>

SaveThread(t) ==
  /\ At(t, "run") /\ t \in Blocking
  /\ Goto(t, "drop")
  /\ UNCHANGED <<locks, flags, finalizing, why, waits>>

(* Also PyEval_AcquireThread of a new thread (thread_run). *)
RestoreThread(t) ==
  /\ At(t, "out")
  /\ Goto(t, "take")
  /\ UNCHANGED <<locks, flags, finalizing, why, waits>>

DeleteCurrent(t) ==
  /\ At(t, "run") /\ t # Main
  /\ Goto(t, "drop")
  /\ why' = [why EXCEPT ![t] = "delete"]
  /\ UNCHANGED <<locks, flags, finalizing, waits>>

FinalizeEx ==
  /\ Finalizes /\ ~finalizing
  /\ At(Main, "run")
  /\ finalizing' = TRUE
  /\ UNCHANGED <<locks, flags, pc, why, waits>>
-----------------------------------------------------------------------------
(* What a thread does without a choice of its own. *)
Step(t) ==
  \/ ResetRequest(t) \/ LoadFlags(t) \/ StoreBreaker(t)
  \/ TakeGil(t) \/ TakeLock(t) \/ WaitTimeout(t) \/ Reacquire(t)
  \/ RequestDrop(t) \/ SetRequest(t) \/ SetBreaker(t)
  \/ TakeReady(t) \/ Taken(t) \/ Settle(t) \/ TakeReturn(t)
  \/ DropGil(t) \/ DropCheck(t) \/ DropSwitch(t) \/ SwitchWait(t) \/ SwitchWoken(t)
  \/ CheckBreaker(t) \/ HandlePending(t)

Next ==
  \/ FinalizeEx
  \/ \E t \in Thread : Step(t) \/ SaveThread(t) \/ RestoreThread(t) \/ DeleteCurrent(t)

Spec == Init /\ [][Next]_vars

(* The OS schedules every thread and does not starve one of them on a      *)
(* mutex; a running thread reaches bytecode boundaries; a timed wait ends. *)
FairSpec == Spec /\ \A t \in Thread : SF_vars(Step(t))
-----------------------------------------------------------------------------
(* Properties *)

Computing(t, next) == pc[t] \in {"reset", "load", "store"} /\ ret[t] = next

(* From the store to gil->locked in take_gil to the one in drop_gil. *)
HoldsGil(t) ==
  \/ pc[t] \in {"taken", "settle", "unlock", "run", "pending", "drop"}
  \/ Computing(t, "unlock") \/ Computing(t, "run")

(* The thread may touch Python objects: take_gil has let it through. *)
RunsPython(t) ==
  \/ pc[t] \in {"settle", "unlock", "run", "pending"}
  \/ Computing(t, "unlock") \/ Computing(t, "run")

(* In drop_gil, from the test of last_holder to the signal of switch_cond. *)
Sleeping(t) == Computing(t, "sleep") \/ pc[t] \in {"sleep", "swait"}

(* In take_gil, past the first MustExit and not yet at the second. *)
InTakeGil(t) == pc[t] \in {"lock", "wait", "woken", "timedout", "request", "setreq", "setbrk",
                           "ready"}

(* gil->locked and gil->last_holder name the one thread that behaves as    *)
(* the holder: two threads never run Python code at once, drop_gil's "GIL  *)
(* is not locked" is never reached.                                        *)
GilExclusion == \A t \in Thread : HoldsGil(t) <=> locked /\ last_holder = t

(* FORCE_SWITCHING: a thread asleep in drop_gil was the last holder, and   *)
(* it wakes only after another thread took the GIL.  Hence there is one    *)
(* sleeper at a time and a signal of switch_cond cannot go to the wrong    *)
(* one.                                                                    *)
ForcedSwitch ==
  \A t \in Thread : /\ Sleeping(t) => last_holder = t
                    /\ At(t, "swoken") => last_holder # t

(* While the process is not finalizing, a drop request is never stale: a   *)
(* thread of that interpreter is still in take_gil with it.  A stale one   *)
(* would put the next thread that releases the GIL to sleep for nothing.   *)
NoStaleRequest ==
  ~finalizing => \A i \in Interp : gil_drop_request[i] =>
    \E t \in Thread :
      /\ InterpOf[t] = i
      /\ InTakeGil(t) \/ pc[t] \in {"taken", "settle"} \/ (At(t, "reset") /\ ret[t] = "unlock")

(* While the process is not finalizing, whoever sleeps in drop_gil, or is  *)
(* about to, has another thread in take_gil that will take the GIL and     *)
(* signal switch_cond.                                                     *)
SleeperHasTaker ==
  ~finalizing => \A t \in Thread :
    Sleeping(t) \/ (At(t, "switch") /\ last_holder = t) =>
      \E u \in Thread \ {t} : InTakeGil(u)

(* What the requests to drop the GIL are for, and the sleep in drop_gil     *)
(* that follows: nobody sleeps for nothing.                                *)
RequestsKept == NoStaleRequest /\ SleeperHasTaker

(* Once Py_FinalizeEx has marked the runtime as finalizing, take_gil lets  *)
(* no thread through but the finalizing one.                               *)
FinalizerRunsAlone == finalizing => \A t \in Thread \ {Main} : ~RunsPython(t)

(* No two threads are in COMPUTE_EVAL_BREAKER at once, so that neither can *)
(* overwrite what the other saw: the holder does it with the GIL, drop_gil *)
(* with switch_mutex before anybody takes it.  A thread that exits from    *)
(* take_gil is the exception (gh-96387).                                   *)
OneComputer ==
  \A t, u \in Thread : \A r, s \in Return \ {"exited"} :
    Computing(t, r) /\ Computing(u, s) => t = u

(* The abstract lock: see AbstractGIL. *)
Abstract == INSTANCE AbstractGIL WITH
              holder  <- IF locked THEN last_holder ELSE NoThread,
              last    <- last_holder,
              yielder <- IF \E t \in Thread : Sleeping(t) THEN last_holder ELSE NoThread

ImplementsAbstract == Abstract!Spec

(* A holder that keeps running bytecode loses the GIL once another thread  *)
(* waits for it: "the main loop must be able to release the GIL on demand  *)
(* by another thread".                                                     *)
HandsOver ==
  \A h \in Thread :
    (locked /\ last_holder = h /\ \E t \in Thread \ {h} : At(t, "wait")) ~> (last_holder # h)

(* A thread that sleeps in drop_gil for another thread to take the GIL     *)
(* does not sleep forever.                                                 *)
DropGilReturns == \A t \in Thread : At(t, "swait") ~> ~At(t, "swait")
=============================================================================
