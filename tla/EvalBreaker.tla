---------------------------- MODULE EvalBreaker ----------------------------
(***************************************************************************)
(* What else breaks the eval loop of one interpreter (the main one):       *)
(* pending calls, signals, asynchronous exceptions and the GC              *)
(* (Python/ceval_gil.c from _push_pending_call on, trip_signal and         *)
(* _PyErr_CheckSignalsTstate of Modules/signalmodule.c).  The GIL is the   *)
(* abstract lock that GIL.tla implements.                                  *)
(*                                                                         *)
(* The flags are relaxed atomics that threads set with or without the GIL: *)
(* every access to one is a step, COMPUTE_EVAL_BREAKER is a load and a     *)
(* store.  The sections under pending->lock are one step each.             *)
(***************************************************************************)
EXTENDS Integers, Sequences, FiniteSets, Functions

CONSTANTS Thread,        \* Python threads of the interpreter
          Main,          \* the main one
          NoThread,
          Agent,         \* whatever calls in without the GIL
          Handler,       \* those that are C signal handlers
          Interrupt,     \* those that run on Main's stack
          Call, NoCall,  \* functions to call
          MainThreadOnly,\* the calls queued with mainthreadonly
          NPENDINGCALLS,
          Blocking,      \* threads that release the GIL of their own accord
          Fails,         \* whether calls and signal handlers may raise
          Targets,       \* threads that get asynchronous exceptions
          Finalizes      \* whether Py_FinalizeEx is in scope

ASSUME EvalBreakerAssumption ==
  /\ Main \in Thread /\ NoThread \notin Thread /\ NoCall \notin Call
  /\ Agent \cap Thread = {} /\ Interrupt \subseteq Handler /\ Handler \subseteq Agent
  /\ MainThreadOnly \subseteq Call
  /\ NPENDINGCALLS \in Nat \ {0}
  /\ Blocking \subseteq Thread /\ Fails \in BOOLEAN /\ Targets \subseteq Thread
  /\ Finalizes \in BOOLEAN

VARIABLES
  holder, last, yielder,  \* the GIL, see AbstractGIL
  eval_breaker, gil_drop_request, signals_pending, gc_scheduled,
  calls_to_do,            \* of either queue
  async_flag,             \* ceval.pending.async_exc
  async_exc,              \* tstate->async_exc is set
  pending,                \* the ring of either queue
  busy,                   \* of the interpreter's own queue, it guards both
  is_tripped, tripped,    \* signalmodule.c, for one signal number
  pc,                     \* where each actor is
  why,                    \* who called make_pending_calls outside of a call
  ret,                    \* what follows COMPUTE_EVAL_BREAKER
  back,                   \* what follows take_gil
  seen,                   \* what COMPUTE_EVAL_BREAKER has loaded
  queue,                  \* the queue a call is pushed on or popped from
  count,                  \* i of _make_pending_calls
  running,                \* the call a thread is in, or NoCall
  accepted, executed      \* history: calls pushed on and popped from each queue

gil    == <<holder, last, yielder>>
flags  == <<gil_drop_request, signals_pending, gc_scheduled, calls_to_do, async_flag>>
sigs   == <<is_tripped, tripped>>
rings  == <<pending, busy, accepted, executed>>
frames == <<queue, count, running, why>>
vars   == <<gil, eval_breaker, flags, async_exc, sigs, rings, frames, pc, ret, back, seen>>

Actor == Thread \cup Agent
Queue == {"interp", "mainthread"}
QueueOf(c) == IF c \in MainThreadOnly THEN "mainthread" ELSE "interp"
Slot == 0 .. NPENDINGCALLS - 1

ThreadLabel == {"out", "want", "taken", "run", "interrupted", "signals", "tripped", "scan", "resignal", "calls",
                "enter", "unmain", "uninterp", "pop", "signal", "gc", "drop", "yield", "async",
                "load", "store", "finished"}
AgentLabel == {"idle", "trip", "received", "signal", "load", "store"}

TypeOK ==
  /\ holder \in Thread \cup {NoThread} /\ yielder \in Thread \cup {NoThread} /\ last \in Thread
  /\ {eval_breaker, gil_drop_request, signals_pending, gc_scheduled, async_flag, busy, is_tripped,
      tripped} \subseteq BOOLEAN
  /\ calls_to_do \in [Queue -> BOOLEAN] /\ async_exc \in [Thread -> BOOLEAN]
  /\ pending \in [Queue -> [calls : [Slot -> Call \cup {NoCall}], first : Slot, last : Slot]]
  /\ pc \in [Actor -> ThreadLabel \cup AgentLabel]
  /\ ret \in [Actor -> {"run", "idle", "want", "taken", "tripped", "pop", "drop", "finished"}]
  /\ back \in [Thread -> {"run", "async", "interrupted"}]
  /\ seen \in [Actor -> BOOLEAN] /\ queue \in [Actor -> Queue]
  /\ count \in [Thread -> 0 .. NPENDINGCALLS] /\ running \in [Thread -> Call \cup {NoCall}]
  /\ why \in [Thread -> {"loop", "api", "finish"}]

Init ==
  /\ holder = Main /\ last = Main /\ yielder = NoThread
  /\ eval_breaker = FALSE /\ gil_drop_request = FALSE /\ signals_pending = FALSE
  /\ gc_scheduled = FALSE /\ async_flag = FALSE
  /\ calls_to_do = [q \in Queue |-> FALSE]
  /\ async_exc = [t \in Thread |-> FALSE]
  /\ pending = [q \in Queue |-> [calls |-> [i \in Slot |-> NoCall], first |-> 0, last |-> 0]]
  /\ busy = FALSE /\ is_tripped = FALSE /\ tripped = FALSE
  /\ pc = [a \in Actor |-> IF a = Main THEN "run" ELSE IF a \in Thread THEN "out" ELSE "idle"]
  /\ ret = [a \in Actor |-> IF a \in Thread THEN "run" ELSE "idle"]
  /\ back = [t \in Thread |-> "run"]
  /\ seen = [a \in Actor |-> FALSE]
  /\ queue = [a \in Actor |-> "interp"]
  /\ count = [t \in Thread |-> 0]
  /\ running = [t \in Thread |-> NoCall]
  /\ why = [t \in Thread |-> "loop"]
  /\ accepted = [q \in Queue |-> <<>>] /\ executed = [q \in Queue |-> <<>>]
-----------------------------------------------------------------------------
Gil == INSTANCE AbstractGIL

(* _Py_IsMainThread; a signal handler on its stack suspends Main. *)
OnMain(a) == a = Main \/ a \in Interrupt
At(a, l) == pc[a] = l /\ (a = Main => \A h \in Interrupt : pc[h] = "idle")
Goto(a, l) == pc' = [pc EXCEPT ![a] = l]

(* COMPUTE_EVAL_BREAKER as evaluated by a: gil_drop_request or work to do. *)
Work(a) ==
  \/ calls_to_do["interp"]
  \/ async_flag
  \/ gc_scheduled
  \/ OnMain(a) /\ (signals_pending \/ calls_to_do["mainthread"])

Compute(a, next) == Goto(a, "load") /\ ret' = [ret EXCEPT ![a] = next]

LoadFlags(a) ==
  /\ At(a, "load")
  /\ seen' = [seen EXCEPT ![a] = gil_drop_request \/ Work(a)]
  /\ Goto(a, "store")
  /\ UNCHANGED <<gil, eval_breaker, flags, async_exc, sigs, rings, frames, ret, back>>

StoreBreaker(a) ==
  /\ At(a, "store")
  /\ eval_breaker' = seen[a]
  /\ seen' = [seen EXCEPT ![a] = FALSE]
  /\ Goto(a, ret[a])
  /\ UNCHANGED <<gil, flags, async_exc, sigs, rings, frames, ret, back>>
-----------------------------------------------------------------------------
(* The ring of a queue *)

(* Variants named "faulty" are not part of the model: each stands for a    *)
(* mistake in the code that the properties are tried against.              *)

(* Faulty: no wrap-around. *)
Unwrapped(i) == i + 1

After(i) == (i + 1) % NPENDINGCALLS

(* Faulty: no test for a full queue. *)
NeverFull(p) == FALSE

Full(p) == After(p.last) = p.first

Empty(p) == p.first = p.last

Pushed(p, c) == [p EXCEPT !.calls[p.last] = c, !.last = After(p.last)]
Popped(p)    == [p EXCEPT !.calls[p.first] = NoCall, !.first = After(p.first)]

(* What the ring holds, oldest call first. *)
Content(p) ==
  [k \in 1 .. (p.last + NPENDINGCALLS - p.first) % NPENDINGCALLS |->
     p.calls[(p.first + k - 1) % NPENDINGCALLS]]

(* _PyEval_AddPendingCall, by a thread that runs Python code or by an      *)
(* agent.  A full queue refuses the call and signals all the same.  A      *)
(* signal handler does not call it: PyThread_acquire_lock is not           *)
(* async-signal-safe.                                                      *)
AddPendingCall(a, c) ==
  LET q == QueueOf(c) IN
  /\ At(a, "run") \/ (At(a, "idle") /\ a \notin Handler)
  /\ c \notin Range(accepted[q])
  /\ IF Full(pending[q])
     THEN UNCHANGED <<pending, accepted>>
     ELSE /\ pending' = [pending EXCEPT ![q] = Pushed(@, c)]
          /\ accepted' = [accepted EXCEPT ![q] = Append(@, c)]
  /\ queue' = [queue EXCEPT ![a] = q]
  /\ ret' = [ret EXCEPT ![a] = pc[a]]
  /\ Goto(a, "signal")
  /\ UNCHANGED <<gil, eval_breaker, flags, async_exc, sigs, busy, executed, count, running, why,
                 back, seen>>

(* SIGNAL_PENDING_CALLS *)
SignalCalls(a) ==
  /\ At(a, "signal")
  /\ calls_to_do' = [calls_to_do EXCEPT ![queue[a]] = TRUE]
  /\ Goto(a, "load")
  /\ UNCHANGED <<gil, eval_breaker, gil_drop_request, signals_pending, gc_scheduled, async_flag,
                 async_exc, sigs, rings, frames, ret, back, seen>>
-----------------------------------------------------------------------------
(* make_pending_calls *)

(* Where a thread goes on after make_pending_calls returned 0, and after   *)
(* it returned -1. *)
AfterCalls(t) ==
  CASE running[t] # NoCall -> "gc"            \* called from within a call
    [] why[t] = "loop"     -> "gc"
    [] why[t] = "api"      -> "run"
    [] OTHER               -> "finished"
AfterError(t) == IF running[t] = NoCall /\ why[t] = "finish" THEN "finished" ELSE "run"

Busy == busy

UnsignalsBoth(t) == OnMain(t)

(* busy is tested and set under pending->lock. *)
EnterCalls(t) ==
  /\ At(t, "enter")
  /\ busy' = TRUE
  /\ IF Busy THEN Goto(t, AfterCalls(t)) ELSE Goto(t, IF UnsignalsBoth(t) THEN "unmain" ELSE "uninterp")
  /\ UNCHANGED <<gil, eval_breaker, flags, async_exc, sigs, pending, accepted, executed, frames,
                 ret, back, seen>>

(* UNSIGNAL_PENDING_CALLS: two stores and COMPUTE_EVAL_BREAKER. *)
UnsignalMain(t) ==
  /\ At(t, "unmain")
  /\ calls_to_do' = [calls_to_do EXCEPT !["mainthread"] = FALSE]
  /\ Goto(t, "uninterp")
  /\ UNCHANGED <<gil, eval_breaker, gil_drop_request, signals_pending, gc_scheduled, async_flag,
                 async_exc, sigs, rings, frames, ret, back, seen>>

UnsignalInterp(t) ==
  /\ At(t, "uninterp")
  /\ calls_to_do' = [calls_to_do EXCEPT !["interp"] = FALSE]
  /\ queue' = [queue EXCEPT ![t] = "interp"]
  /\ count' = [count EXCEPT ![t] = 0]
  /\ Compute(t, "pop")
  /\ UNCHANGED <<gil, eval_breaker, gil_drop_request, signals_pending, gc_scheduled, async_flag,
                 async_exc, sigs, rings, running, why, back, seen>>

(* One turn of _make_pending_calls, for the interpreter's queue and then,  *)
(* on the main thread, for that one's.                                     *)
PopCall(t) ==
  LET q == queue[t]  p == pending[q] IN
  /\ At(t, "pop") /\ count[t] < NPENDINGCALLS /\ ~Empty(p)
  /\ pending' = [pending EXCEPT ![q] = Popped(@)]
  /\ executed' = [executed EXCEPT ![q] = Append(@, p.calls[p.first])]
  /\ running' = [running EXCEPT ![t] = p.calls[p.first]]
  /\ Goto(t, "run")
  /\ UNCHANGED <<gil, eval_breaker, flags, async_exc, sigs, busy, accepted, queue, count, why, ret,
                 back, seen>>

(* Faulty: leaves out the queue of the main thread. *)
NoMainQueue(t) == FALSE

MainQueueNext(t) == OnMain(t) /\ queue[t] = "interp"

EndOfCalls(t) ==
  /\ At(t, "pop")
  /\ count[t] = NPENDINGCALLS \/ Empty(pending[queue[t]])
  /\ IF MainQueueNext(t)
     THEN /\ queue' = [queue EXCEPT ![t] = "mainthread"]
          /\ count' = [count EXCEPT ![t] = 0]
          /\ UNCHANGED <<busy, pc>>
     ELSE busy' = FALSE /\ Goto(t, AfterCalls(t)) /\ UNCHANGED <<queue, count>>
  /\ UNCHANGED <<gil, eval_breaker, flags, async_exc, sigs, pending, accepted, executed, running,
                 why, ret, back, seen>>

CallReturns(t) ==
  /\ At(t, "run") /\ running[t] # NoCall
  /\ count' = [count EXCEPT ![t] = @ + 1]
  /\ queue' = [queue EXCEPT ![t] = QueueOf(running[t])]
  /\ running' = [running EXCEPT ![t] = NoCall]
  /\ Goto(t, "pop")
  /\ UNCHANGED <<gil, eval_breaker, flags, async_exc, sigs, rings, why, ret, back, seen>>

(* Faulty: signals the queue of the main thread whatever call failed. *)
MainQueue(t) == "mainthread"

FailedQueue(t) == QueueOf(running[t])

(* The queue of the call that failed is signalled again. *)
CallFails(t) ==
  /\ Fails /\ At(t, "run") /\ running[t] # NoCall
  /\ busy' = FALSE
  /\ queue' = [queue EXCEPT ![t] = FailedQueue(t)]
  /\ running' = [running EXCEPT ![t] = NoCall]
  /\ ret' = [ret EXCEPT ![t] = IF why[t] = "finish" THEN "finished" ELSE "run"]
  /\ Goto(t, "signal")
  /\ UNCHANGED <<gil, eval_breaker, flags, async_exc, sigs, pending, accepted, executed, count,
                 why, back, seen>>
-----------------------------------------------------------------------------
(* Signals *)

(* trip_signal, in whatever thread the signal is delivered to. *)
TripSignal(a) ==
  /\ At(a, "idle") /\ a \in Handler
  /\ tripped' = TRUE
  /\ Goto(a, "trip")
  /\ UNCHANGED <<gil, eval_breaker, flags, async_exc, is_tripped, rings, frames, ret, back, seen>>

SetIsTripped(a) ==
  /\ At(a, "trip")
  /\ is_tripped' = TRUE
  /\ Goto(a, "received")
  /\ UNCHANGED <<gil, eval_breaker, flags, async_exc, tripped, rings, frames, ret, back, seen>>

SignalReceived(a) ==
  /\ At(a, "received")
  /\ signals_pending' = TRUE
  /\ Compute(a, "idle")
  /\ UNCHANGED <<gil, eval_breaker, gil_drop_request, gc_scheduled, calls_to_do, async_flag,
                 async_exc, sigs, rings, frames, back, seen>>

(* handle_signals; the eval loop calls it when signals_pending is set,     *)
(* _PyEval_MakePendingCalls always.                                        *)
HandleSignals(t) ==
  /\ At(t, "signals")
  /\ IF OnMain(t) /\ (signals_pending \/ (why[t] = "api" /\ running[t] = NoCall))
     THEN signals_pending' = FALSE /\ Compute(t, "tripped")
     ELSE Goto(t, "calls") /\ UNCHANGED <<signals_pending, ret>>
  /\ UNCHANGED <<gil, eval_breaker, gil_drop_request, gc_scheduled, calls_to_do, async_flag,
                 async_exc, sigs, rings, frames, back, seen>>

(* _PyErr_CheckSignalsTstate *)
CheckSignals(t) ==
  /\ At(t, "tripped")
  /\ is_tripped' = FALSE
  /\ Goto(t, IF is_tripped THEN "scan" ELSE "calls")
  /\ UNCHANGED <<gil, eval_breaker, flags, async_exc, tripped, rings, frames, ret, back, seen>>

(* The Python handler runs in this step, and may raise. *)
RunHandlers(t) ==
  /\ At(t, "scan")
  /\ tripped' = FALSE
  /\ \/ Goto(t, "calls") /\ UNCHANGED is_tripped
     \/ tripped /\ Fails /\ is_tripped' = TRUE /\ Goto(t, "resignal")
  /\ UNCHANGED <<gil, eval_breaker, flags, async_exc, rings, frames, ret, back, seen>>

(* Faulty: on failure, no call to handle_signals is re-scheduled. *)
ResignalForgotten(t) ==
  /\ At(t, "resignal")
  /\ Goto(t, AfterError(t))
  /\ UNCHANGED <<gil, eval_breaker, flags, async_exc, sigs, rings, frames, ret, back, seen>>

Resignal(t) ==
  /\ At(t, "resignal")
  /\ signals_pending' = TRUE
  /\ Compute(t, AfterError(t))
  /\ UNCHANGED <<gil, eval_breaker, gil_drop_request, gc_scheduled, calls_to_do, async_flag,
                 async_exc, sigs, rings, frames, back, seen>>
-----------------------------------------------------------------------------
(* _Py_HandlePending and the other callers of make_pending_calls *)

CheckBreaker(t) ==
  /\ At(t, "run") /\ eval_breaker
  /\ why' = IF running[t] = NoCall THEN [why EXCEPT ![t] = "loop"] ELSE why
  /\ Goto(t, "signals")
  /\ UNCHANGED <<gil, eval_breaker, flags, async_exc, sigs, rings, queue, count, running, ret,
                 back, seen>>

(* _PyEval_MakePendingCalls, after an interrupted wait for a lock.         *)
MakePendingCalls(t) ==
  /\ At(t, "interrupted")
  /\ why' = [why EXCEPT ![t] = "api"]
  /\ Goto(t, IF OnMain(t) THEN "signals" ELSE "enter")
  /\ UNCHANGED <<gil, eval_breaker, flags, async_exc, sigs, rings, queue, count, running, ret,
                 back, seen>>

FinishPendingCalls ==
  /\ Finalizes /\ At(Main, "run") /\ running[Main] = NoCall
  /\ why' = [why EXCEPT ![Main] = "finish"]
  /\ Goto(Main, "enter")
  /\ UNCHANGED <<gil, eval_breaker, flags, async_exc, sigs, rings, queue, count, running, ret,
                 back, seen>>

(* maybe_has_pending_calls *)
MaybeCalls(t) ==
  /\ At(t, "calls")
  /\ IF \/ calls_to_do["interp"]
        \/ OnMain(t) /\ calls_to_do["mainthread"]
        \/ why[t] = "api" /\ running[t] = NoCall
     THEN Goto(t, "enter")
     ELSE Goto(t, "gc")
  /\ UNCHANGED <<gil, eval_breaker, flags, async_exc, sigs, rings, frames, ret, back, seen>>

ScheduleGC(t) ==
  /\ At(t, "run")
  /\ gc_scheduled' = TRUE
  /\ eval_breaker' = (eval_breaker \/ ~gc_scheduled)
  /\ UNCHANGED <<gil, gil_drop_request, signals_pending, calls_to_do, async_flag, async_exc, sigs,
                 rings, frames, pc, ret, back, seen>>

RunGC(t) ==
  /\ At(t, "gc")
  /\ gc_scheduled' = FALSE
  /\ IF gc_scheduled THEN Compute(t, "drop") ELSE Goto(t, "drop") /\ UNCHANGED ret
  /\ UNCHANGED <<gil, eval_breaker, gil_drop_request, signals_pending, calls_to_do, async_flag,
                 async_exc, sigs, rings, frames, back, seen>>

SetAsyncExc(t, u) ==
  /\ At(t, "run") /\ u \in Targets
  /\ async_exc' = [async_exc EXCEPT ![u] = TRUE]
  /\ async_flag' = TRUE /\ eval_breaker' = TRUE
  /\ UNCHANGED <<gil, gil_drop_request, signals_pending, gc_scheduled, calls_to_do, sigs, rings,
                 frames, pc, ret, back, seen>>

RaiseAsyncExc(t) ==
  /\ At(t, "async")
  /\ async_exc' = [async_exc EXCEPT ![t] = FALSE]
  /\ async_flag' = IF async_exc[t] THEN FALSE ELSE async_flag
  /\ Compute(t, "run")
  /\ UNCHANGED <<gil, eval_breaker, gil_drop_request, signals_pending, gc_scheduled, calls_to_do,
                 sigs, rings, frames, back, seen>>
-----------------------------------------------------------------------------
(* The GIL *)

(* A thread that yields has gil->switch_mutex while it recomputes          *)
(* eval_breaker, and take_gil waits for that (OneComputer of GIL.tla).     *)
Yielding(t) == pc[t] \in {"load", "store"} /\ ret[t] = "want"

(* Faulty: eval_breaker is not recomputed (bpo-40010). *)
TakeUncomputed(t) ==
  /\ At(t, "want") /\ \A u \in Thread : ~Yielding(u)
  /\ Gil!Acquire(t)
  /\ gil_drop_request' = FALSE
  /\ Goto(t, "taken")
  /\ UNCHANGED <<eval_breaker, signals_pending, gc_scheduled, calls_to_do, async_flag, async_exc,
                 sigs, rings, frames, ret, back, seen>>

(* take_gil: the new holder takes back the drop request, recomputes        *)
(* eval_breaker for itself, and looks at its own async_exc.                *)
TakeGil(t) ==
  /\ At(t, "want") /\ \A u \in Thread : ~Yielding(u)
  /\ Gil!Acquire(t)
  /\ gil_drop_request' = FALSE
  /\ Compute(t, "taken")
  /\ UNCHANGED <<eval_breaker, signals_pending, gc_scheduled, calls_to_do, async_flag, async_exc,
                 sigs, rings, frames, back, seen>>

GilTaken(t) ==
  /\ At(t, "taken")
  /\ async_flag' = (async_flag \/ async_exc[t])
  /\ eval_breaker' = (eval_breaker \/ async_exc[t])
  /\ Goto(t, back[t])
  /\ ret' = [ret EXCEPT ![t] = "run"]
  /\ UNCHANGED <<gil, gil_drop_request, signals_pending, gc_scheduled, calls_to_do, async_exc, sigs,
                 rings, frames, back, seen>>

(* A thread that waits for the GIL times out: SET_GIL_DROP_REQUEST, which  *)
(* GIL.tla has in full.                                                    *)
RequestDrop(t) ==
  /\ At(t, "want") /\ holder # NoThread
  /\ gil_drop_request' = TRUE /\ eval_breaker' = TRUE
  /\ UNCHANGED <<gil, signals_pending, gc_scheduled, calls_to_do, async_flag, async_exc, sigs,
                 rings, frames, pc, ret, back, seen>>

DropGil(t) ==
  /\ At(t, "drop")
  /\ IF gil_drop_request
     THEN Gil!Release(t) /\ Goto(t, "yield") /\ back' = [back EXCEPT ![t] = "async"]
     ELSE Goto(t, "async") /\ UNCHANGED <<gil, back>>
  /\ UNCHANGED <<eval_breaker, flags, async_exc, sigs, rings, frames, ret, seen>>

(* The forced switch.                                                      *)
YieldGil(t) ==
  /\ At(t, "yield")
  /\ IF gil_drop_request /\ last = t
     THEN Gil!Yield(t) /\ gil_drop_request' = FALSE /\ Compute(t, "want")
     ELSE Goto(t, "want") /\ UNCHANGED <<gil, gil_drop_request, ret>>
  /\ UNCHANGED <<eval_breaker, signals_pending, gc_scheduled, calls_to_do, async_flag, async_exc,
                 sigs, rings, frames, back, seen>>

SaveThread(t) ==
  /\ At(t, "run") /\ t \in Blocking
  /\ Gil!Release(t)
  /\ Goto(t, "out")
  /\ UNCHANGED <<eval_breaker, flags, async_exc, sigs, rings, frames, ret, back, seen>>

(* A wait for a lock may be interrupted (a wait in a call is taken not to  *)
(* be, make_pending_calls would find busy set and return).                 *)
RestoreThread(t) ==
  /\ At(t, "out")
  /\ \E b \in {"run", "interrupted"} :
       /\ b = "interrupted" => running[t] = NoCall
       /\ back' = [back EXCEPT ![t] = b]
  /\ Goto(t, "want")
  /\ UNCHANGED <<gil, eval_breaker, flags, async_exc, sigs, rings, frames, ret, seen>>
-----------------------------------------------------------------------------
(* What a thread does without a choice of its own. *)
Step(t) ==
  \/ LoadFlags(t) \/ StoreBreaker(t) \/ SignalCalls(t)
  \/ EnterCalls(t) \/ UnsignalMain(t) \/ UnsignalInterp(t)
  \/ PopCall(t) \/ EndOfCalls(t) \/ CallReturns(t)
  \/ HandleSignals(t) \/ CheckSignals(t) \/ RunHandlers(t) \/ Resignal(t)
  \/ CheckBreaker(t) \/ MakePendingCalls(t) \/ MaybeCalls(t) \/ RunGC(t) \/ RaiseAsyncExc(t)
  \/ DropGil(t) \/ YieldGil(t) \/ GilTaken(t) \/ RequestDrop(t)

AgentStep(a) == SetIsTripped(a) \/ SignalReceived(a) \/ SignalCalls(a) \/ LoadFlags(a) \/ StoreBreaker(a)

Next ==
  \/ FinishPendingCalls
  \/ \E t \in Thread :
       \/ Step(t) \/ TakeGil(t) \/ CallFails(t) \/ ScheduleGC(t)
       \/ SaveThread(t) \/ RestoreThread(t)
       \/ \E c \in Call : AddPendingCall(t, c)
       \/ \E u \in Thread : SetAsyncExc(t, u)
  \/ \E a \in Agent :
       \/ AgentStep(a) \/ TripSignal(a)
       \/ \E c \in Call : AddPendingCall(a, c)

Spec == Init /\ [][Next]_vars

(* Threads are scheduled and run to a bytecode boundary; a call does not   *)
(* block forever, and returns; a thread that waits for the GIL gets it.    *)
Fairness ==
  /\ \A t \in Thread :
       /\ SF_vars(Step(t)) /\ SF_vars(CallReturns(t)) /\ SF_vars(TakeGil(t))
       /\ WF_vars(running[t] # NoCall /\ RestoreThread(t))
  /\ \A a \in Agent : WF_vars(AgentStep(a))

FairSpec == Spec /\ Fairness
-----------------------------------------------------------------------------
(* Properties *)

(* A call accepted is in the ring until it is made, once and in order of   *)
(* arrival; slots outside of the ring's range are empty (the assertion of  *)
(* _next_pending_call).                                                    *)
CallsInOrder ==
  \A q \in Queue : LET p == pending[q] IN
    /\ accepted[q] = executed[q] \o Content(p)
    /\ Cardinality({i \in Slot : p.calls[i] # NoCall}) = Len(Content(p))

(* In make_pending_calls, between busy = 1 and busy = 0. *)
Handling(t) ==
  \/ running[t] # NoCall
  \/ pc[t] \in {"unmain", "uninterp", "pop"}
  \/ pc[t] \in {"load", "store"} /\ ret[t] = "pop"

(* One thread at a time makes pending calls, though a call may lose the    *)
(* GIL in the middle, and main-thread calls are made by the main thread.   *)
OneCaller ==
  /\ \A t, u \in Thread : Handling(t) /\ Handling(u) => t = u
  /\ busy <=> \E t \in Thread : Handling(t)
  /\ \A t \in Thread : running[t] \in MainThreadOnly => t = Main

(* Calls are made once each, in order, by one thread at a time.            *)
CallsInv == CallsInOrder /\ OneCaller

(* Somebody is about to look at queue q, or to signal it. *)
Attended(q) ==
  \/ \E a \in Actor : pc[a] = "signal" /\ queue[a] = q
  \/ \E t \in Thread : Handling(t) /\ (q = "mainthread" => t = Main)

(* A call that waits in the interpreter's queue is signalled: the next     *)
(* thread to look at eval_breaker's causes finds it.                       *)
InterpSignalled == ~Empty(pending["interp"]) => calls_to_do["interp"] \/ Attended("interp")

(* A signal that was delivered is not lost between the four stores that    *)
(* announce it and the four that take notice: is_tripped is set after      *)
(* Handlers[i].tripped and cleared before it, and signals_pending after    *)
(* and before both.                                                        *)
Delivering == \E a \in Agent : pc[a] \in {"trip", "received"}
Noticing ==
  \/ pc[Main] \in {"tripped", "scan", "resignal"}
  \/ pc[Main] \in {"load", "store"} /\ ret[Main] = "tripped"
SignalKept ==
  /\ tripped => is_tripped \/ pc[Main] = "scan" \/ \E a \in Agent : pc[a] = "trip"
  /\ is_tripped => signals_pending \/ Noticing \/ Delivering

(* Between two bytecodes of the thread that holds the GIL, eval_breaker    *)
(* is set if this thread has any work to do, such as an asynchronous       *)
(* exception whose shared flag another thread has cleared since.           *)
(* (COMPUTE_EVAL_BREAKER may lose a drop request, which is then repeated.) *)
(* True as long as work is announced with the GIL held.                    *)
BreakerCovers ==
  \A t \in Thread : pc[t] = "run" /\ (Work(t) \/ async_exc[t]) => eval_breaker

(* What is queued is called, by a thread of the interpreter or the main    *)
(* one: "func will be eventually called from the main interpreter thread". *)
CallMade(c)  == c \in Range(accepted[QueueOf(c)]) ~> c \in Range(executed[QueueOf(c)])
CallsAreMade == \A c \in Call : CallMade(c)
=============================================================================
