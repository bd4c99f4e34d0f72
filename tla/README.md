# A verification of the core of NewPython

NewPython is a fork of CPython 3.12 with a line-based front end
(`newpython_parser.py`).  This directory holds TLA+ models of the parts where its
own logic is hardest to test, their TLC runs, and TLAPS proofs about them:

* the concurrent core of the interpreter, which decides which thread runs Python
  code and when a running thread looks up from its bytecode (`Python/ceval_gil.c`
  with the code that calls it at thread exit, at signals and at finalization);
* the locks that let threads import modules that import each other
  (`Lib/importlib/_bootstrap.py`);
* what the library builds on top of these for threads and for tasks: `queue`,
  `concurrent.futures` with its thread pool, and the locks and queues of `asyncio`;
* the cyclic garbage collector, with the finalizers and weak reference callbacks it
  calls in the middle of its work;
* the front end, the one part that CPython does not have.

Paths below are relative to `src/`.

Contents:

1. [The system's components](#1-the-systems-components)
2. [The modules and how they correspond to the code](#2-the-modules-and-how-they-correspond-to-the-code)
3. [What the runs check](#3-what-the-runs-check)
4. [What is proved](#4-what-is-proved)
5. [Disagreements between the code and what is said of it](#5-disagreements-between-the-code-and-what-is-said-of-it)
6. [What is not modelled](#6-what-is-not-modelled)
7. [Plan](#7-plan)

## 1. The system's components

| component | state | operations | what makes it hard | what makes it correct |
|---|---|---|---|---|
| Global interpreter lock (`Python/ceval_gil.c`) | `locked`, `last_holder`, `switch_number`, `mutex`/`cond`, `switch_mutex`/`switch_cond`; per interpreter `gil_drop_request`, `eval_breaker` | `take_gil`, `drop_gil` and their callers `PyEval_SaveThread`, `PyEval_RestoreThread`, `_Py_HandlePending`, `_PyThreadState_DeleteCurrent` | timed waits, two condition variables, flags written under different mutexes or none, threads that exit in the middle | one holder; a forced switch lasts until another thread has taken the lock; requests are not stale; waiters are served; daemon threads stop at finalization |
| Eval breaker and pending work (`Python/ceval_gil.c`, `Modules/signalmodule.c`) | `eval_breaker` and its causes; two rings of pending calls, `busy`; `is_tripped`, `Handlers[i].tripped`; `async_exc` | `_PyEval_AddPendingCall`, `make_pending_calls`, `trip_signal`, `handle_signals`, `_Py_HandlePending`, `PyThreadState_SetAsyncExc`, `_Py_ScheduleGC` | callers without the GIL, signal handlers on any stack, calls that lose the GIL, recurse or fail | no work is forgotten; a call is made once and in order; the breaker covers the work of the thread that looks at it |
| Thread and interpreter states (`Python/pystate.c`) | lists of thread states under the runtime lock | new, bind, swap, clear, delete | states that dangle after finalization | a state is not used once deleted |
| Runtime life cycle (`Python/pylifecycle.c`) | `initialized`, `finalizing` | `Py_InitializeEx`, `Py_FinalizeEx`, sub-interpreters | the order of the teardown, daemon threads | no Python code of other threads after `SetFinalizing` |
| Cyclic GC (`Modules/gcmodule.c`) | generations, `gc_refs`, the lists of a collection, `wrcb_to_call`, the mark of the finalized | `gc_collect_main` and its passes, deallocation (`subtype_dealloc`, `PyObject_ClearWeakRefs`) | finalizers and callbacks change the graph while it is looked at; resurrection | trash is what nothing leads to; Python code never gets at what was cleared; trash is freed |
| Low-level locks (`Modules/_threadmodule.c`, `Python/thread_pthread.h`) | OS semaphores, RLock owner and count | acquire with timeout and interruption, release | retry after signals, timeouts | ownership |
| `threading.Condition` and `queue.Queue` (`Lib/threading.py`, `Lib/queue.py`) | `_waiters` of three conditions, length, `unfinished_tasks` | `wait`, `notify`; `put`, `get`, `task_done`, `join` | timeouts that race with notifications, exceptions out of a wait or a notify | no notification is lost; nobody waits for what is there |
| `queue.SimpleQueue` (`Modules/_queuemodule.c`) | list, lock, `locked` | `put`, `get` with timeouts | a lock used as an event, `put` from signal handlers, retries | items are announced; a timed get ends |
| `concurrent.futures` (`_base.py`, `thread.py`) | state, condition, callbacks and waiters of a future; queue, idle count, flags of the pool | `cancel`, `result`, `set_result`, `wait`, `as_completed`; `submit`, `shutdown`, the workers, exit of Python, loss of the pool | cancel against run, callbacks and waiters against completion, one `None` that stands for all workers | each call ends once; workers leave; waiters count right |
| `asyncio` locks and queues (`Lib/asyncio/locks.py`, `queues.py`, `tasks.py`) | deques of futures, counts, states; `_fut_waiter`, `_must_cancel`, the ready queue | `Lock`, `Condition`, `Event`, `Semaphore`, `BoundedSemaphore`, `Barrier`, `Queue`; `Task.cancel` | cancellation between wake-up and resumption, or a second time | wake-ups are handed on; nothing is counted twice; order |
| The rest of `asyncio` and of `threading` | timers, selectors, task groups; threads | | | |
| Module locks of the import system (`Lib/importlib/_bootstrap.py`) | `owner`, `count`, `waiters`, `wakeup` of each `_ModuleLock`; the global `_blocking_on` | `acquire`, `release`, `has_deadlock`, `_BlockingOnManager` | circular imports across threads, a search over state that moves, imports that interrupt an `acquire` | one importer; no lost wake-up; no circle of waiters; `_DeadlockError` only where it is justified |
| Finders, loaders, `sys.modules` (`Lib/importlib/_bootstrap_external.py`, `Python/import.c`) | caches of directories and modules | `find_spec`, `exec_module`, `_find_and_load` | stale caches, partly initialized modules | a module is executed once |
| NewPython front end (`newpython_parser.py`) | none (a function on lines) | `validate_source`, `parse_newpython`, `convert_line` and the conversions it is made of | conversions that work on the output of each other, patterns that match more or less than meant, the rules for `end` | a line becomes the Python it stands for; the output has the blocks that the indentation shows; files with a wrong `end` are refused |
| Compiler, specializing interpreter, object model, I/O and the rest of the library | | | sequential | |

How they interact.  The eval loop of a thread reads one word, `eval_breaker`, at
bytecode boundaries (`CHECK_EVAL_BREAKER`).  Everything that wants a thread's
attention sets a cause (a drop request by a thread in `take_gil`, `calls_to_do`
of a queue, `signals_pending`, `async_exc`, `gc_scheduled`) and then that word.
`COMPUTE_EVAL_BREAKER` recomputes the word from the causes, *from the point of
view of the thread that evaluates it*, and is not atomic.  `_Py_HandlePending`
serves the causes in a fixed order: signals, calls, GC, drop request,
asynchronous exception.  Finalization marks the runtime, and `take_gil` looks at
that mark to stop daemon threads.  The module locks are Python code on top of all
this: they use the primitive locks of `_threadmodule.c`, and the signal handlers and
collections that the eval breaker announces are what interrupts an `acquire`.  The
front end is a program of its own; it runs before the interpreter sees the code.

The library is further up.  `queue.SimpleQueue` is C code that has the GIL except while it
waits for its lock, so that the GIL makes its steps atomic.  `ThreadPoolExecutor` puts
work items on a `SimpleQueue`; each item has a future, whose condition is a
`threading.Condition`, and a `wait` over several futures hangs a waiter on each of them.
`queue.Queue` has three conditions with one mutex.  The classes of `asyncio` need no lock:
tasks share one thread and change places only where they await a future, and what can go
wrong happens between the time a future gets its result and the time its task
runs.  `asyncio.Barrier` is a `Condition` over a `Lock`, `asyncio.Queue` uses an `Event`.
A collection is started by the eval breaker (`_Py_RunGC`), or by `gc.collect()`.  It calls
Python code, which may release the GIL and let other threads change the graph.

`PROJECT.json` lists the hazards of this code at the lines where they bite and the
properties that cover them.

## 2. The modules and how they correspond to the code

| module | what it is | code |
|---|---|---|
| `AbstractGIL` | what the GIL promises: one holder, and a thread that yields does not get the lock back before another thread has had it | the promise of `FORCE_SWITCHING` |
| `GIL` | `take_gil`, `drop_gil` and their callers in full | `ceval_gil.c` 59-95, 184-212, 272-458, 691-711, 1048-1063; `pystate.c` 1632-1640, 3041-3068 |
| `GILProof` | theorems about `GIL` | |
| `EvalBreaker` | every cause of `eval_breaker` of the main interpreter over `AbstractGIL` | `ceval_gil.c` 59-163, 736-1089; `signalmodule.c` 267-280, 1785-1869; `gcmodule.c` 2275-2287; `pystate.c` 1807-1842 |
| `EvalBreakerProof` | theorems about `EvalBreaker` and `MCEvalBreakerCases` | |
| `ModuleLock` | `_ModuleLock` and its deadlock detection | `_bootstrap.py` 162-383, 1349-1366 |
| `ModuleLockProof` | theorems about `ModuleLock` | |
| `NewPythonLanguage` | the statements of NewPython, in NewPython and in Python: a reference, no code | |
| `NewPythonParser` | the parser | `newpython_parser.py` 15-17, 28-170, 202-227 |
| `NewPythonLineProof`, `NewPythonProof` | theorems about `NewPythonParser`: the conversions of a line; the file | |
| `Future` | a future, its callbacks, `wait` and `as_completed` | `concurrent/futures/_base.py`; `Condition` of `threading.py` |
| `ThreadPool` (extends `Future`) | `ThreadPoolExecutor` | `concurrent/futures/thread.py` |
| `SimpleQueue` | `put` and `get` over the lock | `_queuemodule.c` |
| `ThreadQueue` | `queue.Queue` over `threading.Condition` | `queue.py`, `threading.py` |
| `LibraryProof` | theorems about `ThreadQueue`, `SimpleQueue`, `Future` and `ThreadPool` | |
| `AsyncTask` | how a task waits, is woken and is cancelled | `asyncio/tasks.py`, `futures.py`, `base_events.py` |
| `AsyncLocks` (extends `AsyncTask`, as do the next three) | `Lock` and `Condition` | `asyncio/locks.py` |
| `AsyncSemaphore` | `Semaphore`, `BoundedSemaphore` | `asyncio/locks.py` |
| `AsyncBarrier` | `Barrier` | `asyncio/locks.py` |
| `AsyncQueue` | `Queue`, with the `Event` of `join` | `asyncio/queues.py`, `locks.py` |
| `AsyncioProof` | theorems about the five modules of `asyncio` | |
| `Collector` | a collection and the deallocations in it | `gcmodule.c`, `typeobject.c`, `object.c`, `weakrefobject.c` |
| `CollectorProof` | theorems about `Collector` | |
| `MCGIL`, `MCEvalBreaker`, `MCModuleLock`, `MCNewPythonParser`, `MCCollector` | constants for TLC | |
| `MCGILCrews`, `MCEvalBreakerCases` | the cases that a run about one module has, one of them in each behaviour | |
| `MCParts`, `MCLibraryLive` | several modules in one run, one of them in each behaviour | |

`GIL` and `EvalBreaker` compose through `AbstractGIL`: `GIL` implements it (proved,
and checked by TLC), and `EvalBreaker` uses its actions as its lock.  `ThreadPool` is the
futures together with the pool that completes them.  The variable `component` of `MCParts`
and `MCLibraryLive` (`announcer` in `MCEvalBreakerCases`, `crew` in `MCGILCrews`) never
changes: it says which part, or which case, a behaviour is about.  The others stay in
their initial states, so that these runs check the modules side by side and do not
multiply their states.

### GIL

One action per access to state that another thread may touch without the lock
this thread holds; everything inside a `gil->mutex` or `gil->switch_mutex`
section that only those sections touch is one step.  `pc[t]` is the place in the
code; the labels are listed at `Label`.

* `mutex` and `switch_mutex` are the two OS mutexes; `WaitTimeout` is the end of
  a timed wait, and a thread on `gil->cond` is at `"wait"`, on `switch_cond` at
  `"swait"`.  `COND_SIGNAL` wakes any one waiter (`Signal`); if there is none the
  signal is lost, as in the code.  Spurious wake-ups are left out for `switch_cond`
  (the code, which has no loop there, would survive one: the thread only goes on
  earlier) and are covered by time-outs for `gil->cond`.
* `switch_number` is abstracted to `switched[t]`: whether it moved since `t` read it.
* `COMPUTE_EVAL_BREAKER` is a load and a store (`LoadFlags`, `StoreBreaker`), and
  `SET_` and `RESET_GIL_DROP_REQUEST` write their two words in two steps.
* `why[t]` says who called `drop_gil`: `PyEval_SaveThread` (`"save"`), the eval loop
  (`"switch"`), `take_gil` of a thread that must exit (`"exit"`), or the deletion of
  the thread state, with `tstate == NULL` (`"delete"`).
* A thread that has never run is at `"out"`: thread creation ends in
  `PyEval_AcquireThread`, which is `take_gil`.

The model has one GIL and any number of interpreters that share it (`InterpOf`);
an interpreter with a GIL of its own is an instance with `Interp` a singleton.

### EvalBreaker

Threads of the main interpreter, and `Agent`s: callers without the GIL.  An agent in
`Handler` is a C signal handler, one in `Interrupt` runs on the main thread's stack
and suspends it (`At`).  The sections under `pending->lock` are single steps.

* The rings are modelled with their indices (`Full`, `Empty`, `Pushed`, `Popped`);
  `accepted` and `executed` are history variables.
* `AddPendingCall` signals also if the ring was full, as the code does.
* A call runs Python code: its thread may meet `_Py_HandlePending` again, lose the
  GIL, push calls, block and fail (`running`, `count`, `queue` are the frame of
  `make_pending_calls` that it returns to).
* `TakeGil` does the end of `take_gil`: reset the drop request, recompute, look at
  the thread's own `async_exc`.  `RequestDrop` is the two stores of
  `SET_GIL_DROP_REQUEST` at once; `GIL` has them apart.
* There is one signal number; `RunHandlers` runs its handler, which may raise.

### ModuleLock

The state of a thread is a stack of frames, one for each import it is in.  A frame
has the lock, the place in the code (`Label`), and the state of a search.

* `Import` is the next import of a thread: an import statement of the module being
  executed (`"held"`), or one that a signal handler, a finalizer or a weak reference
  callback runs at one of the places in `Interrupts`.  The interrupted frame stays
  where it is until the import above it has returned.
* `blocking_on[t]` is the list `_blocking_on[tid]`; `_BlockingOnManager` appends to it
  (`Enter`) and removes from it (`Leave`, or `Fail` with the error).
* `with self.lock` around a short section is one step; around `has_deadlock` it is not,
  since the search reads what other threads write.  It has `self.lock` while it is at
  `"search"`, and keeps other threads out of their sections (`SelfLockFree`).
  `Visit` is one turn of the loop of `_has_deadlocked`; `todo` is its recursion, a list
  of the candidates left in each call.
* `wakeup` and `waiters` are as in the code: `Queue` tries `wakeup.acquire(False)`, `Wake`
  is the blocking acquire, `Retry` the release after it.
* `Release` is at `"held"`: a module that is imported with an error releases as well.

### Future and ThreadPool

* What a method does with a future's condition held is one step: nothing blocks there but
  `Condition.wait`, whose waiters are in `parked`.  The callbacks run after the condition
  is let go, in a step of their own (`"callbacks"`, `"drained"`).
* A client's `wait` or `as_completed` puts its waiter on all of its futures in one step,
  since it has all their conditions, and takes it from them one by one (`Unhook`).  `Counts`
  has the three kinds of waiters.
* `Submit` puts the work item on the queue; `AdjustThreadCount`, with `_shutdown_lock` still
  held, looks for an idle worker or starts one.  Workers that run calls do not take that lock, so the two
  steps interleave with theirs.  `FoundEmpty` and `BecomesIdle` are apart for the same reason.
* `shutdown` empties the queue item by item (`ShutdownDrains`), with the callbacks of
  each cancelled future in between.  `ExecutorLost` is the weak reference callback that wakes
  the workers; `PythonExits`, `PythonExitWakes` and `PythonExitJoins` are `_python_exit`.
* `InitializerFailed`, `FailedDrains` and `FailedCallbacks` are `_initializer_failed`.
  `set_exception` on a cancelled future raises, and the thread ends there (`"dead"`).
* The `SimpleQueue` of the pool is a sequence here, and its `get` blocks while that is
  empty.  `SimpleQueue` shows that an item on a queue wakes who waits.

### SimpleQueue

The lock is its semaphore's value, `lockFree`; `locked` is the field of that name.
Everything between two waits is one step, since the GIL is held: the loop of `get` goes on
until it has an item, blocks, or raises `Empty`.  A blocked get goes on because it got the
lock (`GotLock`), its time is up (`TimeIsUp`) or a signal arrived (`Interrupted`); it sets
`locked` in the first and, as the code does, in the last case as well.  `patience` is the
sign of the time left.  `TimeLeft` computes it anew, and it may be anything up to what it was.

### ThreadQueue

A section under the mutex is one step; it ends with a wait, a return or an exception.
`waiters[k]` is the `_waiters` of the condition `k`.  `notify` releases the waiters up to
the first that can be released; a thread that timed out, and has not removed its waiter yet,
counts as one.  `Stale` and `Spent` are waiters that nobody waits for any more: they are left
behind if a signal handler raises in `notify` between the release and the removal.  `broke`
records that an exception (out of a wait after the release, or out of a `notify`) lost a
notification, which the code does not repair.

### AsyncTask and the modules on it

`fut[t]` is the state of the future a task waits for, `must_cancel` and `ready` are the
fields of the task and of the loop.  `Runs` is a step of a task from one await to the
next; the futures that it gives results to are scheduled in order.  `CancelTask` may
happen between any two steps: it cancels a pending future, and marks the task if the future
is done.  The four modules have their deques of futures as sequences of tasks.

* `AsyncLocks`: `AcquireOrWait` is `acquire` when it is called, `AcquireResumes` its end.
  `WaitResumes` and `ReacquireResumes` are the loop at the end of `Condition.wait`, which is
  entered again at each cancellation.
* `AsyncSemaphore`: `WakeUpNext` takes the value for the waiter that it wakes; a waiter that is
  cancelled after that gives it back.
* `AsyncBarrier`: the lock of its condition is free whenever a task asks for it, because no
  method awaits anything but the condition; so the condition's waiters are all there is.
* `AsyncQueue`: `_wakeup_next` takes waiters off until one is pending; `joiners` are the
  waiters of the event.

### Collector

* The lists of the collector are the sets `In(p)`, with `place[o]` the list of an object.  Two
  generations stand for the three; `Collect(full)` collects the younger, or both.
* `Scan` is one turn of `move_unreachable`; `gcRefs` are computed by `Deduce`, in one step,
  since no Python code runs there.
* A piece of Python code, and what other threads do meanwhile, is one write to an object
  it can get at, or none (`Outcomes`): a variable, a field, or a new weak reference.  It
  gets at whatever variables and its own object lead to, through weak references as well
  (`Accessible`).
* An object without references (`Dying`) is deallocated before anything else happens:
  `FinalizeDying`, `ClearWeakRef` and `FreeDying` are `subtype_dealloc`, with its calls
  of the finalizer, of weak reference callbacks and of `tp_del`.  The collector goes on when
  none is left (`Quiet`).
* `kind` is what the collector asks a type: a finalizer, a `tp_del`, or no `tp_clear` (a
  tuple).  `IsHeap` says what a heap is to begin with; in it no cycle is made of tuples only,
  which is why they need no `tp_clear` (`Doc/c-api/typeobj.rst:1501`).  `doomed` is history: all objects given to `delete_garbage`.

### NewPythonParser

A line is a sequence of words with marks for the brackets or quotes attached to
them; that is what the patterns of the parser look at.  A text in brackets may have
several words, among them symbols, `in` or `lambda`, and the model treats them as the
code does, which knows nothing of texts in most of its steps.

* Each `convert_` function is an operator on a line; `ConvertLine` has their order.
* `NewPythonLanguage` is independent of the parser.  It has the statements as a user
  thinks of them (a call with its arguments, a lambda with parameters and body),
  written in NewPython (`Source`) and in Python (`Python`).  `IsStatement` says which of them
  there are: a formula has no parentheses, an argument is a text or one word, and so on.
  `Texts` has every string.  The keywords, two numbers and the symbols are listed; any other
  string stands for a name.  `ParserAssumption` is that files consist of such statements.
* The parser has no state: `Refuse` and `Convert` are the two outcomes of
  `parse_newpython`, after the line count of `validate_source`.
* `ProgramLayout` and `OutputLayout` are what the lines of a file and of its output show of
  blocks: how deep each is, whether it opens a block, whether it is empty.  `Extents` are the
  blocks that follow from this, each with its lines.

Definitions marked *faulty* are not part of a model.  They are mistakes the code
could have made, each the mutated form of the definition that follows it;
with that definition replaced the named property is violated (`PROJECT.json`,
"mutants").

## 3. What the runs check

| run | result | what it shows |
|---|---|---|
| `GIL_threads` | 157,482 states | three threads of two interpreters with blocking calls, exits and finalization: `TypeOK`, `GilExclusion`, `ForcedSwitch`, `RequestsKept`, `FinalizerRunsAlone`, `OneComputer`, and the refinement `ImplementsAbstract`; and three threads of one interpreter that compute: `AlikeServed` |
| `GIL_finalize` | violated | `DropGilReturns` with finalization (section 5) |
| `GIL_shared` | violated | `HandsOver` across interpreters that share the GIL (section 5) |
| `EvalBreaker_safety` | 891,320 states | calls by a caller without the GIL, with a ring that fills up and calls that fail; work announced by holders of the GIL; signals on the main thread's stack and elsewhere: `CallsInv`, `InterpSignalled`, `SignalKept`, `HolderCovered` |
| `EvalBreaker_live` | 42,521 states | every call is made in the end: `CallsAreMade` |
| `EvalBreaker_outsider` | violated | `CallsAreMade` for a caller without the GIL (section 5) |
| `ModuleLock_imports` | 616,083 states | three threads import three modules, one inside of another, with interruptions before a lock is taken and during the wait: `Ownership`, `NoLostWakeup`, `NoDeadlock`, `AlarmNeedsLock`; TLC's check for deadlock is on |
| `ModuleLock_reentrant` | violated | `NoDeadlock` with an interruption after the lock was taken (section 5) |
| `Parts_safety` | 577,544 states | one part in each behaviour: a pool that is shut down, lost or overtaken by the exit of Python, and one whose initializer fails (`PoolInv`, `CallbackOnce`); `queue.Queue` with timeouts and signals (`QueueInv`); `asyncio.Queue` and `asyncio.Barrier` with cancelled tasks (`AsyncQueueInv`, `BarInv`, `AllPartiesCame`); collections (`CollectorInv`, `CodeIsSafe`, `TrashGone`); NewPython programs (`Translation`, `OutputInv`, `EndRule`) |
| `Library_live` | 102,732 states | the waits of the library end: clients of a pool that wait for futures in four ways (`WaitersCount`, `PoolEnds`), a `SimpleQueue` (`SimpleInv`, `ItemsAreTaken`), a lock, a condition and semaphores of `asyncio` with cancelled tasks (`LockInv`, `SemInv`, `LockInOrder`, `WaitEndsLocked`, `AcquiresEnd`) |
| `SimpleQueue_timeout` | violated | `TimedGetIsTimed` (section 5) |
| `Collector_weakrefs` | violated | `CodeIsSafe` if finalizers make new weak references (section 5) |

Some properties are conjunctions of named parts, each of them commented in its module:
`RequestsKept` (`NoStaleRequest`, `SleeperHasTaker`), `AlikeServed` (`HandsOver`,
`DropGilReturns`), `CallsInv` (`CallsInOrder`, `OneCaller`), `PoolInv` (`NoSleeperOnDone`,
`ItemUsable`, `PendingIsServed`), `PoolEnds` (`CallsEnd`, `WorkersLeave`), `QueueInv`
(`WaitersAreListed`, `NoLostWakeUp`, `JoinersHaveReason`), `AsyncQueueInv`
(`AsyncNoLostWakeup`, `SleepersListed`, `JoinNeedsWork`), `BarInv` (`CountRight`,
`SleepersHaveReason`), `SimpleInv` (`ItemsAreAnnounced`), `LockInv` (`LockExclusion`,
`LockWakeUp`), `SemInv` (`PermitsConserved`, `PermitsUsed`), `CollectorInv`
(`DeducedRight`, `FinalizedFirst`), `OutputInv` (`BlocksKept`); those of the parts have their
type invariant as well.

**Bounds.**  Three threads in `GIL` are the least with a holder, a waiter and a
third party that takes the lock in between; the second interpreter makes requests
that the holder does not see.  There is no counter in `GIL`: its state space is
finite by itself.  In `EvalBreaker` two threads are the main one and one that is not; a
ring of `NPENDINGCALLS` = 3 slots holds two calls, so that order, wrap-around and
a full ring all occur with three calls, and each call is pushed at most once
(`c \notin Range(accepted[q])`), which is the bound on the history variables.
`EvalBreaker_safety` has six cases (`announcer`): a caller without the GIL, holders of the GIL
with calls of both queues, holders with a main thread that blocks and calls for that thread
only, two signals at a time, and one signal of either kind while the main thread blocks.  Collections of garbage are requested in the two cases of holders.
It does not combine the calls of the interpreter's queue with a main
thread that blocks: that product alone has millions of states.  It uses the symmetry
of the calls of one queue (it checks invariants only).
Deadlock is not checked in these: threads exit, may all be outside of the interpreter,
or may compute without a step of the model.

In `ModuleLock_imports` three threads and three locks are what it takes for a circle that
a thread outside of it runs into (the case of bpo-38091), and for a circle of three.
`MaxDepth` = 2 is the least at which a thread holds one lock and waits for another;
with an interruption it also has two entries in `_blocking_on`.  `Interrupts` is
`{"try", "wait"}`: the two places where a thread stays for long.  The same properties
hold with `{"enter", "try", "wait", "woken", "failed"}` (two locks); with `"leave"` or
`"search"` they do not (section 5).  For `NoDeadlock` these bounds are part of the statement:
with `{"try", "wait"}`, five threads and a `MaxDepth` of 3 a circle is missed as well (section 5).
For all threads and depths it is proved where no interruption comes while the thread
has an entry in `_blocking_on` (`CirclesAreFound` in section 4).

The programs of `Parts_safety` are 1,902 statements that satisfy `IsStatement`, and all files of up to four lines made of
ends, empty lines, headers and prints.  Each line is converted without regard to the others, so single
lines are enough for the conversions, and four lines of four sorts for the rules
about `end`; for files and lines of any length it is proved.  `MaxLines` = 3 puts the limit of `validate_source` within reach.  The
sample lines, read as text, give the same output in the parser itself.

Two workers, two calls and two clients are what it takes for a worker that becomes idle
while another call is submitted, for a wake-up that has to reach a second worker, and for a
cancel against a run; one of the clients has the executor, the other the futures.  `Parts_safety` has three
such pools: one that is shut down, lost or there when Python exits, without a client that asks for
results; one whose initializers raise, with futures that are cancelled by `shutdown`, without callbacks; and one of a
single worker with all of it but the exit.  In `Library_live` a client waits in four ways.  `MaxWakeUps`
bounds the `None` on the queue when `shutdown` is called anew.  `queue.Queue` has one slot and three
threads: a getter, one that overtakes it, and one that puts; two items (`MaxPuts`); or two
threads, one of which has signal handlers that raise.  `SimpleQueue` has three getters and four items, so
that a woken get finds the queue empty twice; one getter is enough for `SimpleQueue_timeout`.
Three tasks in `asyncio` are a holder, a waiter that is cancelled after its wake-up, and
the one it has to be handed on to; three parties make a barrier of which one can leave early.
`MaxExtra` = 1 is a release too many of a `Semaphore`.  The number of cancellations is not bounded.

The heaps of `MCCollector` have a cycle of an object with a finalizer and another one that is
plain, a tuple or has a `tp_del`, a third object with a finalizer that may be old, part of
the trash or alive, and a weak reference with a callback that may itself be trash.  `SomeHeaps`
takes the 116 of them in which no object is without references and at most one thing is out of the
ordinary (the kind of the second object, what it holds, an old third object, references of
the weak reference).  Two collections let a
resurrected object come back.  `Parts_safety` has no new weak references; with them
`CodeIsSafe` fails (section 5).

**Fairness.**  `GIL!FairSpec` is strong fairness of every thread's own steps: the OS
schedules each thread and does not starve one on a mutex, a timed wait ends, and
a running thread reaches bytecode boundaries (the notes at `ceval_gil.c` 14-50
rely on the same).  It does not assume that a thread makes blocking calls,
exits, or comes back to `take_gil`; those are choices.  `EvalBreaker!FairSpec` adds that
a call returns, that a thread which waits for the GIL gets it (that is what
`HandsOver` of `GIL` gives, with a fair mutex), and weak fairness of the agents.
`CrewSpec` is `FairSpec` for the threads that compute.  For the library, `PoolFair`
says that the workers together and the owners of the executor go on (calls and
initializers end), `SimpleFair` that a get that can go on does, `LockFair` and `SemFair`
that the loop runs what is ready and that whoever has a lock or a permit gives it back.
All of these are weak.  Nobody has to submit, put, cancel, notify or shut down.

## 4. What is proved

`GILProof` proves, for every set of threads and of interpreters that satisfies
`GILAssumption`, all the safety properties of `GIL_threads`:

| theorem | statement |
|---|---|
| `TypeCorrect` | `Spec => []TypeOK` |
| `Exclusion` | `Spec => []GilExclusion` |
| `Switching` | `Spec => []ForcedSwitch` |
| `Finalization` | `Spec => []FinalizerRunsAlone` |
| `Recomputation` | `Spec => []OneComputer` |
| `Requests` | `Spec => []RequestsKept` |
| `Refinement` | `Spec => ImplementsAbstract` |

The properties are not inductive by themselves.  The invariant `IInv` (theorem
`Invariance`) adds the facts that the code's comments leave implicit:

* `Mutexes`: who owns `gil->mutex` and `gil->switch_mutex` at each label.  In particular
  a thread has `gil->mutex` from `_ready` to the end of `take_gil`, and `switch_mutex`
  from the test of `last_holder` to the wait, so that the recomputations in these
  two places exclude each other.
* `LockedRead`: what a thread has read of `gil->locked` still holds: it is locked
  while a waiter asks for it, and free at `_ready`.

The proof that a step of `GIL` keeps `IInv` has one lemma per group of conjuncts, with one
step per action.  `Refinement` maps each action to a step of `AbstractGIL` or to a
stutter: `TakeReady` is `Acquire`, `DropGil` is `Release`, `DropSwitch` is `Yield`.

`EvalBreakerProof` proves, for any threads, agents without the GIL, callers and capacity of the
rings, all the safety properties of `EvalBreaker_safety`:

| theorem | statement |
|---|---|
| `TypesAreKept` | `Spec => []TypeOK` |
| `CallsAreMadeInOrder` | `Spec => []CallsInv` |
| `QueuedCallsAreSignalled` | `Spec => []InterpSignalled` |
| `SignalsAreKept` | `Spec => []SignalKept` |
| `HoldersAreCovered` | `Spec => []BreakerCovers`, if there is no agent without the GIL |
| `HolderCasesAreCovered` | `CasesSpec => []HolderCovered` |

It starts with the arithmetic of the ring: what is between `first` and `last`, that a push
appends to `Content` and a pop takes its head, also where the indices wrap.  Then
`IInv` has a part for each question:

* `PlacesInv`: what is true of a thread at each label of the eval breaker, of its
  agent steps and of the call it has popped; `BusyInv`: `pending->busy` is set exactly
  while a thread is between its test and its reset; with it, at most one thread is in a round
  of a queue.
* `HistoryInv`: accepted calls are the calls made, the one popped and the content of
  the ring, in this order.
* `InterpInv`: a queue that is not empty is announced, or somebody is on the way to announce it:
  a caller between the push and `SIGNAL_PENDING_CALLS`, or a thread in its round, whose turn to
  look at the queue comes before it has counted to `NPENDINGCALLS`.
* `TrippedInv`: the same for `is_tripped`: it stays announced, or a thread is about to look.

`HoldersAreCovered` has an invariant of its own, `HolderInv`: a thread that runs
has computed `eval_breaker` after the last announcement (`CoveredAt`, by its place), and
whoever announces has the GIL (`GilInv`).  The hypothesis is the one that the finding
`EvalBreaker_outsider` shows to be needed.

`ModuleLockProof` proves, for all threads, locks and depths of imports, **and wherever
an import may interrupt another one** (`Interrupts` is arbitrary, except in the last):

| theorem | statement |
|---|---|
| `TypeCorrect` | `Spec => []TypeOK`; in particular `waiters` never has more than one entry |
| `OneImporter` | `Spec => []Ownership` |
| `WakeupsKept` | `Spec => []NoLostWakeup` |
| `AlarmJustified` | `Spec => AlarmNeedsLock` |
| `CirclesAreFound` | `Interrupts \subseteq {"enter", "held"}` gives `Spec => []NoDeadlock` |

The invariant `IInv` is built in three layers, each proved with one lemma per action:

* `OwnerInv`: `count` is the number of frames that hold the lock, and there are finitely
  many of them (a stack has at most `MaxDepth` frames, and `Ownership` puts them all in
  the stack of the owner).  That is what lets `Release` conclude that the last frame
  is gone when `count` is 0.
* `WakeInv`: a lock that is searched for is taken (`Searching`: the thread at
  `"search"` keeps `release` out through `self.lock`); at most one frame is at `"woken"`
  and then nobody is counted as a waiter (`OneWoken`, `WokenAlone`); a waiter is counted
  only while `wakeup` is taken (`WaitersTaken`).  Together they keep `NoLostWakeup`:
  without `Searching` the owner could leave between the search and
  `wakeup.acquire(False)`, and nobody would wake the thread that waits.
* `NotSought`: the candidates that a search has left do not have its own thread
  among them, so that it ends with an error only at edges it has just read.

`CirclesAreFound` says that the detection is complete: threads never wait for each other in a
circle.  Its hypothesis is that an import interrupts no `acquire` whose thread has an entry in
`_blocking_on`; section 5 shows the deadlocks there are without it.  It has an invariant of its
own, `CInv`:

* `OneEntry`: what a thread is acquiring is the lock of its innermost frame, and that is its one
  entry in `_blocking_on`.  Each thread then leads to one other at most, and a search is a walk.
* `CirclesInv`: of each `Circle`, a least set of threads each of which is acquiring a lock that
  another of the set owns, one thread is still to find it (`Unfinished`): it has not
  looked yet, or its search is under way along the circle (`OnTrack`).  The search
  moves on because a thread that it had seen before would close a smaller circle, and this one is
  least (`VisitOnTrack`); it ends with an error where the circle leads back to its
  thread; and whoever closes a circle does so with its entry in `_blocking_on`, before it looks
  (`EnterCircles`), which is why the searches may read the edges at different times.
* The threads in an import are finitely many (`Active`), so that there is a least set among
  threads that wait for each other (`LeastCircle`).

`LibraryProof` proves `Announced`, `SimpleSpec => []SimpleInv`, for any number of getters,
whichever of them signals reach, and any number of items.  `ItemsAreAnnounced` needs two more
facts to be inductive: there are no more items than were put (for the type of `items`),
and `LockAccounted`: the lock is free, or `locked` says that it is not, or a get that has it is
on its way.  The second is what lets a `put` that finds `locked` false conclude that
somebody will look at the queue.  It holds although an interrupted get sets `locked`
without having the lock, which makes the semaphore count up: the lock is let go once too
often, never too seldom.

`LibraryProof` proves, for any workers, clients, calls and callbacks, the three invariants of
`ThreadPool` and `Future`: `PoolIsRight` (`PoolSpec => []PoolInv`), `CallbacksAreCalledOnce`
(`[]CallbackOnce`) and `WaitersAreCounted` (`[]WaitersCount`).  The invariant `PoolIInv` adds to the
types and `NoSleeperOnDone`:

* `PlacesInv`: the items on the queue are in the order of `submit`, with `None` only behind
  them; an item is in one place; and what its place says of its state.  A pending call is on the
  queue or with the one worker that will run it.
* `LockInv`, `LeavingInv`: who is in a section of `_shutdown_lock` has it; `None` is on the
  queue, and a worker has left, only when the pool is to end; a worker that left has left no
  item behind.  So `submit` cannot put an item behind the last `None`.
* `ServedInv`: a value of the idle semaphore belongs to a thread that was started; so the
  `submit` that takes it and starts no thread has one for its item.
* `CallbacksInv`: a callback has run once, or whoever ended the call is still to run it; nobody
  else is at the callbacks of the same future.
* `WaitersInv`: where a waiter is hooked, and what its count and its event say of the
  futures it has not been told of (`Open`), for each of `ALL_COMPLETED`, `FIRST_EXCEPTION`,
  `FIRST_COMPLETED` and `as_completed`.  After the wait is over the count is only bounded: the
  waiter is unhooked from one future after the other, while others go on to complete.

It also proves `QueueIsRight`, `QueueSpec => []QueueInv`, for any threads (finitely many are
in a call at a time), any `maxsize`, and whichever threads have timeouts or handlers that
raise.  `NoLostWakeUp` counts every thread whose time is up as one that will look at the queue again,
and that is not inductive: such a thread may find nothing and raise while another is put to
sleep.  `QueueIInv` has instead

* `Listed`: a thread has its waiter on one list at most and once there, a sleeper that was
  not released has it on the list of its condition, and, unless a notify was
  interrupted, nothing on a list was released.  So each notify hits one who waits and was
  not hit before; this is where `Without` and the order of the releases matter.
* `Enough`: while one sleeps in `get` (`put`), those that were *notified*, a late one among
  them only if its waiter was released, are at least as many as there are items (as there is
  room).
* `Counted`: `unfinished_tasks` is the size of the queue and what was taken and not reported, so that
  `task_done` finds 0 exactly at the last one.

`AsyncioProof` proves what the runs check of `asyncio` for any tasks and parameters, whatever
the order in which the loop runs them and whoever is cancelled when:

| theorem | statement |
|---|---|
| `LockIsRight` | `LockSpec => []LockInv` |
| `LockIsFair` | `LockSpec => LockInOrder` |
| `WaitersReacquire` | `LockSpec => WaitEndsLocked` |
| `SemaphoreIsRight` | `SemSpec => []SemInv` |
| `AsyncQueueIsRight` | `AsyncQueueSpec => []AsyncQueueInv` |
| `BarrierIsRight` | `BarSpec => []BarInv` |
| `Parties` | `BarSpec => []AllPartiesCame` |

Its first part is about the deques.  `Among`, a function that walks along a sequence, is
characterised by its members and their order (`AmongProperties`); its induction is made with
the least number at which a claim would fail (`LeastNat`, `NatInductionOf`), since the
induction theorems of the library cannot be used here.  `TaskInv` is what each of
the four shares: a task is scheduled once exactly when its future is done or it is to be
cancelled.  `Runs` and `CancelTask`, through which every step goes, are shown to keep it.  The
four invariants are

* `LockIInv`: who is on which list (`LockPlaces`), one owner (`LockOwned`), and
  `LockGranted`: only the first waiter can have been woken, and only while the lock is
  free; and if the lock is free, the first waiter does not sleep.  This is why a woken waiter can
  take the lock without looking at the list, and why `acquire` may overtake a list
  of cancelled waiters only.
* `SemIInv`: the conservation of permits over `value`, woken waiters and holders, and `SemReady`:
  a positive value with a sleeper means that a woken waiter is to come.
* `QueueIInv`: for each of the two sides (`Side`) a woken task is off its list and a sleeping one
  on it, and while one sleeps, there are at least as many woken ones as there is supply.
* `BarIInv`: the count with `AllPartiesCame` is one induction (that a filling barrier lacks some
  party comes from the count, and that a draining one takes nobody in is what keeps newcomers
  out of `Waiting`); `BarSleeps` says for what each sleeper waits.

`CollectorProof` proves, for any finite set of objects, any heaps (`IsHeap`), and any of the
steps that finalizers, `tp_del` and callbacks take (`Outcomes`: one write or none each):

| theorem | statement |
|---|---|
| `CollectorIsRight` | `CollectorSpec => []CollectorInv` |
| `CodeIsKeptSafe` | `CollectorSpec => []CodeIsSafe`, if no new weak references are made |
| `TrashIsFreed` | `CollectorSpec => []TrashGone`, if no new weak references are made |

It begins with closures (a closure is the least set that no step leaves), the reference
count (`RefcntOf`: 0 exactly when nobody refers to the object; `OutsideCount`: what
`subtract_refs` leaves is positive exactly when a reference comes from outside), and with what a
piece of code can do (`CodeRuns`, `CodeStaysAway`).  Two invariants follow.

* `IInv` is that of `CollectorIsRight`.  `HeapInv`: nothing refers to what is freed or unborn.
  `PhaseInv`: the lists there are in each phase, and that nothing is dying while the collector
  scans.  `MarkedRight` is the loop invariant of `move_unreachable`: what is marked is reachable
  from outside; what is referred to from outside, or by an object that was scanned and is
  reachable, is marked.  At the end of the loop the two halves give the equality of
  `DeducedRight`.  `SuspectInv` follows the finalizers: an object that `finalize_garbage` is done
  with has had its finalizer called, and nothing with a `tp_del` is among those to be deleted.
* `SafeInv` needs that no weak references are made, without which `CodeIsSafe` is false
  (`Collector_weakrefs`).  `Apart`: no variable, object or weak reference leads from elsewhere to
  what was given up, nor is a weak reference in use among that.  Code with other objects at hand
  then stays away from it (`AccessibleAvoids`), and all code that runs has others at
  hand, since finalizers of what was given up have run.  `SuspectsApart` is
  what `handle_weakrefs` makes true before any finalizer runs.  `TuplesEnd`: each set of
  tuples has one that no other of the set refers to.  When all trash was cleared, what is not
  freed would be tuples only (`AllIsFreed`); one of them would have no reference left, and be
  freed.  This is where the assumption on heaps is used.

`NewPythonProof`, with the lemmas of `NewPythonLineProof` on single lines, proves what the run checks
of the front end, for files of any length, lines of any length and with any words
(`ParserAssumption`):

| theorem | statement |
|---|---|
| `TranslationIsRight` | `Spec => []Translation` |
| `OutputIsRight` | `Spec => []OutputInv` (no brackets, and the blocks that indentation shows) |
| `EndsAreRight` | `Spec => []EndRule` |

`Translation` is an equivalence.  So the theorem says of the whole language which lines the
parser gets right, and that it gets no other line right by chance.  The invariant (`Settled`)
is the little that a parser without state needs: the output is `ParseNewpython` of
the file.  All the rest is about lines, and goes like this:

* A line is a sequence of words.  Every line there is comes from `FlattenSeq`, whose value is
  found with a recursive function: there is one (`FlatExists`), it is the only one
  (`FlatUnique`), and so the last sequence can be taken off (`FlatSnoc`).  `FlatIn` then is
  induction over the sequences that are put together, `FlatCat` cuts them in two.
  Since the induction theorems of the library cannot be used here, induction is over sets
  of numbers (`NatInSet`), with the claim as the condition of the set.
* Each conversion gets lemmas on lines that are put together: brackets become quotes word by
  word (`QuoteCat`); a lambda before which there is none to be found is the one that is
  found (`LambdaAfter`); a call that was found has twice as many words (`SimpleCallLen`).
* Each form of expression is compared with its Python (`RightIs`: on the right of an equals
  sign; `HeaderIs`: in a header).  Where it is wrong there is a difference that no word can
  make up for: most often the length, since `Comma` of n items has one comma
  less than items, and `ConvertSimpleCall` counts words.
* Each kind of statement follows (`AssignIs`, `ForTranslates`, `CallTranslates`, ...).  A line is
  passed on by its first word (`FirstOf`), which `ConvertLambda` never changes unless
  it is a call.
* In a print all expressions are converted at once.  An *edge* is a place between two words
  that is in no text and that no call crosses; next to a text there is one, which is what
  `IsStatement` asks of a print.  An expression between two edges becomes what it means if it is
  of the good ones (`ExprPart`), and so do all of them, one after the other (`Printed`).
  For the other direction one looks at the first expression that is not good.  What comes
  before it is right, so that it begins at the same place in the output and
  in Python (`PrintRival`), and there they differ: in the second word (`PrintTwo`), at the
  parenthesis that closes a call before its text (`LateNot`), or at the colon of a lambda that was
  found in a text (`SpeaksNot`).
* `OutputIsRight` does not depend on what is translatable: no conversion makes a bracket (`Tidy`)
  or lets a line end with a colon of its own (`Ends`), whatever it does to the expressions.  So
  a line of the output opens a block, or is empty, where the line of the program does or is
  (`LineOut`), at the same depth: the layouts are equal, and with them the blocks.

The proof found three errors in the model's account of what is translatable, which no line of the
run had shown: a formula that begins with a number is not taken for a call (`NoCall`), the word
after a lambda in a text must be a name for the lambda to be found (`SpeaksOfLambda`), and a
comparison in a plain statement saves it from the cut at `+=` and `<=` (`Translatable`).

Only model-checked:

* the liveness properties, since the prover has no rule for fairness here;
* `NoDeadlock` of `ModuleLock` where an `acquire` may be interrupted at `"try"` and `"wait"`: it
  is proved without such interruptions, and with them it fails for five threads.

## 5. Disagreements between the code and what is said of it

* **`GIL_finalize`.**  `ceval_gil.c:386` explains that a thread that must exit takes
  its drop request back because "otherwise, drop_gil() can block forever".  It does so
  (line 393) after it released `gil->mutex` (line 385), and nothing keeps the
  finalizing thread from releasing the GIL in between, reading the request, and
  waiting on `switch_cond` for a thread that is no longer there.
* **`GIL_shared`.**  A waiter sets the request of its own interpreter.  If the holder
  belongs to another interpreter with the same GIL, it never looks there, and the
  main loop is not "able to release the GIL on demand by another thread"
  (`ceval_gil.c:19`) until it blocks.
* **`EvalBreaker_outsider`.**  `Doc/c-api/init.rst:1807` promises that a function given to
  `Py_AddPendingCall` is eventually called from the main thread, and line 1822 that
  the caller needs neither a thread state nor the GIL.  `COMPUTE_EVAL_BREAKER`
  on a thread other than the main one leaves the main thread's queue out, so
  `eval_breaker` stays 0 while the main thread computes.

* **`ModuleLock_reentrant`.**  A thread that has just taken the lock of A still has A in
  `_blocking_on` when a finalizer imports B and waits: the thread now has an edge to
  itself.  `_has_deadlocked` follows the edges in their order, finds the thread seen
  already at the first one, and gives up there (`_bootstrap.py:214`) without a look at
  the owner of B.  The comment of lines 210-213 is about a circle of *other*
  threads.  A circle through B is missed, and the threads wait for each other, where the
  docstring at line 306 promises a `_DeadlockError`.
  An interruption before the lock is taken has the same effect if five threads meet,
  beyond the bounds of `ModuleLock_imports`.  Thread a has taken A and is about to leave
  `_BlockingOnManager`.  Thread x holds L, is interrupted while it acquires A, and waits for M; u
  holds M, is interrupted while it acquires A, and waits for N; v holds N and waits for P.  Now t,
  which holds P, acquires L.  Its search sees x, then a at the first edge of x, then u, whose first
  edge is a again: it gives up before it comes to N, v and P.
  Another way to a deadlock is an interruption inside of `with self.lock`
  (`"search"` in `Interrupts`): the thread waits with `self.lock` of A held, which the
  owner of A needs for its `release`, and no search knows of that.

* **`SimpleQueue_timeout`.**  `get` with a timeout, on an empty queue whose lock is free, takes
  the lock in its first try (`Modules/_queuemodule.c:250`), which does not wait, and then computes
  the time left (line 272) without a look at its sign.  If the deadline has passed, because the
  timeout is short or the thread was not scheduled, the number is negative.  At its next turn
  the loop finds the lock taken, by itself, and a negative number means to wait without a timeout
  (line 253).  The trace is this one call, on a new queue with nobody else at work.  The same line is reached
  by a `get` that was woken for an item that another one took.  The docstring (lines 195-196)
  says that `get` "blocks at most 'timeout' seconds".
* **`Collector_weakrefs`.**  The weak references to the trash are cleared (`gcmodule.c:1284`) before the
  finalizers are called (line 1290), and not again.  A finalizer may make a new one and leave
  it where the finalizer of another object finds it when `tp_clear` is at work.
  `gc_weakref.txt:7-8` says that no Python code can be allowed to access an unreachable
  object once it is computed.

The property `Translation` of `Parts_safety` says exactly which documented lines
are *not* translated (`Translatable`); `README.md:112` of the repository promises "valid Python" for all.
Some consequences, and two other rules that the parser does not keep (most of them are hazards in
`PROJECT.json`):

* A lambda gets one parameter, however many it has: `examples/lambda_example.newpy:9`,
  headed "Lambda with multiple arguments", becomes `add = lambda x: y x + y`.
* The text of an argument is split at its blanks: `x = greet [Hello World]` becomes
  `x = greet("Hello, World")`, another text, without an error.
* A call with a text that is a line of its own, `greet [Alice]` in
  `examples/functions.newpy:17`, is not found and stays as it is; so does a call in the
  condition of a header.
* `x += 1` becomes `x + = 1`, and `import os` becomes `import(os)`.
* `LANGUAGE_SPEC.md` requires an `end` in "every file with block headers", as "the final
  non-empty line": a file without one is accepted, and one with an empty line after
  it is refused.
* `README.md:180` of the repository says of programs without indentation that the parser "interprets
  the structure of the program and closes all open blocks with the final `end`", and shows one
  that becomes indented Python (lines 184-200 and 275-290).  `parse_newpython` converts each line by
  itself (`newpython_parser.py:166`) and knows of no open blocks: the headers stay side by side, and
  the output is not valid Python.  `LANGUAGE_SPEC.md:29` says that "indentation defines the extent of each
  block", and that is what the parser does and `BlocksKept` says: the blocks of a program in
  flat style are empty, in the program as in the output.

Smaller effects, some of them hazards in `PROJECT.json`, that have no run of their own:

* When a call of the interpreter's queue fails on the main thread, the main thread's queue stays
  unsignalled until calls are next made there (`ceval_gil.c` 924-928); `EvalBreaker_live`
  therefore has calls that do not fail.  A signal that arrives between the load and the
  store of `COMPUTE_EVAL_BREAKER` on the main thread is noticed only when something
  else sets the breaker.  `_Py_FinishPendingCalls` stops at the first call that fails.
* A worker whose initializer failed ends with `InvalidStateError` at the first cancelled future
  on the queue (`thread.py:218`): the futures behind it stay pending.  That is why `PendingIsServed` and
  `CallsEnd` except pools with a failed initializer.
* `shutdown(cancel_futures=True)` takes the work items off the queue (`thread.py:232`), so that
  `set_running_or_notify_cancel` is never called for them: a `wait` or `as_completed` over
  their futures is not told.  `WaitersCount` counts those that were notified.
* An exception out of `Condition.wait` or `notify` loses the notification (`Lost`).
* `asyncio.Condition.notify` counts a task that was cancelled after its future got the result
  (`locks.py:319`): the notification ends there.
* `_Py_RunGC` does not look whether a collection is under way (`gcmodule.c:2317`), so that one that was
  scheduled before `gc.collect()` began may run inside of a finalizer.

## 6. What is not modelled

* Creation and destruction of the GIL, `set_switch_interval`, and re-initialization
  after `fork`: they run while there is one thread.
* Memory order weaker than sequential consistency: the flags are relaxed atomics
  and the notes of `ceval_gil.c` assume cache coherence.
* Subinterpreters' own pending queues (`EvalBreaker` is about the main interpreter),
  the wake-up file descriptor of `signalmodule.c`, an error of which makes a signal handler
  add a pending call.
* The lifetime of module locks (`_module_locks` and its weak references), `sys.modules`
  and what a failed import leaves there; starvation of a woken thread by newcomers
  to a module lock, which the code does not rule out.
* Of the front end: reading and checking the file, the limit on the length of a line,
  names with dots, nested or unbalanced brackets, quotes in the source, comments.
* Of the pool: `map`, `result` with a timeout, `fork`; `ProcessPoolExecutor`, which is processes
  and pipes.  Of `threading`: `RLock`, `Event`, `Semaphore`, `Barrier`, `Timer` and the life
  cycle of `Thread`; the pool's semaphore and joins are modelled by what they promise.
  Signals interrupt `wait` and `notify` of `queue.Queue`, but not the `notify_all` of its last `task_done`.
* Of `asyncio`: the selector and the timers of the loop, `TaskGroup`, `timeout`, `gather`, `shield`,
  `Future` callbacks other than the wake-up of a task, streams, transports, subprocesses.
  `PriorityQueue` and `LifoQueue` differ from `Queue` in the order of the items, which no property is
  about.  A queue without a bound (`maxsize` 0) is one whose bound is never reached, and nobody
  calls `task_done` for an item that was not taken.
* Of the collector: thresholds and the choice of a generation, untracking of tuples and dicts,
  `gc.freeze`, `gc.callbacks`, `DEBUG_SAVEALL` and the other flags, the trashcan, the encoding of
  `gc_refs` and the flags in the list pointers, nested collections (the lists of the outer one
  are its own, which sets of objects do not tell apart), free-standing allocation.  A finalizer or
  callback makes one write where Python code may make several.  When an object with several weak
  references dies, the code calls the callback of each, also of one that an earlier callback let go
  of; in the model such a weak reference dies uncalled.
* Everything in the table of section 1 for which section 2 has no module;
  `PROJECT.json` gives the reason for each.

## 7. Plan

In this order, the most important behaviour first:

1. `AbstractGIL`, `GIL`, `GILProof`, `EvalBreaker`, `EvalBreakerProof` (done).
2. `ModuleLock`, `ModuleLockProof` (done).
3. `NewPythonLanguage`, `NewPythonParser`, `NewPythonLineProof`, `NewPythonProof` (done).
4. `ThreadQueue`, `SimpleQueue`, with their part of `LibraryProof` (done).
5. `AsyncTask`, `AsyncLocks`, `AsyncSemaphore`, `AsyncQueue`, `AsyncBarrier`, `AsyncioProof` (done).
6. `Future`, `ThreadPool`, with their part of `LibraryProof` (done).
7. `Collector`, `CollectorProof` (done).
8. `threading.Barrier` and `Semaphore` over `Condition`, and the life cycle of `Thread` with
   `_shutdown` and its `_tstate_lock`.
9. `TaskGroup` and `asyncio.timeout`: one cancellation that stands for another, and `uncancel`.
10. The list of thread states under the runtime lock, with the deletion of a state that another
    thread walks over.

The runs are kept to about a dozen, so that all of them are run at each change.  A
new component gets one run with all of its properties, and takes the place of the
narrowest of the older ones.

Theorems worth proving next: those of `ThreadPool` and `Future` about the states of one future
across its threads as a refinement of a future alone; and the output of a file that leaves
the language (unbalanced brackets, nested calls), once there is a statement of what it should be.
