----------------------------- MODULE ModuleLock -----------------------------
(***************************************************************************)
(* The locks of the import system: _ModuleLock and its deadlock detection  *)
(* (Lib/importlib/_bootstrap.py).  A thread takes the lock of a module to  *)
(* import it, and those of the modules this one imports in turn; threads   *)
(* that meet on a circle of imports would wait for each other, so acquire  *)
(* looks for a circle first and raises _DeadlockError.                     *)
(*                                                                         *)
(* A thread's state is a stack of frames, one for every import it is in.   *)
(* The search of has_deadlock visits one thread per step, while the other  *)
(* threads go on.                                                          *)
(***************************************************************************)
EXTENDS Naturals, FiniteSets, SequencesExt

CONSTANTS Thread, NoThread,
          Lock,        \* the locks of the modules
          MaxDepth,    \* bound on the imports a thread is in
          Interrupts   \* where in an acquire a signal handler or the garbage
                       \* collector may start another import

ASSUME ModuleLockAssumption ==
  /\ NoThread \notin Thread
  /\ MaxDepth \in Nat \ {0}

VARIABLES
  owner, count,    \* of each lock; count stands for the list of that name
  waiters,         \* the length of that list
  wakeup,          \* whether the primitive lock of that name is taken
  blocking_on,     \* _blocking_on: the locks a thread is acquiring
  stack            \* the frames of each thread, the innermost last

vars == <<owner, count, waiters, wakeup, blocking_on, stack>>

(* The places of a frame: in acquire and the enclosing context manager,    *)
(* then importing the module with the lock held.  "search" is inside of    *)
(* "with self.lock"; "woken" has taken wakeup and is to release it.        *)
Label == {"enter", "try", "search", "wait", "woken", "leave", "failed", "held"}

(* seen and todo belong to the search: the threads visited, and for each   *)
(* call of _has_deadlocked, the innermost last, the candidates left.       *)
Frame == [lock : Lock, at : Label, seen : SUBSET Thread,
          todo : Seq(Seq(Thread \cup {NoThread}))]

TypeOK ==
  /\ owner \in [Lock -> Thread \cup {NoThread}] /\ count \in [Lock -> Nat]
  /\ waiters \in [Lock -> {0, 1}] /\ wakeup \in [Lock -> BOOLEAN]
  /\ blocking_on \in [Thread -> Seq(Lock)] /\ stack \in [Thread -> Seq(Frame)]

Init ==
  /\ owner = [l \in Lock |-> NoThread] /\ count = [l \in Lock |-> 0]
  /\ waiters = [l \in Lock |-> 0] /\ wakeup = [l \in Lock |-> FALSE]
  /\ blocking_on = [t \in Thread |-> <<>>]
  /\ stack = [t \in Thread |-> <<>>]
-----------------------------------------------------------------------------
(* Variants named "faulty" are not part of the model: each stands for a    *)
(* mistake in the code that the properties are tried against.              *)

Top(t)   == Last(stack[t])
At(t, l) == stack[t] # <<>> /\ Top(t).at = l

Goto(t, frame) == stack' = [stack EXCEPT ![t] = Append(Front(@), frame)]
Step(t, label) == Goto(t, [Top(t) EXCEPT !.at = label])
Return(t)      == stack' = [stack EXCEPT ![t] = Front(@)]

(* self.lock is an RLock: only the frames of other threads keep t out. *)
SelfLockFree(t, l) ==
  \A u \in Thread \ {t} : \A i \in DOMAIN stack[u] :
    ~(stack[u][i].lock = l /\ stack[u][i].at = "search")

(* An import statement of the module being imported, or an interruption.   *)
Import(t, l) ==
  /\ Len(stack[t]) < MaxDepth
  /\ stack[t] # <<>> => Top(t).at \in {"held"} \cup Interrupts
  /\ stack' = [stack EXCEPT ![t] = Append(@, [lock |-> l, at |-> "enter", seen |-> {}, todo |-> <<>>])]
  /\ UNCHANGED <<owner, count, waiters, wakeup, blocking_on>>

(* _BlockingOnManager.__enter__ and __exit__ *)
Enter(t) ==
  /\ At(t, "enter")
  /\ blocking_on' = [blocking_on EXCEPT ![t] = Append(@, Top(t).lock)]
  /\ Step(t, "try")
  /\ UNCHANGED <<owner, count, waiters, wakeup>>

Leave(t) ==
  /\ At(t, "leave")
  /\ blocking_on' = [blocking_on EXCEPT ![t] = RemoveFirst(@, Top(t).lock)]
  /\ Step(t, "held")
  /\ UNCHANGED <<owner, count, waiters, wakeup>>

(* _DeadlockError leaves acquire. *)
Fail(t) ==
  /\ At(t, "failed")
  /\ blocking_on' = [blocking_on EXCEPT ![t] = RemoveFirst(@, Top(t).lock)]
  /\ Return(t)
  /\ UNCHANGED <<owner, count, waiters, wakeup>>

Free(t, l) == count[l] = 0 \/ owner[l] = t

Take(t) ==
  LET l == Top(t).lock IN
  /\ At(t, "try") /\ SelfLockFree(t, l)
  /\ Free(t, l)
  /\ owner' = [owner EXCEPT ![l] = t]
  /\ count' = [count EXCEPT ![l] = @ + 1]
  /\ Step(t, "leave")
  /\ UNCHANGED <<waiters, wakeup, blocking_on>>

(* The lock is another thread's: has_deadlock is called. *)
Look(t) ==
  LET l == Top(t).lock IN
  /\ At(t, "try") /\ SelfLockFree(t, l)
  /\ ~Free(t, l)
  /\ Goto(t, [Top(t) EXCEPT !.at = "search", !.todo = <<<<owner[l]>>>>])
  /\ UNCHANGED <<owner, count, waiters, wakeup, blocking_on>>

Edges(u) == [i \in DOMAIN blocking_on[u] |-> owner[blocking_on[u][i]]]

(* Faulty: the thread itself is not looked for. *)
NotReached(t, candidates) == FALSE

Reached(t, candidates) == t \in ToSet(candidates)

Failed(f) == [f EXCEPT !.at = "failed", !.seen = {}, !.todo = <<>>]

(* Faulty: a circle of other threads counts as one of this thread's. *)
FailedSeen(f) == Failed(f)

(* A thread seen before ends the innermost call, whatever candidates it    *)
(* has left (bpo-38091).                                                   *)
AfterSeen(f) == [f EXCEPT !.todo = Front(@)]

(* One turn of the loop of _has_deadlocked. *)
Visit(t) ==
  LET f == Top(t)
      candidates == Last(f.todo)
      u == Head(candidates)
      rest == Append(Front(f.todo), Tail(candidates)) IN
  /\ At(t, "search") /\ f.todo # <<>>
  /\ IF candidates = <<>> THEN Goto(t, [f EXCEPT !.todo = Front(@)])
     ELSE IF u = NoThread \/ blocking_on[u] = <<>> THEN Goto(t, [f EXCEPT !.todo = rest])
     ELSE IF u \in f.seen THEN Goto(t, AfterSeen(f))
     ELSE IF Reached(t, Edges(u)) THEN Goto(t, Failed(f))
     ELSE Goto(t, [f EXCEPT !.seen = @ \cup {u}, !.todo = Append(rest, Edges(u))])
  /\ UNCHANGED <<owner, count, waiters, wakeup, blocking_on>>

(* Faulty: every thread that waits is counted. *)
AllWaiters(l) == waiters[l] + 1

(* wakeup.acquire(False) fails if there are waiters already. *)
Waiters(l) == IF wakeup[l] THEN waiters[l] ELSE waiters[l] + 1

(* No circle: the first to wait takes wakeup, so that the blocking acquire *)
(* that follows does wait.                                                 *)
Queue(t) ==
  LET l == Top(t).lock IN
  /\ At(t, "search") /\ Top(t).todo = <<>>
  /\ wakeup' = [wakeup EXCEPT ![l] = TRUE]
  /\ waiters' = [waiters EXCEPT ![l] = Waiters(l)]
  /\ Goto(t, [Top(t) EXCEPT !.at = "wait", !.seen = {}])
  /\ UNCHANGED <<owner, count, blocking_on>>

(* wakeup.acquire() and wakeup.release() *)
Wake(t) ==
  /\ At(t, "wait") /\ ~wakeup[Top(t).lock]
  /\ wakeup' = [wakeup EXCEPT ![Top(t).lock] = TRUE]
  /\ Step(t, "woken")
  /\ UNCHANGED <<owner, count, waiters, blocking_on>>

Retry(t) ==
  /\ At(t, "woken")
  /\ wakeup' = [wakeup EXCEPT ![Top(t).lock] = FALSE]
  /\ Step(t, "try")
  /\ UNCHANGED <<owner, count, waiters, blocking_on>>

(* Faulty: the owner leaves with its first release. *)
Disowned(l) == NoThread

OwnerAfter(l) == IF count[l] = 1 THEN NoThread ELSE owner[l]

(* Faulty: the waiters are left alone. *)
WakesNobody(l) == FALSE

Wakes(l) == count[l] = 1 /\ waiters[l] > 0

Release(t) ==
  LET l == Top(t).lock IN
  /\ At(t, "held") /\ SelfLockFree(t, l)
  /\ count' = [count EXCEPT ![l] = @ - 1]
  /\ owner' = [owner EXCEPT ![l] = OwnerAfter(l)]
  /\ waiters' = [waiters EXCEPT ![l] = IF Wakes(l) THEN @ - 1 ELSE @]
  /\ wakeup' = [wakeup EXCEPT ![l] = @ /\ ~Wakes(l)]
  /\ Return(t)
  /\ UNCHANGED blocking_on

Next ==
  \E t \in Thread :
    \/ Enter(t) \/ Leave(t) \/ Fail(t) \/ Take(t) \/ Look(t) \/ Visit(t) \/ Queue(t)
    \/ Wake(t) \/ Retry(t) \/ Release(t)
    \/ \E l \in Lock : Import(t, l)

Spec == Init /\ [][Next]_vars
-----------------------------------------------------------------------------
(* Properties *)

Holds(t, i, l) == stack[t][i].lock = l /\ stack[t][i].at \in {"leave", "held"}

Holders(l) == {h \in Thread \X (1 .. MaxDepth) : h[2] <= Len(stack[h[1]]) /\ Holds(h[1], h[2], l)}

(* A module is imported by one thread at a time: owner and count say which *)
(* and how often, so that the last release, and no other, frees the lock.  *)
Ownership ==
  \A l \in Lock : /\ count[l] = Cardinality(Holders(l))
                  /\ \A h \in Holders(l) : h[1] = owner[l]

(* Whoever blocks on wakeup is woken: it is taken on behalf of the waiters *)
(* of a lock that is held, or by a thread that is about to release it.     *)
NoLostWakeup ==
  \A l \in Lock : wakeup[l] =>
    \/ waiters[l] = 1 /\ count[l] > 0
    \/ \E t \in Thread : \E i \in 1 .. Len(stack[t]) :
         stack[t][i].lock = l /\ stack[t][i].at = "woken"

(* The thread t cannot go on before u does something. *)
StuckOn(t, u) ==
  /\ stack[t] # <<>> /\ t # u
  /\ LET l == Top(t).lock IN
     \/ Top(t).at = "wait" /\ wakeup[l] /\ owner[l] = u
     \/ /\ Top(t).at \in {"try", "held"}
        /\ \E i \in DOMAIN stack[u] : stack[u][i].lock = l /\ stack[u][i].at = "search"

(* "If a potential deadlock is detected, a _DeadlockError is raised.       *)
(* Otherwise, the lock is always acquired": no threads wait for each other *)
(* in a circle.                                                            *)
NoDeadlock ==
  \A S \in (SUBSET Thread) \ {{}} : \E t \in S : \A u \in S : ~StuckOn(t, u)

(* A circle of other threads, which one of them is about to break, is not  *)
(* this thread's (bpo-38091): the error goes only to a thread that has a   *)
(* module lock another thread is acquiring.  (The search follows edges     *)
(* that may be gone by the time it arrives, so that there need not be a    *)
(* circle at any one time: "the deadlock avoidance mechanism is            *)
(* conservative".)                                                         *)
AlarmNeedsLock ==
  [][\A t \in Thread : At(t, "search") /\ At(t, "failed")' =>
       \E u \in Thread \ {t} : t \in ToSet(Edges(u))]_vars
=============================================================================
