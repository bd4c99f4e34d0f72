---------------------------- MODULE AbstractGIL ----------------------------
(***************************************************************************)
(* What the Global Interpreter Lock promises to the threads of a process:  *)
(* a lock with one holder, in which a thread that gives the lock up on     *)
(* demand ("yields") does not get it back before another thread has had    *)
(* it.  GIL.tla is shown to implement this module.                         *)
(***************************************************************************)
CONSTANTS Thread,
          Main,      \* the thread that holds the lock at first
          NoThread   \* not a thread

VARIABLES holder,   \* the thread that holds the GIL, or NoThread
          last,     \* the last thread that took it
          yielder   \* the thread waiting for somebody else to take it, or NoThread

vars == <<holder, last, yielder>>

Init == holder = Main /\ last = Main /\ yielder = NoThread

Acquire(t) ==
  /\ holder = NoThread
  /\ yielder # t
  /\ holder' = t /\ last' = t /\ yielder' = NoThread

Release(t) ==
  /\ holder = t
  /\ holder' = NoThread
  /\ UNCHANGED <<last, yielder>>

(* After it released the GIL on demand, and before anybody took it. *)
Yield(t) ==
  /\ holder = NoThread /\ last = t /\ yielder = NoThread
  /\ yielder' = t
  /\ UNCHANGED <<holder, last>>

Next == \E t \in Thread : Acquire(t) \/ Release(t) \/ Yield(t)

Spec == Init /\ [][Next]_vars
=============================================================================
