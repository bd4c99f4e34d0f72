---------------------------- MODULE SimpleQueue ----------------------------
(***************************************************************************)
(* queue.SimpleQueue (Modules/_queuemodule.c): an unbounded queue whose    *)
(* put never blocks, not even in a signal handler.  A lock serves as the   *)
(* event "not empty": get takes it to wait, put lets it go if "locked"     *)
(* says that it is taken, and a get that took an item passes the lock on.  *)
(*                                                                         *)
(* What a thread does with the GIL held is one step; only a get that waits *)
(* for the lock is without the GIL.  Which items are on the queue does not *)
(* matter here, only how many.                                             *)
(***************************************************************************)
EXTENDS Naturals, FiniteSets

CONSTANTS Getter,          \* threads in get
          Interruptible,   \* those of them that signals reach
          MaxItems         \* bound on the items, with those that were taken

ASSUME SimpleQueueAssumption ==
  Interruptible \subseteq Getter /\ MaxItems \in Nat

VARIABLES
  items,       \* the number of items, len(lst) - lst_pos
  puts,        \* the calls of put so far
  lockFree,    \* the value of the semaphore that the lock is
  locked,      \* the field of that name
  getPc,       \* where each getter is
  timed,       \* whether its get was given a timeout
  patience     \* its microseconds: zero, positive ("some") or negative

simpleVars == <<items, puts, lockFree, locked, getPc, timed, patience>>

SimpleTypeOK ==
  /\ items \in 0 .. MaxItems /\ puts \in 0 .. MaxItems
  /\ lockFree \in Nat /\ locked \in BOOLEAN
  /\ getPc \in [Getter -> {"idle", "blocked", "woken", "late", "interrupted"}]
  /\ timed \in [Getter -> BOOLEAN]
  /\ patience \in [Getter -> {"zero", "some", "negative"}]

SimpleInit ==
  /\ items = 0 /\ puts = 0 /\ lockFree = 1 /\ locked = FALSE
  /\ getPc = [t \in Getter |-> "idle"] /\ timed = [t \in Getter |-> FALSE]
  /\ patience = [t \in Getter |-> "zero"]
-----------------------------------------------------------------------------
(* put, by any thread that has the GIL. *)
SimplePut ==
  /\ puts < MaxItems /\ puts' = puts + 1
  /\ items' = items + 1
  /\ locked' = FALSE
  /\ lockFree' = IF locked THEN lockFree + 1 ELSE lockFree
  /\ UNCHANGED <<getPc, timed, patience>>

GetReturns(t) ==
  /\ getPc' = [getPc EXCEPT ![t] = "idle"]
  /\ timed' = [timed EXCEPT ![t] = FALSE]
  /\ patience' = [patience EXCEPT ![t] = "zero"]

(* Variants named "faulty" are not part of the model: each stands for a    *)
(* mistake in the code that the properties are tried on.                   *)
(* Faulty: the lock is not let go for the next.                            *)
faultyTakesAnItem(t, isLocked) ==
  /\ items > 0
  /\ items' = items - 1
  /\ locked' = FALSE
  /\ GetReturns(t)
  /\ UNCHANGED <<puts, lockFree>>

(* The queue is not empty: the loop is over, an item is taken and the lock *)
(* passed on, if it is known to be taken (isLocked).                       *)
TakesAnItem(t, isLocked) ==
  /\ items > 0
  /\ items' = items - 1
  /\ lockFree' = IF isLocked THEN lockFree + 1 ELSE lockFree
  /\ locked' = FALSE
  /\ GetReturns(t)
  /\ UNCHANGED puts

(* The time left, when it is computed anew: any time may have passed, and  *)
(* what is left may be less than zero.                                     *)
TimeLeft(p) == IF p = "some" THEN {"some", "zero", "negative"} ELSE {p}

(* Faulty: locked is not set by who takes the lock in vain.                *)
faultyWaitsForTheLock(t, isLocked, isTimed, p) ==
  /\ items = 0
  /\ lockFree' = 0
  /\ locked' = isLocked
  /\ \E q \in IF lockFree > 0 THEN TimeLeft(p) ELSE {p} :
       IF q = "zero" THEN GetReturns(t)
       ELSE /\ getPc' = [getPc EXCEPT ![t] = "blocked"]
            /\ patience' = [patience EXCEPT ![t] = q]
            /\ timed' = [timed EXCEPT ![t] = isTimed]
  /\ UNCHANGED <<items, puts>>

(* The queue is empty: the loop takes the lock for as long as it is free,  *)
(* and computes the time left each time, then blocks or, without the       *)
(* patience, raises Empty.                                                 *)
WaitsForTheLock(t, isLocked, isTimed, p) ==
  /\ items = 0
  /\ lockFree' = 0
  /\ locked' = (isLocked \/ lockFree > 0)
  /\ \E q \in IF lockFree > 0 THEN TimeLeft(p) ELSE {p} :
       IF q = "zero" THEN GetReturns(t)
       ELSE /\ getPc' = [getPc EXCEPT ![t] = "blocked"]
            /\ patience' = [patience EXCEPT ![t] = q]
            /\ timed' = [timed EXCEPT ![t] = isTimed]
  /\ UNCHANGED <<items, puts>>

(* get, get_nowait (p is "zero"), get with a timeout (p is "some"). *)
Get(t, p) ==
  /\ getPc[t] = "idle"
  /\ TakesAnItem(t, locked) \/ WaitsForTheLock(t, locked, p = "some", p)

(* Without the GIL: the lock is got, the time is up, a signal arrives.     *)
GotLock(t) ==
  /\ getPc[t] = "blocked" /\ lockFree > 0
  /\ lockFree' = lockFree - 1
  /\ getPc' = [getPc EXCEPT ![t] = "woken"]
  /\ UNCHANGED <<items, puts, locked, timed, patience>>

TimeIsUp(t) ==
  /\ getPc[t] = "blocked" /\ patience[t] = "some"
  /\ getPc' = [getPc EXCEPT ![t] = "late"]
  /\ UNCHANGED <<items, puts, lockFree, locked, timed, patience>>

Interrupted(t) ==
  /\ t \in Interruptible /\ getPc[t] = "blocked"
  /\ getPc' = [getPc EXCEPT ![t] = "interrupted"]
  /\ UNCHANGED <<items, puts, lockFree, locked, timed, patience>>

(* With the GIL again.  After an interruption locked is set as well,       *)
(* though the lock was not got.                                            *)
GoesOn(t) ==
  /\ getPc[t] \in {"woken", "interrupted"}
  /\ \E p \in TimeLeft(patience[t]) :
       TakesAnItem(t, TRUE) \/ WaitsForTheLock(t, TRUE, timed[t], p)

RaisesEmpty(t) ==
  /\ getPc[t] = "late" /\ GetReturns(t)
  /\ UNCHANGED <<items, puts, lockFree, locked>>

(* The signal handler raises. *)
HandlerRaises(t) ==
  /\ getPc[t] = "interrupted" /\ GetReturns(t)
  /\ UNCHANGED <<items, puts, lockFree, locked>>

GetterStep(t) == GotLock(t) \/ GoesOn(t) \/ RaisesEmpty(t)

SimpleNext ==
  \/ SimplePut
  \/ \E t \in Getter :
       \/ \E p \in {"zero", "some", "negative"} : Get(t, p)
       \/ GetterStep(t) \/ TimeIsUp(t) \/ Interrupted(t) \/ HandlerRaises(t)

(* Threads that can go on do. *)
SimpleFair == WF_simpleVars(\E t \in Getter : GetterStep(t))

SimpleSpec == SimpleInit /\ [][SimpleNext]_simpleVars
-----------------------------------------------------------------------------
(* The lock tells of the items: if there are any while a get waits for the *)
(* lock, then the lock is free, or a get that has it is on its way to take *)
(* an item and pass the lock on (put, get).                                *)
ItemsAreAnnounced ==
  items > 0 /\ (\E t \in Getter : getPc[t] = "blocked") =>
    \/ lockFree > 0
    \/ \E t \in Getter : getPc[t] = "woken"

(* A get that waits is served, or others take the items: it never waits    *)
(* with items there for good.                                              *)
ItemsAreTaken ==
  \A t \in Getter : (items > 0 /\ getPc[t] = "blocked") ~> (items = 0 \/ getPc[t] # "blocked")

(* "If 'timeout' is a non-negative number, it blocks at most 'timeout'     *)
(* seconds": a get with a timeout does not wait without one (get, where it *)
(* adjusts the timeout for the next iteration).                            *)
TimedGetIsTimed ==
  \A t \in Getter : timed[t] /\ getPc[t] = "blocked" => patience[t] = "some"

(* What is true of a SimpleQueue at any time.                              *)
SimpleInv == SimpleTypeOK /\ ItemsAreAnnounced
=============================================================================
