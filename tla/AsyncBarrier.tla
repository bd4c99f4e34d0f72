---------------------------- MODULE AsyncBarrier ----------------------------
(***************************************************************************)
(* asyncio.Barrier (Lib/asyncio/locks.py).  Its methods never await with   *)
(* the lock of its condition held, so that the lock is free whenever a     *)
(* task asks for it: each step here is one from a wait of the condition to *)
(* the next, or to the end of the method.                                  *)
(***************************************************************************)
EXTENDS AsyncTask

CONSTANTS parties

ASSUME BarrierAssumption == parties \in Nat \ {0}

VARIABLES
  barrier,       \* _state
  count,         \* _count
  barWaiters,    \* _waiters of the condition
  barPc,         \* in _block, in _wait, or in neither
  through        \* the tasks in _wait that parties tasks were there for

barVars == <<taskVars, barrier, count, barWaiters, barPc, through>>

BarTypeOK ==
  /\ TaskTypeOK /\ ScheduledOnce
  /\ barrier \in {"FILLING", "DRAINING", "RESETTING", "BROKEN"}
  /\ count \in 0 .. parties
  /\ barWaiters \in Seq(Task)
  /\ barPc \in [Task -> {"idle", "block", "wait"}]
  /\ through \subseteq Task

BarInit ==
  /\ TaskInit
  /\ barrier = "FILLING" /\ count = 0 /\ barWaiters = <<>>
  /\ barPc = [t \in Task |-> "idle"] /\ through = {}

BarGoes(t, l) == barPc' = [barPc EXCEPT ![t] = l]
Waiting == {t \in Task : barPc[t] = "wait"}
-----------------------------------------------------------------------------
(* The rest of a step of t, with the waiters ws: it waits, or it is        *)
(* through, with the state b, and notifies all if "all" says so.           *)
WaitsIn(t, l, ws) ==
  /\ barWaiters' = Append(ws, t)
  /\ BarGoes(t, l) /\ Runs(t, NoWake, TRUE)
  /\ UNCHANGED barrier

Finishes(t, b, ws, all) ==
  /\ barrier' = b /\ barWaiters' = ws
  /\ BarGoes(t, "idle") /\ Runs(t, IF all THEN Pending(ws) ELSE NoWake, FALSE)

(* Variants named "faulty" are not part of the model: each stands for a    *)
(* mistake in the code that the properties are tried on.                   *)
(* Faulty: the last one to leave does not change the state.                *)
faultyExits(t, n, b, ws, all) ==
  count' = n /\ Finishes(t, b, ws, all \/ n = 0)

(* The finally clause of wait, with _exit, when the count is n + 1 and the *)
(* state b: the last to leave lets those in that wait in _block.           *)
Exits(t, n, b, ws, all) ==
  /\ count' = n
  /\ Finishes(t, IF n = 0 /\ b \in {"RESETTING", "DRAINING"} THEN "FILLING" ELSE b,
              ws, all \/ n = 0)

(* Faulty: a draining barrier takes newcomers.                             *)
faultyBlocked == barrier = "RESETTING"

(* The predicate of _block. *)
Blocked == barrier \in {"DRAINING", "RESETTING"}

(* _block, and what follows it: the last of the parties releases the       *)
(* others and leaves, the others wait.                                     *)
Enters(t, ws) ==
  \/ /\ Blocked
     /\ WaitsIn(t, "block", ws) /\ UNCHANGED <<count, through>>
  \/ /\ barrier = "BROKEN"
     /\ Finishes(t, barrier, ws, FALSE) /\ UNCHANGED <<count, through>>
  \/ /\ ~Blocked /\ barrier # "BROKEN" /\ count + 1 # parties
     /\ count' = count + 1 /\ WaitsIn(t, "wait", ws) /\ UNCHANGED through
  \/ /\ ~Blocked /\ barrier # "BROKEN" /\ count + 1 = parties
     /\ Exits(t, count, "DRAINING", ws, TRUE)
     /\ through' = Waiting

BarrierWait(t) == barPc[t] = "idle" /\ Enters(t, barWaiters)

(* The wait in _block goes on, or raises. *)
BlockResumes(t) ==
  LET others == Others(barWaiters, t)
  IN /\ barPc[t] = "block" /\ Resumes(t)
     /\ IF Throws(t)
        THEN Finishes(t, barrier, others, FALSE) /\ UNCHANGED <<count, through>>
        ELSE Enters(t, others)

(* The one in _wait: it ends unless the barrier is still filling.          *)
WaitEnds(t) ==
  LET others == Others(barWaiters, t)
  IN /\ barPc[t] = "wait" /\ Resumes(t)
     /\ IF ~Throws(t) /\ barrier = "FILLING"
        THEN WaitsIn(t, "wait", others) /\ UNCHANGED <<count, through>>
        ELSE Exits(t, count - 1, barrier, others, FALSE) /\ through' = through \ {t}

Reset(t) ==
  /\ barPc[t] = "idle"
  /\ Finishes(t, IF count > 0 THEN "RESETTING" ELSE "FILLING", barWaiters, TRUE)
  /\ UNCHANGED <<count, through>>

Abort(t) ==
  /\ barPc[t] = "idle"
  /\ Finishes(t, "BROKEN", barWaiters, TRUE)
  /\ UNCHANGED <<count, through>>

BarCancel(t) ==
  /\ CancelTask(t)
  /\ UNCHANGED <<barrier, count, barWaiters, barPc, through>>

BarNext ==
  \E t \in Task :
    \/ BarrierWait(t) \/ BlockResumes(t) \/ WaitEnds(t)
    \/ Reset(t) \/ Abort(t) \/ BarCancel(t)

BarSpec == BarInit /\ [][BarNext]_barVars
-----------------------------------------------------------------------------
(* The count is that of the tasks in _wait, however they leave it: by the  *)
(* release, a cancellation, a reset or an abort.  A filling barrier lacks  *)
(* some of the parties, and one that drains or resets is not empty, or it  *)
(* would never fill again (wait, _exit).                                   *)
CountRight ==
  /\ count = Cardinality(Waiting)
  /\ barrier = "FILLING" => count < parties
  /\ barrier \in {"DRAINING", "RESETTING"} => count > 0

(* Whoever sleeps has a reason to: the barrier is still filling, or for    *)
(* those in _block it still drains or resets (notify_all of _release,      *)
(* _exit, reset and abort).                                                *)
SleepersHaveReason ==
  \A i \in DOMAIN Pending(barWaiters) :
    LET t == Pending(barWaiters)[i]
    IN \/ barPc[t] = "wait" /\ barrier = "FILLING"
       \/ barPc[t] = "block" /\ barrier \in {"DRAINING", "RESETTING"}

(* wait returns only if all the parties were there: a task that leaves     *)
(* _wait without an exception was waiting when the last one came.          *)
AllPartiesCame ==
  \A t \in Waiting : barrier = "DRAINING" => t \in through

(* What is true of a barrier at any time.                                  *)
BarInv == BarTypeOK /\ CountRight /\ SleepersHaveReason
=============================================================================
