--------------------------- MODULE AsyncSemaphore ---------------------------
(***************************************************************************)
(* asyncio.Semaphore and BoundedSemaphore (Lib/asyncio/locks.py).  Who     *)
(* releases takes the value for the waiter it wakes; a waiter that is      *)
(* cancelled after that gives it back and wakes the next.                  *)
(***************************************************************************)
EXTENDS AsyncTask

CONSTANTS Initial,     \* the value the semaphore was made with
          Bounded,     \* whether it is a BoundedSemaphore
          MaxExtra     \* bound on the releases by tasks that did not acquire

ASSUME SemaphoreAssumption ==
  Initial \in Nat /\ Bounded \in BOOLEAN /\ MaxExtra \in Nat

VARIABLES
  value,         \* _value
  semWaiters,    \* _waiters
  semPc,         \* where each task is
  extra          \* the releases by tasks that did not acquire, so far

semVars == <<taskVars, value, semWaiters, semPc, extra>>

SemTypeOK ==
  /\ TaskTypeOK /\ ScheduledOnce
  /\ value \in Nat /\ extra \in 0 .. MaxExtra
  /\ semWaiters \in Seq(Task)
  /\ semPc \in [Task -> {"idle", "acquire", "has"}]

SemInit ==
  /\ TaskInit
  /\ value = Initial /\ semWaiters = <<>> /\ extra = 0
  /\ semPc = [t \in Task |-> "idle"]

SemGoes(t, l) == semPc' = [semPc EXCEPT ![t] = l]
-----------------------------------------------------------------------------
(* locked(): a waiter that is not cancelled goes first, woken or not. *)
SemLocked == value = 0 \/ ~AllCancelled(semWaiters)

(* _wake_up_next from the value v, with the waiters ws, in a step of t.    *)
WakeUpNext(t, v, ws) ==
  /\ value' = v - Len(FirstPending(ws))
  /\ semWaiters' = ws
  /\ Runs(t, FirstPending(ws), FALSE)

SemAcquire(t) ==
  /\ semPc[t] = "idle"
  /\ \/ /\ ~SemLocked
        /\ value' = value - 1 /\ SemGoes(t, "has")
        /\ UNCHANGED <<taskVars, semWaiters>>
     \/ /\ SemLocked
        /\ semWaiters' = Append(semWaiters, t) /\ SemGoes(t, "acquire")
        /\ Runs(t, NoWake, TRUE)
        /\ UNCHANGED value
  /\ UNCHANGED extra

(* Variants named "faulty" are not part of the model: each stands for a    *)
(* mistake in the code that the properties are tried on.                   *)
(* Faulty: the permit is not given back.                                   *)
faultySemLeaves(t, others) ==
  semWaiters' = others /\ Runs(t, NoWake, FALSE) /\ UNCHANGED value

(* The waiting acquire goes on, with the others that wait.  Cancelled: if  *)
(* its future has a result, it gives the value back.                       *)
SemCancelled(t, others) ==
  IF fut[t] # "cancelled" THEN WakeUpNext(t, value + 1, others)
  ELSE semWaiters' = others /\ Runs(t, NoWake, FALSE) /\ UNCHANGED value

(* Woken: if there is some value left, it wakes the next.                  *)
SemGot(t, others) ==
  IF value > 0 THEN WakeUpNext(t, value, others)
  ELSE semWaiters' = others /\ Runs(t, NoWake, FALSE) /\ UNCHANGED value

SemAcquireResumes(t) ==
  /\ semPc[t] = "acquire" /\ Resumes(t)
  /\ IF Throws(t)
     THEN SemGoes(t, "idle") /\ SemCancelled(t, Others(semWaiters, t))
     ELSE SemGoes(t, "has") /\ SemGot(t, Others(semWaiters, t))
  /\ UNCHANGED extra

(* release, by a task that acquired or, which Semaphore allows, by another.*)
SemRelease(t) ==
  /\ Bounded => value < Initial
  /\ \/ semPc[t] = "has" /\ SemGoes(t, "idle") /\ UNCHANGED extra
     \/ semPc[t] = "idle" /\ extra < MaxExtra /\ extra' = extra + 1 /\ UNCHANGED semPc
  /\ WakeUpNext(t, value + 1, semWaiters)

SemCancel(t) ==
  /\ CancelTask(t)
  /\ UNCHANGED <<value, semWaiters, semPc, extra>>

SemNext ==
  \E t \in Task : SemAcquire(t) \/ SemAcquireResumes(t) \/ SemRelease(t) \/ SemCancel(t)

SemSpec == SemInit /\ [][SemNext]_semVars

(* The loop runs what is ready, and a task releases what it acquired.      *)
SemFair ==
  /\ WF_semVars(\E t \in Task : SemAcquireResumes(t))
  /\ WF_semVars(\E t \in Task : semPc[t] = "has" /\ SemRelease(t))
-----------------------------------------------------------------------------
SemWoken   == {t \in Task : semPc[t] = "acquire" /\ fut[t] = "result"}
SemHolding == {t \in Task : semPc[t] = "has"}

(* No permit is lost and none is made up: what there is, is in the value,  *)
(* on its way to a woken waiter, or with a task that acquired (acquire,    *)
(* release, _wake_up_next).  So a BoundedSemaphore raises ValueError only  *)
(* at a release too many.                                                  *)
PermitsConserved ==
  value + Cardinality(SemWoken) + Cardinality(SemHolding) = Initial + extra

(* No permit lies idle: while a waiter sleeps and there is some value, a   *)
(* woken waiter is still to come, which wakes the next (acquire).          *)
PermitsUsed == value > 0 /\ Pending(semWaiters) # <<>> => SemWoken # {}

(* Every acquire ends, if there is anything to acquire. *)
SemAcquireEnds ==
  \A t \in Task : semPc[t] = "acquire" /\ Initial > 0 ~> semPc[t] # "acquire"

(* What is true of a semaphore of asyncio at any time.                     *)
SemInv == SemTypeOK /\ PermitsConserved /\ PermitsUsed
=============================================================================
