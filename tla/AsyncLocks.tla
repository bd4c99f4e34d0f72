----------------------------- MODULE AsyncLocks -----------------------------
(***************************************************************************)
(* asyncio.Lock and asyncio.Condition over it (Lib/asyncio/locks.py).  A   *)
(* task may be cancelled while it waits, and also after it was woken but   *)
(* before it runs: then the wake-up has to go to the next.                 *)
(***************************************************************************)
EXTENDS AsyncTask

CONSTANTS MaxNotify   \* the largest n of notify(n)

ASSUME AsyncLocksAssumption == MaxNotify \in Nat

VARIABLES
  asyncLocked,        \* _locked
  waiters,       \* _waiters of the lock
  condWaiters,   \* _waiters of the condition
  lockPc         \* where each task is

lockVars == <<taskVars, asyncLocked, waiters, condWaiters, lockPc>>

LockTypeOK ==
  /\ TaskTypeOK /\ ScheduledOnce
  /\ asyncLocked \in BOOLEAN
  /\ waiters \in Seq(Task) /\ condWaiters \in Seq(Task)
  /\ lockPc \in [Task -> {"idle", "acquire", "held", "wait", "reacquire"}]

LockInit ==
  /\ TaskInit
  /\ asyncLocked = FALSE /\ waiters = <<>> /\ condWaiters = <<>>
  /\ lockPc = [t \in Task |-> "idle"]

LockGoes(t, l) == lockPc' = [lockPc EXCEPT ![t] = l]
-----------------------------------------------------------------------------
(* Variants named "faulty" are not part of the model: each stands for a    *)
(* mistake in the code that the properties are tried on.                   *)
(* Faulty: the last waiter is woken.                                       *)
faultyWakeUpFirst(ws) == IF ws = <<>> THEN NoWake ELSE HeadIfPending(<<Last(ws)>>)

(* _wake_up_first, with the waiters ws.                                    *)
WakeUpFirst(ws) == HeadIfPending(ws)

(* Faulty: a newcomer does not look at the waiters.                        *)
faultyIsFree(ws) == ~asyncLocked

(* The test of acquire: nobody has the lock or, not being cancelled, waits *)
(* for it.                                                                 *)
IsFree(ws) == ~asyncLocked /\ AllCancelled(ws)

(* What acquire does when it is called, with the waiters ws there and the  *)
(* wake-ups sent so far: takes the lock or waits behind the others.        *)
AcquireOrWait(t, ws, woken, label) ==
  IF IsFree(ws)
  THEN /\ asyncLocked' = TRUE /\ waiters' = ws
       /\ LockGoes(t, "held") /\ Runs(t, woken, FALSE)
  ELSE /\ waiters' = Append(ws, t) /\ UNCHANGED asyncLocked
       /\ LockGoes(t, label) /\ Runs(t, woken, TRUE)

Acquire(t) ==
  /\ lockPc[t] = "idle"
  /\ AcquireOrWait(t, waiters, NoWake, "acquire")
  /\ UNCHANGED condWaiters

(* Faulty: a cancelled waiter does not wake the next.                      *)
faultyAcquireResumes(t) ==
  LET others == Others(waiters, t)
  IN /\ lockPc[t] = "acquire" /\ Resumes(t)
     /\ waiters' = others
     /\ IF Throws(t)
        THEN LockGoes(t, "idle") /\ UNCHANGED asyncLocked /\ Runs(t, NoWake, FALSE)
        ELSE asyncLocked' = TRUE /\ LockGoes(t, "held") /\ Runs(t, NoWake, FALSE)
     /\ UNCHANGED condWaiters

(* The waiting acquire goes on: it has the lock, or is cancelled and hands *)
(* the wake-up on if it had one.                                           *)
AcquireResumes(t) ==
  LET others == Others(waiters, t)
  IN /\ lockPc[t] = "acquire" /\ Resumes(t)
     /\ waiters' = others
     /\ IF Throws(t)
        THEN /\ LockGoes(t, "idle") /\ UNCHANGED asyncLocked
             /\ Runs(t, IF asyncLocked THEN NoWake ELSE WakeUpFirst(others), FALSE)
        ELSE asyncLocked' = TRUE /\ LockGoes(t, "held") /\ Runs(t, NoWake, FALSE)
     /\ UNCHANGED condWaiters

Release(t) ==
  /\ lockPc[t] = "held" /\ asyncLocked
  /\ asyncLocked' = FALSE /\ LockGoes(t, "idle")
  /\ Runs(t, WakeUpFirst(waiters), FALSE)
  /\ UNCHANGED <<waiters, condWaiters>>
-----------------------------------------------------------------------------
(* Condition.wait: the lock is released, and taken again after the wake-up *)
(* whatever happens.                                                       *)
ConditionWait(t) ==
  /\ lockPc[t] = "held" /\ asyncLocked
  /\ asyncLocked' = FALSE /\ condWaiters' = Append(condWaiters, t)
  /\ LockGoes(t, "wait") /\ Runs(t, WakeUpFirst(waiters), TRUE)
  /\ UNCHANGED waiters

WaitResumes(t) ==
  /\ lockPc[t] = "wait" /\ Resumes(t)
  /\ condWaiters' = Others(condWaiters, t)
  /\ AcquireOrWait(t, waiters, NoWake, "reacquire")

(* Faulty: a second cancellation ends the wait.                            *)
faultyReacquireResumes(t) ==
  LET others == Others(waiters, t)
  IN /\ lockPc[t] = "reacquire" /\ Resumes(t)
     /\ waiters' = others
     /\ IF Throws(t)
        THEN /\ LockGoes(t, "idle") /\ UNCHANGED asyncLocked
             /\ Runs(t, IF asyncLocked THEN NoWake ELSE WakeUpFirst(others), FALSE)
        ELSE asyncLocked' = TRUE /\ LockGoes(t, "held") /\ Runs(t, NoWake, FALSE)
     /\ UNCHANGED condWaiters

(* A cancellation of the acquire at the end of wait: it is called anew, at *)
(* the end of the waiters.                                                 *)
ReacquireResumes(t) ==
  LET others == Others(waiters, t)
  IN /\ lockPc[t] = "reacquire" /\ Resumes(t)
     /\ IF Throws(t)
        THEN AcquireOrWait(t, others, IF asyncLocked THEN NoWake ELSE WakeUpFirst(others),
                           "reacquire")
        ELSE /\ asyncLocked' = TRUE /\ waiters' = others
             /\ LockGoes(t, "held") /\ Runs(t, NoWake, FALSE)
     /\ UNCHANGED condWaiters

(* notify(n), by the task that has the lock. *)
ConditionNotify(t, n) ==
  LET live == Pending(condWaiters)
  IN /\ lockPc[t] = "held" /\ asyncLocked
     /\ Runs(t, SubSeq(live, 1, IF n < Len(live) THEN n ELSE Len(live)), FALSE)
     /\ UNCHANGED <<asyncLocked, waiters, condWaiters, lockPc>>

LockCancel(t) ==
  /\ CancelTask(t)
  /\ UNCHANGED <<asyncLocked, waiters, condWaiters, lockPc>>

LockResumes(t) == AcquireResumes(t) \/ WaitResumes(t) \/ ReacquireResumes(t)

LockNext ==
  \E t \in Task :
    \/ Acquire(t) \/ Release(t) \/ ConditionWait(t) \/ LockResumes(t) \/ LockCancel(t)
    \/ \E n \in 1 .. MaxNotify : ConditionNotify(t, n)

LockSpec == LockInit /\ [][LockNext]_lockVars

(* The loop runs what is ready, and whoever has the lock lets go of it.    *)
LockFair ==
  /\ WF_lockVars(\E t \in Task : LockResumes(t))
  /\ WF_lockVars(\E t \in Task : Release(t) \/ ConditionWait(t))
-----------------------------------------------------------------------------
Holders == {t \in Task : lockPc[t] = "held"}

(* One task at a time has the lock, and _locked says whether one has:      *)
(* neither a newcomer nor a second woken task gets it besides, and release *)
(* never finds it unlocked (acquire, release).                             *)
LockExclusion ==
  /\ Cardinality(Holders) <= 1
  /\ asyncLocked <=> Holders # {}

(* A free lock has no sleeping first waiter: that one is woken or          *)
(* cancelled, and will take the lock or wake the next (_wake_up_first).    *)
LockWakeUp == ~asyncLocked /\ waiters # <<>> => fut[Head(waiters)] # "pending"

(* The lock goes to the waiters in order: whoever gets it leaves nobody    *)
(* behind in the queue that waited longer and is not cancelled, and no     *)
(* newcomer is served before those that wait.                              *)
LockInOrder ==
  [][\A t \in Task : lockPc[t] # "held" /\ lockPc'[t] = "held" =>
       \A i \in DOMAIN waiters :
         (\E j \in DOMAIN waiters : waiters[j] = t /\ j > i) \/ t \notin ToSet(waiters)
           => fut[waiters[i]] = "cancelled"]_lockVars

(* A task in Condition.wait never gives up the lock: it leaves the call    *)
(* with the lock, however often it is cancelled.                           *)
WaitEndsLocked ==
  [][\A t \in Task : lockPc[t] \in {"wait", "reacquire"} =>
       lockPc'[t] \in {"wait", "reacquire"} \/ (lockPc'[t] = "held" /\ asyncLocked')]_lockVars

(* Every acquire ends. *)
AcquireEnds == \A t \in Task : lockPc[t] = "acquire" ~> lockPc[t] # "acquire"

(* What is true of a lock of asyncio at any time.                          *)
LockInv == LockTypeOK /\ LockExclusion /\ LockWakeUp
=============================================================================
