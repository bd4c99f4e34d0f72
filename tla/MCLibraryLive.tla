--------------------------- MODULE MCLibraryLive ---------------------------
(* What is waited for in the library comes: an executor, a SimpleQueue, a  *)
(* lock or a semaphore of asyncio, one of them in each behaviour.          *)
EXTENDS ThreadPool, SimpleQueue, AsyncLocks, AsyncSemaphore

CONSTANTS f1, f2, c1, c2, w1, w2, g1, g2, g3, k1, k2, k3

VARIABLE component

(* All four ways to wait for both futures, or for one.                     *)
SomeWaits == {{f1, f2}} \X Modes

(* An executor that is shut down or lost; and one whose futures clients    *)
(* wait for.                                                               *)
Ending  == INSTANCE ThreadPool WITH Asker <- {}, WaitCalls <- {}, Raises <- {TRUE}
Waited  == INSTANCE ThreadPool WITH Ends <- FALSE, Cancels <- {}

BoundedOne == INSTANCE AsyncSemaphore WITH Bounded <- TRUE

lockOnlyVars == <<asyncLocked, waiters, condWaiters, lockPc>>
semOnlyVars  == <<value, semWaiters, semPc, extra>>

LiveInit ==
  /\ PoolInit /\ SimpleInit /\ LockInit /\ SemInit
  /\ component \in {"ending pool", "waited pool", "simple queue", "lock", "semaphore",
                    "bounded semaphore"}

LiveNext ==
  /\ UNCHANGED component
  /\ \/ /\ \/ component = "ending pool" /\ Ending!PoolNext
           \/ component = "waited pool" /\ Waited!PoolNext
        /\ UNCHANGED <<simpleVars, taskVars, lockOnlyVars, semOnlyVars>>
     \/ /\ component = "simple queue" /\ SimpleNext
        /\ UNCHANGED <<poolVars, taskVars, lockOnlyVars, semOnlyVars>>
     \/ /\ component = "lock" /\ LockNext
        /\ UNCHANGED <<poolVars, simpleVars, semOnlyVars>>
     \/ /\ \/ component = "semaphore" /\ SemNext
           \/ component = "bounded semaphore" /\ BoundedOne!SemNext
        /\ UNCHANGED <<poolVars, simpleVars, lockOnlyVars>>

LiveSpec ==
  /\ LiveInit
  /\ [][LiveNext]_<<poolVars, simpleVars, lockVars, semVars, component>>
  /\ PoolFair /\ SimpleFair /\ LockFair /\ SemFair

(* Whoever waits for a lock or a semaphore of asyncio gets it.             *)
AcquiresEnd == AcquireEnds /\ SemAcquireEnds
=============================================================================
