------------------------------ MODULE GILProof ------------------------------
(***************************************************************************)
(* Proofs about GIL.tla, for any number of threads and interpreters.       *)
(***************************************************************************)
EXTENDS GIL, TLAPS

(* Between MUTEX_LOCK(gil->mutex) and MUTEX_UNLOCK(gil->mutex). *)
InMutex(t) ==
  \/ pc[t] \in {"request", "setreq", "setbrk", "ready", "taken", "settle", "unlock"}
  \/ Computing(t, "unlock")

(* Between MUTEX_LOCK(gil->switch_mutex) and COND_WAIT in drop_gil. *)
InSwitch(t) == At(t, "sleep") \/ Computing(t, "sleep")

Mutexes == \A t \in Thread : /\ InMutex(t) <=> mutex = t
                             /\ InSwitch(t) <=> switch_mutex = t

(* What a thread read of gil->locked under gil->mutex still holds. *)
LockedRead == \A t \in Thread :
  /\ At(t, "ready") => ~locked
  /\ pc[t] \in {"request", "setreq", "setbrk"} => locked

Safe == Mutexes /\ LockedRead /\ GilExclusion /\ ForcedSwitch
IInv == TypeOK /\ Safe /\ FinalizerRunsAlone /\ NoStaleRequest /\ SleeperHasTaker
-----------------------------------------------------------------------------
(* The labels drop_gil leads to are labels. *)
LEMMA AfterDropLabel == ASSUME NEW t, why[t] \in Reason PROVE AfterDrop(t) \in Label
BY DEF AfterDrop, Reason, Label

LEMMA TypeInit == Init => TypeOK
<1> SUFFICES ASSUME Init PROVE TypeOK
  OBVIOUS
<1>1. pc \in [Thread -> Label]
  BY DEF Init, Label
<1>2. why \in [Thread -> Reason] /\ ret \in [Thread -> Return]
  BY DEF Init, Reason, Return
<1> QED
  BY <1>1, <1>2, GILAssumption DEF Init, TypeOK

LEMMA TypeStep == TypeOK /\ [Next]_vars => TypeOK'
<1> SUFFICES ASSUME TypeOK, [Next]_vars PROVE TypeOK'
  OBVIOUS
<1> USE GILAssumption DEF TypeOK, locks, flags, waits, At, Goto
<1>1. ASSUME NEW t \in Thread, ResetRequest(t) PROVE TypeOK'
  BY <1>1 DEF ResetRequest, Label
<1>2. ASSUME NEW t \in Thread, LoadFlags(t) PROVE TypeOK'
  BY <1>2 DEF LoadFlags, Label
<1>3. ASSUME NEW t \in Thread, StoreBreaker(t) PROVE TypeOK'
  BY <1>3 DEF StoreBreaker, Return, Label
<1>4. ASSUME NEW t \in Thread, TakeGil(t) PROVE TypeOK'
  BY <1>4 DEF TakeGil, Label
<1>5. ASSUME NEW t \in Thread, TakeLock(t) PROVE TypeOK'
  BY <1>5, ZenonT(60) DEF TakeLock, WaitWhileLocked, Wait, Label
<1>6. ASSUME NEW t \in Thread, WaitTimeout(t) PROVE TypeOK'
  BY <1>6 DEF WaitTimeout, Label
<1>7. ASSUME NEW t \in Thread, Reacquire(t) PROVE TypeOK'
  BY <1>7, ZenonT(60) DEF Reacquire, WaitWhileLocked, Wait, Label
<1>8. ASSUME NEW t \in Thread, RequestDrop(t) PROVE TypeOK'
  BY <1>8 DEF RequestDrop, Label, Return
<1>9. ASSUME NEW t \in Thread, SetRequest(t) PROVE TypeOK'
  BY <1>9 DEF SetRequest, Label
<1>10. ASSUME NEW t \in Thread, SetBreaker(t) PROVE TypeOK'
  BY <1>10 DEF SetBreaker, Wait, Label
<1>11. ASSUME NEW t \in Thread, TakeReady(t) PROVE TypeOK'
  BY <1>11 DEF TakeReady, SwitchFree, Signal, Label
<1>12. ASSUME NEW t \in Thread, Taken(t) PROVE TypeOK'
  BY <1>12 DEF Taken, Label, Reason
<1>13. ASSUME NEW t \in Thread, Settle(t) PROVE TypeOK'
  BY <1>13 DEF Settle, Label, Return
<1>14. ASSUME NEW t \in Thread, TakeReturn(t) PROVE TypeOK'
  BY <1>14 DEF TakeReturn, Compute, Label, Return, Reason
<1>15. ASSUME NEW t \in Thread, DropGil(t) PROVE TypeOK'
  BY <1>15, ZenonT(60) DEF DropGil, LastHolder, Signal, Label
<1>16. ASSUME NEW t \in Thread, DropCheck(t) PROVE TypeOK'
  BY AfterDropLabel, <1>16 DEF DropCheck, Label
<1>17. ASSUME NEW t \in Thread, DropSwitch(t) PROVE TypeOK'
  BY AfterDropLabel, <1>17 DEF DropSwitch, SwitchFree, NotSwitched, Label, Return
<1>18. ASSUME NEW t \in Thread, SwitchWait(t) PROVE TypeOK'
  BY <1>18 DEF SwitchWait, Label
<1>19. ASSUME NEW t \in Thread, SwitchWoken(t) PROVE TypeOK'
  BY AfterDropLabel, <1>19 DEF SwitchWoken, SwitchFree, Label
<1>20. ASSUME NEW t \in Thread, CheckBreaker(t) PROVE TypeOK'
  BY <1>20 DEF CheckBreaker, Label
<1>21. ASSUME NEW t \in Thread, HandlePending(t) PROVE TypeOK'
  BY <1>21 DEF HandlePending, Compute, Label, Return, Reason
<1>22. ASSUME NEW t \in Thread, SaveThread(t) PROVE TypeOK'
  BY <1>22 DEF SaveThread, Label
<1>23. ASSUME NEW t \in Thread, RestoreThread(t) PROVE TypeOK'
  BY <1>23 DEF RestoreThread, Label
<1>24. ASSUME NEW t \in Thread, DeleteCurrent(t) PROVE TypeOK'
  BY <1>24 DEF DeleteCurrent, Label, Reason
<1>25. CASE FinalizeEx
  BY <1>25 DEF FinalizeEx
<1>26. CASE UNCHANGED vars
  BY <1>26 DEF vars
<1> QED
  BY <1>1, <1>2, <1>3, <1>4, <1>5, <1>6, <1>7, <1>8, <1>9, <1>10, <1>11, <1>12, <1>13,
      <1>14, <1>15, <1>16, <1>17, <1>18, <1>19, <1>20, <1>21, <1>22, <1>23, <1>24,
      <1>25, <1>26 DEF Next, Step

(* Every variable keeps its type. *)
THEOREM TypeCorrect == Spec => []TypeOK
<1> QED BY TypeInit, TypeStep, PTL DEF Spec
-----------------------------------------------------------------------------
(* Mutual exclusion and forced switching are inductive with the ownership  *)
(* of the two mutexes.                                                     *)
LEMMA SafeInit == Init => Safe
BY GILAssumption DEF Init, Safe, Mutexes, InMutex, InSwitch, Computing, LockedRead,
    GilExclusion,
   HoldsGil, ForcedSwitch, Sleeping, At

LEMMA SafeStep == TypeOK /\ Safe /\ [Next]_vars => Safe'
<1> SUFFICES ASSUME TypeOK, Safe, [Next]_vars PROVE Safe'
  OBVIOUS
<1> USE GILAssumption DEF TypeOK, Safe, Mutexes, InMutex, InSwitch, Computing, LockedRead,
        GilExclusion, HoldsGil, ForcedSwitch, Sleeping, locks, flags, waits, At, Goto
<1>1. ASSUME NEW t \in Thread, ResetRequest(t) PROVE Safe'
  BY <1>1 DEF ResetRequest
<1>2. ASSUME NEW t \in Thread, LoadFlags(t) PROVE Safe'
  BY <1>2 DEF LoadFlags
<1>3. ASSUME NEW t \in Thread, StoreBreaker(t) PROVE Safe'
  <2>1. Mutexes'
    BY <1>3 DEF StoreBreaker, Return
  <2>2. LockedRead'
    BY <1>3 DEF StoreBreaker, Return
  <2>3. GilExclusion'
    BY <1>3 DEF StoreBreaker, Return
  <2>4. ForcedSwitch'
    BY <1>3 DEF StoreBreaker, Return
  <2> QED
    BY <2>1, <2>2, <2>3, <2>4
<1>4. ASSUME NEW t \in Thread, TakeGil(t) PROVE Safe'
  BY <1>4 DEF TakeGil
<1>5. ASSUME NEW t \in Thread, TakeLock(t) PROVE Safe'
  <2>1. Mutexes'
    BY <1>5 DEF TakeLock, WaitWhileLocked, Wait
  <2>2. LockedRead'
    BY <1>5 DEF TakeLock, WaitWhileLocked, Wait
  <2>3. GilExclusion'
    BY <1>5 DEF TakeLock, WaitWhileLocked, Wait
  <2>4. ForcedSwitch'
    BY <1>5 DEF TakeLock, WaitWhileLocked, Wait
  <2> QED
    BY <2>1, <2>2, <2>3, <2>4
<1>6. ASSUME NEW t \in Thread, WaitTimeout(t) PROVE Safe'
  BY <1>6 DEF WaitTimeout
<1>7. ASSUME NEW t \in Thread, Reacquire(t) PROVE Safe'
  <2>1. Mutexes'
    BY <1>7 DEF Reacquire, WaitWhileLocked, Wait
  <2>2. LockedRead'
    BY <1>7 DEF Reacquire, WaitWhileLocked, Wait
  <2>3. GilExclusion'
    BY <1>7 DEF Reacquire, WaitWhileLocked, Wait
  <2>4. ForcedSwitch'
    BY <1>7 DEF Reacquire, WaitWhileLocked, Wait
  <2> QED
    BY <2>1, <2>2, <2>3, <2>4
<1>8. ASSUME NEW t \in Thread, RequestDrop(t) PROVE Safe'
  <2>1. Mutexes'
    BY <1>8 DEF RequestDrop
  <2>2. LockedRead'
    BY <1>8 DEF RequestDrop
  <2>3. GilExclusion'
    BY <1>8 DEF RequestDrop
  <2>4. ForcedSwitch'
    BY <1>8 DEF RequestDrop
  <2> QED
    BY <2>1, <2>2, <2>3, <2>4
<1>9. ASSUME NEW t \in Thread, SetRequest(t) PROVE Safe'
  BY <1>9 DEF SetRequest
<1>10. ASSUME NEW t \in Thread, SetBreaker(t) PROVE Safe'
  BY <1>10 DEF SetBreaker, Wait
<1>11. ASSUME NEW t \in Thread, TakeReady(t) PROVE Safe'
  <2>1. Mutexes'
    BY <1>11 DEF TakeReady, SwitchFree, Signal
  <2>2. LockedRead'
    BY <1>11 DEF TakeReady, SwitchFree, Signal
  <2>3. GilExclusion'
    BY <1>11 DEF TakeReady, SwitchFree, Signal
  <2>4. ForcedSwitch'
    BY <1>11 DEF TakeReady, SwitchFree, Signal
  <2> QED
    BY <2>1, <2>2, <2>3, <2>4
<1>12. ASSUME NEW t \in Thread, Taken(t) PROVE Safe'
  <2>1. Mutexes'
    BY <1>12 DEF Taken
  <2>2. LockedRead'
    BY <1>12 DEF Taken
  <2>3. GilExclusion'
    BY <1>12 DEF Taken
  <2>4. ForcedSwitch'
    BY <1>12 DEF Taken
  <2> QED
    BY <2>1, <2>2, <2>3, <2>4
<1>13. ASSUME NEW t \in Thread, Settle(t) PROVE Safe'
  BY <1>13 DEF Settle
<1>14. ASSUME NEW t \in Thread, TakeReturn(t) PROVE Safe'
  <2>1. Mutexes'
    BY <1>14 DEF TakeReturn, Compute
  <2>2. LockedRead'
    BY <1>14 DEF TakeReturn, Compute
  <2>3. GilExclusion'
    BY <1>14 DEF TakeReturn, Compute
  <2>4. ForcedSwitch'
    BY <1>14 DEF TakeReturn, Compute
  <2> QED
    BY <2>1, <2>2, <2>3, <2>4
<1>15. ASSUME NEW t \in Thread, DropGil(t) PROVE Safe'
  <2>1. Mutexes'
    BY <1>15 DEF DropGil, LastHolder, Signal
  <2>2. LockedRead'
    BY <1>15 DEF DropGil, LastHolder, Signal
  <2>3. GilExclusion'
    BY <1>15 DEF DropGil, LastHolder, Signal
  <2>4. ForcedSwitch'
    BY <1>15 DEF DropGil, LastHolder, Signal
  <2> QED
    BY <2>1, <2>2, <2>3, <2>4
<1>16. ASSUME NEW t \in Thread, DropCheck(t) PROVE Safe'
  BY <1>16 DEF DropCheck, AfterDrop
<1>17. ASSUME NEW t \in Thread, DropSwitch(t) PROVE Safe'
  <2>1. Mutexes'
    BY <1>17 DEF DropSwitch, SwitchFree, NotSwitched, AfterDrop
  <2>2. LockedRead'
    BY <1>17 DEF DropSwitch, SwitchFree, NotSwitched, AfterDrop
  <2>3. GilExclusion'
    BY <1>17 DEF DropSwitch, SwitchFree, NotSwitched, AfterDrop
  <2>4. ForcedSwitch'
    BY <1>17 DEF DropSwitch, SwitchFree, NotSwitched, AfterDrop
  <2> QED
    BY <2>1, <2>2, <2>3, <2>4
<1>18. ASSUME NEW t \in Thread, SwitchWait(t) PROVE Safe'
  BY <1>18 DEF SwitchWait
<1>19. ASSUME NEW t \in Thread, SwitchWoken(t) PROVE Safe'
  BY <1>19 DEF SwitchWoken, SwitchFree, AfterDrop
<1>20. ASSUME NEW t \in Thread, CheckBreaker(t) PROVE Safe'
  BY <1>20 DEF CheckBreaker
<1>21. ASSUME NEW t \in Thread, HandlePending(t) PROVE Safe'
  BY <1>21 DEF HandlePending, Compute
<1>22. ASSUME NEW t \in Thread, SaveThread(t) PROVE Safe'
  BY <1>22 DEF SaveThread
<1>23. ASSUME NEW t \in Thread, RestoreThread(t) PROVE Safe'
  BY <1>23 DEF RestoreThread
<1>24. ASSUME NEW t \in Thread, DeleteCurrent(t) PROVE Safe'
  BY <1>24 DEF DeleteCurrent
<1>25. CASE FinalizeEx
  BY <1>25 DEF FinalizeEx
<1>26. CASE UNCHANGED vars
  BY <1>26 DEF vars
<1> QED
  BY <1>1, <1>2, <1>3, <1>4, <1>5, <1>6, <1>7, <1>8, <1>9, <1>10, <1>11, <1>12, <1>13,
      <1>14, <1>15, <1>16, <1>17, <1>18, <1>19, <1>20, <1>21, <1>22, <1>23, <1>24,
      <1>25, <1>26 DEF Next, Step

LEMMA AloneStep ==
  TypeOK /\ GilExclusion /\ FinalizerRunsAlone /\ [Next]_vars => FinalizerRunsAlone'
<1> SUFFICES ASSUME TypeOK, GilExclusion, FinalizerRunsAlone, [Next]_vars
      PROVE  FinalizerRunsAlone'
  OBVIOUS
<1> USE GILAssumption DEF TypeOK, FinalizerRunsAlone, RunsPython, Computing, locks,
    flags, waits, At, Goto
<1>1. ASSUME NEW t \in Thread, ResetRequest(t) PROVE FinalizerRunsAlone'
  BY <1>1 DEF ResetRequest
<1>2. ASSUME NEW t \in Thread, LoadFlags(t) PROVE FinalizerRunsAlone'
  BY <1>2 DEF LoadFlags
<1>3. ASSUME NEW t \in Thread, StoreBreaker(t) PROVE FinalizerRunsAlone'
  BY <1>3 DEF StoreBreaker, Return
<1>4. ASSUME NEW t \in Thread, TakeGil(t) PROVE FinalizerRunsAlone'
  BY <1>4 DEF TakeGil, MustExit
<1>5. ASSUME NEW t \in Thread, TakeLock(t) PROVE FinalizerRunsAlone'
  BY <1>5 DEF TakeLock, WaitWhileLocked, Wait
<1>6. ASSUME NEW t \in Thread, WaitTimeout(t) PROVE FinalizerRunsAlone'
  BY <1>6 DEF WaitTimeout
<1>7. ASSUME NEW t \in Thread, Reacquire(t) PROVE FinalizerRunsAlone'
  BY <1>7 DEF Reacquire, WaitWhileLocked, Wait
<1>8. ASSUME NEW t \in Thread, RequestDrop(t) PROVE FinalizerRunsAlone'
  BY <1>8 DEF RequestDrop, MustExit
<1>9. ASSUME NEW t \in Thread, SetRequest(t) PROVE FinalizerRunsAlone'
  BY <1>9 DEF SetRequest
<1>10. ASSUME NEW t \in Thread, SetBreaker(t) PROVE FinalizerRunsAlone'
  BY <1>10 DEF SetBreaker, Wait
<1>11. ASSUME NEW t \in Thread, TakeReady(t) PROVE FinalizerRunsAlone'
  BY <1>11 DEF TakeReady, SwitchFree, Signal
<1>12. ASSUME NEW t \in Thread, Taken(t) PROVE FinalizerRunsAlone'
  BY <1>12 DEF Taken, MustExit
<1>13. ASSUME NEW t \in Thread, Settle(t) PROVE FinalizerRunsAlone'
  BY <1>13 DEF Settle
<1>14. ASSUME NEW t \in Thread, TakeReturn(t) PROVE FinalizerRunsAlone'
  BY <1>14 DEF TakeReturn, Compute
<1>15. ASSUME NEW t \in Thread, DropGil(t) PROVE FinalizerRunsAlone'
  BY <1>15 DEF DropGil, LastHolder, Signal
<1>16. ASSUME NEW t \in Thread, DropCheck(t) PROVE FinalizerRunsAlone'
  BY <1>16 DEF DropCheck, AfterDrop
<1>17. ASSUME NEW t \in Thread, DropSwitch(t) PROVE FinalizerRunsAlone'
  BY <1>17 DEF DropSwitch, SwitchFree, NotSwitched, AfterDrop
<1>18. ASSUME NEW t \in Thread, SwitchWait(t) PROVE FinalizerRunsAlone'
  BY <1>18 DEF SwitchWait
<1>19. ASSUME NEW t \in Thread, SwitchWoken(t) PROVE FinalizerRunsAlone'
  BY <1>19 DEF SwitchWoken, SwitchFree, AfterDrop
<1>20. ASSUME NEW t \in Thread, CheckBreaker(t) PROVE FinalizerRunsAlone'
  BY <1>20 DEF CheckBreaker
<1>21. ASSUME NEW t \in Thread, HandlePending(t) PROVE FinalizerRunsAlone'
  BY <1>21 DEF HandlePending, Compute
<1>22. ASSUME NEW t \in Thread, SaveThread(t) PROVE FinalizerRunsAlone'
  BY <1>22 DEF SaveThread
<1>23. ASSUME NEW t \in Thread, RestoreThread(t) PROVE FinalizerRunsAlone'
  BY <1>23 DEF RestoreThread
<1>24. ASSUME NEW t \in Thread, DeleteCurrent(t) PROVE FinalizerRunsAlone'
  BY <1>24 DEF DeleteCurrent
<1>25. CASE FinalizeEx
  BY <1>25 DEF FinalizeEx, GilExclusion, HoldsGil
<1>26. CASE UNCHANGED vars
  BY <1>26 DEF vars
<1> QED
  BY <1>1, <1>2, <1>3, <1>4, <1>5, <1>6, <1>7, <1>8, <1>9, <1>10, <1>11, <1>12, <1>13,
      <1>14, <1>15, <1>16, <1>17, <1>18, <1>19, <1>20, <1>21, <1>22, <1>23, <1>24,
      <1>25, <1>26 DEF Next, Step

LEMMA RequestStep == TypeOK /\ NoStaleRequest /\ [Next]_vars => NoStaleRequest'
<1> SUFFICES ASSUME TypeOK, NoStaleRequest, [Next]_vars PROVE NoStaleRequest'
  OBVIOUS
<1> USE GILAssumption DEF TypeOK, NoStaleRequest, InTakeGil, locks, flags, waits, At, Goto
<1>1. ASSUME NEW t \in Thread, ResetRequest(t) PROVE NoStaleRequest'
  BY <1>1 DEF ResetRequest
<1>2. ASSUME NEW t \in Thread, LoadFlags(t) PROVE NoStaleRequest'
  BY <1>2 DEF LoadFlags
<1>3. ASSUME NEW t \in Thread, StoreBreaker(t) PROVE NoStaleRequest'
  BY <1>3 DEF StoreBreaker, Return
<1>4. ASSUME NEW t \in Thread, TakeGil(t) PROVE NoStaleRequest'
  BY <1>4 DEF TakeGil, MustExit
<1>5. ASSUME NEW t \in Thread, TakeLock(t) PROVE NoStaleRequest'
  BY <1>5 DEF TakeLock, WaitWhileLocked, Wait
<1>6. ASSUME NEW t \in Thread, WaitTimeout(t) PROVE NoStaleRequest'
  BY <1>6 DEF WaitTimeout
<1>7. ASSUME NEW t \in Thread, Reacquire(t) PROVE NoStaleRequest'
  BY <1>7 DEF Reacquire, WaitWhileLocked, Wait
<1>8. ASSUME NEW t \in Thread, RequestDrop(t) PROVE NoStaleRequest'
  BY <1>8 DEF RequestDrop, MustExit
<1>9. ASSUME NEW t \in Thread, SetRequest(t) PROVE NoStaleRequest'
  BY <1>9 DEF SetRequest
<1>10. ASSUME NEW t \in Thread, SetBreaker(t) PROVE NoStaleRequest'
  BY <1>10 DEF SetBreaker, Wait
<1>11. ASSUME NEW t \in Thread, TakeReady(t) PROVE NoStaleRequest'
  BY <1>11 DEF TakeReady, SwitchFree, Signal
<1>12. ASSUME NEW t \in Thread, Taken(t) PROVE NoStaleRequest'
  BY <1>12 DEF Taken, MustExit
<1>13. ASSUME NEW t \in Thread, Settle(t) PROVE NoStaleRequest'
  BY <1>13 DEF Settle
<1>14. ASSUME NEW t \in Thread, TakeReturn(t) PROVE NoStaleRequest'
  BY <1>14 DEF TakeReturn, Compute
<1>15. ASSUME NEW t \in Thread, DropGil(t) PROVE NoStaleRequest'
  BY <1>15 DEF DropGil, LastHolder, Signal
<1>16. ASSUME NEW t \in Thread, DropCheck(t) PROVE NoStaleRequest'
  BY <1>16 DEF DropCheck, AfterDrop
<1>17. ASSUME NEW t \in Thread, DropSwitch(t) PROVE NoStaleRequest'
  BY <1>17 DEF DropSwitch, SwitchFree, NotSwitched, AfterDrop
<1>18. ASSUME NEW t \in Thread, SwitchWait(t) PROVE NoStaleRequest'
  BY <1>18 DEF SwitchWait
<1>19. ASSUME NEW t \in Thread, SwitchWoken(t) PROVE NoStaleRequest'
  BY <1>19 DEF SwitchWoken, SwitchFree, AfterDrop
<1>20. ASSUME NEW t \in Thread, CheckBreaker(t) PROVE NoStaleRequest'
  BY <1>20 DEF CheckBreaker
<1>21. ASSUME NEW t \in Thread, HandlePending(t) PROVE NoStaleRequest'
  BY <1>21 DEF HandlePending, Compute
<1>22. ASSUME NEW t \in Thread, SaveThread(t) PROVE NoStaleRequest'
  BY <1>22 DEF SaveThread
<1>23. ASSUME NEW t \in Thread, RestoreThread(t) PROVE NoStaleRequest'
  BY <1>23 DEF RestoreThread
<1>24. ASSUME NEW t \in Thread, DeleteCurrent(t) PROVE NoStaleRequest'
  BY <1>24 DEF DeleteCurrent
<1>25. CASE FinalizeEx
  BY <1>25 DEF FinalizeEx
<1>26. CASE UNCHANGED vars
  BY <1>26 DEF vars
<1> QED
  BY <1>1, <1>2, <1>3, <1>4, <1>5, <1>6, <1>7, <1>8, <1>9, <1>10, <1>11, <1>12, <1>13,
      <1>14, <1>15, <1>16, <1>17, <1>18, <1>19, <1>20, <1>21, <1>22, <1>23, <1>24,
      <1>25, <1>26 DEF Next, Step

LEMMA SleeperStep ==
  TypeOK /\ Safe /\ NoStaleRequest /\ SleeperHasTaker /\ [Next]_vars => SleeperHasTaker'
<1> SUFFICES ASSUME TypeOK, Safe, NoStaleRequest, SleeperHasTaker, [Next]_vars
      PROVE  SleeperHasTaker'
  OBVIOUS
<1> USE GILAssumption DEF TypeOK, SleeperHasTaker, InTakeGil, Sleeping, Computing,
    locks, flags, waits, At, Goto
<1>1. ASSUME NEW t \in Thread, ResetRequest(t) PROVE SleeperHasTaker'
  BY <1>1 DEF ResetRequest
<1>2. ASSUME NEW t \in Thread, LoadFlags(t) PROVE SleeperHasTaker'
  BY <1>2 DEF LoadFlags
<1>3. ASSUME NEW t \in Thread, StoreBreaker(t) PROVE SleeperHasTaker'
  BY <1>3 DEF StoreBreaker, Return
<1>4. ASSUME NEW t \in Thread, TakeGil(t) PROVE SleeperHasTaker'
  BY <1>4 DEF TakeGil, MustExit
<1>5. ASSUME NEW t \in Thread, TakeLock(t) PROVE SleeperHasTaker'
  BY <1>5 DEF TakeLock, WaitWhileLocked, Wait
<1>6. ASSUME NEW t \in Thread, WaitTimeout(t) PROVE SleeperHasTaker'
  BY <1>6 DEF WaitTimeout
<1>7. ASSUME NEW t \in Thread, Reacquire(t) PROVE SleeperHasTaker'
  BY <1>7 DEF Reacquire, WaitWhileLocked, Wait
<1>8. ASSUME NEW t \in Thread, RequestDrop(t) PROVE SleeperHasTaker'
  BY <1>8 DEF RequestDrop, MustExit
<1>9. ASSUME NEW t \in Thread, SetRequest(t) PROVE SleeperHasTaker'
  BY <1>9 DEF SetRequest
<1>10. ASSUME NEW t \in Thread, SetBreaker(t) PROVE SleeperHasTaker'
  BY <1>10 DEF SetBreaker, Wait
<1>11. ASSUME NEW t \in Thread, TakeReady(t) PROVE SleeperHasTaker'
  BY <1>11 DEF TakeReady, SwitchFree, Signal, Safe, Mutexes, InSwitch, ForcedSwitch
<1>12. ASSUME NEW t \in Thread, Taken(t) PROVE SleeperHasTaker'
  BY <1>12 DEF Taken, MustExit
<1>13. ASSUME NEW t \in Thread, Settle(t) PROVE SleeperHasTaker'
  BY <1>13 DEF Settle
<1>14. ASSUME NEW t \in Thread, TakeReturn(t) PROVE SleeperHasTaker'
  BY <1>14 DEF TakeReturn, Compute
<1>15. ASSUME NEW t \in Thread, DropGil(t) PROVE SleeperHasTaker'
  BY <1>15 DEF DropGil, LastHolder, Signal, Safe, GilExclusion, HoldsGil
<1>16. ASSUME NEW t \in Thread, DropCheck(t) PROVE SleeperHasTaker'
  BY <1>16 DEF DropCheck, AfterDrop, NoStaleRequest, Safe, GilExclusion, HoldsGil
<1>17. ASSUME NEW t \in Thread, DropSwitch(t) PROVE SleeperHasTaker'
  BY <1>17 DEF DropSwitch, SwitchFree, NotSwitched, AfterDrop
<1>18. ASSUME NEW t \in Thread, SwitchWait(t) PROVE SleeperHasTaker'
  BY <1>18 DEF SwitchWait
<1>19. ASSUME NEW t \in Thread, SwitchWoken(t) PROVE SleeperHasTaker'
  BY <1>19 DEF SwitchWoken, SwitchFree, AfterDrop
<1>20. ASSUME NEW t \in Thread, CheckBreaker(t) PROVE SleeperHasTaker'
  BY <1>20 DEF CheckBreaker
<1>21. ASSUME NEW t \in Thread, HandlePending(t) PROVE SleeperHasTaker'
  BY <1>21 DEF HandlePending, Compute
<1>22. ASSUME NEW t \in Thread, SaveThread(t) PROVE SleeperHasTaker'
  BY <1>22 DEF SaveThread
<1>23. ASSUME NEW t \in Thread, RestoreThread(t) PROVE SleeperHasTaker'
  BY <1>23 DEF RestoreThread
<1>24. ASSUME NEW t \in Thread, DeleteCurrent(t) PROVE SleeperHasTaker'
  BY <1>24 DEF DeleteCurrent
<1>25. CASE FinalizeEx
  BY <1>25 DEF FinalizeEx
<1>26. CASE UNCHANGED vars
  BY <1>26 DEF vars
<1> QED
  BY <1>1, <1>2, <1>3, <1>4, <1>5, <1>6, <1>7, <1>8, <1>9, <1>10, <1>11, <1>12, <1>13,
      <1>14, <1>15, <1>16, <1>17, <1>18, <1>19, <1>20, <1>21, <1>22, <1>23, <1>24,
      <1>25, <1>26 DEF Next, Step
-----------------------------------------------------------------------------
(* The inductive invariant holds in every reachable state.                 *)
THEOREM Invariance == Spec => []IInv
<1>1. Init => IInv
  BY TypeInit, SafeInit, GILAssumption DEF Init, IInv, FinalizerRunsAlone, NoStaleRequest,
     SleeperHasTaker, Sleeping, Computing, At
<1>2. IInv /\ [Next]_vars => IInv'
  BY TypeStep, SafeStep, AloneStep, RequestStep, SleeperStep DEF IInv, Safe
<1> QED
  BY <1>1, <1>2, PTL DEF Spec

(* Two threads never run Python code at once. *)
THEOREM Exclusion == Spec => []GilExclusion
<1>1. IInv => GilExclusion
  BY DEF IInv, Safe
<1> QED
  BY Invariance, <1>1, PTL

(* A forced switch hands the GIL to another thread before the thread that  *)
(* was asked to drop it goes on.                                           *)
THEOREM Switching == Spec => []ForcedSwitch
<1>1. IInv => ForcedSwitch
  BY DEF IInv, Safe
<1> QED
  BY Invariance, <1>1, PTL

(* The finalizing thread runs alone. *)
THEOREM Finalization == Spec => []FinalizerRunsAlone
<1>1. IInv => FinalizerRunsAlone
  BY DEF IInv
<1> QED
  BY Invariance, <1>1, PTL

(* One thread at a time recomputes eval_breaker: it holds the GIL, or the  *)
(* GIL is free and it is the one that waits to be relieved of it.          *)
THEOREM Recomputation == Spec => []OneComputer
<1>1. TypeOK /\ Safe => OneComputer
  <2> SUFFICES ASSUME TypeOK, Safe, NEW t \in Thread, NEW u \in Thread,
                      NEW r \in Return \ {"exited"}, NEW s \in Return \ {"exited"},
                      Computing(t, r), Computing(u, s)
               PROVE  t = u
    BY DEF OneComputer
  <2>1. ASSUME NEW v \in Thread, NEW x \in Return \ {"exited"}, Computing(v, x)
        PROVE  last_holder = v
    BY <2>1 DEF Return, Safe, GilExclusion, ForcedSwitch, HoldsGil, Sleeping, Computing
  <2> QED
    BY <2>1
<1>2. IInv => TypeOK /\ Safe
  BY DEF IInv
<1> QED
  BY Invariance, <1>1, <1>2, PTL

(* No stale request, and nobody asleep in drop_gil without somebody who    *)
(* will wake it, until the process finalizes.                              *)
THEOREM Requests == Spec => []RequestsKept
<1>1. IInv => RequestsKept
  BY DEF IInv, RequestsKept
<1> QED
  BY Invariance, <1>1, PTL
-----------------------------------------------------------------------------
(* What a step that is not one of the three abstract ones does to the      *)
(* abstract state: nothing.                                                *)
LEMMA AbstractStutter ==
  ASSUME UNCHANGED <<locked, last_holder>>, \A t \in Thread : Sleeping(t)' <=> Sleeping(t)
  PROVE  UNCHANGED Abstract!vars
BY DEF Abstract!vars

LEMMA AbstractInit == Init => Abstract!Init
BY GILAssumption DEF Init, Abstract!Init, Sleeping, Computing

LEMMA AbstractStep == IInv /\ [Next]_vars => [Abstract!Next]_(Abstract!vars)
<1> SUFFICES ASSUME IInv, [Next]_vars PROVE [Abstract!Next]_(Abstract!vars)
  OBVIOUS
<1> USE GILAssumption DEF IInv, TypeOK, locks, flags, waits, At, Goto, Sleeping, Computing
<1>1. ASSUME NEW t \in Thread, ResetRequest(t) PROVE UNCHANGED Abstract!vars
  BY <1>1, AbstractStutter DEF ResetRequest
<1>2. ASSUME NEW t \in Thread, LoadFlags(t) PROVE UNCHANGED Abstract!vars
  BY <1>2, AbstractStutter DEF LoadFlags
<1>3. ASSUME NEW t \in Thread, StoreBreaker(t) PROVE UNCHANGED Abstract!vars
  BY <1>3, AbstractStutter DEF StoreBreaker, Return
<1>4. ASSUME NEW t \in Thread, TakeGil(t) PROVE UNCHANGED Abstract!vars
  BY <1>4, AbstractStutter DEF TakeGil
<1>5. ASSUME NEW t \in Thread, TakeLock(t) PROVE UNCHANGED Abstract!vars
  BY <1>5, AbstractStutter DEF TakeLock, WaitWhileLocked, Wait
<1>6. ASSUME NEW t \in Thread, WaitTimeout(t) PROVE UNCHANGED Abstract!vars
  BY <1>6, AbstractStutter DEF WaitTimeout
<1>7. ASSUME NEW t \in Thread, Reacquire(t) PROVE UNCHANGED Abstract!vars
  BY <1>7, AbstractStutter DEF Reacquire, WaitWhileLocked, Wait
<1>8. ASSUME NEW t \in Thread, RequestDrop(t) PROVE UNCHANGED Abstract!vars
  BY <1>8, AbstractStutter DEF RequestDrop
<1>9. ASSUME NEW t \in Thread, SetRequest(t) PROVE UNCHANGED Abstract!vars
  BY <1>9, AbstractStutter DEF SetRequest
<1>10. ASSUME NEW t \in Thread, SetBreaker(t) PROVE UNCHANGED Abstract!vars
  BY <1>10, AbstractStutter DEF SetBreaker, Wait
<1>11. ASSUME NEW t \in Thread, TakeReady(t) PROVE Abstract!Acquire(t)
  <2> USE <1>11 DEF TakeReady, SwitchFree, Signal, Safe
  <2>1. ~locked /\ locked' /\ last_holder' = t
    BY DEF LockedRead
  <2>2. \A u \in Thread : Sleeping(u) => At(u, "swait") /\ last_holder = u
    BY DEF Mutexes, InSwitch, ForcedSwitch
  <2>3. \A u \in Thread : ~Sleeping(u)'
    BY <2>2
  <2> QED
    BY <2>1, <2>2, <2>3 DEF Abstract!Acquire
<1>12. ASSUME NEW t \in Thread, Taken(t) PROVE UNCHANGED Abstract!vars
  BY <1>12, AbstractStutter DEF Taken
<1>13. ASSUME NEW t \in Thread, Settle(t) PROVE UNCHANGED Abstract!vars
  BY <1>13, AbstractStutter DEF Settle
<1>14. ASSUME NEW t \in Thread, TakeReturn(t) PROVE UNCHANGED Abstract!vars
  BY <1>14, AbstractStutter DEF TakeReturn, Compute
<1>15. ASSUME NEW t \in Thread, DropGil(t) PROVE Abstract!Release(t)
  <2> USE <1>15 DEF DropGil, LastHolder, Signal, Safe
  <2>1. locked /\ last_holder = t /\ ~locked' /\ last_holder' = t
    BY DEF GilExclusion, HoldsGil
  <2>2. \A u \in Thread : Sleeping(u)' <=> Sleeping(u)
    OBVIOUS
  <2> QED
    BY <2>1, <2>2 DEF Abstract!Release
<1>16. ASSUME NEW t \in Thread, DropCheck(t) PROVE UNCHANGED Abstract!vars
  BY <1>16, AbstractStutter DEF DropCheck, AfterDrop
<1>17. ASSUME NEW t \in Thread, DropSwitch(t)
      PROVE  Abstract!Yield(t) \/ UNCHANGED Abstract!vars
  <2> USE <1>17 DEF DropSwitch, SwitchFree, NotSwitched, AfterDrop, Safe
  <2>1. CASE last_holder = t
    <3>1. ~locked
      BY <2>1 DEF GilExclusion, HoldsGil
    <3>2. \A u \in Thread : ~Sleeping(u)
      BY <2>1 DEF ForcedSwitch
    <3>3. Sleeping(t)'
      BY <2>1
    <3> QED
      BY <2>1, <3>1, <3>2, <3>3 DEF Abstract!Yield
  <2>2. CASE last_holder # t
    BY <2>2, AbstractStutter
  <2> QED
    BY <2>1, <2>2
<1>18. ASSUME NEW t \in Thread, SwitchWait(t) PROVE UNCHANGED Abstract!vars
  BY <1>18, AbstractStutter DEF SwitchWait
<1>19. ASSUME NEW t \in Thread, SwitchWoken(t) PROVE UNCHANGED Abstract!vars
  BY <1>19, AbstractStutter DEF SwitchWoken, SwitchFree, AfterDrop
<1>20. ASSUME NEW t \in Thread, CheckBreaker(t) PROVE UNCHANGED Abstract!vars
  BY <1>20, AbstractStutter DEF CheckBreaker
<1>21. ASSUME NEW t \in Thread, HandlePending(t) PROVE UNCHANGED Abstract!vars
  BY <1>21, AbstractStutter DEF HandlePending, Compute
<1>22. ASSUME NEW t \in Thread, SaveThread(t) PROVE UNCHANGED Abstract!vars
  BY <1>22, AbstractStutter DEF SaveThread
<1>23. ASSUME NEW t \in Thread, RestoreThread(t) PROVE UNCHANGED Abstract!vars
  BY <1>23, AbstractStutter DEF RestoreThread
<1>24. ASSUME NEW t \in Thread, DeleteCurrent(t) PROVE UNCHANGED Abstract!vars
  BY <1>24, AbstractStutter DEF DeleteCurrent
<1>25. CASE FinalizeEx
  BY <1>25, AbstractStutter DEF FinalizeEx
<1>26. CASE UNCHANGED vars
  BY <1>26, AbstractStutter DEF vars
<1> QED
  BY <1>1, <1>2, <1>3, <1>4, <1>5, <1>6, <1>7, <1>8, <1>9, <1>10, <1>11, <1>12, <1>13,
      <1>14, <1>15, <1>16, <1>17, <1>18, <1>19, <1>20, <1>21, <1>22, <1>23, <1>24,
      <1>25, <1>26 DEF Next, Step, Abstract!Next

(* take_gil and drop_gil implement the abstract lock. *)
THEOREM Refinement == Spec => ImplementsAbstract
<1> QED
  BY Invariance, AbstractInit, AbstractStep, PTL DEF Spec, ImplementsAbstract,
      Abstract!Spec
=============================================================================
