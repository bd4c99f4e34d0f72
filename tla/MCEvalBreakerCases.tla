------------------------ MODULE MCEvalBreakerCases ------------------------
(* Who announces work, in the cases that are checked together: a     *)
(* behaviour is of one of them.                                            *)
EXTENDS EvalBreaker, TLC

CONSTANTS m, t1, a1, s1, h1, c1, c2, c3, d1, d2, Announcers

VARIABLE announcer

(* Calls of one queue are interchangeable where all are of that queue.     *)
CallSymmetry == Permutations({c1, c2, c3})

CasesInit == Init /\ announcer \in Announcers

(* Threads and one caller without the GIL queue calls: enough for the ring *)
(* to fill up.                                                             *)
CallerNext ==
  \/ AgentStep(a1)
  \/ \E c \in {c1, c2, c3} : \E a \in Thread \cup {a1} : AddPendingCall(a, c)

(* All work is announced by the threads that hold the GIL, which keep it   *)
(* until another one wants it; or the main thread also blocks, and there   *)
(* are calls for that thread only.  Exceptions are set in the threads of T. *)
HolderNext(calls, T) ==
  \/ FinishPendingCalls
  \/ \E t \in Thread :
       \/ \E c \in calls : AddPendingCall(t, c)
       \/ ScheduleGC(t)
       \/ \E u \in T : SetAsyncExc(t, u)

(* Signals, one on the main thread's stack and one elsewhere.              *)
SignalNext(H) == \E a \in H : AgentStep(a) \/ TripSignal(a)

(* The main thread is out of the interpreter when the signal comes.        *)
Blocked == {"blocker", "signal, blocked", "interrupt, blocked"}

CasesNext ==
  /\ UNCHANGED announcer
  /\ \/ \E t \in Thread :
          Step(t) \/ TakeGil(t) \/ CallFails(t) \/ RestoreThread(t)
     \/ announcer = "caller" /\ CallerNext
     \/ announcer = "holder" /\ HolderNext({d1, d2}, {t1})
     \/ announcer = "blocker" /\ HolderNext({d2}, {m})
     \/ announcer = "signals" /\ SignalNext(Handler)
     \/ announcer = "signal, blocked" /\ SignalNext(Handler \ Interrupt)
     \/ announcer = "interrupt, blocked" /\ SignalNext(Interrupt)
     \/ announcer \in Blocked /\ \E t \in Thread : SaveThread(t)

CasesSpec == CasesInit /\ [][CasesNext]_<<vars, announcer>>

FairCasesSpec == CasesSpec /\ Fairness

(* BreakerCovers is about work that is announced with the GIL held.        *)
HolderCovered == announcer \in {"holder", "blocker"} => BreakerCovers
=============================================================================
