----------------------------- MODULE AsyncTask -----------------------------
(***************************************************************************)
(* The tasks of an asyncio event loop as far as the synchronization        *)
(* primitives see them (Lib/asyncio/tasks.py, futures.py, base_events.py): *)
(* a task runs until it awaits a future; a future that is done schedules   *)
(* its task; the loop runs what is scheduled in order.  cancel() cancels   *)
(* the future a task waits for, or marks the task if that future is done   *)
(* already and the task has not run since.                                 *)
(***************************************************************************)
EXTENDS Naturals, FiniteSets, Sequences, SequencesExt

CONSTANTS Task

VARIABLES
  fut,           \* the future each task waits for (_fut_waiter), "none" if it
                 \* is not in a primitive
  must_cancel,   \* the tasks with _must_cancel
  ready          \* the tasks scheduled to go on, _ready of the loop

taskVars == <<fut, must_cancel, ready>>

TaskTypeOK ==
  /\ fut \in [Task -> {"none", "pending", "result", "cancelled"}]
  /\ must_cancel \subseteq Task
  /\ ready \in Seq(Task)

TaskInit ==
  /\ fut = [t \in Task |-> "none"] /\ must_cancel = {} /\ ready = <<>>

(* The task is in the middle of something else, or done with it.           *)
Free(t) == fut[t] = "none"

(* The loop goes on with t, which waited.                                  *)
Resumes(t) == ready # <<>> /\ Head(ready) = t

(* What its await raises: CancelledError, also if the future has a result. *)
Throws(t) == fut[t] = "cancelled" \/ t \in must_cancel

(* Those of ws that are in S, in their order.                              *)
Among(ws, S) ==
  LET among[i \in 0 .. Len(ws)] ==
        IF i = 0 THEN <<>>
        ELSE IF ws[i] \in S THEN Append(among[i - 1], ws[i]) ELSE among[i - 1]
  IN among[Len(ws)]

Pending(ws)   == Among(ws, {t \in Task : fut[t] = "pending"})
Others(ws, t) == Among(ws, Task \ {t})
AllCancelled(ws) == \A i \in DOMAIN ws : fut[ws[i]] = "cancelled"

(* Those of ws that a wake-up of the first, of the first if it is not done *)
(* yet, and of all is for: set_result of their futures.                    *)
NoWake         == <<>>
FirstPending(ws) == IF Pending(ws) = <<>> THEN NoWake ELSE <<Head(Pending(ws))>>
HeadIfPending(ws) == IF ws # <<>> /\ fut[Head(ws)] = "pending" THEN <<Head(ws)>> ELSE NoWake

(* A step of t, which goes on until it awaits a future or is through with  *)
(* the primitive: the futures of woken got results meanwhile, in order.    *)
Runs(t, woken, awaits) ==
  /\ fut' = [u \in Task |-> IF u = t THEN (IF awaits THEN "pending" ELSE "none")
                            ELSE IF u \in ToSet(woken) THEN "result" ELSE fut[u]]
  /\ must_cancel' = must_cancel \ {t}
  /\ ready' = (IF Resumes(t) THEN Tail(ready) ELSE ready) \o woken

(* Task.cancel, by anybody, of a task that waits. *)
CancelTask(t) ==
  /\ ~Free(t)
  /\ IF fut[t] = "pending"
     THEN /\ fut' = [fut EXCEPT ![t] = "cancelled"]
          /\ ready' = Append(ready, t)
          /\ UNCHANGED must_cancel
     ELSE must_cancel' = must_cancel \cup {t} /\ UNCHANGED <<fut, ready>>

(* A task that waits is scheduled exactly when its future is done.         *)
ScheduledOnce ==
  /\ IsInjective(ready)
  /\ ToSet(ready) = {t \in Task : fut[t] \in {"result", "cancelled"}}
  /\ must_cancel \subseteq ToSet(ready)
=============================================================================
