------------------------------- MODULE Future -------------------------------
(***************************************************************************)
(* The futures of concurrent.futures and those who wait for them           *)
(* (Lib/concurrent/futures/_base.py).  A future belongs to a call that an  *)
(* executor was given; clients cancel it, block in result(), add a         *)
(* callback, and wait for several of them with wait() or as_completed().   *)
(*                                                                         *)
(* What a method does with self._condition held is one step: nothing       *)
(* blocks there but Condition.wait, whose waiters are in "parked".  The    *)
(* callbacks run after the condition is let go, in a step of their own.    *)
(***************************************************************************)
EXTENDS Naturals, FiniteSets

CONSTANTS Work,        \* the calls, each with its future
          NoWork,
          Client,      \* the threads that use the executor and its futures
          Asker,       \* those of them that have the futures
          Watched,     \* the futures that may get a callback
          WaitCalls        \* the calls of wait() and as_completed(): pairs of a
                       \* set of futures and of one of Modes

Modes == {"FIRST_COMPLETED", "FIRST_EXCEPTION", "ALL_COMPLETED", "AS_COMPLETED"}

ASSUME FutureAssumption ==
  /\ NoWork \notin Work /\ Watched \subseteq Work
  /\ Asker \subseteq Client
  /\ WaitCalls \subseteq (SUBSET Work) \X Modes

VARIABLES
  state,           \* _state of each future; "NEW" before it is made
  raised,          \* the futures with an _exception
  parked,          \* the clients in _condition.wait of each future
  hooked,          \* _waiters of each future, by the client the _Waiter is of
  listed, ran,     \* a callback is in _done_callbacks; times it was called
  clientPc,        \* where each client is
  target,          \* the future a client's call is about
  fs, mode,        \* of a client's wait() or as_completed(): what it waits for
  finished,        \* done and finished_futures
  pendingCalls,    \* num_pending_calls
  event,           \* the clients whose _Waiter's event is set
  batch            \* the futures the client is taking its _Waiter from

callVars   == <<state, raised>>
waiterVars == <<finished, pendingCalls, event>>
askVars    == <<fs, mode, batch>>
futureVars == <<callVars, parked, hooked, listed, ran, clientPc, target,
                askVars, waiterVars>>

Done(f)     == state[f] \in {"CANCELLED", "CANCELLED_AND_NOTIFIED", "FINISHED"}
Notified(f) == state[f] \in {"CANCELLED_AND_NOTIFIED", "FINISHED"}
Created     == {f \in Work : state[f] # "NEW"}

FutureInit ==
  /\ state = [f \in Work |-> "NEW"] /\ raised = {}
  /\ parked = [f \in Work |-> {}] /\ hooked = [f \in Work |-> {}]
  /\ listed = [f \in Work |-> FALSE] /\ ran = [f \in Work |-> 0]
  /\ clientPc = [c \in Client |-> "idle"] /\ target = [c \in Client |-> NoWork]
  /\ fs = [c \in Client |-> {}] /\ mode = [c \in Client |-> "ALL_COMPLETED"]
  /\ finished = [c \in Client |-> {}] /\ pendingCalls = [c \in Client |-> 0]
  /\ event = {} /\ batch = [c \in Client |-> {}]

ClientGoes(c, l) == clientPc' = [clientPc EXCEPT ![c] = l]
-----------------------------------------------------------------------------
(* What the executor and its clients do to a future.  Variants named       *)
(* "faulty" are not part of the model: each stands for a mistake in the    *)
(* code that the properties are tried against.                             *)

(* notify_all on the condition of f. *)
NotifyAll(f) == parked' = [parked EXCEPT ![f] = {}]

(* Faulty: a call that raised only lowers the count.                       *)
faultyCounts(c, ex) == mode[c] \in {"ALL_COMPLETED", "FIRST_EXCEPTION"}

(* add_result, add_exception (ex) and add_cancelled of every waiter of f.  *)
Counts(c, ex) == mode[c] = "ALL_COMPLETED" \/ (mode[c] = "FIRST_EXCEPTION" /\ ~ex)

TellWaiters(f, ex) ==
  LET counting == {c \in hooked[f] : Counts(c, ex)}
      left(c)  == pendingCalls[c] - (IF c \in counting THEN 1 ELSE 0)
  IN /\ finished' = [c \in Client |->
                       finished[c] \cup (IF c \in hooked[f] THEN {f} ELSE {})]
     /\ pendingCalls' = [c \in Client |-> left(c)]
     /\ event' = event \cup {c \in hooked[f] : c \in counting => left(c) = 0}

(* cancel, where it cancels.  Waiters are not told. *)
Cancelled(f) ==
  /\ state' = [state EXCEPT ![f] = "CANCELLED"]
  /\ NotifyAll(f)
  /\ UNCHANGED <<raised, waiterVars>>

(* set_running_or_notify_cancel *)
StartOrNotify(f) ==
  /\ UNCHANGED <<raised, parked>>
  /\ \/ /\ state[f] = "CANCELLED"
        /\ state' = [state EXCEPT ![f] = "CANCELLED_AND_NOTIFIED"]
        /\ TellWaiters(f, FALSE)
     \/ /\ state[f] = "PENDING"
        /\ state' = [state EXCEPT ![f] = "RUNNING"]
        /\ UNCHANGED waiterVars

(* set_result and, with ex, set_exception, of a future that is not done.   *)
SetOutcome(f, ex) ==
  /\ state' = [state EXCEPT ![f] = "FINISHED"]
  /\ raised' = IF ex THEN raised \cup {f} ELSE raised
  /\ TellWaiters(f, ex)
  /\ NotifyAll(f)

(* _invoke_callbacks *)
InvokeCallbacks(f) == ran' = [ran EXCEPT ![f] = IF listed[f] THEN @ + 1 ELSE @]

(* Faulty: the callback of a cancelled future is listed for later.         *)
faultyAddDoneCallback(f) ==
  /\ state[f] # "NEW" /\ ~listed[f] /\ ran[f] = 0
  /\ IF Notified(f) THEN ran' = [ran EXCEPT ![f] = @ + 1] /\ UNCHANGED listed
                    ELSE listed' = [listed EXCEPT ![f] = TRUE] /\ UNCHANGED ran
  /\ UNCHANGED <<callVars, parked, hooked, clientPc, target, askVars, waiterVars>>

(* add_done_callback: later, or at once if the future is done. *)
AddDoneCallback(f) ==
  /\ state[f] # "NEW" /\ ~listed[f] /\ ran[f] = 0
  /\ IF Done(f) THEN ran' = [ran EXCEPT ![f] = @ + 1] /\ UNCHANGED listed
                ELSE listed' = [listed EXCEPT ![f] = TRUE] /\ UNCHANGED ran
  /\ UNCHANGED <<callVars, parked, hooked, clientPc, target, askVars, waiterVars>>
-----------------------------------------------------------------------------
(* The clients. *)

(* cancel returns False of a future that runs or is done.                  *)
Cancellable(f) == state[f] = "PENDING"

(* cancel by a client: the callbacks are still to be called.               *)
Cancel(c, f) ==
  /\ clientPc[c] = "idle" /\ Cancellable(f)
  /\ Cancelled(f)
  /\ ClientGoes(c, "callbacks") /\ target' = [target EXCEPT ![c] = f]
  /\ UNCHANGED <<hooked, listed, ran, askVars>>

ClientCallbacks(c) ==
  /\ clientPc[c] = "callbacks"
  /\ InvokeCallbacks(target[c])
  /\ ClientGoes(c, "idle") /\ target' = [target EXCEPT ![c] = NoWork]
  /\ UNCHANGED <<callVars, parked, hooked, listed, askVars, waiterVars>>

(* result and exception, without a timeout, of a future that is not done.  *)
Result(c, f) ==
  /\ clientPc[c] = "idle" /\ state[f] # "NEW" /\ ~Done(f)
  /\ parked' = [parked EXCEPT ![f] = @ \cup {c}]
  /\ ClientGoes(c, "result") /\ target' = [target EXCEPT ![c] = f]
  /\ UNCHANGED <<callVars, hooked, listed, ran, askVars, waiterVars>>

ResultReturns(c) ==
  /\ clientPc[c] = "result" /\ c \notin parked[target[c]]
  /\ ClientGoes(c, "idle") /\ target' = [target EXCEPT ![c] = NoWork]
  /\ UNCHANGED <<callVars, parked, hooked, listed, ran, askVars, waiterVars>>

(* wait and as_completed up to where they block: with the conditions of    *)
(* all the futures held, the client looks which are done and puts a waiter *)
(* on each.  as_completed goes on with those that are done.                *)
AnswersAtOnce(q, m, done) ==
  /\ m # "AS_COMPLETED"
  /\ \/ done = q
     \/ m = "FIRST_COMPLETED" /\ done # {}
     \/ m = "FIRST_EXCEPTION" /\ done \cap raised # {}

Wait(c, q, m) ==
  LET done == {f \in q : Notified(f)}
  IN /\ clientPc[c] = "idle" /\ q # {} /\ q \subseteq Created
     /\ ~AnswersAtOnce(q, m, done)
     /\ hooked' = [f \in Work |-> hooked[f] \cup (IF f \in q THEN {c} ELSE {})]
     /\ fs' = [fs EXCEPT ![c] = q] /\ mode' = [mode EXCEPT ![c] = m]
     /\ pendingCalls' = [pendingCalls EXCEPT ![c] =
         IF m \in {"FIRST_EXCEPTION", "ALL_COMPLETED"} THEN Cardinality(q \ done) ELSE 0]
     /\ IF m = "AS_COMPLETED"
        THEN /\ batch' = [batch EXCEPT ![c] = done] /\ UNCHANGED finished
             /\ ClientGoes(c, "unhook")
        ELSE /\ finished' = [finished EXCEPT ![c] = done] /\ UNCHANGED batch
             /\ ClientGoes(c, "wait")
     /\ UNCHANGED <<callVars, parked, listed, ran, target, event>>

(* The event is set.  as_completed takes what has finished and clears the  *)
(* event, with the lock of the waiter held; wait goes through all futures. *)
Woken(c) ==
  /\ clientPc[c] = "wait" /\ c \in event
  /\ ClientGoes(c, "unhook")
  /\ IF mode[c] = "AS_COMPLETED"
     THEN /\ batch' = [batch EXCEPT ![c] = finished[c]]
          /\ finished' = [finished EXCEPT ![c] = {}]
          /\ event' = event \ {c}
     ELSE /\ batch' = [batch EXCEPT ![c] = fs[c]]
          /\ UNCHANGED <<finished, event>>
  /\ UNCHANGED <<callVars, parked, hooked, listed, ran, target, fs, mode, pendingCalls>>

(* The time is up.  as_completed raises, even if the event is set by now,  *)
(* and its finally clause goes through the futures that it did not yield.  *)
TimesOut(c) ==
  /\ clientPc[c] = "wait"
  /\ ClientGoes(c, "unhook") /\ batch' = [batch EXCEPT ![c] = fs[c]]
  /\ UNCHANGED <<callVars, parked, hooked, listed, ran, target, fs, mode, waiterVars>>

(* f._waiters.remove(waiter), one future at a time. *)
Unhook(c, f) ==
  /\ clientPc[c] = "unhook" /\ f \in batch[c]
  /\ hooked' = [hooked EXCEPT ![f] = @ \ {c}]
  /\ batch' = [batch EXCEPT ![c] = @ \ {f}]
  /\ fs' = [fs EXCEPT ![c] = IF mode[c] = "AS_COMPLETED" THEN @ \ {f} ELSE @]
  /\ UNCHANGED <<callVars, parked, listed, ran, clientPc, target, mode, waiterVars>>

(* Through the batch: as_completed waits again if there are more, and wait *)
(* answers.  What the call had is forgotten.                               *)
WaitGoesOn(c) ==
  /\ clientPc[c] = "unhook" /\ batch[c] = {}
  /\ mode[c] = "AS_COMPLETED" /\ fs[c] # {}
  /\ ClientGoes(c, "wait")
  /\ UNCHANGED <<callVars, parked, hooked, listed, ran, target, askVars, waiterVars>>

WaitReturns(c) ==
  /\ clientPc[c] = "unhook" /\ batch[c] = {}
  /\ mode[c] = "AS_COMPLETED" => fs[c] = {}
  /\ ClientGoes(c, "idle")
  /\ fs' = [fs EXCEPT ![c] = {}] /\ mode' = [mode EXCEPT ![c] = "ALL_COMPLETED"]
  /\ finished' = [finished EXCEPT ![c] = {}]
  /\ pendingCalls' = [pendingCalls EXCEPT ![c] = 0]
  /\ event' = event \ {c}
  /\ UNCHANGED <<callVars, parked, hooked, listed, ran, target, batch>>

FutureNext ==
  \/ \E f \in Watched : AddDoneCallback(f)
  \/ \E c \in Asker :
       \/ \E f \in Work : Cancel(c, f) \/ Result(c, f) \/ Unhook(c, f)
       \/ \E w \in WaitCalls : Wait(c, w[1], w[2])
       \/ ClientCallbacks(c) \/ ResultReturns(c)
       \/ Woken(c) \/ TimesOut(c) \/ WaitGoesOn(c) \/ WaitReturns(c)
=============================================================================
