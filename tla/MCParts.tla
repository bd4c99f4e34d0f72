------------------------------- MODULE MCParts -------------------------------
(* The parts of the program that share no state, one of them in each        *)
(* behaviour: the executor, the queues and the barrier of the library, the  *)
(* garbage collector, and the NewPython front end.                          *)
EXTENDS ThreadPool, ThreadQueue, AsyncQueue, AsyncBarrier, MCCollector, MCNewPythonParser

CONSTANTS f1, f2, c1, c2, w1, w2, u1, u2, u3, k1, k2, k3

VARIABLE component

(* An executor that is shut down, lost, or there when Python exits; one that *)
(* is shut down while its workers' initializer raises and its futures are    *)
(* cancelled; and one of a single worker with callbacks as well.             *)
Ending   == INSTANCE ThreadPool WITH InitializerFails <- FALSE, Asker <- {}
Breaking == INSTANCE ThreadPool WITH Ends <- FALSE, Cancels <- {TRUE}, Watched <- {}
Single   == INSTANCE ThreadPool WITH Ends <- FALSE, Cancels <- {TRUE}, Worker <- {w1},
                                     MaxWorkers <- 1

(* The heap and the program of the behaviours that are about other parts.   *)
AHeap    == {CHOOSE h \in SomeHeaps : TRUE}
AProgram == {<<>>}

(* A queue of three threads that no signal reaches; and one of two threads, *)
(* one of which has signal handlers that raise.                             *)
Calm        == INSTANCE ThreadQueue WITH Signalled <- {}
Interrupted == INSTANCE ThreadQueue WITH User <- {u1, u2}

OneHeap    == INSTANCE Collector WITH Heaps <- AHeap
OneProgram == INSTANCE NewPythonParser WITH Programs <- AProgram

queueOnlyVars   == <<size, unfinished, getters, putters, finishedEvent, joiners, queuePc,
                     asyncPuts>>
barrierOnlyVars == <<barrier, count, barWaiters, barPc, through>>
parserVars      == vars

PartsInit ==
  /\ component \in {"ending pool", "breaking pool", "single pool", "calm queue", "signalled queue",
                    "asyncio queue", "barrier", "collector", "parser"}
  /\ PoolInit /\ QueueInit /\ AsyncQueueInit /\ BarInit
  /\ IF component = "collector" THEN CollectorInit ELSE OneHeap!CollectorInit
  /\ IF component = "parser" THEN Init ELSE OneProgram!Init

PartsNext ==
  /\ UNCHANGED component
  /\ \/ /\ \/ component = "ending pool" /\ Ending!PoolNext
           \/ component = "breaking pool" /\ Breaking!PoolNext
           \/ component = "single pool" /\ Single!PoolNext
        /\ UNCHANGED <<queueVars, taskVars, queueOnlyVars, barrierOnlyVars, collectorVars,
                       parserVars>>
     \/ /\ \/ component = "calm queue" /\ Calm!QueueNext
           \/ component = "signalled queue" /\ Interrupted!QueueNext
        /\ UNCHANGED <<poolVars, taskVars, queueOnlyVars, barrierOnlyVars, collectorVars,
                       parserVars>>
     \/ /\ component = "asyncio queue" /\ AsyncQueueNext
        /\ UNCHANGED <<poolVars, queueVars, barrierOnlyVars, collectorVars, parserVars>>
     \/ /\ component = "barrier" /\ BarNext
        /\ UNCHANGED <<poolVars, queueVars, queueOnlyVars, collectorVars, parserVars>>
     \/ /\ component = "collector" /\ CollectorNext
        /\ UNCHANGED <<poolVars, queueVars, taskVars, queueOnlyVars, barrierOnlyVars, parserVars>>
     \/ /\ component = "parser" /\ Next
        /\ UNCHANGED <<poolVars, queueVars, taskVars, queueOnlyVars, barrierOnlyVars,
                       collectorVars>>

PartsSpec ==
  PartsInit /\ [][PartsNext]_<<poolVars, queueVars, asyncQueueVars, barVars, collectorVars,
                               parserVars, component>>
=============================================================================
