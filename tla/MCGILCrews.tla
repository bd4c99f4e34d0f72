---------------------------- MODULE MCGILCrews ----------------------------
(* Two crews of threads, one of which runs in each behaviour. *)
EXTENDS MCGIL

CONSTANTS t3

VARIABLE crew

crewVars == <<vars, crew>>

(* Threads of two interpreters that share the GIL, block, exit, and see    *)
(* the process finalize; and threads of one interpreter, which compute     *)
(* until they exit.                                                        *)
Mixed == {m, t1, t2}
Alike == {m, t1, t3}

CrewInit == Init /\ crew \in {Mixed, Alike}

CrewNext ==
  /\ UNCHANGED crew
  /\ \/ \E t \in crew : Step(t) \/ RestoreThread(t) \/ DeleteCurrent(t)
     \/ crew = Mixed /\ \E t \in crew : SaveThread(t)
     \/ crew = Mixed /\ FinalizeEx

(* FairSpec of GIL, for the threads that compute.                          *)
CrewSpec ==
  /\ CrewInit /\ [][CrewNext]_crewVars
  /\ \A t \in Alike : SF_vars(crew = Alike /\ Step(t))

(* HandsOver and DropGilReturns are about those; GIL_shared and            *)
(* GIL_finalize show them fail for the others.                             *)
AlikeServed == crew = Alike => HandsOver /\ DropGilReturns
=============================================================================
