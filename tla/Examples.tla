------------------------------ MODULE Examples ------------------------------
(***************************************************************************)
(* The functions of both examples in one program, as the unit tests call   *)
(* them: commands are run while threads are under way.  exit in the caller *)
(* ends the threads too.                                                   *)
(***************************************************************************)
EXTENDS SystemCalls, Threading

\* A call's line can be told from a thread's.
ASSUME LinesAssumption == Calls \cap Threads = {}

vars == <<processes, thrvars, stdio>>

Alive == caller.pc # "exited"

Init == SysInit /\ ThrInit

\* The calls and the children go on whatever the threads do.
Commands == SysNext /\ UNCHANGED thrvars

Workers == Alive /\ ThrNext /\ UNCHANGED processes

Next == Commands \/ Workers

\* Threads are scheduled and sleeps end.  Each thread takes the mutex once, so
\* weak fairness is enough.
Spec ==
  /\ Init /\ [][Next]_vars
  /\ \A t \in Threads : WF_vars(Alive /\ ThreadStep(t) /\ UNCHANGED processes)

-----------------------------------------------------------------------------
\* A thread has reported an error.
Reported(t) == thread[t] = "failed" \/ returned[t] = "NULL"

(***************************************************************************)
(* What a thread prints is not lost, and the program writes it once, to    *)
(* its own output.  If it is printed between fflush and fork, the child    *)
(* has a copy too and writes it once more if it fails, possibly to the     *)
(* redirected file; no second child does.                                  *)
(***************************************************************************)
ThreadLines ==
  \A t \in Threads :
    /\ Reported(t) => t \in buffer \/ <<Out, Program>> \in {written[t][i] : i \in 1..Len(written[t])}
    /\ \A i \in 1..Len(written[t]) : written[t][i][2] = Program => written[t][i][1] = Out
    /\ \A i, j \in 1..Len(written[t]) :
         (written[t][i][2] = Program <=> written[t][j][2] = Program) => i = j

(***************************************************************************)
(* Every line that the program and its threads print reaches the program's *)
(* output, before the command of the call it precedes, and none but a      *)
(* thread's is written by a child that shares the buffer; the command      *)
(* itself has the right file.                                              *)
(***************************************************************************)
OutputInv ==
  /\ StdioTypeOK
  /\ CallLinesOnce /\ CallLinesKept /\ PrintedBeforeChild /\ ThreadLines
  /\ ~Alive => buffer = {}
  /\ CommandOutput

\* Stronger, and not so: no line is written twice.
LinesOnce == \A l \in Lines : Len(written[l]) <= 1

\* Every thread that was started can be joined, unless the program ends or an
\* unlock failed and its thread left with the mutex.
ThreadsEnd ==
  \A t \in Threads : (thread[t] = "wait_to_obtain") ~>
    \/ thread[t] = "joined" \/ ~Alive
    \/ \E u \in Threads : owner = u /\ returned[u] = "NULL"

=============================================================================
