--------------------------- MODULE ExamplesProofs ---------------------------
(***************************************************************************)
(* Proofs about the examples for any number of calls and threads.          *)
(***************************************************************************)
EXTENDS Examples, ListLemmas, FiniteSetTheorems

-----------------------------------------------------------------------------
(* The threads                                                             *)

ThrFcnOK ==
  /\ thread \in [Threads -> {"unborn", "failed", "wait_to_obtain", "wait_to_release",
                             "released", "ended", "joined"}]
  /\ owner \in Threads \cup {NoThread} /\ touched \subseteq Threads
  /\ data \in [Threads -> {"none", "allocated", "freed"}]
  /\ success \in [Threads -> BOOLEAN]
  /\ returned \in [Threads -> {"nothing yet", "data", "NULL"}]
  /\ \A t \in Threads : returned[t] = "nothing yet" <=> thread[t] \notin {"ended", "joined"}

\* The data of a thread is there from its start until it is joined, not before.
DataInv ==
  \A t \in Threads :
    /\ thread[t] = "unborn" => data[t] = "none"
    /\ thread[t] \in {"wait_to_obtain", "wait_to_release", "released", "ended"} =>
         data[t] = "allocated"

ThrInd == ThrFcnOK /\ HolderIsOwner /\ DataInv /\ DataOutlivesThread /\ DataNotLost

\* Every step of start_thread_obtaining_mutex, of threadfunc and of the joiner
\* keeps the invariant.
LEMMA ThrIndStep ==
  ASSUME ThrInd, ThrNext
  PROVE  ThrInd'
<1> USE DEF ThrInd, ThrFcnOK, HolderIsOwner, DataInv, DataOutlivesThread, DataNotLost, Goto
<1>1. PICK t \in Threads : start_thread_obtaining_mutex(t) \/ ThreadStep(t) \/ lock_failed(t)
  BY DEF ThrNext
<1>2. CASE start_thread_obtaining_mutex(t)
  <2>1. /\ thread[t] = "unborn"
        /\ UNCHANGED <<owner, success, returned, touched>>
    BY <1>2 DEF start_thread_obtaining_mutex
  <2>2. PICK label \in {"failed", "wait_to_obtain"}, d \in {"none", "allocated", "freed"} :
          /\ thread' = [thread EXCEPT ![t] = label]
          /\ data' = [data EXCEPT ![t] = d]
          /\ label = "failed" => d # "allocated"
          /\ label = "wait_to_obtain" => d = "allocated"
    <3>1. CASE thread' = [thread EXCEPT ![t] = "failed"] /\ UNCHANGED data
      <4>1. data[t] = "none" /\ data' = [data EXCEPT ![t] = "none"]
        BY <2>1, <3>1
      <4> QED
        BY <3>1, <4>1
    <3>2. CASE /\ thread' = [thread EXCEPT ![t] = "failed"]
               /\ data' = [data EXCEPT ![t] = "freed"]
      BY <3>2
    <3>3. CASE /\ thread' = [thread EXCEPT ![t] = "wait_to_obtain"]
               /\ data' = [data EXCEPT ![t] = "allocated"]
      BY <3>3
    <3> QED
      BY <1>2, <3>1, <3>2, <3>3 DEF start_thread_obtaining_mutex
  <2> QED
    BY <2>1, <2>2
<1>3. CASE obtain_mutex(t)
  BY <1>3, ThreadAssumption DEF obtain_mutex, Use
<1>4. CASE release_mutex(t)
  <2>1. /\ thread[t] = "wait_to_release" /\ UNCHANGED <<data, success, touched>>
        /\ owner = t
    BY <1>4 DEF release_mutex, Use
  <2>2. CASE /\ owner' = NoThread /\ UNCHANGED returned
             /\ thread' = [thread EXCEPT ![t] = "released"]
    BY <2>1, <2>2, ThreadAssumption
  <2>3. CASE /\ UNCHANGED owner
             /\ thread' = [thread EXCEPT ![t] = "ended"]
             /\ returned' = [returned EXCEPT ![t] = "NULL"]
    BY <2>1, <2>3, ThreadAssumption
  <2> QED
    BY <1>4, <2>2, <2>3 DEF release_mutex, FailThread
<1>5. CASE complete(t)
  BY <1>5 DEF complete, Use
<1>6. CASE join(t)
  BY <1>6, ZenonT(60) DEF join, Use
<1>7. CASE lock_failed(t)
  BY <1>7 DEF lock_failed, Use, FailThread
<1> QED
  BY <1>1, <1>2, <1>3, <1>4, <1>5, <1>6, <1>7 DEF ThreadStep

\* The threads' invariant is inductive.
LEMMA ThrIndInductive ==
  /\ Init => ThrInd
  /\ ThrInd /\ [Next]_vars => ThrInd'
<1>1. Init => ThrInd
  BY ThreadAssumption, ZenonT(60)
  DEF Init, ThrInit, ThrInd, ThrFcnOK, HolderIsOwner, DataInv, DataOutlivesThread, DataNotLost
<1>2. ThrInd /\ [Next]_vars => ThrInd'
  <2> SUFFICES ASSUME ThrInd, [Next]_vars PROVE ThrInd'
    OBVIOUS
  <2>1. CASE UNCHANGED thrvars
    BY <2>1
    DEF thrvars, ThrInd, ThrFcnOK, HolderIsOwner, DataInv, DataOutlivesThread, DataNotLost
  <2>2. CASE ThrNext
    BY <2>2, ThrIndStep
  <2> QED
    BY <2>1, <2>2 DEF Next, Commands, Workers, vars
<1> QED
  BY <1>1, <1>2

(***************************************************************************)
(* However many threads start_thread_obtaining_mutex has started and       *)
(* whichever of malloc, pthread_create, lock and unlock fail: one thread   *)
(* at a time holds the mutex, nobody uses a thread_data that has been      *)
(* freed, and the joiner has freed all it was given.                       *)
(***************************************************************************)
THEOREM ThreadsSafe == Spec => []ThreadInv
<1>1. ThrInd => ThreadInv
  BY DEF ThrInd, ThrFcnOK, ThreadInv, ThrTypeOK
<1> QED
  BY <1>1, ThrIndInductive, PTL DEF Spec

-----------------------------------------------------------------------------
(* The calls that run commands                                             *)

Active == {"system", "open", "flush", "fork", "wait"}

ChildRecords ==
  [pc : {"none", "dup2", "close", "exec", "command", "ended", "reaped"},
   kind : {"none", "do_exec", "do_exec_redirect"}, fd : Int, fds : SUBSET (Int \X Int),
   buffer : SUBSET Lines, status : {"none", "exit0", "exit1", "killed", "failed"}, ran : BOOLEAN]

CallerOK ==
  /\ caller \in [pc : Active \cup {"idle", "exited"}, n : 0..MaxCalls,
                 kind : {"none", "do_system", "do_exec", "do_exec_redirect"}, fd : Int]
  /\ caller.pc \in Active => caller.n \in Calls
  /\ caller.pc = "open" => caller.kind = "do_exec_redirect"
  /\ caller.pc \in {"flush", "fork"} => caller.kind \in {"do_exec", "do_exec_redirect"}
  /\ buffer \subseteq Lines

\* The caller's standard output is the program's own, and only a redirected call
\* that has opened its file has it, under caller.fd.
FdsOK ==
  /\ fds \subseteq (0..OpenMax-1) \X (0..MaxCalls)
  /\ <<STDOUT, Out>> \in fds /\ \A d \in fds : d[1] = STDOUT => d[2] = Out
  /\ \A d \in fds : d[2] <= caller.n
  /\ caller.pc \in {"system", "open"} => \A d \in fds : d[2] # caller.n
  /\ caller.pc \in {"flush", "fork"} /\ caller.kind = "do_exec" => \A d \in fds : d[2] # caller.n
  /\ caller.pc \in {"flush", "fork"} /\ caller.kind = "do_exec_redirect" =>
       caller.fd \in (0..OpenMax-1) \ {STDOUT} /\ \A d \in fds : d[2] = caller.n => d[1] = caller.fd

OutputIs(table, file) ==
  <<STDOUT, file>> \in table /\ \A d \in table : d[1] = STDOUT => d[2] = file

\* What the child of call n has on its way from fork to the command.
ChildOK(c, n) ==
  /\ c \in ChildRecords
  /\ c.pc = "dup2" => /\ c.kind = "do_exec_redirect" /\ c.fd # STDOUT /\ OutputIs(c.fds, Out)
                      /\ \A d \in c.fds : d[2] = n => d[1] = c.fd
  /\ c.pc = "close" => /\ c.kind = "do_exec_redirect" /\ c.fd # STDOUT /\ OutputIs(c.fds, n)
                       /\ \A d \in c.fds : d[2] = n => d[1] \in {c.fd, STDOUT}
  /\ c.pc \in {"exec", "command"} =>
       /\ OutputIs(c.fds, IF c.kind = "do_exec_redirect" THEN n ELSE Out)
       /\ \A d \in c.fds : d[2] = n => d[1] = STDOUT
  /\ c.pc = "command" => c.ran = TRUE
  /\ c.pc = "ended" /\ c.status = "exit0" => c.ran = TRUE

ChildrenOK ==
  /\ DOMAIN child = Calls /\ child = [n \in Calls |-> child[n]]
  /\ \A n \in Calls : ChildOK(child[n], n)

ResultsOK ==
  /\ result \in [Calls -> {"none", "true", "false", "interrupted"}]
  /\ \A n \in Calls : n > caller.n \/ (n = caller.n /\ caller.pc \in Active) => result[n] = "none"

SysInd == CallerOK /\ FdsOK /\ ChildrenOK /\ ResultsOK /\ TrueMeansRan /\ ChildrenReaped

\* A table in which standard output is one file flushes to that file only.
LEMMA OutputFile ==
  ASSUME NEW table, NEW file, OutputIs(table, file)
  PROVE  Files(table, STDOUT) = {file}
<1>1. \A d \in table : d[1] = STDOUT => d[2] = file
  BY DEF OutputIs
<1>2. \E d \in table : d[1] = STDOUT /\ d[2] = file
  BY DEF OutputIs, STDOUT
<1> QED
  BY <1>1, <1>2 DEF Files

\* A step of the child of call n, from fork to the end of the command.
LEMMA ChildMoves ==
  ASSUME SysInd, NEW n \in Calls, NEW c, ChildOK(c, n),
         child' = [child EXCEPT ![n] = c], UNCHANGED <<caller, fds, buffer, result>>,
         child[n].pc \notin {"none", "reaped"}
  PROVE  SysInd'
<1> USE DEF SysInd
<1>1. CallerOK' /\ FdsOK' /\ ResultsOK'
  BY DEF CallerOK, FdsOK, ResultsOK
<1>2. ChildrenOK'
  BY DEF ChildrenOK
<1>3. result[n] # "true"
  BY DEF TrueMeansRan
<1>4. TrueMeansRan'
  BY <1>3 DEF TrueMeansRan, ChildrenOK
<1>5. ChildrenReaped'
  BY DEF ChildrenReaped, ChildrenOK
<1> QED
  BY <1>1, <1>2, <1>4, <1>5

\* exit in the child.
LEMMA ChildExits ==
  ASSUME SysInd, NEW n \in Calls, child[n].pc \in {"dup2", "close", "exec"}, ExitChild(n),
         UNCHANGED <<caller, fds, buffer, result>>
  PROVE  SysInd'
<1> DEFINE c == [child[n] EXCEPT !.pc = "ended", !.status = "exit1", !.buffer = {}]
<1>1. ChildOK(child[n], n) /\ DOMAIN child = Calls
  BY DEF SysInd, ChildrenOK
<1>2. child' = [child EXCEPT ![n] = c]
  BY <1>1 DEF ExitChild, ChildOK, ChildRecords
<1>5. c \in ChildRecords /\ c.pc = "ended" /\ c.status = "exit1"
  BY <1>1 DEF ChildOK, ChildRecords
<1>6. ChildOK(c, n)
  BY <1>5 DEF ChildOK
<1> QED
  BY <1>2, <1>6, ChildMoves

\* Every step of a child keeps the invariant.
LEMMA ChildStepInd ==
  ASSUME SysInd, NEW n \in Calls, ChildStep(n)
  PROVE  SysInd'
<1>1. ChildOK(child[n], n) /\ child[n] \in ChildRecords /\ DOMAIN child = Calls
  BY DEF SysInd, ChildrenOK, ChildOK
<1>2. CASE dup2(n) /\ ~ExitChild(n)
  <2> DEFINE table == {d \in child[n].fds : d[1] # STDOUT} \cup {<<STDOUT, n>>}
             c == [child[n] EXCEPT !.pc = "close", !.fds = table]
  <2>1. /\ child' = [child EXCEPT ![n] = c] /\ child[n].pc = "dup2"
        /\ UNCHANGED <<caller, fds, buffer, result>>
    BY <1>1, <1>2 DEF dup2, stdio, ChildRecords
  <2>2. c \in ChildRecords
    <3>1. child[n].fds \in SUBSET (Int \X Int) /\ <<STDOUT, n>> \in Int \X Int
      BY <1>1, SysAssumption DEF ChildRecords, STDOUT, Calls
    <3>2. table \in SUBSET (Int \X Int)
      BY <3>1
    <3> HIDE DEF table
    <3> QED
      BY <1>1, <3>2 DEF ChildRecords
  <2>3. /\ c.pc = "close" /\ c.fd = child[n].fd /\ c.kind = child[n].kind
        /\ c.buffer = child[n].buffer
        /\ c.fds = {d \in child[n].fds : d[1] # STDOUT} \cup {<<STDOUT, n>>}
    BY <1>1 DEF ChildRecords
  <2>4. OutputIs(c.fds, n)
    BY <2>3 DEF OutputIs
  <2>5. \A d \in c.fds : d[2] = n => d[1] \in {c.fd, STDOUT}
    BY <1>1, <2>1, <2>3 DEF ChildOK
  <2>6. ChildOK(c, n)
    BY <1>1, <2>1, <2>2, <2>3, <2>4, <2>5 DEF ChildOK
  <2> QED
    BY <2>1, <2>6, ChildMoves
<1>3. CASE close(n) /\ ~ExitChild(n)
  <2> DEFINE c == [child[n] EXCEPT !.pc = "exec",
                     !.fds = {d \in child[n].fds : d[1] # child[n].fd}]
  <2>1. /\ child' = [child EXCEPT ![n] = c] /\ child[n].pc = "close"
        /\ UNCHANGED <<caller, fds, buffer, result>>
    BY <1>1, <1>3 DEF close, stdio, ChildRecords
  <2>2. c \in ChildRecords
    BY <1>1 DEF ChildRecords
  <2>3. /\ c.pc = "exec" /\ c.kind = "do_exec_redirect"
        /\ c.fds = {d \in child[n].fds : d[1] # child[n].fd} /\ child[n].fd # STDOUT
    BY <1>1, <2>1 DEF ChildRecords, ChildOK
  <2>4. OutputIs(c.fds, n)
    BY <1>1, <2>1, <2>3 DEF OutputIs, ChildOK
  <2>5. \A d \in c.fds : d[2] = n => d[1] = STDOUT
    BY <1>1, <2>1, <2>3 DEF ChildOK
  <2>6. ChildOK(c, n)
    BY <2>2, <2>3, <2>4, <2>5 DEF ChildOK
  <2> QED
    BY <2>1, <2>6, ChildMoves
<1>4. CASE execv(n) /\ ~ExitChild(n)
  <2> DEFINE c == [child[n] EXCEPT !.pc = "command", !.ran = TRUE, !.buffer = {}]
  <2>1. /\ child' = [child EXCEPT ![n] = c] /\ child[n].pc = "exec"
        /\ UNCHANGED <<caller, fds, buffer, result>>
    BY <1>1, <1>4 DEF execv, stdio, ChildRecords
  <2>2. c \in ChildRecords /\ c.pc = "command" /\ c.kind = child[n].kind /\ c.fds = child[n].fds
    BY <1>1 DEF ChildRecords
  <2>3. c.ran = TRUE
    BY <1>1 DEF ChildRecords
  <2>4. ChildOK(c, n)
    BY <1>1, <2>1, <2>2, <2>3 DEF ChildOK
  <2> QED
    BY <2>1, <2>4, ChildMoves
<1>5. CASE CommandEnds(n)
  <2>1. PICK status \in {"exit0", "exit1", "killed"} :
          child' = [child EXCEPT ![n].pc = "ended", ![n].status = status]
    BY <1>5 DEF CommandEnds
  <2> DEFINE c == [child[n] EXCEPT !.pc = "ended", !.status = status]
  <2>2. /\ child' = [child EXCEPT ![n] = c] /\ child[n].pc = "command"
        /\ UNCHANGED <<caller, fds, buffer, result>>
    BY <1>1, <1>5, <2>1 DEF CommandEnds, stdio, ChildRecords
  <2>3. c \in ChildRecords /\ c.pc = "ended" /\ c.ran = child[n].ran
    BY <1>1 DEF ChildRecords
  <2>4. ChildOK(c, n)
    BY <1>1, <2>2, <2>3 DEF ChildOK
  <2> QED
    BY <2>2, <2>4, ChildMoves
<1>6. CASE ExitChild(n) /\ (dup2(n) \/ close(n) \/ execv(n))
  BY <1>6, ChildExits DEF dup2, close, execv
<1> QED
  BY <1>2, <1>3, <1>4, <1>5, <1>6 DEF ChildStep

\* The caller's call, do_system and open_outputfile keep the invariant.
LEMMA CallInd ==
  ASSUME SysInd, NEW kind \in {"do_system", "do_exec", "do_exec_redirect"}, Call(kind)
  PROVE  SysInd'
<1> USE SysAssumption DEF SysInd
<1>1. /\ caller.pc = "idle" /\ caller'.n = caller.n + 1 /\ caller'.n \in Calls
      /\ caller'.kind = kind /\ caller.n \in Nat
      /\ caller'.pc = CASE kind = "do_system" -> "system" [] kind = "do_exec" -> "flush"
                        [] kind = "do_exec_redirect" -> "open"
      /\ buffer' = buffer \cup {caller'.n}
      /\ caller' = [pc |-> caller'.pc, n |-> caller'.n, kind |-> kind, fd |-> -1]
      /\ UNCHANGED <<fds, child, result>>
  BY DEF Call, CallerOK, Calls, printf
<1>2. CallerOK'
  BY <1>1 DEF CallerOK, Active, Calls
<1>3. FdsOK'
  BY <1>1 DEF FdsOK, Out, STDOUT
<1>4. ChildrenOK' /\ TrueMeansRan'
  BY <1>1 DEF ChildrenOK, TrueMeansRan
<1>5. ResultsOK'
  BY <1>1 DEF ResultsOK, Calls
<1>6. ChildrenReaped'
  BY <1>1 DEF ChildrenReaped
<1> QED
  BY <1>2, <1>3, <1>4, <1>5, <1>6

\* A call returns and leaves no child but the one a signal made it forget.
LEMMA ReturnInd ==
  ASSUME SysInd, caller.pc \in Active, NEW value \in {"true", "false", "interrupted"}, Return(value),
         NEW c, ChildOK(c, caller.n), child' = [child EXCEPT ![caller.n] = c],
         c.pc \in {"none", "reaped"} \/ value = "interrupted",
         value = "true" => c.pc = "reaped" /\ c.status = "exit0" /\ c.ran = TRUE,
         UNCHANGED <<fds, buffer>>
  PROVE  SysInd'
<1> USE SysAssumption DEF SysInd
<1>1. /\ caller.n \in Calls /\ caller'.pc = "idle" /\ caller'.n = caller.n
      /\ caller' = [caller EXCEPT !.pc = "idle"]
      /\ result' = [result EXCEPT ![caller.n] = value]
  BY DEF Return, CallerOK
<1>2. CallerOK'
  BY <1>1 DEF CallerOK, Active
<1>3. FdsOK'
  BY <1>1 DEF FdsOK
<1>4. ChildrenOK'
  BY <1>1 DEF ChildrenOK
<1>5. ResultsOK'
  BY <1>1 DEF ResultsOK, Active, Calls
<1>6. TrueMeansRan'
  BY <1>1 DEF TrueMeansRan, ResultsOK, ChildrenOK
<1>7. ChildrenReaped'
  BY <1>1 DEF ChildrenReaped, ResultsOK, ChildrenOK
<1> QED
  BY <1>2, <1>3, <1>4, <1>5, <1>6, <1>7

\* do_system and both ends of waitpid return.
LEMMA ReturningInd ==
  ASSUME SysInd, do_system \/ waitpid \/ waitpid_failed
  PROVE  SysInd'
<1>1. CASE do_system
  <2>1. PICK status \in {"exit0", "exit1", "failed"} :
          /\ child' = [child EXCEPT ![caller.n] =
                         [NoChild EXCEPT !.pc = "reaped", !.status = status, !.ran = status = "exit0"]]
          /\ Return(IF status = "exit0" THEN "true" ELSE "false")
    BY <1>1 DEF do_system
  <2>2. PICK ran \in BOOLEAN :
          /\ child' = [child EXCEPT ![caller.n] =
                         [NoChild EXCEPT !.pc = "reaped", !.status = status, !.ran = ran]]
          /\ status = "exit0" => ran = TRUE
    BY <2>1
  <2> DEFINE c == [NoChild EXCEPT !.pc = "reaped", !.status = status, !.ran = ran]
  <2>3. NoChild \in ChildRecords
    BY DEF NoChild, ChildRecords
  <2>4. c \in ChildRecords /\ c.pc = "reaped" /\ c.status = status /\ c.ran = ran
    BY <2>3 DEF ChildRecords
  <2>5. ChildOK(c, caller.n)
    BY <2>4 DEF ChildOK
  <2>6. caller.pc \in Active /\ UNCHANGED <<fds, buffer>>
    BY <1>1 DEF do_system, stdio, Active
  <2>8. child' = [child EXCEPT ![caller.n] = c]
    BY <2>2
  <2>9. Return(IF status = "exit0" THEN "true" ELSE "false") /\ (status = "exit0" => ran = TRUE)
    BY <2>1, <2>2
  <2> HIDE DEF c
  <2> QED
    BY <2>4, <2>5, <2>6, <2>8, <2>9, ReturnInd DEF SysInd, CallerOK
<1>2. CASE waitpid
  <2> DEFINE c == [child[caller.n] EXCEPT !.pc = "reaped"]
  <2>1. /\ caller.pc \in Active /\ caller.n \in Calls /\ child[caller.n].pc = "ended"
        /\ Return(IF child[caller.n].status = "exit0" THEN "true" ELSE "false")
        /\ UNCHANGED <<fds, buffer>>
    BY <1>2 DEF waitpid, stdio, Active, SysInd, CallerOK
  <2>2. ChildOK(child[caller.n], caller.n) /\ child[caller.n] \in ChildRecords
    BY <2>1 DEF SysInd, ChildrenOK, ChildOK
  <2>3. child' = [child EXCEPT ![caller.n] = c]
    BY <1>2 DEF waitpid
  <2>4. /\ c \in ChildRecords /\ c.pc = "reaped" /\ c.status = child[caller.n].status
        /\ c.ran = child[caller.n].ran
    BY <2>2 DEF ChildRecords
  <2>5. ChildOK(c, caller.n) /\ (c.status = "exit0" => c.ran = TRUE)
    BY <2>1, <2>2, <2>4 DEF ChildOK
  <2> HIDE DEF c
  <2> QED
    BY <2>1, <2>3, <2>4, <2>5, ReturnInd DEF SysInd, CallerOK
<1>3. CASE waitpid_failed
  <2>1. /\ caller.pc \in Active /\ caller.n \in Calls /\ Return("interrupted")
        /\ UNCHANGED <<fds, buffer, child>>
    BY <1>3 DEF waitpid_failed, stdio, Active, SysInd, CallerOK
  <2>2. /\ ChildOK(child[caller.n], caller.n)
        /\ child' = [child EXCEPT ![caller.n] = child[caller.n]]
    BY <2>1 DEF SysInd, ChildrenOK
  <2> QED
    BY <2>1, <2>2, ReturnInd DEF SysInd, CallerOK
<1> QED
  BY <1>1, <1>2, <1>3

\* exit in the caller leaves the children as they are.
LEMMA ExitInd ==
  ASSUME SysInd, caller.pc \in {"idle", "open", "fork"}, ExitCaller, UNCHANGED <<fds, child>>
  PROVE  SysInd'
<1> USE DEF SysInd
<1>1. /\ caller' = [caller EXCEPT !.pc = "exited"] /\ buffer' = {} /\ UNCHANGED result
      /\ caller'.pc = "exited" /\ caller'.n = caller.n
  BY DEF CallerOK, ExitCaller
<1>2. CallerOK'
  BY <1>1 DEF CallerOK, Active
<1>3. FdsOK' /\ ChildrenOK' /\ TrueMeansRan'
  BY <1>1 DEF FdsOK, ChildrenOK, TrueMeansRan
<1>4. ResultsOK' /\ ChildrenReaped'
  BY <1>1 DEF ResultsOK, Active, ChildrenReaped
<1> QED
  BY <1>2, <1>3, <1>4

\* The file is opened under a descriptor that was free, so not standard
\* output's, and is the only one of its call.
LEMMA OpenInd ==
  ASSUME SysInd, open_outputfile
  PROVE  SysInd'
<1> USE DEF SysInd
<1>1. caller.pc = "open" /\ caller.n \in Calls /\ caller.kind = "do_exec_redirect" /\ UNCHANGED child
  BY DEF open_outputfile, CallerOK, Active
<1>2. CASE ExitCaller /\ UNCHANGED fds
  BY <1>1, <1>2, ExitInd
<1>3. CASE ~ExitCaller
  <2>1. PICK fd \in Free(fds) : /\ fds' = fds \cup {<<fd, caller.n>>}
                                /\ caller' = [caller EXCEPT !.pc = "flush", !.fd = fd]
                                /\ UNCHANGED <<buffer, result>>
    <3> DEFINE fd == CHOOSE f \in Free(fds) : \A g \in Free(fds) : f <= g
    <3>1. /\ Free(fds) # {} /\ fds' = fds \cup {<<fd, caller.n>>}
          /\ caller' = [caller EXCEPT !.pc = "flush", !.fd = fd]
          /\ UNCHANGED <<buffer, result>>
      BY <1>3 DEF open_outputfile, stdio
    <3>2. fd \in Free(fds)
      <4>1. Free(fds) \subseteq Nat /\ Free(fds) # {}
        BY <3>1, SysAssumption DEF Free
      <4>2. \E f \in Free(fds) : \A g \in Free(fds) : f <= g
        BY <4>1, LeastMember
      <4> QED
        BY <4>2
    <3> QED
      BY <3>1, <3>2
  <2>2. fd \in (0..OpenMax-1) \ {STDOUT}
    BY <2>1 DEF Free, FdsOK, STDOUT
  <2>3. /\ caller'.pc = "flush" /\ caller'.n = caller.n /\ caller'.fd = fd
        /\ caller'.kind = "do_exec_redirect"
    BY <1>1, <2>1 DEF CallerOK
  <2>4. CallerOK'
    <3>1. caller' = [pc |-> "flush", n |-> caller.n, kind |-> caller.kind, fd |-> fd]
      BY <2>1 DEF CallerOK
    <3> QED
      BY <1>1, <2>1, <2>2, <3>1 DEF CallerOK, Active
  <2>5. FdsOK'
    <3>1. <<fd, caller.n>> \in (0..OpenMax-1) \X (0..MaxCalls) /\ caller.n \in Nat
      BY <1>1, <2>2, SysAssumption DEF Calls
    <3>2. fds' \subseteq (0..OpenMax-1) \X (0..MaxCalls)
      BY <2>1, <3>1 DEF FdsOK
    <3>3. <<STDOUT, Out>> \in fds' /\ \A d \in fds' : d[1] = STDOUT => d[2] = Out
      BY <2>1, <2>2 DEF FdsOK
    <3>4. \A d \in fds' : d[2] <= caller'.n /\ (d[2] = caller'.n => d[1] = fd)
      BY <1>1, <2>1, <2>3, <3>1 DEF FdsOK
    <3> QED
      BY <2>2, <2>3, <3>2, <3>3, <3>4 DEF FdsOK
  <2>6. ChildrenOK' /\ TrueMeansRan'
    BY <1>1, <2>1 DEF ChildrenOK, TrueMeansRan
  <2>7. ResultsOK' /\ ChildrenReaped'
    BY <1>1, <2>1, <2>3 DEF ResultsOK, ChildrenReaped, Active
  <2> QED
    BY <2>4, <2>5, <2>6, <2>7
<1> QED
  <2>1. ExitCaller => UNCHANGED fds
    BY <1>1 DEF open_outputfile, ExitCaller, CallerOK
  <2> QED
    BY <1>2, <1>3, <2>1

\* fflush changes nothing but the place of the caller and the buffer.
LEMMA FlushInd ==
  ASSUME SysInd, fflush
  PROVE  SysInd'
<1> USE DEF SysInd
<1>1. /\ caller.pc = "flush" /\ caller' = [caller EXCEPT !.pc = "fork"]
      /\ caller'.pc = "fork" /\ caller'.n = caller.n /\ caller'.kind = caller.kind
      /\ caller'.fd = caller.fd /\ buffer' = {} /\ UNCHANGED <<fds, child, result>>
  BY DEF fflush, CallerOK
<1>2. CallerOK'
  BY <1>1 DEF CallerOK, Active
<1>3. FdsOK'
  BY <1>1 DEF FdsOK
<1>4. ChildrenOK' /\ TrueMeansRan'
  BY <1>1 DEF ChildrenOK, TrueMeansRan
<1>5. ResultsOK' /\ ChildrenReaped'
  BY <1>1 DEF ResultsOK, Active, ChildrenReaped
<1> QED
  BY <1>2, <1>3, <1>4, <1>5

\* The child starts with the caller's descriptors and buffer.
LEMMA ForkInd ==
  ASSUME SysInd, fork
  PROVE  SysInd'
<1> USE DEF SysInd
<1>1. /\ caller.pc = "fork" /\ caller.n \in Calls /\ caller.kind \in {"do_exec", "do_exec_redirect"}
      /\ UNCHANGED fds
  BY DEF fork, CallerOK, Active
<1>3. CASE /\ child' = [child EXCEPT ![caller.n] = Forked] /\ UNCHANGED <<result, buffer>>
           /\ caller' = [caller EXCEPT !.pc = "wait"]
  <2>1. caller'.pc = "wait" /\ caller'.n = caller.n
    BY <1>3 DEF CallerOK
  <2>2. CallerOK' /\ FdsOK'
    BY <1>1, <1>3, <2>1 DEF CallerOK, Active, FdsOK
  <2>3. /\ Forked.kind = caller.kind /\ Forked.fd = caller.fd /\ Forked.fds = fds
        /\ Forked.status = "none"
        /\ Forked.pc = IF caller.kind = "do_exec" THEN "exec" ELSE "dup2"
    BY DEF Forked, NoChild
  <2>4. Forked \in ChildRecords
    <3>1. fds \in SUBSET (Int \X Int) /\ caller.fd \in Int /\ buffer \in SUBSET Lines
      BY SysAssumption DEF FdsOK, CallerOK
    <3> QED
      BY <1>1, <3>1 DEF Forked, NoChild, ChildRecords
  <2>5. ChildOK(Forked, caller.n)
    <3>1. CASE caller.kind = "do_exec"
      BY <1>1, <2>3, <2>4, <3>1 DEF ChildOK, OutputIs, FdsOK
    <3>2. CASE caller.kind = "do_exec_redirect"
      BY <1>1, <2>3, <2>4, <3>2 DEF ChildOK, OutputIs, FdsOK
    <3> QED
      BY <1>1, <3>1, <3>2
  <2>6. ChildrenOK'
    BY <1>1, <1>3, <2>5 DEF ChildrenOK
  <2>7. ResultsOK'
    BY <1>1, <1>3, <2>1 DEF ResultsOK, Active
  <2>8. TrueMeansRan'
    BY <1>1, <1>3, <2>1 DEF TrueMeansRan, ResultsOK, ChildrenOK, Active
  <2>9. ChildrenReaped'
    BY <1>1, <1>3, <2>1 DEF ChildrenReaped, ChildrenOK
  <2> QED
    BY <2>2, <2>6, <2>7, <2>8, <2>9
<1>4. CASE UNCHANGED <<child, buffer>> /\ Return("false")
  <2>1. child[caller.n].pc \in {"none", "reaped"}
    BY <1>1 DEF ChildrenReaped, ResultsOK, Active
  <2>2. ChildOK(child[caller.n], caller.n) /\ child' = [child EXCEPT ![caller.n] = child[caller.n]]
    BY <1>1, <1>4 DEF ChildrenOK
  <2> QED
    BY <1>1, <1>4, <2>1, <2>2, ReturnInd DEF Active
<1>5. CASE UNCHANGED child /\ ExitCaller
  BY <1>1, <1>5, ExitInd
<1> QED
  BY <1>3, <1>4, <1>5 DEF fork, stdio

\* The threads leave stdio alone, but one that fails prints its line.
LEMMA ThreadPrints ==
  ASSUME ThrNext
  PROVE  \/ UNCHANGED stdio
         \/ \E t \in Threads : printf(t)
  BY DEF ThrNext, ThreadStep, start_thread_obtaining_mutex, obtain_mutex, lock_failed, release_mutex,
         complete, join, FailThread, ERROR_LOG

\* The invariant of the calls is inductive.
LEMMA SysIndInductive ==
  /\ Init => SysInd
  /\ SysInd /\ [Next]_vars => SysInd'
<1>1. ASSUME SysInit PROVE SysInd
  <2>1. NoChild \in ChildRecords /\ NoChild.pc = "none"
    BY DEF NoChild, ChildRecords
  <2>2. \A n \in Calls : ChildOK(NoChild, n)
    BY <2>1 DEF ChildOK
  <2>3. ChildrenOK /\ ChildrenReaped
    BY <1>1, <2>1, <2>2 DEF SysInit, ChildrenOK, ChildrenReaped
  <2>4. CallerOK /\ ResultsOK /\ TrueMeansRan
    BY <1>1, SysAssumption DEF SysInit, StdioInit, CallerOK, ResultsOK, TrueMeansRan, Active
  <2>5. FdsOK
    BY <1>1, SysAssumption DEF SysInit, FdsOK, STDOUT, Out
  <2> QED
    BY <2>3, <2>4, <2>5 DEF SysInd
<1>2. ASSUME SysInd, UNCHANGED processes, buffer' \subseteq Lines PROVE SysInd'
  BY <1>2 DEF processes, SysInd, CallerOK, FdsOK, ChildrenOK, ResultsOK, TrueMeansRan, ChildrenReaped
<1>3. ASSUME SysInd, SysNext PROVE SysInd'
  BY <1>3, CallInd, ReturningInd, OpenInd, FlushInd, ForkInd, ExitInd, ChildStepInd
     DEF SysNext, CallerStep, ProgramEnds
<1>4. ASSUME SysInd, ThrNext PROVE buffer' \subseteq Lines
  <2>1. \A t \in Threads : t \in Lines
    BY ThreadAssumption
  <2>2. buffer' = buffer \/ \E t \in Threads : printf(t)
    BY <1>4, ThreadPrints DEF stdio
  <2> QED
    BY <1>4, <2>1, <2>2 DEF SysInd, CallerOK, printf
<1> QED
  <2>1. SysInd /\ UNCHANGED vars => buffer' \subseteq Lines /\ UNCHANGED processes
    BY DEF vars, stdio, SysInd, CallerOK
  <2> QED
    BY <1>1, <1>2, <1>3, <1>4, <2>1 DEF Init, Next, Commands, Workers

(***************************************************************************)
(* For any number of calls, descriptors and failing system calls, with the *)
(* children running beside the caller: do_system, do_exec and              *)
(* do_exec_redirect return true only for a command that was started, ended *)
(* with 0 and was waited for, and leave a child behind only when a signal  *)
(* interrupts waitpid.                                                     *)
(***************************************************************************)
THEOREM CallsSafe == Spec => []CallInv
<1>1. SysInd => CallInv
  <2> SUFFICES ASSUME SysInd PROVE CallInv
    OBVIOUS
  <2>1. \A n \in Calls : child[n] \in ChildRecords
    BY DEF SysInd, ChildrenOK, ChildOK
  <2>2. SysTypeOK
    BY <2>1 DEF SysInd, CallerOK, FdsOK, ResultsOK, SysTypeOK, ChildRecords, Active
  <2> QED
    BY <2>2 DEF SysInd, CallInv
<1> QED
  BY <1>1, SysIndInductive, PTL DEF Spec

-----------------------------------------------------------------------------
(* What is printed                                                         *)

\* The copies in w that the program has written, or children of calls.
ByProgram(w) == \E i \in 1..Len(w) : w[i][2] = Program
ByChild(w) == \E i \in 1..Len(w) : w[i][2] # Program

\* At most one copy is the program's, to its own output, and at most one a child's.
Sound(w) ==
  /\ \A i \in 1..Len(w) : w[i][2] = Program => w[i][1] = Out
  /\ \A i, j \in 1..Len(w) : (w[i][2] = Program <=> w[j][2] = Program) => i = j

Printed(l) == l \in 1..caller.n \/ (l \in Threads /\ Reported(l))
Inherited(l) == \E n \in Calls : l \in child[n].buffer

\* A line is in the program's buffer until the program writes it; one child at
\* most inherits it from there, which is never a call's line, and keeps it until
\* it writes it.
LineOK(l) ==
  /\ Sound(written[l])
  /\ Printed(l) <=> l \in buffer \/ ByProgram(written[l])
  /\ ~Printed(l) => ~Inherited(l) /\ ~ByChild(written[l])
  /\ l \in buffer => ~ByProgram(written[l])
  /\ Inherited(l) => ~ByChild(written[l])
  /\ \A m, n \in Calls : l \in child[m].buffer /\ l \in child[n].buffer => m = n
  /\ l \in Calls => ~Inherited(l) /\ ~ByChild(written[l])
  /\ l \in buffer /\ caller.pc = "fork" =>
       l \notin Calls /\ ~Inherited(l) /\ ~ByChild(written[l])
  /\ l \in Calls /\ child[l].kind # "none" => ByProgram(written[l])

LineInd ==
  /\ StdioTypeOK
  /\ \A l \in Calls \cup Threads : LineOK(l)
  /\ \A l \in Lines : l \notin Calls \cup Threads => l \notin buffer
  /\ ~Alive => buffer = {}

\* One more copy of a line.
LEMMA OneMoreCopy ==
  ASSUME NEW w \in Seq(Int \X Int), NEW file \in Int, NEW who \in Int, Sound(w),
         who = Program => file = Out /\ ~ByProgram(w),
         who # Program => ~ByChild(w)
  PROVE  LET v == Append(w, <<file, who>>)
         IN /\ Sound(v)
            /\ ByProgram(v) <=> ByProgram(w) \/ who = Program
            /\ ByChild(v) <=> ByChild(w) \/ who # Program
<1> DEFINE v == Append(w, <<file, who>>)
           k == Len(w)
<1>1. k \in Nat
  BY LenZero
<1>2. <<file, who>> \in Int \X Int /\ <<file, who>>[1] = file /\ <<file, who>>[2] = who
  OBVIOUS
<1>3. Len(v) = k + 1 /\ v[k + 1] = <<file, who>> /\ \A i \in 1..k : v[i] = w[i]
  BY <1>2, AppendProperties
<1> HIDE DEF v
<1>4. /\ v[k + 1][1] = file /\ v[k + 1][2] = who
      /\ \A i \in 1..Len(v) : i \in 1..k \/ i = k + 1
      /\ \A i \in 1..k : i \in 1..Len(v) /\ i # k + 1
      /\ k + 1 \in 1..Len(v)
  BY <1>1, <1>2, <1>3
<1>5. Sound(v)
  BY <1>1, <1>3, <1>4, SMTT(60) DEF Sound, ByProgram, ByChild
<1>6. ByProgram(v) <=> ByProgram(w) \/ who = Program
  BY <1>1, <1>3, <1>4 DEF ByProgram
<1>7. ByChild(v) <=> ByChild(w) \/ who # Program
  BY <1>1, <1>3, <1>4 DEF ByChild
<1> QED
  BY <1>5, <1>6, <1>7 DEF v

\* A flush writes a copy of each line in the buffer.
LEMMA FlushTyped ==
  ASSUME StdioTypeOK, NEW lines, NEW file \in Int, NEW who \in Int, Flush(lines, file, who)
  PROVE  /\ written' \in [Lines -> Seq(Int \X Int)]
         /\ \A l \in Lines :
              written'[l] = IF l \in lines THEN Append(written[l], <<file, who>>) ELSE written[l]
<1>1. written \in [Lines -> Seq(Int \X Int)] /\ <<file, who>> \in Int \X Int
  BY DEF StdioTypeOK
<1>2. \A l \in Lines : Append(written[l], <<file, who>>) \in Seq(Int \X Int)
  BY <1>1, AppendProperties
<1> QED
  BY <1>1, <1>2 DEF Flush

\* The program prints a line that was not printed before.
LEMMA PrintStep ==
  ASSUME LineInd, NEW l \in Calls \cup Threads, ~Printed(l), printf(l), Alive,
         \A m \in Calls \cup Threads : Printed(m)' <=> Printed(m) \/ m = l,
         UNCHANGED child, caller' = caller \/ caller'.pc \notin {"fork", "exited"},
         l \in Calls => caller'.pc # "fork"
  PROVE  LineInd'
<1>1. l \in Lines /\ Calls \cup Threads \subseteq Lines
  BY SysAssumption, ThreadAssumption
<1>2. buffer' = buffer \cup {l} /\ UNCHANGED written
  BY DEF printf
<1>3. StdioTypeOK' /\ Alive'
  BY <1>1, <1>2 DEF LineInd, StdioTypeOK, Alive
<1>4. ASSUME NEW m \in Calls \cup Threads PROVE LineOK(m)'
  <2>1. LineOK(m) /\ LineOK(l)
    BY DEF LineInd
  <2>2. UNCHANGED <<Inherited(m), ByProgram(written[m]), ByChild(written[m]), Sound(written[m])>>
    BY <1>2 DEF Inherited
  <2>3. CASE m = l
    BY <1>2, <2>1, <2>2, <2>3 DEF LineOK
  <2>4. CASE m # l
    <3>1. m \in buffer' <=> m \in buffer
      BY <1>2, <2>4
    <3>2. Printed(m)' <=> Printed(m)
      BY <2>4
    <3>3. caller'.pc = "fork" => caller.pc = "fork"
      OBVIOUS
    <3> QED
      BY <1>2, <2>1, <2>2, <3>1, <3>2, <3>3 DEF LineOK
  <2> QED
    BY <2>3, <2>4
<1> QED
  BY <1>1, <1>2, <1>3, <1>4 DEF LineInd

\* The program flushes its buffer.
LEMMA FlushStep ==
  ASSUME LineInd, FdsOK, Flush(buffer, Output(fds), Program), buffer' = {},
         UNCHANGED child, \A l \in Calls \cup Threads : Printed(l)' <=> Printed(l)
  PROVE  LineInd'
<1>1. Calls \cup Threads \subseteq Lines
  BY SysAssumption, ThreadAssumption
<1>2. Output(fds) = Out /\ Out \in Int /\ Program \in Int
  BY SysAssumption DEF FdsOK, Output, Out, Program
<1>3. StdioTypeOK
  BY DEF LineInd
<1>4. /\ written' \in [Lines -> Seq(Int \X Int)]
      /\ \A l \in Lines :
           written'[l] = IF l \in buffer THEN Append(written[l], <<Out, Program>>) ELSE written[l]
  BY <1>2, <1>3, FlushTyped
<1>5. StdioTypeOK'
  BY <1>4 DEF StdioTypeOK
<1>6. ASSUME NEW l \in Calls \cup Threads PROVE LineOK(l)'
  <2>1. LineOK(l) /\ l \in Lines /\ written[l] \in Seq(Int \X Int)
    BY <1>1, <1>3 DEF LineInd, StdioTypeOK
  <2>2. /\ Sound(written'[l])
        /\ ByProgram(written'[l]) <=> ByProgram(written[l]) \/ l \in buffer
        /\ ByChild(written'[l]) <=> ByChild(written[l])
    <3>1. CASE l \in buffer
      <4>1. written'[l] = Append(written[l], <<Out, Program>>)
        BY <1>4, <2>1, <3>1
      <4>2. Sound(written[l]) /\ ~ByProgram(written[l])
        BY <2>1, <3>1 DEF LineOK
      <4> QED
        BY <1>2, <2>1, <3>1, <4>1, <4>2, OneMoreCopy
    <3>2. CASE l \notin buffer
      BY <1>4, <2>1, <3>2 DEF LineOK
    <3> QED
      BY <3>1, <3>2
  <2>3. UNCHANGED Inherited(l) /\ l \notin buffer'
    BY DEF Inherited
  <2> QED
    BY <2>1, <2>2, <2>3 DEF LineOK
<1> QED
  BY <1>5, <1>6 DEF LineInd

\* The child of call n flushes its copy, which it has from the caller.
LEMMA ChildFlushStep ==
  ASSUME LineInd, SysInd, NEW n \in Calls, child[n].pc \in {"dup2", "close", "exec"}, ExitChild(n),
         UNCHANGED <<caller, fds, buffer, result, thrvars>>
  PROVE  LineInd'
<1>1. Calls \cup Threads \subseteq Lines
  BY SysAssumption, ThreadAssumption
<1>2. ChildOK(child[n], n) /\ DOMAIN child = Calls /\ child[n] \in ChildRecords
  BY DEF SysInd, ChildrenOK, ChildOK
<1>3. PICK file \in 0..MaxCalls : <<STDOUT, file>> \in child[n].fds
  BY <1>2, SysAssumption DEF ChildOK, OutputIs, Out, Calls
<1>4. Output(child[n].fds) \in Int /\ n \in Int /\ n # Program
  BY <1>3, SysAssumption DEF Output, Calls, Program
<1>5. StdioTypeOK
  BY DEF LineInd
<1>6. /\ written' \in [Lines -> Seq(Int \X Int)]
      /\ \A l \in Lines :
           written'[l] = IF l \in child[n].buffer
                         THEN Append(written[l], <<Output(child[n].fds), n>>) ELSE written[l]
  <2>1. Flush(child[n].buffer, Output(child[n].fds), n)
    BY DEF ExitChild
  <2> QED
    BY <1>4, <1>5, <2>1, FlushTyped
<1>7. StdioTypeOK'
  BY <1>5, <1>6 DEF StdioTypeOK
<1>8. /\ child'[n].buffer = {} /\ child'[n].kind = child[n].kind
      /\ \A m \in Calls : m # n => child'[m] = child[m]
  BY <1>2 DEF ExitChild, ChildRecords
<1>9. \A l \in Calls \cup Threads : Printed(l)' <=> Printed(l)
  BY DEF Printed, Reported, thrvars
<1>10. ASSUME NEW l \in Calls \cup Threads PROVE LineOK(l)'
  <2>1. LineOK(l) /\ l \in Lines /\ written[l] \in Seq(Int \X Int)
    BY <1>1, <1>5 DEF LineInd, StdioTypeOK
  <2>2. /\ Sound(written'[l])
        /\ ByProgram(written'[l]) <=> ByProgram(written[l])
        /\ ByChild(written'[l]) <=> ByChild(written[l]) \/ l \in child[n].buffer
    <3>1. CASE l \in child[n].buffer
      <4>1. written'[l] = Append(written[l], <<Output(child[n].fds), n>>)
        BY <1>6, <2>1, <3>1
      <4>2. Sound(written[l]) /\ ~ByChild(written[l])
        BY <2>1, <3>1 DEF LineOK, Inherited
      <4> QED
        BY <1>4, <2>1, <3>1, <4>1, <4>2, OneMoreCopy
    <3>2. CASE l \notin child[n].buffer
      BY <1>6, <2>1, <3>2 DEF LineOK
    <3> QED
      BY <3>1, <3>2
  <2>3. \A m \in Calls : l \in child'[m].buffer => m # n /\ l \in child[m].buffer
    BY <1>8
  <2>4. Inherited(l)' => Inherited(l) /\ l \notin child[n].buffer
    BY <2>1, <2>3 DEF Inherited, LineOK
  <2>5. l \in child[n].buffer => Inherited(l)
    BY DEF Inherited
  <2>6. l \in Calls => child'[l].kind = child[l].kind
    BY <1>8
  <2> QED
    BY <1>9, <2>1, <2>2, <2>3, <2>4, <2>5, <2>6 DEF LineOK
<1> QED
  BY <1>7, <1>10 DEF LineInd, Alive

\* The child starts with a copy of what is in the buffer, which no call's line is.
LEMMA ForkedStep ==
  ASSUME LineInd, SysInd, caller.pc = "fork", child' = [child EXCEPT ![caller.n] = Forked],
         caller' = [caller EXCEPT !.pc = "wait"], UNCHANGED <<stdio, thrvars>>
  PROVE  LineInd'
<1>1. /\ caller.n \in Calls /\ DOMAIN child = Calls /\ caller'.pc = "wait" /\ caller'.n = caller.n
      /\ caller.n \in 1..caller.n
  BY SysAssumption DEF SysInd, CallerOK, ChildrenOK, Active, Calls
<1>2. /\ child'[caller.n].buffer = buffer
      /\ \A m \in Calls : m # caller.n => child'[m] = child[m]
  BY <1>1 DEF Forked, NoChild
<1>3. \A l \in Calls \cup Threads : Printed(l)' <=> Printed(l)
  BY <1>1 DEF Printed, Reported, thrvars
<1>4. ASSUME NEW l \in Calls \cup Threads PROVE LineOK(l)'
  <2>1. LineOK(l)
    BY DEF LineInd
  <2>2. UNCHANGED <<buffer, written>>
    BY DEF stdio
  <2>3. \A m \in Calls : l \in child'[m].buffer <=>
                         (m = caller.n /\ l \in buffer) \/ (m # caller.n /\ l \in child[m].buffer)
    BY <1>1, <1>2
  <2>4. l \in buffer => l \notin Calls /\ ~Inherited(l) /\ ~ByChild(written[l])
    BY <2>1 DEF LineOK
  <2>5. Inherited(l)' => Inherited(l) \/ l \in buffer
    BY <2>3 DEF Inherited
  <2>6. \A m, n \in Calls : l \in child'[m].buffer /\ l \in child'[n].buffer => m = n
    BY <2>1, <2>3, <2>4 DEF Inherited, LineOK
  <2>7. l \in Calls /\ child'[l].kind # "none" => ByProgram(written[l])
    <3>1. CASE l = caller.n
      BY <1>1, <2>1, <2>4, <3>1 DEF LineOK, Printed
    <3>2. CASE l # caller.n
      BY <1>2, <2>1, <3>2 DEF LineOK
    <3> QED
      BY <3>1, <3>2
  <2>8. l \in buffer => Printed(l)
    BY <2>1 DEF LineOK
  <2> QED
    BY <1>1, <1>3, <2>1, <2>2, <2>4, <2>5, <2>6, <2>7, <2>8 DEF LineOK
<1>5. caller.pc # "exited" /\ caller'.pc # "exited"
  BY <1>1
<1> QED
  BY <1>4, <1>5 DEF LineInd, StdioTypeOK, Alive, stdio

\* A step that neither prints nor writes, and gives no child a buffer.
LEMMA OtherStep ==
  ASSUME LineInd, UNCHANGED stdio,
         \A n \in Calls : /\ child'[n].buffer \subseteq child[n].buffer
                          /\ child'[n].kind \in {child[n].kind, "none"},
         \A l \in Calls \cup Threads : Printed(l)' <=> Printed(l),
         caller'.pc = "fork" => caller.pc = "fork", Alive' \/ ~Alive
  PROVE  LineInd'
<1>1. UNCHANGED <<buffer, written>>
  BY DEF stdio
<1>2. ASSUME NEW l \in Calls \cup Threads PROVE LineOK(l)'
  <2>1. LineOK(l)
    BY DEF LineInd
  <2>2. \A n \in Calls : l \in child'[n].buffer => l \in child[n].buffer
    OBVIOUS
  <2>3. Inherited(l)' => Inherited(l)
    BY <2>2 DEF Inherited
  <2>4. l \in Calls /\ child'[l].kind # "none" => child[l].kind # "none"
    OBVIOUS
  <2> QED
    BY <1>1, <2>1, <2>2, <2>3, <2>4 DEF LineOK
<1> QED
  BY <1>1, <1>2 DEF LineInd, StdioTypeOK

\* A thread prints its line when it reports, and only then.
LEMMA ThreadReports ==
  ASSUME ThrInd, ThrNext
  PROVE  \/ UNCHANGED stdio /\ \A u \in Threads : Reported(u)' <=> Reported(u)
         \/ \E t \in Threads : /\ ~Reported(t) /\ printf(t)
                               /\ \A u \in Threads : Reported(u)' <=> Reported(u) \/ u = t
<1> USE DEF ThrInd, ThrFcnOK, Goto, Reported
<1>1. ASSUME NEW t \in Threads, start_thread_obtaining_mutex(t)
      PROVE  \/ UNCHANGED stdio /\ \A u \in Threads : Reported(u)' <=> Reported(u)
             \/ /\ ~Reported(t) /\ printf(t)
                /\ \A u \in Threads : Reported(u)' <=> Reported(u) \/ u = t
  BY <1>1 DEF start_thread_obtaining_mutex, ERROR_LOG
<1>2. ASSUME NEW t \in Threads, FailThread(t), thread[t] \in {"wait_to_obtain", "wait_to_release"}
      PROVE  /\ ~Reported(t) /\ printf(t)
             /\ \A u \in Threads : Reported(u)' <=> Reported(u) \/ u = t
  BY <1>2 DEF FailThread, ERROR_LOG
<1>3. ASSUME NEW t \in Threads, lock_failed(t) \/ release_mutex(t)
      PROVE  \/ UNCHANGED stdio /\ \A u \in Threads : Reported(u)' <=> Reported(u)
             \/ /\ ~Reported(t) /\ printf(t)
                /\ \A u \in Threads : Reported(u)' <=> Reported(u) \/ u = t
  BY <1>2, <1>3 DEF lock_failed, release_mutex
<1>4. ASSUME NEW t \in Threads, obtain_mutex(t) \/ complete(t) \/ join(t)
      PROVE  UNCHANGED stdio /\ \A u \in Threads : Reported(u)' <=> Reported(u)
  BY <1>4 DEF obtain_mutex, complete, join
<1> QED
  BY <1>1, <1>3, <1>4 DEF ThrNext, ThreadStep

\* A call prints its line before anything else.
LEMMA CallPrints ==
  ASSUME LineInd, SysInd, NEW kind \in {"do_system", "do_exec", "do_exec_redirect"}, Call(kind),
         UNCHANGED thrvars
  PROVE  LineInd'
<1> DEFINE l == caller.n + 1
<1>1. caller.n \in 0..MaxCalls /\ caller.n < MaxCalls /\ MaxCalls \in Nat
  BY SysAssumption DEF SysInd, CallerOK, Call
<1>2. l \in Calls /\ l \notin 1..caller.n /\ l \notin Threads
  BY <1>1, LinesAssumption DEF Calls
<1>3. /\ caller'.n = l /\ caller'.pc \in {"system", "flush", "open"} /\ printf(l) /\ Alive
      /\ UNCHANGED child
  BY DEF Call, Alive
<1>4. \A m : m \in 1..caller'.n <=> m \in 1..caller.n \/ m = l
  BY <1>1, <1>3
<1>5. ~Printed(l) /\ \A m \in Calls \cup Threads : Printed(m)' <=> Printed(m) \/ m = l
  BY <1>2, <1>4 DEF Printed, Reported, thrvars
<1> HIDE DEF l
<1> QED
  BY <1>2, <1>3, <1>5, PrintStep

\* The caller's other steps flush, fork, or do neither.
LEMMA CallerPrints ==
  ASSUME LineInd, SysInd, CallerStep \/ ProgramEnds, UNCHANGED thrvars
  PROVE  LineInd'
<1>1. caller'.n = caller.n /\ DOMAIN child = Calls
  BY DEF SysInd, CallerOK, ChildrenOK, CallerStep, ProgramEnds, do_system, open_outputfile, fflush,
         fork, waitpid, waitpid_failed, Return, ExitCaller
<1>2. \A l \in Calls \cup Threads : Printed(l)' <=> Printed(l)
  BY <1>1 DEF Printed, Reported, thrvars
<1>3. FdsOK
  BY DEF SysInd
<1>4. ASSUME ExitCaller, UNCHANGED child PROVE LineInd'
  BY <1>2, <1>3, <1>4, FlushStep DEF ExitCaller
<1>5. ASSUME UNCHANGED <<child, stdio>>, caller'.pc \notin {"fork", "exited"} PROVE LineInd'
  BY <1>2, <1>5, OtherStep DEF Alive
<1>6. ASSUME NEW value, Return(value) PROVE caller'.pc = "idle"
  BY <1>6 DEF Return, SysInd, CallerOK
<1>7. CASE do_system
  <2>1. \A n \in Calls : /\ child'[n].buffer \subseteq child[n].buffer
                          /\ child'[n].kind \in {child[n].kind, "none"}
    BY <1>1, <1>7 DEF do_system, NoChild
  <2>2. caller'.pc = "idle" /\ UNCHANGED stdio
    BY <1>6, <1>7 DEF do_system
  <2> QED
    BY <1>2, <2>1, <2>2, OtherStep DEF Alive
<1>8. CASE open_outputfile
  <2>1. CASE ExitCaller
    BY <1>4, <1>8, <2>1 DEF open_outputfile
  <2>2. CASE ~ExitCaller
    <3>1. caller'.pc = "flush" /\ UNCHANGED <<child, stdio>>
      BY <1>8, <2>2 DEF open_outputfile, SysInd, CallerOK, stdio
    <3> QED
      BY <1>5, <3>1
  <2> QED
    BY <2>1, <2>2
<1>9. CASE fflush
  BY <1>2, <1>3, <1>9, FlushStep DEF fflush
<1>10. CASE fork
  <2>1. CASE /\ child' = [child EXCEPT ![caller.n] = Forked]
             /\ caller' = [caller EXCEPT !.pc = "wait"]
             /\ UNCHANGED <<result, stdio>>
    BY <1>10, <2>1, ForkedStep DEF fork
  <2>2. CASE UNCHANGED <<child, stdio>> /\ Return("false")
    BY <1>5, <1>6, <2>2
  <2>3. CASE UNCHANGED child /\ ExitCaller
    BY <1>4, <2>3
  <2> QED
    BY <1>10, <2>1, <2>2, <2>3 DEF fork
<1>11. CASE waitpid
  <2>1. \A n \in Calls : child'[n].buffer = child[n].buffer /\ child'[n].kind = child[n].kind
    BY <1>1, <1>11 DEF waitpid, SysInd, ChildrenOK, ChildOK, ChildRecords
  <2>2. caller'.pc = "idle" /\ UNCHANGED stdio
    BY <1>6, <1>11 DEF waitpid
  <2> QED
    BY <1>2, <2>1, <2>2, OtherStep DEF Alive
<1>12. CASE waitpid_failed
  BY <1>5, <1>6, <1>12 DEF waitpid_failed, stdio
<1>13. CASE ProgramEnds
  BY <1>4, <1>13 DEF ProgramEnds
<1> QED
  BY <1>7, <1>8, <1>9, <1>10, <1>11, <1>12, <1>13 DEF CallerStep

\* A child flushes its copy if it fails, and otherwise leaves stdio alone.
LEMMA ChildPrints ==
  ASSUME LineInd, SysInd, NEW n \in Calls, ChildStep(n), UNCHANGED thrvars
  PROVE  LineInd'
<1>1. /\ UNCHANGED <<caller, fds, buffer, result>>
      /\ child[n].pc \in {"dup2", "close", "exec", "command"}
  BY DEF ChildStep, dup2, close, execv, CommandEnds, stdio
<1>2. CASE child[n].pc # "command" /\ ExitChild(n)
  BY <1>1, <1>2, ChildFlushStep
<1>3. CASE ~(child[n].pc # "command" /\ ExitChild(n))
  <2>1. child[n] \in ChildRecords /\ DOMAIN child = Calls
    BY DEF SysInd, ChildrenOK, ChildOK
  <2>2. UNCHANGED written
    BY <1>1, <1>3 DEF ChildStep, dup2, close, execv, CommandEnds, stdio
  <2>3. /\ child'[n].buffer \subseteq child[n].buffer /\ child'[n].kind = child[n].kind
        /\ \A m \in Calls : m # n => child'[m] = child[m]
    BY <1>1, <1>3, <2>1 DEF ChildStep, dup2, close, execv, CommandEnds, ChildRecords
  <2>4. \A l \in Calls \cup Threads : Printed(l)' <=> Printed(l)
    BY <1>1 DEF Printed, Reported, thrvars
  <2>5. \A m \in Calls : /\ child'[m].buffer \subseteq child[m].buffer
                          /\ child'[m].kind \in {child[m].kind, "none"}
    BY <2>3
  <2> QED
    BY <1>1, <2>2, <2>4, <2>5, OtherStep DEF Alive, stdio
<1> QED
  BY <1>2, <1>3

\* Where the copies of each line are, over every step of the program.
LEMMA LineIndInductive ==
  /\ Init => LineInd
  /\ LineInd /\ SysInd /\ ThrInd /\ [Next]_vars => LineInd'
<1>1. Init => LineInd
  <2> SUFFICES ASSUME Init PROVE LineInd
    OBVIOUS
  <2>1. /\ buffer = {} /\ written = [l \in Lines |-> << >>] /\ Alive /\ caller.n = 0
        /\ \A n \in Calls : child[n].buffer = {} /\ child[n].kind = "none"
        /\ \A t \in Threads : ~Reported(t)
    BY DEF Init, SysInit, StdioInit, ThrInit, NoChild, Alive, Reported
  <2>2. << >> \in Seq(Int \X Int) /\ Len(<< >>) = 0
    BY EmptySeq
  <2>3. StdioTypeOK
    BY <2>1, <2>2 DEF StdioTypeOK
  <2>4. ASSUME NEW l \in Calls \cup Threads PROVE LineOK(l)
    <3>1. written[l] = << >>
      BY <2>1, SysAssumption, ThreadAssumption
    <3>2. Sound(written[l]) /\ ~ByProgram(written[l]) /\ ~ByChild(written[l])
      BY <2>2, <3>1 DEF Sound, ByProgram, ByChild
    <3>3. ~Printed(l) /\ ~Inherited(l)
      BY <2>1 DEF Printed, Inherited
    <3> QED
      BY <2>1, <3>2, <3>3 DEF LineOK
  <2> QED
    BY <2>1, <2>3, <2>4 DEF LineInd
<1>2. ASSUME LineInd, SysInd, ThrInd, [Next]_vars PROVE LineInd'
  <2>1. CASE UNCHANGED vars
    <3>1. UNCHANGED <<processes, thrvars, stdio>>
      BY <2>1 DEF vars
    <3>2. \A l \in Calls \cup Threads : Printed(l)' <=> Printed(l)
      BY <3>1 DEF Printed, Reported, thrvars, processes
    <3> QED
      BY <1>2, <3>1, <3>2, OtherStep DEF processes, Alive
  <2>2. CASE Commands
    BY <1>2, <2>2, CallPrints, CallerPrints, ChildPrints DEF Commands, SysNext
  <2>3. CASE Workers
    <3>1. UNCHANGED <<caller, child>> /\ Alive /\ ThrNext
      BY <2>3 DEF Workers, processes
    <3>2. CASE UNCHANGED stdio /\ \A u \in Threads : Reported(u)' <=> Reported(u)
      <4>1. \A l \in Calls \cup Threads : Printed(l)' <=> Printed(l)
        BY <3>1, <3>2 DEF Printed
      <4> QED
        BY <1>2, <3>1, <3>2, <4>1, OtherStep DEF Alive
    <3>3. ASSUME NEW t \in Threads, ~Reported(t), printf(t),
                 \A u \in Threads : Reported(u)' <=> Reported(u) \/ u = t
          PROVE  LineInd'
      <4>1. t \notin 1..caller.n /\ t \notin Calls
        <5>1. 1..caller.n \subseteq Calls
          BY <1>2, SysAssumption DEF SysInd, CallerOK, Calls
        <5> QED
          BY <5>1, LinesAssumption
      <4>2. ~Printed(t) /\ \A m \in Calls \cup Threads : Printed(m)' <=> Printed(m) \/ m = t
        BY <3>1, <3>3, <4>1 DEF Printed
      <4> QED
        BY <1>2, <3>1, <3>3, <4>1, <4>2, PrintStep
    <3> QED
      BY <1>2, <3>1, <3>2, <3>3, ThreadReports
  <2> QED
    BY <1>2, <2>1, <2>2, <2>3 DEF Next
<1> QED
  BY <1>1, <1>2

\* A sequence of copies of which none is a child's is empty or one copy.
LEMMA NoChildCopy ==
  ASSUME NEW w \in Seq(Int \X Int), Sound(w), ~ByChild(w)
  PROVE  w \in {<< >>, << <<Out, Program>> >>}
<1>1. Len(w) \in Nat /\ \A i \in 1..Len(w) : w[i] \in Int \X Int
  BY LenZero
<1>2. \A i \in 1..Len(w) : w[i][2] = Program
  BY DEF ByChild
<1>3. \A i \in 1..Len(w) : w[i][1] = Out
  BY <1>2 DEF Sound
<1>4. Len(w) \in {0, 1}
  <2> DEFINE k == Len(w)
  <2>4. k \in Nat
    BY LenZero
  <2>1. CASE Len(w) >= 2
    <3>1. 1 \in 1..Len(w) /\ 2 \in 1..Len(w)
      BY <1>1, <2>1
    <3>2. 1 = 2
      BY <1>2, <3>1 DEF Sound
    <3> QED
      BY <3>2
  <2>2. CASE ~(k >= 2)
    <3> HIDE DEF k
    <3>1. k = 0 \/ k = 1
      BY <2>2, <2>4
    <3> QED
      BY <3>1 DEF k
  <2> QED
    BY <2>1, <2>2
<1>5. CASE Len(w) = 0
  BY <1>5, LenZero
<1>6. CASE Len(w) = 1
  <2>1. 1 \in 1..Len(w)
    BY <1>6
  <2>2. w[1] = <<Out, Program>>
    BY <1>1, <1>2, <1>3, <2>1
  <2>3. w = <<w[1]>>
    BY <1>6
  <2> QED
    BY <2>2, <2>3
<1> QED
  BY <1>4, <1>5, <1>6

(***************************************************************************)
(* For any number of calls and threads, with threads reporting errors at   *)
(* every point, also between fflush and fork: the line before a call is    *)
(* written once at most, by the program and to its own output, before the  *)
(* call has a child; no line is lost before the program ends, and none     *)
(* then; a thread's line is written once by the program and once more by a *)
(* single child at most.  A redirected command has its file as standard    *)
(* output under no other descriptor.                                       *)
(***************************************************************************)
THEOREM OutputSafe == Spec => []OutputInv
<1>1. SysInd => CommandOutput
  <2> SUFFICES ASSUME SysInd, NEW n \in Calls, child[n].pc = "command"
               PROVE  /\ Files(child[n].fds, STDOUT) =
                           {IF child[n].kind = "do_exec_redirect" THEN n ELSE Out}
                      /\ Cardinality({d \in child[n].fds : d[2] = n}) <= 1
    BY DEF CommandOutput
  <2>1. /\ OutputIs(child[n].fds, IF child[n].kind = "do_exec_redirect" THEN n ELSE Out)
        /\ \A d \in child[n].fds : d[2] = n => d[1] = STDOUT
        /\ child[n].fds \subseteq Int \X Int
    BY DEF SysInd, ChildrenOK, ChildOK, ChildRecords
  <2>2. {d \in child[n].fds : d[2] = n} \subseteq {<<STDOUT, n>>}
    <3>1. \A d \in Int \X Int : d = <<d[1], d[2]>>
      OBVIOUS
    <3> QED
      BY <2>1, <3>1
  <2>3. Cardinality({d \in child[n].fds : d[2] = n}) <= 1
    <3>1. IsFiniteSet({<<STDOUT, n>>}) /\ Cardinality({<<STDOUT, n>>}) = 1
      BY FS_Singleton
    <3> QED
      BY <2>2, <3>1, FS_Subset
  <2> QED
    BY <2>1, <2>3, OutputFile
<1>2. LineInd /\ SysInd => OutputInv
  <2> SUFFICES ASSUME LineInd, SysInd PROVE OutputInv
    OBVIOUS
  <2>1. \A l \in Calls \cup Threads : LineOK(l) /\ written[l] \in Seq(Int \X Int)
    BY SysAssumption, ThreadAssumption DEF LineInd, StdioTypeOK
  <2>2. CallLinesOnce
    BY <2>1, NoChildCopy DEF LineOK, CallLinesOnce
  <2>3. \A n \in Calls : ByProgram(written[n]) => written[n] # << >>
    BY LenZero DEF ByProgram
  <2>4. CallLinesKept /\ PrintedBeforeChild
    <3>1. 1..caller.n \subseteq Calls
      BY SysAssumption DEF SysInd, CallerOK, Calls
    <3> QED
      BY <2>1, <2>3, <3>1 DEF LineOK, Printed, CallLinesKept, PrintedBeforeChild
  <2>5. ASSUME NEW t \in Threads PROVE
          /\ Reported(t) => t \in buffer \/ <<Out, Program>> \in {written[t][i] : i \in 1..Len(written[t])}
          /\ Sound(written[t])
    <3>1. LineOK(t) /\ written[t] \in Seq(Int \X Int)
      BY <2>1
    <3>2. \A i \in 1..Len(written[t]) : written[t][i] \in Int \X Int
      BY <3>1
    <3>3. ASSUME NEW i \in 1..Len(written[t]), written[t][i][2] = Program
          PROVE  written[t][i] = <<Out, Program>>
      <4>1. written[t][i][1] = Out
        BY <3>1, <3>3 DEF LineOK, Sound
      <4> QED
        BY <3>2, <3>3, <4>1
    <3>4. ByProgram(written[t]) => \E i \in 1..Len(written[t]) : written[t][i] = <<Out, Program>>
      BY <3>3 DEF ByProgram
    <3> QED
      BY <3>1, <3>4 DEF LineOK, Printed
  <2>6. ThreadLines
    BY <2>5 DEF ThreadLines, Sound
  <2> QED
    BY <1>1, <2>2, <2>4, <2>6 DEF LineInd, OutputInv
<1>3. Init /\ [][Next]_vars => [](LineInd /\ SysInd /\ ThrInd)
  BY SysIndInductive, LineIndInductive, ThrIndInductive, PTL
<1> QED
  BY <1>2, <1>3, PTL DEF Spec

=============================================================================
