---------------------------- MODULE SystemCalls ----------------------------
(***************************************************************************)
(* The calls of examples/systemcalls/systemcalls.c: a program runs         *)
(* commands with do_system, do_exec and do_exec_redirect one after the     *)
(* other.  The n-th call's child runs beside the caller from fork to       *)
(* waitpid.  Descriptors, fork, execv and waitpid are modelled from how    *)
(* the functions use them.                                                 *)
(***************************************************************************)
EXTENDS Stdio, FiniteSets

CONSTANTS MaxCalls,  \* bound: the calls the program makes
          OpenMax,   \* descriptors a process may have
          SysFaults  \* which calls may fail, a subset of SysFaultKinds

SysFaultKinds == {"open", "fork", "dup2", "close", "exec", "wait"}

Calls == 1..MaxCalls
STDOUT == 1

ASSUME SysAssumption ==
  /\ MaxCalls \in Nat \ {0} /\ OpenMax \in Nat /\ OpenMax >= 3
  /\ SysFaults \subseteq SysFaultKinds
  /\ Calls \subseteq Lines

VARIABLES caller,  \* where the program is: pc, number and kind of the call, fd
          fds,     \* its descriptors: number -> open file
          child,   \* the child of each call
          result   \* what each call returned

processes == <<caller, fds, child, result>>
sysvars   == <<processes, stdio>>

NoChild == [pc |-> "none", kind |-> "none", fd |-> -1, fds |-> {}, buffer |-> {},
            status |-> "none", ran |-> FALSE]

SysInit ==
  /\ caller = [pc |-> "idle", n |-> 0, kind |-> "none", fd |-> -1]
  /\ fds = {<<0, Out>>, <<STDOUT, Out>>, <<2, Out>>}
  /\ child = [n \in Calls |-> NoChild]
  /\ result = [n \in Calls |-> "none"]
  /\ StdioInit

Free(table) == {f \in 0..OpenMax-1 : \A d \in table : d[1] # f}
Files(table, f) == {d[2] : d \in {e \in table : e[1] = f}}

\* The file that standard output is.
Output(table) == CHOOSE f \in 0..MaxCalls : <<STDOUT, f>> \in table

Return(value) ==
  /\ result' = [result EXCEPT ![caller.n] = value]
  /\ caller' = [caller EXCEPT !.pc = "idle"]

\* exit in the program flushes its buffer.
ExitCaller ==
  /\ caller' = [caller EXCEPT !.pc = "exited"]
  /\ Flush(buffer, Output(fds), Program) /\ buffer' = {}
  /\ UNCHANGED result

-----------------------------------------------------------------------------
(* The caller                                                              *)

\* The program prints a line and calls one of the functions.
Call(kind) ==
  /\ caller.pc = "idle" /\ caller.n < MaxCalls
  /\ printf(caller.n + 1)
  /\ caller' = [pc |-> CASE kind = "do_system" -> "system"
                         [] kind = "do_exec" -> "flush"
                         [] kind = "do_exec_redirect" -> "open",
                n |-> caller.n + 1, kind |-> kind, fd |-> -1]
  /\ UNCHANGED <<fds, child, result>>

\* main returns.
ProgramEnds ==
  /\ caller.pc = "idle"
  /\ ExitCaller
  /\ UNCHANGED <<fds, child>>

\* system() runs a shell and waits; it returns 0 only if the command did.  It
\* flushes nothing, and its child has no use for the buffer.
do_system ==
  /\ caller.pc = "system"
  /\ \E status \in {"exit0", "exit1", "failed"} :
       /\ child' = [child EXCEPT ![caller.n] =
                      [NoChild EXCEPT !.pc = "reaped", !.status = status, !.ran = status = "exit0"]]
       /\ Return(IF status = "exit0" THEN "true" ELSE "false")
  /\ UNCHANGED <<fds, stdio>>

\* A failure ends the caller.
open_outputfile ==
  /\ caller.pc = "open"
  /\ \/ /\ Free(fds) # {}
        /\ LET fd == CHOOSE f \in Free(fds) : \A g \in Free(fds) : f <= g IN
             /\ fds' = fds \cup {<<fd, caller.n>>}
             /\ caller' = [caller EXCEPT !.pc = "flush", !.fd = fd]
        /\ UNCHANGED <<result, stdio>>
     \/ /\ Free(fds) = {} \/ "open" \in SysFaults
        /\ ExitCaller
        /\ UNCHANGED fds
  /\ UNCHANGED child

\* A plausible bug: fflush is left out.
Mutant_fflush ==
  /\ caller.pc = "flush"
  /\ caller' = [caller EXCEPT !.pc = "fork"]
  /\ UNCHANGED <<stdio, fds, child, result>>

fflush ==
  /\ caller.pc = "flush"
  /\ Flush(buffer, Output(fds), Program) /\ buffer' = {}
  /\ caller' = [caller EXCEPT !.pc = "fork"]
  /\ UNCHANGED <<fds, child, result>>

\* The child starts with copies of the caller's variables and descriptors, and of
\* the buffer with what other threads have printed since the fflush.
Forked == [NoChild EXCEPT !.pc = IF caller.kind = "do_exec" THEN "exec" ELSE "dup2",
                          !.kind = caller.kind, !.fd = caller.fd, !.fds = fds, !.buffer = buffer]

\* do_exec returns false when fork fails, do_exec_redirect ends the program.
fork ==
  /\ caller.pc = "fork"
  /\ \/ /\ child' = [child EXCEPT ![caller.n] = Forked]
        /\ caller' = [caller EXCEPT !.pc = "wait"]
        /\ UNCHANGED <<result, stdio>>
     \/ /\ "fork" \in SysFaults /\ UNCHANGED child
        /\ \/ caller.kind = "do_exec" /\ Return("false") /\ UNCHANGED stdio
           \/ caller.kind = "do_exec_redirect" /\ ExitCaller
  /\ UNCHANGED fds

\* A plausible bug: a child that was killed counts as one that exited with 0.
Mutant_waitpid ==
  /\ caller.pc = "wait" /\ child[caller.n].pc = "ended"
  /\ child' = [child EXCEPT ![caller.n].pc = "reaped"]
  /\ Return(IF child[caller.n].status # "exit1" THEN "true" ELSE "false")
  /\ UNCHANGED <<fds, stdio>>

waitpid ==
  /\ caller.pc = "wait" /\ child[caller.n].pc = "ended"
  /\ child' = [child EXCEPT ![caller.n].pc = "reaped"]
  /\ Return(IF child[caller.n].status = "exit0" THEN "true" ELSE "false")
  /\ UNCHANGED <<fds, stdio>>

\* A signal interrupts waitpid: the call returns false too (written
\* "interrupted" here) and the child goes on.
waitpid_failed ==
  /\ caller.pc = "wait" /\ "wait" \in SysFaults
  /\ Return("interrupted")
  /\ UNCHANGED <<fds, child, stdio>>

-----------------------------------------------------------------------------
(* The child of call n, until it has become the command                    *)

\* exit(EXIT_FAILURE) in the child flushes its copy of stdio's buffer.
ExitChild(n) ==
  /\ child' = [child EXCEPT ![n].pc = "ended", ![n].status = "exit1", ![n].buffer = {}]
  /\ Flush(child[n].buffer, Output(child[n].fds), n)

dup2(n) ==
  /\ child[n].pc = "dup2"
  /\ \/ /\ child' = [child EXCEPT ![n].pc = "close",
                       ![n].fds = {d \in child[n].fds : d[1] # STDOUT} \cup {<<STDOUT, n>>}]
        /\ UNCHANGED written
     \/ "dup2" \in SysFaults /\ ExitChild(n)
  /\ UNCHANGED <<caller, fds, buffer, result>>

close(n) ==
  /\ child[n].pc = "close"
  /\ \/ /\ child' = [child EXCEPT ![n].pc = "exec",
                       ![n].fds = {d \in child[n].fds : d[1] # child[n].fd}]
        /\ UNCHANGED written
     \/ "close" \in SysFaults /\ ExitChild(n)
  /\ UNCHANGED <<caller, fds, buffer, result>>

\* execv returns only if it fails; the command forgets the caller's buffer.
execv(n) ==
  /\ child[n].pc = "exec"
  /\ \/ /\ child' = [child EXCEPT ![n].pc = "command", ![n].ran = TRUE, ![n].buffer = {}]
        /\ UNCHANGED written
     \/ "exec" \in SysFaults /\ ExitChild(n)
  /\ UNCHANGED <<caller, fds, buffer, result>>

CommandEnds(n) ==
  /\ child[n].pc = "command"
  /\ \E status \in {"exit0", "exit1", "killed"} :
       child' = [child EXCEPT ![n].pc = "ended", ![n].status = status]
  /\ UNCHANGED <<caller, fds, result, stdio>>

CallerStep == do_system \/ open_outputfile \/ fflush \/ fork \/ waitpid \/ waitpid_failed
ChildStep(n) == dup2(n) \/ close(n) \/ execv(n) \/ CommandEnds(n)

SysNext ==
  \/ \E kind \in {"do_system", "do_exec", "do_exec_redirect"} : Call(kind)
  \/ CallerStep \/ ProgramEnds
  \/ \E n \in Calls : ChildStep(n)

-----------------------------------------------------------------------------
SysTypeOK ==
  /\ caller.pc \in {"idle", "system", "open", "flush", "fork", "wait", "exited"}
  /\ caller.kind = "do_exec_redirect" /\ caller.pc \in {"flush", "fork"} =>
       caller.fd \in 0..OpenMax-1
  /\ fds \subseteq (0..OpenMax-1) \X (0..MaxCalls)
  /\ \A n \in Calls : /\ child[n].pc \in {"none", "dup2", "close", "exec", "command", "ended", "reaped"}
                      /\ result[n] \in {"none", "true", "false", "interrupted"}

\* do_exec and its relatives return true only for a command that was really
\* started and has ended with status 0, and that has been waited for.
TrueMeansRan ==
  \A n \in Calls : result[n] = "true" =>
    child[n].ran /\ child[n].status = "exit0" /\ child[n].pc = "reaped"

\* What the program prints before a call is written at most once, by the program
\* itself and to its own output, also when the call's child fails and leaves
\* through exit, which flushes its copy of the buffer.
CallLinesOnce == \A n \in Calls : written[n] \in {<< >>, << <<Out, Program>> >>}

\* It is not lost: it waits in the buffer or has been written.
CallLinesKept == \A n \in 1..caller.n : n \in buffer \/ written[n] # << >>

\* It is written before do_exec or do_exec_redirect has a child, whose command
\* may print too.
PrintedBeforeChild == \A n \in Calls : child[n].kind # "none" => written[n] # << >>

\* A redirected command has the file as standard output, under no other
\* descriptor, and a command that is not redirected has the terminal.
CommandOutput ==
  \A n \in Calls : child[n].pc = "command" =>
    /\ Files(child[n].fds, STDOUT) = {IF child[n].kind = "do_exec_redirect" THEN n ELSE Out}
    /\ Cardinality({d \in child[n].fds : d[2] = n}) <= 1

\* The only children left behind when the program goes on are those of calls
\* whose waitpid a signal interrupted.
ChildrenReaped ==
  \A n \in Calls : child[n].pc \notin {"none", "reaped"} =>
    (n = caller.n /\ caller.pc = "wait") \/ result[n] = "interrupted"

\* What a caller may conclude from the result: true is a command that ran and
\* succeeded, and no child is left behind unless a signal came in between.
CallInv == SysTypeOK /\ TrueMeansRan /\ ChildrenReaped

\* do_exec_redirect's file "will be closed at completion of the function call".
FileClosed == caller.pc = "idle" => \A d \in fds : d[2] = Out

=============================================================================
