----------------------------- MODULE AesdSocket -----------------------------
(***************************************************************************)
(* The socket server server/aesdsocket.c, built for /dev/aesdchar: the     *)
(* main thread that accepts connections and starts a handler thread for    *)
(* each, the handlers that receive a packet under the mutex and send the   *)
(* device's content back without it, and the signal handler that cancels   *)
(* and joins them.  The device is CommandLog, which AesdChar implements.   *)
(* A handler is named by the client it serves.                             *)
(***************************************************************************)
EXTENDS Integers, Sequences, SequencesExt

CONSTANTS Clients,    \* the clients that connect, once each
          Packet,     \* what each client sends
          Header,     \* the bytes "AESDCHAR_IOCSEEKTO:"
          NL,
          Nobody,
          Capacity,   \* how many commands the device remembers
          Faults      \* what may go wrong: a subset of FaultKinds

FaultKinds ==
  {"startup",    \* socket, bind or listen fails
   "signal",     \* SIGINT or SIGTERM arrives
   "second",     \* the other one arrives while the first is handled
   "disconnect", \* a client goes away before it has sent its whole packet
   "reset",      \* a client goes away before it has been answered
   "write",      \* the device refuses a write
   "open",       \* the device cannot be opened
   "accept",     \* accept fails
   "create"}     \* pthread_create fails

\* The characters the clients send.
Characters == UNION {Range(Packet[c]) : c \in Clients}

ASSUME ServerAssumption ==
  /\ Nobody \notin Clients
  /\ Packet \in [Clients -> Seq(Characters)]
  /\ Capacity \in Nat \ {0}
  /\ Faults \subseteq FaultKinds

VARIABLES main,      \* where the main thread is
          accepted,  \* the client whose connection main is handling
          waiting,   \* the clients that have connected and are not accepted
          list,      \* the nodes in the list at head
          bogus,     \* the listed nodes whose thread_id was never set
          freed,     \* the nodes the signal handler has freed
          joined,    \* the listed nodes whose threads have been joined
          signals,   \* how many of SIGINT and SIGTERM are being handled
          held,      \* the library locks held by the code that a signal has interrupted
          th,        \* where each handler thread is
          cancel,    \* the threads with a pending cancellation request
          mutex,     \* the owner of mutex
          unsent,    \* what each client has yet to send
          gone,      \* the clients that have closed their end
          buffer,    \* the chunk each handler has received last
          pos,       \* the file position of each handler's descriptor
          start,     \* where each handler began to read back
          sent,      \* what each client has been sent
          commands,  \* the device
          partial

device   == <<commands, partial>>
shutdown == <<joined, signals, held>>
mainvars == <<main, accepted, waiting, list, bogus, freed, shutdown>>
vars     == <<mainvars, th, cancel, mutex, unsent, gone, buffer, pos, start, sent, device>>

Device == INSTANCE CommandLog WITH Chunks <- {}

Stored == FlattenSeq(commands)

\* The process is there: its threads run.
Alive == main \notin {"exited", "failed", "killed", "crashed"}

\* The thread is not running: not started, returned or cancelled.
Ended(c) == th[c] \in {"none", "done", "cancelled"}

Goto(c, label) == th' = [th EXCEPT ![c] = label]

-----------------------------------------------------------------------------
(* Clients                                                                 *)

Connect(c) ==
  /\ Alive /\ main # "setup" /\ th[c] = "none" /\ c \notin waiting /\ c # accepted /\ c \notin list
  /\ waiting' = waiting \cup {c}
  /\ UNCHANGED <<main, accepted, list, bogus, freed, shutdown, th, cancel, mutex, unsent, gone,
                 buffer, pos, start, sent, device>>

\* A client closes its end before it has sent everything, or before it has
\* been answered.
Disconnect(c) ==
  /\ Alive /\ c \notin gone /\ th[c] \notin {"done", "cancelled"}
  /\ c \in waiting \cup {accepted} \cup list
  /\ \/ "disconnect" \in Faults /\ unsent[c] # << >>
     \/ "reset" \in Faults /\ unsent[c] = << >>
  /\ gone' = gone \cup {c}
  /\ UNCHANGED <<mainvars, th, cancel, mutex, unsent, buffer, pos, start, sent, device>>

-----------------------------------------------------------------------------
(* main                                                                    *)

Startup ==
  /\ main = "setup"
  /\ \/ main' = "accept"
     \/ "startup" \in Faults /\ main' = "failed"
  /\ UNCHANGED <<accepted, waiting, list, bogus, freed, shutdown, th, cancel, mutex, unsent, gone,
                 buffer, pos, start, sent, device>>

Accept(c) ==
  /\ main = "accept" /\ c \in waiting
  /\ waiting' = waiting \ {c}
  /\ \/ main' = "create" /\ accepted' = c
     \/ "accept" \in Faults /\ main' = "failed" /\ UNCHANGED accepted
  /\ UNCHANGED <<list, bogus, freed, shutdown, th, cancel, mutex, unsent, gone, buffer, pos, start,
                 sent, device>>

\* The message, the node and the thread of the connection.  pthread_create
\* reports an error with a positive number, which the test for a negative one
\* does not see.
CreateThread ==
  /\ main = "create"
  /\ \/ Goto(accepted, "start") /\ UNCHANGED bogus
     \/ "create" \in Faults /\ bogus' = bogus \cup {accepted} /\ UNCHANGED th
  /\ main' = "insert"
  /\ UNCHANGED <<accepted, waiting, list, freed, shutdown, cancel, mutex, unsent, gone, buffer, pos,
                 start, sent, device>>

InsertNode ==
  /\ main = "insert"
  /\ list' = list \cup {accepted}
  /\ accepted' = Nobody
  /\ main' = "accept"
  /\ UNCHANGED <<waiting, bogus, freed, shutdown, th, cancel, mutex, unsent, gone, buffer, pos, start,
                 sent, device>>

-----------------------------------------------------------------------------
(* handle_signal, on the main thread: it never returns                     *)

\* The library locks that the calls of main at this point hold for a while:
\* syslog, malloc and pthread_create, or the handler's own.
LibraryLocks ==
  CASE main = "create"   -> {"syslog", "heap", "stacks"}
    [] main = "sig_log"  -> {"syslog"}
    [] main = "sig_join" -> {"stacks"}
    [] main = "sig_free" -> {"heap"}
    [] OTHER             -> {}

\* The handler begins; what it has interrupted keeps the lock it may hold.
Interrupt(number) ==
  /\ main' = "sig_log" /\ signals' = number
  /\ held' \in {held} \cup {held \cup {lock} : lock \in LibraryLocks}
  /\ UNCHANGED <<accepted, waiting, list, bogus, freed, joined, th, cancel, mutex, unsent, gone,
                 buffer, pos, start, sent, device>>

handle_signal ==
  /\ main \in {"accept", "create", "insert"} /\ "signal" \in Faults
  /\ Interrupt(1)

\* Only the signal that is handled is blocked: the other one interrupts the
\* handler and begins it anew.
SecondSignal ==
  /\ main \in {"sig_log", "sig_cancel", "sig_join", "sig_free", "hung"}
  /\ signals = 1 /\ "second" \in Faults
  /\ Interrupt(2)

\* The handler waits for ever in a call whose lock it has interrupted.
Hang(lock) ==
  /\ lock \in held
  /\ main' = "hung"
  /\ UNCHANGED <<accepted, waiting, list, bogus, freed, shutdown, th, cancel, mutex, unsent, gone,
                 buffer, pos, start, sent, device>>

LogSignal ==
  /\ main = "sig_log"
  /\ \/ Hang("syslog")
     \/ /\ "syslog" \notin held /\ main' = "sig_cancel"
        /\ UNCHANGED <<accepted, waiting, list, bogus, freed, shutdown, th, cancel, mutex, unsent,
                       gone, buffer, pos, start, sent, device>>

\* To cancel a thread_id that was never set, or whose thread has been joined,
\* is undefined: the process may crash.
CancelThreads ==
  /\ main = "sig_cancel"
  /\ \/ main' = "sig_join" /\ cancel' = list
     \/ list \cap (bogus \cup joined) # {} /\ main' = "crashed" /\ UNCHANGED cancel
  /\ UNCHANGED <<accepted, waiting, list, bogus, freed, shutdown, th, mutex, unsent, gone, buffer,
                 pos, start, sent, device>>

\* Plausible bugs: a thread is not waited for; a thread that was cancelled is
\* waited for as if it could still finish.
Mutant_Join(c) ==
  /\ main = "sig_join" /\ c \in list \ joined /\ "stacks" \notin held
  /\ joined' = joined \cup {c}
  /\ UNCHANGED <<main, accepted, waiting, list, bogus, freed, signals, held, th, cancel, mutex,
                 unsent, gone, buffer, pos, start, sent, device>>

Mutant_JoinDone(c) ==
  /\ main = "sig_join" /\ c \in list \ joined /\ "stacks" \notin held /\ th[c] = "done"
  /\ joined' = joined \cup {c}
  /\ UNCHANGED <<main, accepted, waiting, list, bogus, freed, signals, held, th, cancel, mutex,
                 unsent, gone, buffer, pos, start, sent, device>>

\* The stack of a thread that is joined goes back to the list of stacks.
JoinThread(c) ==
  /\ main = "sig_join" /\ c \in list \ joined /\ Ended(c) /\ "stacks" \notin held
  /\ joined' = joined \cup {c}
  /\ UNCHANGED <<main, accepted, waiting, list, bogus, freed, signals, held, th, cancel, mutex,
                 unsent, gone, buffer, pos, start, sent, device>>

JoinHangs(c) ==
  /\ main = "sig_join" /\ c \in list \ joined /\ Ended(c)
  /\ Hang("stacks")

ThreadsJoined ==
  /\ main = "sig_join" /\ list \subseteq joined
  /\ main' = "sig_free"
  /\ UNCHANGED <<accepted, waiting, list, bogus, freed, shutdown, th, cancel, mutex, unsent, gone,
                 buffer, pos, start, sent, device>>

\* free needs the heap's lock unless the block fits into the thread's own cache.
FreeHangs ==
  /\ main = "sig_free" /\ list # {}
  /\ Hang("heap")

FreeNode(c) ==
  /\ main = "sig_free" /\ c \in list
  /\ list' = list \ {c} /\ freed' = freed \cup {c}
  /\ UNCHANGED <<main, accepted, waiting, bogus, shutdown, th, cancel, mutex, unsent, gone, buffer, pos,
                 start, sent, device>>

\* The mutex is destroyed, the socket closed, the process ends.
Shutdown ==
  /\ main = "sig_free" /\ list = {}
  /\ main' = "exited"
  /\ UNCHANGED <<accepted, waiting, list, bogus, freed, shutdown, th, cancel, mutex, unsent, gone,
                 buffer, pos, start, sent, device>>

-----------------------------------------------------------------------------
(* connection_handler                                                      *)

\* A thread acts on a cancellation request only in these calls.  It leaves its
\* descriptors open and, in the first four, the mutex locked.
CancellationPoints == {"open", "recv", "write", "log", "read", "send", "close"}

Cancelled(c) ==
  /\ Alive /\ c \in cancel /\ th[c] \in CancellationPoints
  /\ Goto(c, "cancelled")
  /\ UNCHANGED <<mainvars, cancel, mutex, unsent, gone, buffer, pos, start, sent, device>>

BlockSignals(c) ==
  /\ Alive /\ th[c] = "start"
  /\ Goto(c, "lock")
  /\ UNCHANGED <<mainvars, cancel, mutex, unsent, gone, buffer, pos, start, sent, device>>

\* A plausible bug: the mutex is not waited for.
Mutant_Lock(c) ==
  /\ Alive /\ th[c] = "lock"
  /\ mutex' = c
  /\ Goto(c, "open")
  /\ UNCHANGED <<mainvars, cancel, unsent, gone, buffer, pos, start, sent, device>>

Lock(c) ==
  /\ Alive /\ th[c] = "lock" /\ mutex = Nobody
  /\ mutex' = c
  /\ Goto(c, "open")
  /\ UNCHANGED <<mainvars, cancel, unsent, gone, buffer, pos, start, sent, device>>

Open(c) ==
  /\ Alive /\ th[c] = "open"
  /\ \/ Goto(c, "recv") /\ UNCHANGED main
     \/ "open" \in Faults /\ "syslog" \notin held /\ main' = "failed" /\ UNCHANGED th
  /\ UNCHANGED <<accepted, waiting, list, bogus, freed, shutdown, cancel, mutex, unsent, gone, buffer,
                 pos, start, sent, device>>

\* strncmp may find the header in a chunk that begins with it, and in a shorter
\* one if the bytes behind it in the buffer, old ones or never set, complete it.
MayBeSeek(chunk) == IsPrefix(Header, chunk) \/ IsStrictPrefix(chunk, Header)

\* TCP delivers any part of what has been sent.
RecvChunk(c, n) ==
  LET chunk == SubSeq(unsent[c], 1, n)
  IN /\ Alive /\ th[c] = "recv" /\ c \notin gone /\ n \in 1..Len(unsent[c])
     /\ buffer' = [buffer EXCEPT ![c] = chunk]
     /\ unsent' = [unsent EXCEPT ![c] = SubSeq(@, n + 1, Len(@))]
     /\ \/ MayBeSeek(chunk) /\ Goto(c, "ioctl")
        \/ ~IsPrefix(Header, chunk) /\ Goto(c, "write")
     /\ UNCHANGED <<mainvars, cancel, mutex, gone, pos, start, sent, device>>

\* recv returns 0 or an error: the loop ends.
RecvEnds(c) ==
  /\ Alive /\ th[c] = "recv" /\ c \in gone
  /\ Goto(c, "unlock")
  /\ UNCHANGED <<mainvars, cancel, mutex, unsent, gone, buffer, pos, start, sent, device>>

\* The result of write is not looked at; the file position stays.
Write(c) ==
  /\ Alive /\ th[c] = "write"
  /\ \/ Device!Write(buffer[c])
     \/ "write" \in Faults /\ UNCHANGED device
  /\ Goto(c, "log")
  /\ UNCHANGED <<mainvars, cancel, mutex, unsent, gone, buffer, pos, start, sent>>

\* AESDCHAR_IOCSEEKTO moves the file to some stored byte, or fails.
Ioctl(c) ==
  /\ Alive /\ th[c] = "ioctl"
  /\ \E x \in 0..(Len(Stored) - 1) \cup {pos[c]} : pos' = [pos EXCEPT ![c] = x]
  /\ Goto(c, "log")
  /\ UNCHANGED <<mainvars, cancel, mutex, unsent, gone, buffer, start, sent, device>>

\* After the log message the packet ends if the chunk ended with a newline.
EndOfPacket(c) ==
  /\ Alive /\ th[c] = "log" /\ "syslog" \notin held
  /\ Goto(c, IF Last(buffer[c]) = NL THEN "unlock" ELSE "recv")
  /\ UNCHANGED <<mainvars, cancel, mutex, unsent, gone, buffer, pos, start, sent, device>>

\* Plausible bugs: the answer starts at the end of the data, as if writing moved
\* the position; the mutex is kept.
Mutant_Unlock_at_end(c) ==
  /\ Alive /\ th[c] = "unlock"
  /\ mutex' = Nobody
  /\ start' = [start EXCEPT ![c] = Len(Stored)] /\ pos' = [pos EXCEPT ![c] = Len(Stored)]
  /\ Goto(c, "read")
  /\ UNCHANGED <<mainvars, cancel, unsent, gone, buffer, sent, device>>

Mutant_Unlock_keeps(c) ==
  /\ Alive /\ th[c] = "unlock"
  /\ start' = [start EXCEPT ![c] = pos[c]]
  /\ Goto(c, "read")
  /\ UNCHANGED <<mainvars, mutex, cancel, unsent, gone, buffer, pos, sent, device>>

Unlock(c) ==
  /\ Alive /\ th[c] = "unlock"
  /\ mutex' = Nobody
  /\ start' = [start EXCEPT ![c] = pos[c]]
  /\ Goto(c, "read")
  /\ UNCHANGED <<mainvars, cancel, unsent, gone, buffer, pos, sent, device>>

\* One read returns the rest of the stored command at the file position.
RestOfCommand(p) ==
  LET ends == {Len(FlattenSeq(SubSeq(commands, 1, k))) : k \in 1..Len(commands)}
  IN SubSeq(Stored, p + 1, CHOOSE e \in ends : e > p /\ \A x \in ends : x > p => e <= x)

\* A plausible bug: the file position does not move with the bytes read.
Mutant_Read(c) ==
  /\ Alive /\ th[c] = "read" /\ pos[c] < Len(Stored)
  /\ buffer' = [buffer EXCEPT ![c] = RestOfCommand(pos[c])]
  /\ pos' = [pos EXCEPT ![c] = @ + 1]
  /\ Goto(c, "send")
  /\ UNCHANGED <<mainvars, cancel, mutex, unsent, gone, start, sent, device>>

Read(c) ==
  /\ Alive /\ th[c] = "read" /\ pos[c] < Len(Stored)
  /\ buffer' = [buffer EXCEPT ![c] = RestOfCommand(pos[c])]
  /\ pos' = [pos EXCEPT ![c] = @ + Len(RestOfCommand(pos[c]))]
  /\ Goto(c, "send")
  /\ UNCHANGED <<mainvars, cancel, mutex, unsent, gone, start, sent, device>>

\* Past the last byte the device answers EFAULT, which ends the loop.
ReadEnds(c) ==
  /\ Alive /\ th[c] = "read" /\ pos[c] >= Len(Stored)
  /\ Goto(c, "close")
  /\ UNCHANGED <<mainvars, cancel, mutex, unsent, gone, buffer, pos, start, sent, device>>

\* Sending to a client that has gone raises SIGPIPE, which ends the process.
Send(c) ==
  /\ Alive /\ th[c] = "send"
  /\ sent' = [sent EXCEPT ![c] = @ \o buffer[c]]
  /\ \/ Goto(c, "read") /\ UNCHANGED main
     \/ c \in gone /\ main' = "killed" /\ UNCHANGED th
  /\ UNCHANGED <<accepted, waiting, list, bogus, freed, shutdown, cancel, mutex, unsent, gone, buffer,
                 pos, start, device>>

Close(c) ==
  /\ Alive /\ th[c] = "close" /\ "syslog" \notin held
  /\ Goto(c, "done")
  /\ UNCHANGED <<mainvars, cancel, mutex, unsent, gone, buffer, pos, start, sent, device>>

-----------------------------------------------------------------------------

Init ==
  /\ main = "setup" /\ accepted = Nobody
  /\ waiting = {} /\ list = {} /\ bogus = {} /\ freed = {}
  /\ joined = {} /\ signals = 0 /\ held = {}
  /\ th = [c \in Clients |-> "none"]
  /\ cancel = {} /\ mutex = Nobody
  /\ unsent = Packet /\ gone = {}
  /\ buffer = [c \in Clients |-> << >>]
  /\ pos = [c \in Clients |-> 0] /\ start = [c \in Clients |-> 0]
  /\ sent = [c \in Clients |-> << >>]
  /\ Device!Init

MainStep ==
  \/ Startup \/ CreateThread \/ InsertNode
  \/ \E c \in Clients : Accept(c) \/ JoinThread(c) \/ JoinHangs(c) \/ FreeNode(c)
  \/ LogSignal \/ CancelThreads \/ ThreadsJoined \/ FreeHangs \/ Shutdown

HandlerStep(c) ==
  \/ BlockSignals(c) \/ Lock(c) \/ Open(c)
  \/ \E n \in 1..Len(unsent[c]) : RecvChunk(c, n)
  \/ RecvEnds(c) \/ Write(c) \/ Ioctl(c) \/ EndOfPacket(c) \/ Unlock(c)
  \/ Read(c) \/ ReadEnds(c) \/ Send(c) \/ Close(c)

Next ==
  \/ MainStep \/ handle_signal \/ SecondSignal
  \/ \E c \in Clients : Connect(c) \/ Disconnect(c) \/ Cancelled(c) \/ HandlerStep(c)

Spec == Init /\ [][Next]_vars

\* Threads that can run are scheduled, blocked calls notice a cancellation, and
\* clients send what they have or go away.
FairSpec ==
  /\ Spec /\ WF_vars(MainStep)
  /\ \A c \in Clients : WF_vars(HandlerStep(c)) /\ WF_vars(Cancelled(c))

-----------------------------------------------------------------------------
(* Properties                                                              *)

Threads == {"none", "start", "lock", "open", "recv", "write", "ioctl", "log", "unlock",
            "read", "send", "close", "done", "cancelled"}

ServerTypeOK ==
  /\ main \in {"setup", "accept", "create", "insert", "sig_log", "sig_cancel", "sig_join",
               "sig_free", "hung", "exited", "failed", "killed", "crashed"}
  /\ held \subseteq {"syslog", "heap", "stacks"}
  /\ accepted \in Clients \cup {Nobody} /\ mutex \in Clients \cup {Nobody}
  /\ waiting \subseteq Clients /\ list \subseteq Clients /\ freed \subseteq Clients
  /\ joined \subseteq Clients /\ signals \in 0..2
  /\ bogus \subseteq Clients /\ cancel \subseteq Clients /\ gone \subseteq Clients
  /\ th \in [Clients -> Threads]
  /\ pos \in [Clients -> Nat] /\ start \in [Clients -> Nat]

\* The client whose packet a stored or unfinished byte is from; each client
\* sends its own name and newlines.
BytesOf(c) == {i \in 1..Len(Stored \o partial) : (Stored \o partial)[i] = c}

(***************************************************************************)
(* "Lock the mutex to prevent concurrent writes": the chunks of one packet *)
(* reach the device with no byte of another connection between them,       *)
(* however TCP cuts the packets and wherever a client or a write fails.    *)
(***************************************************************************)
PacketsContiguous ==
  \A c \in Clients : \A i, j \in BytesOf(c) : \A k \in i..j :
    (Stored \o partial)[k] \in {c, NL}

(***************************************************************************)
(* When a handler has read to the end, what it has sent its client is the  *)
(* device's content from the position where it began, although it reads in *)
(* several calls and without the mutex.                                    *)
(***************************************************************************)
ReadBackWhole ==
  [][\A c \in Clients : th[c] = "read" /\ th'[c] = "close" =>
       sent[c] = SubSeq(Stored, start[c] + 1, Len(Stored))]_vars

\* A client that sent a whole text packet gets at least that packet back.
OwnPacketAnswered ==
  \A c \in Clients :
    th[c] = "done" /\ unsent[c] = << >> /\ Last(Packet[c]) = NL /\ ~IsPrefix(Header, Packet[c])
      => \E i \in 1..Len(sent[c]) : sent[c][i] = c

\* What is stored and answered: packets stay whole in the device whatever the
\* handlers' order, and no answer misses the packet it is the answer to.
ServerInv == ServerTypeOK /\ PacketsContiguous /\ OwnPacketAnswered

\* A node is freed only when its thread, which reads it, has ended, even if a
\* second signal begins the shutdown anew.
NodesOutliveThreads == \A c \in freed : Ended(c)

\* After SIGINT or SIGTERM the server process ends.
SignalExits == main = "sig_log" ~> ~Alive

\* At most one handler is running.
Quiet == \A c, d \in Clients : Ended(c) \/ Ended(d) \/ c = d

(***************************************************************************)
(* "Gracefully exit each child thread": if at most one handler is running  *)
(* when the first signal arrives, the server ends, wherever that handler   *)
(* is, whatever else fails and whether or not the other signal follows.    *)
(* The exception is a signal that interrupts a call which holds a library  *)
(* lock: the signal handler may then wait for this lock for ever.          *)
(***************************************************************************)
SignalExitsQuiet ==
  main = "sig_log" /\ signals = 1 /\ Quiet ~> ~Alive \/ (main = "hung" /\ held # {})

\* Every client that connects is answered and its connection closed, whoever
\* else goes away, unless an answer to a client that has gone kills the server.
ClientsServed == \A c \in Clients : c \in waiting ~> th[c] = "done" \/ main = "killed"

=============================================================================
