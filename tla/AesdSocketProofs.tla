-------------------------- MODULE AesdSocketProofs --------------------------
(***************************************************************************)
(* Proofs about the socket server for any clients, packets, faults and     *)
(* capacity of the device: the shutdown frees no node a thread still uses, *)
(* packets reach the device whole, answers are whole and contain what the  *)
(* client sent as long as the device forgets nothing, and it does forget   *)
(* nothing if it has room for all lines.                                   *)
(***************************************************************************)
EXTENDS AesdSocket, ListLemmas

\* The bytes in the device, the unfinished command included.
Content == Cat(Stored, partial)

\* Where main is before a signal arrives.
Serving == {"setup", "accept", "create", "insert"}

-----------------------------------------------------------------------------
(* The inductive invariants                                                *)

\* The variables that ServerTypeOK leaves out.
ContentTyped ==
  /\ unsent \in [Clients -> Seq(Characters)] /\ buffer \in [Clients -> Seq(Characters)]
  /\ sent \in [Clients -> Seq(Characters)]
  /\ commands \in Seq(Seq(Characters)) /\ partial \in Seq(Characters)

\* A connection has no thread before main creates one for it.
AcceptInv ==
  /\ main \in {"create", "insert"} => accepted \in Clients
  /\ main = "create" => th[accepted] = "none"
  /\ \A c \in waiting : th[c] = "none" /\ c # accepted

\* The threads that a shutdown has joined have ended, and only they are freed.
ShutdownInv ==
  /\ main \in Serving => joined = {}
  /\ \A c \in joined : Ended(c)
  /\ freed \subseteq joined
  /\ main = "sig_free" => list \subseteq joined

ServerBase == ServerTypeOK /\ ContentTyped /\ AcceptInv /\ ShutdownInv

\* Before its handler has received anything, and while it may write.
Unstarted == {"none", "start", "lock", "open"}
Receiving == {"recv", "write", "ioctl", "log"}

\* Only the owner of the mutex is in the part of the handler that it protects.
MutexInv == \A c \in Clients : th[c] \in Receiving \cup {"open", "unlock"} => mutex = c

\* No byte of s is another client's.
NoOthers(c, s) == \A i \in 1..Len(s) : s[i] \notin Clients \ {c}
\* In s, from the first byte that is c's name on, there are names of c and newlines.
Whole(c, s) == \A i \in 1..Len(s) : s[i] = c => \A k \in i..Len(s) : s[k] \in {c, NL}
\* t may be written behind s.
Follows(c, s, t) ==
  /\ Whole(c, s) /\ Whole(c, t)
  /\ (\E i \in 1..Len(s) : s[i] = c) => \A k \in 1..Len(t) : t[k] \in {c, NL}
\* The bytes that name c are contiguous in s.
Contiguous(c, s) ==
  \A i \in 1..Len(s) : \A j \in 1..Len(s) : \A k \in i..j :
    s[i] = c /\ s[j] = c => s[k] \in {c, NL}

\* What client c has still to send, and what its handler holds, continues what
\* the device has of its packet; nothing of it is there before.
PacketOf(c) ==
  /\ NoOthers(c, unsent[c]) /\ Contiguous(c, Content)
  /\ th[c] \in Unstarted =>
       unsent[c] = Packet[c] /\ \A i \in 1..Len(Content) : Content[i] # c
  /\ th[c] \in Receiving => Follows(c, Content, unsent[c])
  /\ th[c] = "write" =>
       /\ NoOthers(c, buffer[c])
       /\ Follows(c, Content, buffer[c]) /\ Follows(c, buffer[c], unsent[c])

PacketInv == \A c \in Clients : PacketOf(c)

\* The packets are made of the client's name and newlines, possibly behind
\* other characters that name nobody.
NamedPackets == \A c \in Clients : NoOthers(c, Packet[c]) /\ Whole(c, Packet[c])

\* The elements of s behind the first i, up to the j-th.
Piece(s, i, j) == SubSeq(s, i + 1, j)

\* What a handler has sent, with what it has read, is the device's content from
\* where it started to the file position.
AnswerOf(c) ==
  /\ pos[c] <= Len(Stored)
  /\ th[c] \in Unstarted \cup Receiving \cup {"unlock"} => sent[c] = << >>
  /\ th[c] \in {"read", "send"} => start[c] <= pos[c]
  /\ Alive /\ th[c] = "read" => sent[c] = Piece(Stored, start[c], pos[c])
  /\ Alive /\ th[c] = "send" => Cat(sent[c], buffer[c]) = Piece(Stored, start[c], pos[c])

AnswerInv == \A c \in Clients : AnswerOf(c)

\* The device has forgotten no command.
NothingForgotten == [][IsPrefix(commands, commands')]_vars

\* A byte of s names c.
Names(c, s) == \E i \in 1..Len(s) : s[i] = c
\* Nothing that a recv may return of s is taken for a seek command, or for the
\* beginning of one that old bytes in the buffer complete.
NoHeader(s) == \A i \in 0..Len(s) : \A j \in i..Len(s) : i # j => ~MayBeSeek(Piece(s, i, j))
\* Client c sends a text packet, as OwnPacketAnswered means it.
TextClient(c) == Last(Packet[c]) = NL /\ ~IsPrefix(Header, Packet[c])
\* A text packet names its client, and no cut makes a part of it a seek command.
TextPackets == \A c \in Clients : TextClient(c) => Names(c, Packet[c]) /\ NoHeader(Packet[c])

\* The rest of a text packet is text, and the handler of one never seeks.
RestOfText(c) ==
  /\ NoHeader(unsent[c]) /\ (unsent[c] # << >> => Last(unsent[c]) = NL)
  /\ th[c] \in Unstarted => unsent[c] = Packet[c]
  /\ th[c] # "ioctl"
  /\ th[c] \in Unstarted \cup Receiving \cup {"unlock"} => pos[c] = 0
  /\ th[c] \in {"read", "send"} => start[c] = 0

\* Until its handler has received the last byte of it, a text packet is partly
\* in the socket, in the handler's buffer or in the device.
NameOnTheWay(c) ==
  /\ th[c] = "recv" => unsent[c] # << >>
  /\ th[c] \in {"recv", "log"} => Names(c, unsent[c]) \/ Names(c, Content)
  /\ th[c] = "write" => Names(c, unsent[c]) \/ Names(c, buffer[c]) \/ Names(c, Content)

\* Then the device has completed a command with it, which the answer contains.
NameDelivered(c) ==
  unsent[c] = << >> =>
    /\ th[c] \in {"write", "log"} => buffer[c] # << >> /\ Last(buffer[c]) = NL
    /\ th[c] \in {"log", "unlock", "read", "send"} => Names(c, Stored)
    /\ th[c] \in {"close", "done"} => Names(c, sent[c])

TextOf(c) == RestOfText(c) /\ NameOnTheWay(c) /\ NameDelivered(c)

TextInv == \A c \in Clients : TextClient(c) => TextOf(c)

\* The newlines of client c's packet behind its first i bytes.
NewlinesFrom(c, i) == {k \in 1..Len(Packet[c]) : k > i /\ Packet[c][k] = NL}
\* The lines the packets bring, and the ones that have not reached the device.
PacketLines == [c \in Clients |-> Cardinality(NewlinesFrom(c, 0))]
Received(c) == Len(Packet[c]) - Len(unsent[c])
Holding(c) == IF th[c] = "write" /\ Contains(buffer[c], NL) THEN 1 ELSE 0
LinesLeft == [c \in Clients |-> Cardinality(NewlinesFrom(c, Received(c))) + Holding(c)]
\* The device has room for all the lines that all the clients send.
RoomForAll == IsFiniteSet(Clients) /\ Total(PacketLines) <= Capacity

\* What client c has yet to send is the end of its packet.
RestOfPacket(c) ==
  /\ Len(unsent[c]) <= Len(Packet[c])
  /\ \A k \in 1..Len(unsent[c]) : unsent[c][k] = Packet[c][Received(c) + k]

\* The commands of the device and the lines to come are at most the packets' lines.
LineInv ==
  /\ ~Contains(partial, NL)
  /\ \A c \in Clients : RestOfPacket(c)
  /\ Len(commands) + Total(LinesLeft) <= Total(PacketLines)

-----------------------------------------------------------------------------
(* Types, main and the shutdown                                            *)

\* One read returns a piece of the content that begins at the file position.
LEMMA RestIs ==
  ASSUME commands \in Seq(Seq(Characters)), NEW p \in Nat, p < Len(Stored)
  PROVE  /\ RestOfCommand(p) \in Seq(Characters)
         /\ \E e \in (p + 1)..Len(Stored) :
              RestOfCommand(p) = SubSeq(Stored, p + 1, e) /\ p + Len(RestOfCommand(p)) = e
<1> DEFINE End(k) == Len(FlattenSeq(SubSeq(commands, 1, k)))
           ends == {End(k) : k \in 1..Len(commands)}
           later == {e \in ends : e > p}
           Nearest(e) == e \in ends /\ e > p /\ \A x \in ends : x > p => e <= x
           e == CHOOSE x \in ends : x > p /\ \A y \in ends : y > p => x <= y
<1>1. Stored \in Seq(Characters) /\ Len(Stored) \in Nat
  BY FlattenTyped, LenZero DEF Stored
<1>2. Len(commands) \in Nat /\ Len(commands) # 0
  <2>1. commands # << >>
    BY <1>1, FlattenEmpty, EmptySeq DEF Stored
  <2> QED
    BY <2>1, LenZero
<1>3. ASSUME NEW k \in 1..Len(commands) PROVE End(k) \in Nat
  <2>1. SubSeq(commands, 1, k) \in Seq(Seq(Characters))
    BY <1>2, SubSeqProperties
  <2> QED
    BY <2>1, FlattenTyped, LenZero
<1>4. Len(Stored) \in ends
  <2>1. SubSeq(commands, 1, Len(commands)) = commands
    BY SubSeqFull
  <2>2. End(Len(commands)) = Len(Stored)
    BY <2>1, Zenon DEF Stored
  <2>3. Len(commands) \in 1..Len(commands)
    BY <1>2
  <2> QED
    BY <2>2, <2>3
<1> HIDE DEF End
<1>5. ends \subseteq Nat
  BY <1>3
<1>6. Len(Stored) \in later /\ later \in SUBSET Nat
  BY <1>1, <1>4, <1>5
<1>7. \E x \in ends : x > p /\ \A y \in ends : y > p => x <= y
  <2>1. PICK x \in later : \A y \in later : x <= y
    BY <1>6, LeastMember
  <2> QED
    BY <2>1
<1> HIDE DEF ends
<1>8. e \in ends /\ e > p /\ \A y \in ends : y > p => e <= y
  BY <1>7
<1>9. RestOfCommand(p) = SubSeq(Stored, p + 1, e)
  BY DEF RestOfCommand, ends, End
<1> HIDE DEF e
<1>10. e \in Nat /\ e \in (p + 1)..Len(Stored)
  BY <1>1, <1>4, <1>5, <1>8
<1>11. /\ SubSeq(Stored, p + 1, e) \in Seq(Characters)
       /\ Len(SubSeq(Stored, p + 1, e)) = e - p
  <2>1. \A i \in (p + 1)..e : Stored[i] \in Characters
    BY <1>1, <1>10
  <2>2. p + 1 \in Int /\ e \in Int /\ p + 1 <= e /\ e - (p + 1) + 1 = e - p
    BY <1>10
  <2> QED
    BY <2>1, <2>2, SubSeqProperties
<1> QED
  BY <1>9, <1>10, <1>11

\* A write keeps the device's commands sequences of characters.
LEMMA DeviceWriteTyped ==
  ASSUME ContentTyped, NEW chunk \in Seq(Characters), Device!Write(chunk)
  PROVE  commands' \in Seq(Seq(Characters)) /\ partial' \in Seq(Characters)
<1> DEFINE line == partial \o chunk
           kept == IF Len(commands) = Capacity THEN Tail(commands) ELSE commands
<1>1. commands \in Seq(Seq(Characters)) /\ partial \in Seq(Characters)
  BY DEF ContentTyped
<1>2. line \in Seq(Characters)
  BY <1>1, ConcatProperties
<1>3. Capacity # 0 /\ Capacity \in Nat
  BY ServerAssumption
<1>4. kept \in Seq(Seq(Characters))
  BY <1>1, <1>3, LenZero, HeadTailProperties
<1>5. \/ commands' = Append(kept, line) /\ partial' = << >>
      \/ commands' = commands /\ partial' = line
  BY DEF Device!Write
<1> HIDE DEF line, kept
<1>6. Append(kept, line) \in Seq(Seq(Characters)) /\ << >> \in Seq(Characters)
  BY <1>2, <1>4, AppendProperties, EmptySeq
<1> QED
  BY <1>1, <1>2, <1>5, <1>6

\* A handler's step moves one thread that is running, writes its own cells and
\* at most ends the process.
HandlerMoves(c) ==
  /\ ~Ended(c)
  /\ \E l \in Threads \ {"none", "start"} : th' = [th EXCEPT ![c] = l]
  /\ main' \in {main, "failed", "killed"}
  /\ UNCHANGED <<accepted, waiting, list, bogus, freed, joined, signals, held, cancel, gone>>

\* A handler's step, or its cancellation, moves its own thread alone, along the
\* handler's control flow.
LEMMA HandlerStepMoves ==
  ASSUME ServerTypeOK, NEW c \in Clients, HandlerStep(c) \/ Cancelled(c)
  PROVE  HandlerMoves(c)
<1>1. th \in [Clients -> Threads]
  BY DEF ServerTypeOK
<1>2. /\ ~Ended(c)
      /\ main' \in {main, "failed", "killed"}
      /\ UNCHANGED <<accepted, waiting, list, bogus, freed, joined, signals, held, cancel, gone>>
  BY DEF HandlerStep, Cancelled, CancellationPoints, BlockSignals, Lock, Open, RecvChunk, RecvEnds,
         Write, Ioctl, EndOfPacket, Unlock, Read, ReadEnds, Send, Close, Ended, mainvars, shutdown
<1>3. \E l \in Threads \ {"none", "start"} : th' = [th EXCEPT ![c] = l]
  <2>1. th[c] \notin {"none", "start"} /\ th' = th =>
          th[c] \in Threads \ {"none", "start"} /\ th' = [th EXCEPT ![c] = th[c]]
    BY <1>1
  <2>2. (th[c] \in {"open", "send"} /\ th' = th) \/ \E l \in Threads \ {"none", "start"} : Goto(c, l)
    BY DEF HandlerStep, Cancelled, BlockSignals, Lock, Open, RecvChunk, RecvEnds,
           Write, Ioctl, EndOfPacket, Unlock, Read, ReadEnds, Send, Close, Threads
  <2> QED
    BY <2>1, <2>2 DEF Goto
<1> QED
  BY <1>2, <1>3 DEF HandlerMoves

\* The data of a handler's step keeps its type.
LEMMA HandlerTyped ==
  ASSUME ServerTypeOK, ContentTyped, NEW c \in Clients, HandlerStep(c) \/ Cancelled(c)
  PROVE  /\ ContentTyped' /\ mutex' \in Clients \cup {Nobody}
         /\ pos' \in [Clients -> Nat] /\ start' \in [Clients -> Nat]
<1>1. /\ unsent \in [Clients -> Seq(Characters)] /\ buffer \in [Clients -> Seq(Characters)]
      /\ sent \in [Clients -> Seq(Characters)]
      /\ commands \in Seq(Seq(Characters)) /\ partial \in Seq(Characters)
      /\ mutex \in Clients \cup {Nobody} /\ pos \in [Clients -> Nat] /\ start \in [Clients -> Nat]
  BY DEF ServerTypeOK, ContentTyped
<1>2. CASE \/ Cancelled(c) \/ BlockSignals(c) \/ Lock(c) \/ Open(c) \/ RecvEnds(c)
           \/ EndOfPacket(c) \/ ReadEnds(c) \/ Close(c)
  <2>1. /\ UNCHANGED <<unsent, buffer, sent, commands, partial, pos, start>>
        /\ mutex' \in {mutex, c}
    BY <1>2 DEF Cancelled, BlockSignals, Lock, Open, RecvEnds, EndOfPacket, ReadEnds, Close, device
  <2> QED
    BY <1>1, <2>1 DEF ContentTyped
<1>3. CASE Unlock(c)
  <2>1. /\ UNCHANGED <<unsent, buffer, sent, commands, partial, pos>>
        /\ mutex' = Nobody /\ start' = [start EXCEPT ![c] = pos[c]]
    BY <1>3 DEF Unlock, device
  <2> QED
    BY <1>1, <2>1 DEF ContentTyped
<1>4. CASE \E n \in 1..Len(unsent[c]) : RecvChunk(c, n)
  <2>1. PICK n \in 1..Len(unsent[c]) : RecvChunk(c, n)
    BY <1>4
  <2> DEFINE u == unsent[c]
             chunk == SubSeq(u, 1, n)
             rest == SubSeq(u, n + 1, Len(u))
  <2>2. /\ UNCHANGED <<sent, commands, partial, pos, start, mutex>>
        /\ buffer' = [buffer EXCEPT ![c] = chunk] /\ unsent' = [unsent EXCEPT ![c] = rest]
    BY <2>1 DEF RecvChunk, device
  <2>3. u \in Seq(Characters) /\ Len(u) \in Nat /\ \A i \in 1..Len(u) : u[i] \in Characters
    BY <1>1, SMTT(60)
  <2> HIDE DEF u
  <2>4. chunk \in Seq(Characters) /\ rest \in Seq(Characters)
    BY <2>3, SubSeqProperties DEF u
  <2> HIDE DEF chunk, rest
  <2> QED
    BY <1>1, <2>2, <2>4 DEF ContentTyped
<1>5. CASE Write(c)
  <2>1. /\ UNCHANGED <<unsent, buffer, sent, pos, start, mutex>>
        /\ Device!Write(buffer[c]) \/ UNCHANGED <<commands, partial>>
    BY <1>5 DEF Write, device
  <2>2. commands' \in Seq(Seq(Characters)) /\ partial' \in Seq(Characters)
    BY <1>1, <2>1, DeviceWriteTyped
  <2> QED
    BY <1>1, <2>1, <2>2 DEF ContentTyped
<1>6. CASE Ioctl(c)
  <2>1. /\ UNCHANGED <<unsent, buffer, sent, commands, partial, start, mutex>>
        /\ \E x \in 0..(Len(Stored) - 1) \cup {pos[c]} : pos' = [pos EXCEPT ![c] = x]
    BY <1>6 DEF Ioctl, device
  <2>2. Len(Stored) \in Nat
    BY <1>1, FlattenTyped, LenZero DEF Stored
  <2>3. pos' \in [Clients -> Nat]
    BY <1>1, <2>1, <2>2
  <2> QED
    BY <1>1, <2>1, <2>3 DEF ContentTyped
<1>7. CASE Read(c)
  <2> DEFINE r == RestOfCommand(pos[c])
  <2>1. /\ UNCHANGED <<unsent, sent, commands, partial, start, mutex>> /\ pos[c] < Len(Stored)
        /\ buffer' = [buffer EXCEPT ![c] = r] /\ pos' = [pos EXCEPT ![c] = pos[c] + Len(r)]
    BY <1>7 DEF Read, device
  <2>2. r \in Seq(Characters) /\ pos[c] \in Nat /\ Len(r) \in Nat
    BY <1>1, <2>1, RestIs, LenZero
  <2> HIDE DEF r
  <2> QED
    BY <1>1, <2>1, <2>2, SMTT(60) DEF ContentTyped
<1>8. CASE Send(c)
  <2> DEFINE s == sent[c] \o buffer[c]
  <2>1. /\ UNCHANGED <<unsent, buffer, commands, partial, pos, start, mutex>>
        /\ sent' = [sent EXCEPT ![c] = s]
    BY <1>8 DEF Send, device
  <2>2. s \in Seq(Characters)
    BY <1>1, ConcatProperties
  <2> HIDE DEF s
  <2> QED
    BY <1>1, <2>1, <2>2 DEF ContentTyped
<1> QED
  BY <1>2, <1>3, <1>4, <1>5, <1>6, <1>7, <1>8 DEF HandlerStep

\* Handlers keep what is known of main and of the shutdown: an ended thread stays
\* ended, and nobody but main joins or frees.
LEMMA HandlerBase ==
  ASSUME ServerBase, NEW c \in Clients, HandlerStep(c) \/ Cancelled(c)
  PROVE  ServerBase'
<1>1. ServerTypeOK /\ ContentTyped /\ AcceptInv /\ ShutdownInv
  BY DEF ServerBase
<1>2. /\ ContentTyped' /\ mutex' \in Clients \cup {Nobody}
      /\ pos' \in [Clients -> Nat] /\ start' \in [Clients -> Nat]
  BY <1>1, HandlerTyped
<1>3. /\ ~Ended(c) /\ main' \in {main, "failed", "killed"}
      /\ UNCHANGED <<accepted, waiting, list, bogus, freed, joined, signals, held, cancel, gone>>
  BY <1>1, HandlerStepMoves DEF HandlerMoves
<1>4. PICK l \in Threads \ {"none", "start"} : th' = [th EXCEPT ![c] = l]
  BY <1>1, HandlerStepMoves DEF HandlerMoves
<1>5. th \in [Clients -> Threads] /\ th' \in [Clients -> Threads]
  BY <1>1, <1>4 DEF ServerTypeOK
<1>6. ServerTypeOK'
  BY <1>1, <1>2, <1>3, <1>5 DEF ServerTypeOK
<1>7. AcceptInv'
  BY <1>1, <1>3, <1>4, <1>5 DEF AcceptInv, ServerTypeOK, Ended
<1>8. ShutdownInv'
  <2>1. \A d \in joined : d \in Clients /\ Ended(d)
    BY <1>1 DEF ShutdownInv, ServerTypeOK
  <2>2. \A d \in joined : d # c /\ th'[d] = th[d]
    BY <1>3, <1>4, <1>5, <2>1
  <2> QED
    BY <1>1, <1>3, <2>1, <2>2 DEF ShutdownInv, Ended, Serving
<1> QED
  BY <1>2, <1>6, <1>7, <1>8 DEF ServerBase

\* The steps of main and of the clients leave the data alone.
MainMoves ==
  \/ MainStep \/ handle_signal \/ SecondSignal
  \/ \E c \in Clients : Connect(c) \/ Disconnect(c)

\* Main, clients and signals leave the mutex, the packets and the device alone.
LEMMA MainFrame ==
  ASSUME MainMoves
  PROVE  UNCHANGED <<mutex, unsent, buffer, pos, start, sent, commands, partial>>
  BY DEF MainMoves, MainStep, handle_signal, SecondSignal, Connect, Disconnect, Startup, Accept,
         CreateThread, InsertNode, Interrupt, Hang, LogSignal, CancelThreads, JoinThread, JoinHangs,
         ThreadsJoined, FreeHangs, FreeNode, Shutdown,
         device

\* Main starts a thread for an accepted connection; otherwise no thread moves.
LEMMA MainThreads ==
  ASSUME ServerTypeOK, AcceptInv, MainMoves
  PROVE  \/ th' = th
         \/ /\ main = "create" /\ accepted \in Clients /\ th[accepted] = "none"
            /\ th' = [th EXCEPT ![accepted] = "start"]
  BY DEF MainMoves, MainStep, handle_signal, SecondSignal, Connect, Disconnect, Startup, Accept,
         CreateThread, InsertNode, Interrupt, Hang, LogSignal, CancelThreads, JoinThread, JoinHangs,
         ThreadsJoined, FreeHangs, FreeNode, Shutdown,
         Goto, AcceptInv, mainvars

\* A process that has ended has ended for good, and a dead one does nothing.
LEMMA MainAlive ==
  ASSUME MainMoves
  PROVE  Alive
  BY DEF MainMoves, MainStep, handle_signal, SecondSignal, Connect, Disconnect, Startup, Accept,
         CreateThread, InsertNode, Interrupt, Hang, LogSignal, CancelThreads, JoinThread, JoinHangs,
         ThreadsJoined, FreeHangs, FreeNode, Shutdown,
         Alive

\* Main, clients and signals keep it too: a thread is created for a new
\* connection only, joined when it has ended and freed when it is joined.
LEMMA MainBase ==
  ASSUME ServerBase, MainMoves
  PROVE  ServerBase'
<1>1. ServerTypeOK /\ ContentTyped /\ AcceptInv /\ ShutdownInv
  BY DEF ServerBase
<1>2. ContentTyped'
  BY <1>1, MainFrame DEF ContentTyped
<1>3. th \in [Clients -> Threads] /\ th' \in [Clients -> Threads]
  BY <1>1, MainThreads DEF ServerTypeOK, Threads
<1>4. CASE \E c \in Clients : Connect(c)
  <2>1. PICK c \in Clients : Connect(c)
    BY <1>4
  <2>2. /\ waiting' = waiting \cup {c} /\ th[c] = "none" /\ c # accepted
        /\ UNCHANGED <<main, accepted, list, bogus, freed, joined, signals, held, th, cancel, gone>>
    BY <2>1 DEF Connect, shutdown
  <2>3. ServerTypeOK'
    BY <1>1, <2>2, MainFrame DEF ServerTypeOK
  <2>4. AcceptInv' /\ ShutdownInv'
    BY <1>1, <2>2 DEF AcceptInv, ShutdownInv, Ended
  <2> QED
    BY <1>2, <2>3, <2>4 DEF ServerBase
<1>5. CASE \E c \in Clients : Disconnect(c)
  <2>1. PICK c \in Clients : Disconnect(c)
    BY <1>5
  <2>2. /\ gone' = gone \cup {c}
        /\ UNCHANGED <<main, accepted, waiting, list, bogus, freed, joined, signals, held, th, cancel>>
    BY <2>1 DEF Disconnect, mainvars, shutdown
  <2>3. ServerTypeOK'
    BY <1>1, <2>2, MainFrame DEF ServerTypeOK
  <2>4. AcceptInv' /\ ShutdownInv'
    BY <1>1, <2>2 DEF AcceptInv, ShutdownInv, Ended
  <2> QED
    BY <1>2, <2>3, <2>4 DEF ServerBase
<1>6. CASE Startup
  <2>1. /\ main = "setup" /\ main' \in {"accept", "failed"}
        /\ UNCHANGED <<accepted, waiting, list, bogus, freed, joined, signals, held, th, cancel, gone>>
    BY <1>6 DEF Startup, shutdown
  <2>2. ServerTypeOK'
    BY <1>1, <2>1, MainFrame DEF ServerTypeOK
  <2>3. AcceptInv' /\ ShutdownInv'
    BY <1>1, <2>1 DEF AcceptInv, ShutdownInv, Ended, Serving
  <2> QED
    BY <1>2, <2>2, <2>3 DEF ServerBase
<1>7. CASE \E c \in Clients : Accept(c)
  <2>1. PICK c \in Clients : Accept(c)
    BY <1>7
  <2>2. /\ main = "accept" /\ c \in waiting /\ waiting' = waiting \ {c}
        /\ \/ main' = "create" /\ accepted' = c
           \/ main' = "failed" /\ accepted' = accepted
        /\ UNCHANGED <<list, bogus, freed, joined, signals, held, th, cancel, gone>>
    BY <2>1 DEF Accept, shutdown
  <2>3. ServerTypeOK'
    BY <1>1, <2>2, MainFrame DEF ServerTypeOK
  <2>4. AcceptInv' /\ ShutdownInv'
    BY <1>1, <2>2 DEF AcceptInv, ShutdownInv, Ended, Serving
  <2> QED
    BY <1>2, <2>3, <2>4 DEF ServerBase
<1>8. CASE CreateThread
  <2>1. /\ main = "create" /\ main' = "insert" /\ bogus' \in {bogus, bogus \cup {accepted}}
        /\ UNCHANGED <<accepted, waiting, list, freed, joined, signals, held, cancel, gone>>
        /\ th' \in {th, [th EXCEPT ![accepted] = "start"]}
    BY <1>8 DEF CreateThread, shutdown, Goto
  <2>2. accepted \in Clients /\ joined = {} /\ joined' = {}
    BY <1>1, <2>1 DEF AcceptInv, ShutdownInv, Serving
  <2>3. ServerTypeOK'
    BY <1>1, <1>3, <2>1, <2>2, MainFrame DEF ServerTypeOK
  <2>4. AcceptInv'
    BY <1>1, <1>3, <2>1, <2>2 DEF AcceptInv, ServerTypeOK
  <2>5. ShutdownInv'
    BY <1>1, <2>1, <2>2 DEF ShutdownInv
  <2> QED
    BY <1>2, <2>3, <2>4, <2>5 DEF ServerBase
<1>9. CASE InsertNode
  <2>1. /\ main = "insert" /\ main' = "accept" /\ list' = list \cup {accepted} /\ accepted' = Nobody
        /\ UNCHANGED <<waiting, bogus, freed, joined, signals, held, th, cancel, gone>>
    BY <1>9 DEF InsertNode, shutdown
  <2>2. accepted \in Clients /\ Nobody \notin Clients
    BY <1>1, <2>1, ServerAssumption DEF AcceptInv
  <2>3. ServerTypeOK'
    BY <1>1, <2>1, <2>2, MainFrame DEF ServerTypeOK
  <2>4. AcceptInv' /\ ShutdownInv'
    BY <1>1, <2>1, <2>2 DEF AcceptInv, ShutdownInv, Ended, Serving, ServerTypeOK
  <2> QED
    BY <1>2, <2>3, <2>4 DEF ServerBase
<1>10. CASE handle_signal \/ SecondSignal
  <2>1. /\ main' = "sig_log" /\ signals' \in {1, 2} /\ held' \subseteq held \cup LibraryLocks
        /\ UNCHANGED <<accepted, waiting, list, bogus, freed, joined, th, cancel, gone>>
    BY <1>10 DEF handle_signal, SecondSignal, Interrupt
  <2>2. ServerTypeOK'
    BY <1>1, <2>1, MainFrame DEF ServerTypeOK, LibraryLocks
  <2>3. AcceptInv' /\ ShutdownInv'
    BY <1>1, <2>1 DEF AcceptInv, ShutdownInv, Ended, Serving
  <2> QED
    BY <1>2, <2>2, <2>3 DEF ServerBase
<1>11. CASE CancelThreads
  <2>1. /\ main' \in {"sig_join", "crashed"} /\ cancel' \in {list, cancel}
        /\ UNCHANGED <<accepted, waiting, list, bogus, freed, joined, signals, held, th, gone>>
    BY <1>11 DEF CancelThreads, shutdown
  <2>2. ServerTypeOK'
    BY <1>1, <2>1, MainFrame DEF ServerTypeOK
  <2>3. AcceptInv' /\ ShutdownInv'
    BY <1>1, <2>1 DEF AcceptInv, ShutdownInv, Ended, Serving
  <2> QED
    BY <1>2, <2>2, <2>3 DEF ServerBase
<1>12. CASE \E c \in Clients : JoinThread(c)
  <2>1. PICK c \in Clients : JoinThread(c)
    BY <1>12
  <2>2. /\ main = "sig_join" /\ joined' = joined \cup {c} /\ Ended(c)
        /\ UNCHANGED <<main, accepted, waiting, list, bogus, freed, signals, held, th, cancel, gone>>
    BY <2>1 DEF JoinThread
  <2>3. ServerTypeOK'
    BY <1>1, <2>2, MainFrame DEF ServerTypeOK
  <2>4. AcceptInv' /\ ShutdownInv'
    BY <1>1, <2>2 DEF AcceptInv, ShutdownInv, Ended, Serving
  <2> QED
    BY <1>2, <2>3, <2>4 DEF ServerBase
<1>13. CASE ThreadsJoined
  <2>1. /\ main = "sig_join" /\ main' = "sig_free" /\ list \subseteq joined
        /\ UNCHANGED <<accepted, waiting, list, bogus, freed, joined, signals, held, th, cancel, gone>>
    BY <1>13 DEF ThreadsJoined, shutdown
  <2>2. ServerTypeOK'
    BY <1>1, <2>1, MainFrame DEF ServerTypeOK
  <2>3. AcceptInv' /\ ShutdownInv'
    BY <1>1, <2>1 DEF AcceptInv, ShutdownInv, Ended, Serving
  <2> QED
    BY <1>2, <2>2, <2>3 DEF ServerBase
<1>14. CASE \E c \in Clients : FreeNode(c)
  <2>1. PICK c \in Clients : FreeNode(c)
    BY <1>14
  <2>2. /\ main = "sig_free" /\ c \in list /\ list' = list \ {c} /\ freed' = freed \cup {c}
        /\ UNCHANGED <<main, accepted, waiting, bogus, joined, signals, held, th, cancel, gone>>
    BY <2>1 DEF FreeNode, shutdown
  <2>3. ServerTypeOK'
    BY <1>1, <2>2, MainFrame DEF ServerTypeOK
  <2>4. AcceptInv' /\ ShutdownInv'
    BY <1>1, <2>2 DEF AcceptInv, ShutdownInv, Ended, Serving
  <2> QED
    BY <1>2, <2>3, <2>4 DEF ServerBase
<1>15. CASE Shutdown
  <2>1. /\ main' = "exited"
        /\ UNCHANGED <<accepted, waiting, list, bogus, freed, joined, signals, held, th, cancel, gone>>
    BY <1>15 DEF Shutdown, shutdown
  <2>2. ServerTypeOK'
    BY <1>1, <2>1, MainFrame DEF ServerTypeOK
  <2>3. AcceptInv' /\ ShutdownInv'
    BY <1>1, <2>1 DEF AcceptInv, ShutdownInv, Ended, Serving
  <2> QED
    BY <1>2, <2>2, <2>3 DEF ServerBase
<1>16. CASE LogSignal \/ (\E c \in Clients : JoinHangs(c)) \/ FreeHangs
  <2>1. /\ main' \in {"sig_cancel", "hung"}
        /\ UNCHANGED <<accepted, waiting, list, bogus, freed, joined, signals, held, th, cancel, gone>>
    BY <1>16 DEF LogSignal, JoinHangs, FreeHangs, Hang, shutdown
  <2>2. ServerTypeOK'
    BY <1>1, <2>1, MainFrame DEF ServerTypeOK
  <2>3. AcceptInv' /\ ShutdownInv'
    BY <1>1, <2>1 DEF AcceptInv, ShutdownInv, Ended, Serving
  <2> QED
    BY <1>2, <2>2, <2>3 DEF ServerBase
<1> QED
  BY <1>4, <1>5, <1>6, <1>7, <1>8, <1>9, <1>10, <1>11, <1>12, <1>13, <1>14, <1>15, <1>16
     DEF MainMoves, MainStep

\* Every step is main's or a client's, or a handler's.
LEMMA StepKinds ==
  ASSUME Next
  PROVE  MainMoves \/ \E c \in Clients : HandlerStep(c) \/ Cancelled(c)
  BY DEF Next, MainMoves

\* The server starts without threads, nodes or content.
LEMMA ServerBaseInit == Init => ServerBase
<1> SUFFICES ASSUME Init PROVE ServerBase
  OBVIOUS
<1>1. ContentTyped
  <2>1. unsent \in [Clients -> Seq(Characters)]
    BY ServerAssumption DEF Init
  <2>2. << >> \in Seq(Characters) /\ << >> \in Seq(Seq(Characters))
    BY EmptySeq
  <2> QED
    BY <2>1, <2>2 DEF Init, ContentTyped, Device!Init
<1>2. ServerTypeOK
  BY DEF Init, ServerTypeOK, Threads
<1>3. AcceptInv /\ ShutdownInv
  BY DEF Init, AcceptInv, ShutdownInv, Serving
<1> QED
  BY <1>1, <1>2, <1>3 DEF ServerBase

\* ServerBase is inductive.
LEMMA ServerBaseStep ==
  ASSUME ServerBase, [Next]_vars
  PROVE  ServerBase'
<1>1. CASE UNCHANGED vars
  BY <1>1 DEF vars, mainvars, shutdown, device, ServerBase, ServerTypeOK, ContentTyped, AcceptInv,
              ShutdownInv, Ended
<1>2. CASE Next
  BY <1>2, StepKinds, MainBase, HandlerBase
<1> QED
  BY <1>1, <1>2

(***************************************************************************)
(* The signal handler frees a thread's node only when the thread has       *)
(* ended, for any number of clients and wherever the signals, also a       *)
(* second one during the shutdown, and the faults strike.                  *)
(***************************************************************************)
THEOREM NodesAreSafe == Spec => []NodesOutliveThreads
<1>1. ServerBase => NodesOutliveThreads
  BY DEF ServerBase, ShutdownInv, NodesOutliveThreads
<1>2. ServerBase /\ [Next]_vars => ServerBase'
  BY ServerBaseStep
<1> QED
  BY <1>1, <1>2, ServerBaseInit, PTL DEF Spec

-----------------------------------------------------------------------------
(* Sequences of a client's bytes                                           *)

\* s, then t, then u.
LEMMA FollowsConcat ==
  ASSUME NEW c, NEW s \in Seq(Characters), NEW t \in Seq(Characters), NEW u \in Seq(Characters),
         Follows(c, s, t), Follows(c, t, u), Follows(c, s, u)
  PROVE  Follows(c, Cat(s, t), u)
<1> DEFINE x == Cat(s, t)
           m == Len(s)
           n == Len(t)
<1>1. /\ Len(x) = m + n /\ m \in Nat /\ n \in Nat
      /\ \A i \in 1..m : x[i] = s[i]
      /\ \A i \in 1..n : x[m + i] = t[i]
  <2>1. Len(x) = m + n /\ m \in Nat /\ n \in Nat
    BY CatIs
  <2>2. \A i \in 1..m : x[i] = s[i]
    BY CatIs
  <2>3. \A i \in 1..n : x[m + i] = t[i]
    BY CatIs
  <2> QED
    BY <2>1, <2>2, <2>3
<1> HIDE DEF x, m, n
<1>2. ASSUME NEW i \in 1..Len(x) PROVE (i \in 1..m) \/ (i - m \in 1..n /\ x[i] = t[i - m])
  <2>1. CASE i > m
    <3>1. i - m \in 1..n /\ m + (i - m) = i
      BY <1>1, <2>1
    <3> QED
      BY <1>1, <3>1
  <2> QED
    BY <1>1, <2>1
<1>3. /\ \A i \in 1..m : s[i] = c => \A k \in i..m : s[k] \in {c, NL}
      /\ \A i \in 1..n : t[i] = c => \A k \in i..n : t[k] \in {c, NL}
      /\ (\E i \in 1..m : s[i] = c) => \A k \in 1..n : t[k] \in {c, NL}
      /\ Whole(c, u)
      /\ (\E i \in 1..m : s[i] = c) => \A k \in 1..Len(u) : u[k] \in {c, NL}
      /\ (\E i \in 1..n : t[i] = c) => \A k \in 1..Len(u) : u[k] \in {c, NL}
  BY DEF Follows, Whole, m, n
<1>4. ASSUME NEW i \in 1..Len(x), x[i] = c, NEW k \in i..Len(x) PROVE x[k] \in {c, NL}
  <2>1. k \in 1..Len(x)
    BY <1>1
  <2>2. CASE k \in 1..m
    <3>1. i \in 1..m /\ k \in i..m
      BY <1>1, <2>2
    <3> QED
      BY <1>1, <1>3, <1>4, <2>2, <3>1
  <2>3. CASE k - m \in 1..n /\ x[k] = t[k - m]
    <3>1. CASE i \in 1..m
      BY <1>1, <1>3, <1>4, <2>3, <3>1
    <3>2. CASE i - m \in 1..n /\ x[i] = t[i - m]
      <4>1. k - m \in (i - m)..n
        BY <1>1, <2>3, <3>2
      <4> QED
        BY <1>3, <1>4, <2>3, <3>2, <4>1
    <3> QED
      BY <1>2, <3>1, <3>2
  <2> QED
    BY <1>2, <2>1, <2>2, <2>3
<1>5. Whole(c, x)
  BY <1>4 DEF Whole
<1>6. (\E i \in 1..Len(x) : x[i] = c) => \A k \in 1..Len(u) : u[k] \in {c, NL}
  BY <1>1, <1>2, <1>3
<1> QED
  BY <1>3, <1>5, <1>6 DEF Follows, x

\* What may follow a content may follow the end of it.
LEMMA FollowsSuffix ==
  ASSUME NEW c, NEW a \in Seq(Characters), NEW s \in Seq(Characters), NEW u,
         Follows(c, Cat(a, s), u)
  PROVE  Follows(c, s, u)
<1> DEFINE x == Cat(a, s)
           m == Len(a)
           n == Len(s)
<1>1. /\ Len(x) = m + n /\ m \in Nat /\ n \in Nat
      /\ \A i \in 1..n : x[m + i] = s[i]
  BY CatIs
<1>2. Follows(c, x, u)
  OBVIOUS
<1> HIDE DEF x, m, n
<1>3. \A i \in 1..n : m + i \in 1..Len(x)
  BY <1>1
<1>4. ASSUME NEW i \in 1..n, s[i] = c, NEW k \in i..n PROVE s[k] \in {c, NL}
  <2>1. k \in 1..n /\ m + k \in (m + i)..Len(x)
    BY <1>1
  <2>2. x[m + i] = c /\ x[m + k] = s[k]
    BY <1>1, <1>4, <2>1
  <2> QED
    BY <1>2, <1>3, <2>1, <2>2 DEF Follows, Whole
<1>5. Whole(c, s)
  BY <1>4 DEF Whole, n
<1>6. ASSUME NEW i \in 1..n, s[i] = c PROVE \A k \in 1..Len(u) : u[k] \in {c, NL}
  <2>1. m + i \in 1..Len(x) /\ x[m + i] = c
    BY <1>1, <1>3, <1>6
  <2> QED
    BY <1>2, <2>1 DEF Follows
<1> QED
  BY <1>2, <1>5, <1>6 DEF Follows, n

\* A packet that is cut in two.
LEMMA FollowsCut ==
  ASSUME NEW c, NEW s, NEW u \in Seq(Characters), NEW n \in 1..Len(u),
         Follows(c, s, u), NoOthers(c, u)
  PROVE  LET chunk == SubSeq(u, 1, n)
             rest == SubSeq(u, n + 1, Len(u))
         IN /\ Follows(c, s, chunk) /\ Follows(c, chunk, rest) /\ Follows(c, s, rest)
            /\ NoOthers(c, chunk) /\ NoOthers(c, rest)
<1> DEFINE L == Len(u)
           chunk == SubSeq(u, 1, n)
           rest == SubSeq(u, n + 1, L)
<1>1. L \in Nat /\ n \in Nat /\ 1 <= n /\ n <= L /\ \A i \in 1..L : u[i] \in Characters
  BY LenZero
<1>2. Len(chunk) = n /\ \A i \in 1..n : chunk[i] = u[i]
  BY <1>1, SubSeqProperties
<1>3. Len(rest) = L - n /\ \A i \in 1..(L - n) : rest[i] = u[n + i]
  BY <1>1, SubSeqProperties
<1>4. /\ \A i \in 1..L : u[i] = c => \A k \in i..L : u[k] \in {c, NL}
      /\ Whole(c, s) /\ \A i \in 1..L : u[i] \notin Clients \ {c}
      /\ (\E i \in 1..Len(s) : s[i] = c) => \A k \in 1..L : u[k] \in {c, NL}
  BY DEF Follows, Whole, NoOthers
<1> HIDE DEF L, chunk, rest
<1>5. \A i \in 1..(L - n) : n + i \in 1..L
  BY <1>1
<1>6. Whole(c, chunk) /\ NoOthers(c, chunk)
  BY <1>1, <1>2, <1>4 DEF Whole, NoOthers
<1>7. NoOthers(c, rest)
  BY <1>3, <1>4, <1>5 DEF NoOthers
<1>8. ASSUME NEW i \in 1..(L - n), rest[i] = c, NEW k \in i..(L - n) PROVE rest[k] \in {c, NL}
  <2>1. k \in 1..(L - n) /\ n + k \in (n + i)..L
    BY <1>1
  <2> QED
    BY <1>3, <1>4, <1>5, <1>8, <2>1
<1>9. Whole(c, rest)
  BY <1>3, <1>8 DEF Whole
<1>10. Follows(c, s, chunk)
  BY <1>1, <1>2, <1>4, <1>6 DEF Follows
<1>11. Follows(c, s, rest)
  BY <1>3, <1>4, <1>5, <1>9 DEF Follows
<1>12. ASSUME NEW i \in 1..n, chunk[i] = c, NEW k \in 1..(L - n) PROVE rest[k] \in {c, NL}
  <2>1. i \in 1..L /\ n + k \in i..L /\ u[i] = c
    BY <1>1, <1>2, <1>12
  <2> QED
    BY <1>3, <1>4, <2>1
<1>13. Follows(c, chunk, rest)
  BY <1>2, <1>3, <1>6, <1>9, <1>12 DEF Follows
<1> QED
  BY <1>6, <1>7, <1>10, <1>11, <1>13 DEF chunk, rest, L

\* Bytes that do not name c, behind or gone from the front, leave its bytes
\* contiguous.
LEMMA ContiguousConcat ==
  ASSUME NEW c, NEW s \in Seq(Characters), NEW t \in Seq(Characters),
         Contiguous(c, s), \A i \in 1..Len(t) : t[i] # c
  PROVE  Contiguous(c, Cat(s, t))
<1> DEFINE x == Cat(s, t)
           m == Len(s)
           n == Len(t)
<1>1. /\ Len(x) = m + n /\ m \in Nat /\ n \in Nat
      /\ \A i \in 1..m : x[i] = s[i]
      /\ \A i \in 1..n : x[m + i] = t[i]
  <2>1. Len(x) = m + n /\ m \in Nat /\ n \in Nat
    BY CatIs
  <2>2. \A i \in 1..m : x[i] = s[i]
    BY CatIs
  <2>3. \A i \in 1..n : x[m + i] = t[i]
    BY CatIs
  <2> QED
    BY <2>1, <2>2, <2>3
<1>2. \A i \in 1..m : \A j \in 1..m : \A k \in i..j : s[i] = c /\ s[j] = c => s[k] \in {c, NL}
  BY DEF Contiguous
<1>3. \A i \in 1..n : t[i] # c
  OBVIOUS
<1> HIDE DEF x, m, n
<1>4. ASSUME NEW i \in 1..Len(x), x[i] = c PROVE i \in 1..m /\ s[i] = c
  <2>1. CASE i > m
    <3>1. i - m \in 1..n /\ m + (i - m) = i
      BY <1>1, <2>1
    <3> QED
      BY <1>1, <1>3, <1>4, <3>1
  <2> QED
    BY <1>1, <1>4, <2>1
<1>5. ASSUME NEW i \in 1..Len(x), NEW j \in 1..Len(x), NEW k \in i..j, x[i] = c, x[j] = c
      PROVE  x[k] \in {c, NL}
  <2>1. i \in 1..m /\ j \in 1..m /\ s[i] = c /\ s[j] = c
    BY <1>4, <1>5
  <2>2. k \in 1..m
    BY <1>1, <2>1
  <2> QED
    BY <1>1, <1>2, <2>1, <2>2
<1> QED
  BY <1>5 DEF Contiguous, x

\* When the device drops its oldest command, what is left stays contiguous.
LEMMA ContiguousSuffix ==
  ASSUME NEW c, NEW a \in Seq(Characters), NEW s \in Seq(Characters), Contiguous(c, Cat(a, s))
  PROVE  Contiguous(c, s)
<1> DEFINE x == Cat(a, s)
           m == Len(a)
           n == Len(s)
<1>1. /\ Len(x) = m + n /\ m \in Nat /\ n \in Nat
      /\ \A i \in 1..n : x[m + i] = s[i]
  BY CatIs
<1>2. Contiguous(c, x)
  OBVIOUS
<1> HIDE DEF x, m, n
<1>3. ASSUME NEW i \in 1..n, NEW j \in 1..n, NEW k \in i..j, s[i] = c, s[j] = c
      PROVE  s[k] \in {c, NL}
  <2>1. /\ m + i \in 1..Len(x) /\ m + j \in 1..Len(x) /\ m + k \in (m + i)..(m + j)
        /\ k \in 1..n
    BY <1>1
  <2>2. x[m + i] = c /\ x[m + j] = c /\ x[m + k] = s[k]
    BY <1>1, <1>3, <2>1
  <2> QED
    BY <1>2, <2>1, <2>2 DEF Contiguous
<1> QED
  BY <1>3 DEF Contiguous, n

\* A packet's tail without other clients' bytes is contiguous.
LEMMA WholeIsContiguous ==
  ASSUME NEW c, NEW s \in Seq(Characters), Whole(c, s)
  PROVE  Contiguous(c, s)
<1>1. ASSUME NEW i \in 1..Len(s), NEW j \in 1..Len(s), NEW k \in i..j, s[i] = c
      PROVE  s[k] \in {c, NL}
  <2>1. k \in i..Len(s)
    BY LenZero
  <2> QED
    BY <1>1, <2>1 DEF Whole
<1> QED
  BY <1>1 DEF Contiguous

\* A name that is in neither part is not in the whole, nor in the end of it.
LEMMA AbsentConcat ==
  ASSUME NEW c, NEW s \in Seq(Characters), NEW t \in Seq(Characters),
         \A i \in 1..Len(s) : s[i] # c, \A i \in 1..Len(t) : t[i] # c
  PROVE  \A i \in 1..Len(Cat(s, t)) : Cat(s, t)[i] # c
<1> DEFINE x == Cat(s, t)
<1> SUFFICES ASSUME NEW i \in 1..Len(x) PROVE x[i] # c
  OBVIOUS
<1>1. Len(x) = Len(s) + Len(t) /\ Len(s) \in Nat /\ Len(t) \in Nat
  BY CatIs
<1>2. \A j \in 1..Len(s) : x[j] = s[j]
  BY CatIs
<1>3. \A j \in 1..Len(t) : x[Len(s) + j] = t[j]
  BY CatIs
<1> HIDE DEF x
<1>4. CASE i <= Len(s)
  BY <1>1, <1>2, <1>4
<1>5. CASE i > Len(s)
  <2>1. i - Len(s) \in 1..Len(t) /\ Len(s) + (i - Len(s)) = i
    BY <1>1, <1>5
  <2> QED
    BY <1>3, <2>1
<1> QED
  BY <1>1, <1>4, <1>5

\* A client absent from the content is absent from what is left of it.
LEMMA AbsentSuffix ==
  ASSUME NEW c, NEW a \in Seq(Characters), NEW d \in Seq(Characters),
         \A i \in 1..Len(Cat(a, d)) : Cat(a, d)[i] # c
  PROVE  \A i \in 1..Len(d) : d[i] # c
<1> DEFINE x == Cat(a, d)
<1>1. /\ Len(x) = Len(a) + Len(d) /\ Len(a) \in Nat /\ Len(d) \in Nat
      /\ \A i \in 1..Len(d) : x[Len(a) + i] = d[i]
  BY CatIs
<1>2. \A i \in 1..Len(x) : x[i] # c
  OBVIOUS
<1> HIDE DEF x
<1>3. \A i \in 1..Len(d) : Len(a) + i \in 1..Len(x)
  BY <1>1
<1> QED
  BY <1>1, <1>2, <1>3

-----------------------------------------------------------------------------
(* Packets                                                                 *)

\* The content is a sequence of characters.
LEMMA ContentIsSeq ==
  ASSUME ContentTyped
  PROVE  Content \in Seq(Characters) /\ Stored \in Seq(Characters)
<1>1. Stored \in Seq(Characters) /\ partial \in Seq(Characters)
  BY FlattenTyped DEF ContentTyped, Stored
<1> QED
  BY <1>1, CatIs DEF Content

\* ContentIsSeq after a step.
LEMMA ContentIsSeqNext ==
  (ContentTyped => Content \in Seq(Characters) /\ Stored \in Seq(Characters))'
<1>1. ContentTyped => Content \in Seq(Characters) /\ Stored \in Seq(Characters)
  BY ContentIsSeq
<1> QED
  BY <1>1, PTL

\* A write puts the chunk behind the content, of which the device may forget
\* the front.
LEMMA WriteContent ==
  ASSUME ContentTyped, NEW chunk \in Seq(Characters), Device!Write(chunk)
  PROVE  \E a \in Seq(Characters) : Cat(a, Content') = Cat(Content, chunk)
<1> DEFINE line == Cat(partial, chunk)
           kept == IF Len(commands) = Capacity THEN Tail(commands) ELSE commands
<1>1. /\ commands \in Seq(Seq(Characters)) /\ partial \in Seq(Characters)
      /\ Stored \in Seq(Characters) /\ Content = Cat(Stored, partial)
  BY ContentIsSeq DEF ContentTyped, Content
<1>2. line \in Seq(Characters)
  BY <1>1, CatIs
<1>3. Cat(Content, chunk) = Cat(Stored, line)
  BY <1>1, Associative
<1>4. << >> \in Seq(Characters)
  BY EmptySeq
<1>5. \/ commands' = Append(kept, line) /\ partial' = << >>
      \/ commands' = commands /\ partial' = line
  BY DEF Device!Write, Cat
<1>6. Content' = Cat(FlattenSeq(commands'), partial')
  BY DEF Content, Stored
<1> HIDE DEF line
<1>7. CASE commands' = commands /\ partial' = line
  <2>1. Content' = Cat(Stored, line)
    BY <1>6, <1>7 DEF Stored
  <2>2. Cat(<< >>, Cat(Stored, line)) = Cat(Stored, line)
    BY <1>1, <1>2, CatIs, CatEmpty
  <2> QED
    BY <1>3, <1>4, <2>1, <2>2
<1>8. CASE commands' = Append(kept, line) /\ partial' = << >>
  <2>1. kept \in Seq(Seq(Characters))
    <3>1. Capacity # 0 /\ Capacity \in Nat
      BY ServerAssumption
    <3> QED
      BY <1>1, <3>1, LenZero, HeadTailProperties
  <2> HIDE DEF kept
  <2>2. FlattenSeq(kept) \in Seq(Characters)
    BY <2>1, FlattenTyped
  <2>3. FlattenSeq(Append(kept, line)) = Cat(FlattenSeq(kept), line)
    BY <1>2, <2>1, FlattenAppend DEF Cat
  <2>4. Content' = Cat(FlattenSeq(kept), line)
    <3>1. Cat(FlattenSeq(kept), line) \in Seq(Characters)
      BY <1>2, <2>2, CatIs
    <3>2. Cat(Cat(FlattenSeq(kept), line), << >>) = Cat(FlattenSeq(kept), line)
      BY <3>1, CatEmpty
    <3> QED
      BY <1>6, <1>8, <2>3, <3>2
  <2>5. CASE kept = commands
    <3>1. Content' = Cat(Stored, line)
      BY <2>4, <2>5 DEF Stored
    <3>2. Cat(<< >>, Cat(Stored, line)) = Cat(Stored, line)
      BY <1>1, <1>2, CatIs, CatEmpty
    <3> QED
      BY <1>3, <1>4, <3>1, <3>2
  <2>6. CASE kept = Tail(commands) /\ commands # << >>
    <3> DEFINE h == Head(commands)
               r == FlattenSeq(kept)
    <3>1. h \in Seq(Characters)
      BY <1>1, <2>6, HeadTailProperties
    <3>2. Stored = Cat(h, r)
      BY <1>1, <2>6, FlattenHeadTail DEF Stored, Cat
    <3>3. Content' = Cat(r, line) /\ r \in Seq(Characters)
      BY <2>2, <2>4
    <3> HIDE DEF h, r
    <3>4. Cat(Cat(h, r), line) = Cat(h, Cat(r, line))
      BY <1>2, <3>1, <3>3, Associative
    <3> QED
      BY <1>3, <3>1, <3>2, <3>3, <3>4
  <2>7. kept = commands \/ (kept = Tail(commands) /\ commands # << >>)
    <3>1. Capacity # 0 /\ Capacity \in Nat
      BY ServerAssumption
    <3> QED
      BY <1>1, <3>1, LenZero DEF kept
  <2> QED
    BY <2>5, <2>6, <2>7
<1> QED
  BY <1>5, <1>7, <1>8

\* The mutex is taken only when it is free, and released only by its owner.
LEMMA MutexStep ==
  ASSUME ServerBase, MutexInv, [Next]_vars
  PROVE  MutexInv'
<1>1. th \in [Clients -> Threads] /\ ServerTypeOK /\ AcceptInv
  BY DEF ServerBase, ServerTypeOK
<1>2. CASE UNCHANGED vars
  BY <1>2 DEF vars, MutexInv
<1>3. CASE MainMoves
  <2>1. mutex' = mutex
    BY <1>3, MainFrame
  <2>2. \A d \in Clients : th'[d] = th[d] \/ th'[d] = "start"
    BY <1>1, <1>3, MainThreads
  <2> QED
    BY <2>1, <2>2 DEF MutexInv, Receiving
<1>4. ASSUME NEW c \in Clients, HandlerStep(c) \/ Cancelled(c) PROVE MutexInv'
  <2>1. \A d \in Clients \ {c} : th'[d] = th[d]
    BY <1>1, <1>4, HandlerStepMoves DEF HandlerMoves
  <2>2. CASE Lock(c)
    BY <1>1, <2>1, <2>2, ServerAssumption DEF Lock, MutexInv
  <2>3. CASE Unlock(c)
    <3>1. th[c] = "unlock" /\ th'[c] = "read" /\ mutex' = Nobody
      BY <1>1, <2>3 DEF Unlock, Goto
    <3> QED
      BY <2>1, <3>1 DEF MutexInv, Receiving
  <2>4. CASE ~Lock(c) /\ ~Unlock(c)
    <3>1. mutex' = mutex
      BY <1>4, <2>4 DEF HandlerStep, Cancelled, BlockSignals, Open, RecvChunk, RecvEnds, Write,
                        Ioctl, EndOfPacket, Read, ReadEnds, Send, Close
    <3>2. th'[c] \in Receiving \cup {"open", "unlock"} => th[c] \in Receiving \cup {"open", "unlock"}
      BY <1>1, <1>4, <2>4 DEF HandlerStep, Cancelled, BlockSignals, Open, RecvChunk, RecvEnds, Write,
                        Ioctl, EndOfPacket, Read, ReadEnds, Send, Close, Goto, Receiving
    <3> QED
      BY <2>1, <3>1, <3>2 DEF MutexInv
  <2> QED
    BY <2>2, <2>3, <2>4
<1> QED
  BY <1>2, <1>3, <1>4, StepKinds

\* A client whose thread, data and view of the device stay keeps its clause.
LEMMA PacketKept ==
  ASSUME NEW d \in Clients, PacketOf(d), th'[d] = th[d], unsent'[d] = unsent[d],
         buffer'[d] = buffer[d], Content' = Content
  PROVE  PacketOf(d)'
  BY DEF PacketOf

\* A thread that no longer writes.
LEMMA PacketOver ==
  ASSUME NEW c \in Clients, PacketOf(c), th'[c] \notin Unstarted \cup Receiving,
         unsent'[c] = unsent[c], Content' = Content
  PROVE  PacketOf(c)'
  BY DEF PacketOf, Receiving

\* The handler's steps that do not write to the device.
LEMMA PacketOwnStep ==
  ASSUME ServerBase, NamedPackets, NEW c \in Clients, PacketOf(c),
         HandlerStep(c) \/ Cancelled(c), ~Write(c)
  PROVE  /\ PacketOf(c)' /\ Content' = Content
         /\ \A d \in Clients \ {c} : unsent'[d] = unsent[d] /\ buffer'[d] = buffer[d]
<1>1. /\ th \in [Clients -> Threads] /\ unsent \in [Clients -> Seq(Characters)]
      /\ buffer \in [Clients -> Seq(Characters)]
  BY DEF ServerBase, ServerTypeOK, ContentTyped
<1>2. Content' = Content
  <2>1. UNCHANGED <<commands, partial>>
    BY DEF HandlerStep, Cancelled, BlockSignals, Lock, Open, RecvChunk, RecvEnds, Ioctl,
           EndOfPacket, Unlock, Read, ReadEnds, Send, Close, device
  <2> QED
    BY <2>1 DEF Content, Stored
<1>3. \A d \in Clients \ {c} : unsent'[d] = unsent[d] /\ buffer'[d] = buffer[d]
  BY <1>1 DEF HandlerStep, Cancelled, BlockSignals, Lock, Open, RecvChunk, RecvEnds, Ioctl,
              EndOfPacket, Unlock, Read, ReadEnds, Send, Close
<1> SUFFICES PacketOf(c)'
  BY <1>2, <1>3
<1>4. CASE BlockSignals(c) \/ Lock(c)
  <2>1. th[c] \in Unstarted /\ th'[c] \in Unstarted /\ unsent'[c] = unsent[c]
    BY <1>1, <1>4 DEF BlockSignals, Lock, Goto, Unstarted
  <2> QED
    BY <1>2, <2>1 DEF PacketOf, Unstarted, Receiving
<1>5. CASE Open(c)
  <2>1. /\ th[c] = "open" /\ th'[c] \in {"open", "recv"} /\ unsent'[c] = unsent[c]
        /\ unsent[c] = Packet[c] /\ \A i \in 1..Len(Content) : Content[i] # c
    BY <1>1, <1>5 DEF Open, Goto, PacketOf, Unstarted
  <2>2. Follows(c, Content, unsent[c])
    BY <2>1 DEF NamedPackets, Follows, Whole
  <2> QED
    BY <1>2, <2>1, <2>2 DEF PacketOf, Unstarted, Receiving
<1>6. CASE \E n \in 1..Len(unsent[c]) : RecvChunk(c, n)
  <2>1. PICK n \in 1..Len(unsent[c]) : RecvChunk(c, n)
    BY <1>6
  <2> DEFINE u == unsent[c]
             chunk == SubSeq(u, 1, n)
             rest == SubSeq(u, n + 1, Len(u))
  <2>2. /\ th[c] = "recv" /\ th'[c] \in {"ioctl", "write"}
        /\ buffer'[c] = chunk /\ unsent'[c] = rest
    BY <1>1, <2>1 DEF RecvChunk, Goto
  <2>3. Follows(c, Content, u) /\ NoOthers(c, u) /\ u \in Seq(Characters)
    BY <1>1, <2>2 DEF PacketOf, Receiving
  <2>4. /\ Follows(c, Content, chunk) /\ Follows(c, chunk, rest) /\ Follows(c, Content, rest)
        /\ NoOthers(c, chunk) /\ NoOthers(c, rest)
    BY <2>3, FollowsCut
  <2>5. Contiguous(c, Content)
    BY DEF PacketOf
  <2> HIDE DEF chunk, rest
  <2> QED
    BY <1>2, <2>2, <2>4, <2>5 DEF PacketOf, Unstarted, Receiving
<1>7. CASE Ioctl(c) \/ EndOfPacket(c)
  <2>1. /\ th[c] \in Receiving /\ th'[c] \in {"log", "unlock", "recv"}
        /\ unsent'[c] = unsent[c]
    BY <1>1, <1>7 DEF Ioctl, EndOfPacket, Goto, Receiving
  <2> QED
    BY <1>2, <2>1 DEF PacketOf, Unstarted, Receiving
<1>8. CASE \/ Cancelled(c) \/ RecvEnds(c) \/ Unlock(c) \/ Read(c) \/ ReadEnds(c) \/ Send(c) \/ Close(c)
  <2>1. th'[c] \notin Unstarted \cup Receiving /\ unsent'[c] = unsent[c]
    BY <1>1, <1>8 DEF Cancelled, RecvEnds, Unlock, Read, ReadEnds, Send, Close, Goto, Unstarted,
                      Receiving
  <2> QED
    BY <1>2, <2>1, PacketOver
<1> QED
  BY <1>4, <1>5, <1>6, <1>7, <1>8 DEF HandlerStep

\* A write to the device: only the owner of the mutex is receiving.
LEMMA PacketWriteStep ==
  ASSUME ServerBase, ServerBase', MutexInv, PacketInv, NEW c \in Clients, Write(c)
  PROVE  PacketInv'
<1>1. /\ th \in [Clients -> Threads] /\ unsent \in [Clients -> Seq(Characters)]
      /\ buffer \in [Clients -> Seq(Characters)] /\ ContentTyped
  BY DEF ServerBase, ServerTypeOK, ContentTyped
<1> DEFINE chunk == buffer[c]
<1>2. /\ th[c] = "write" /\ th' = [th EXCEPT ![c] = "log"] /\ unsent' = unsent /\ buffer' = buffer
      /\ Device!Write(chunk) \/ UNCHANGED <<commands, partial>>
  BY DEF Write, Goto, device
<1>3. /\ NoOthers(c, chunk) /\ Follows(c, Content, chunk) /\ Follows(c, chunk, unsent[c])
      /\ Follows(c, Content, unsent[c])
  BY <1>2 DEF PacketInv, PacketOf, Receiving
<1>4. chunk \in Seq(Characters) /\ unsent[c] \in Seq(Characters)
  BY <1>1
<1>5. Content \in Seq(Characters) /\ Content' \in Seq(Characters)
  BY ContentIsSeq, ContentIsSeqNext DEF ServerBase
<1>6. CASE UNCHANGED <<commands, partial>>
  <2>1. Content' = Content
    BY <1>6 DEF Content, Stored
  <2>2. ASSUME NEW d \in Clients PROVE PacketOf(d)'
    <3>1. CASE d = c
      BY <1>1, <1>2, <1>3, <2>1, <3>1 DEF PacketInv, PacketOf, Unstarted, Receiving
    <3>2. CASE d # c
      <4>1. th'[d] = th[d]
        BY <1>1, <1>2, <3>2
      <4> QED
        BY <1>2, <2>1, <4>1, PacketKept DEF PacketInv
    <3> QED
      BY <3>1, <3>2
  <2> QED
    BY <2>2 DEF PacketInv
<1>7. CASE Device!Write(chunk)
  <2>1. PICK a \in Seq(Characters) : Cat(a, Content') = Cat(Content, chunk)
    BY <1>1, <1>4, <1>7, WriteContent
  <2> HIDE DEF chunk
  <2> DEFINE new == Content'
  <2>2. new \in Seq(Characters) /\ Cat(a, new) = Cat(Content, chunk)
    BY <1>5, <2>1
  <2> HIDE DEF new
  <2>3. Follows(c, new, unsent[c])
    <3>1. Follows(c, Cat(Content, chunk), unsent[c])
      BY <1>3, <1>4, <1>5, FollowsConcat
    <3>2. Follows(c, Cat(a, new), unsent[c])
      BY <2>2, <3>1
    <3> QED
      BY <2>2, <3>2, FollowsSuffix
  <2>4. PacketOf(c)'
    <3>1. Contiguous(c, new)
      BY <2>2, <2>3, WholeIsContiguous DEF Follows
    <3>2. th'[c] = "log" /\ NoOthers(c, unsent'[c]) /\ unsent'[c] = unsent[c]
      BY <1>1, <1>2 DEF PacketInv, PacketOf
    <3> QED
      BY <2>3, <3>1, <3>2 DEF PacketOf, Unstarted, Receiving, new
  <2>5. ASSUME NEW d \in Clients, d # c PROVE PacketOf(d)'
    <3>1. th'[d] = th[d] /\ th[d] \notin Receiving
      BY <1>1, <1>2, <2>5 DEF MutexInv, Receiving
    <3>2. \A i \in 1..Len(chunk) : chunk[i] # d
      BY <1>3, <2>5 DEF NoOthers
    <3>3. Contiguous(d, new)
      <4>1. Contiguous(d, Cat(Content, chunk))
        BY <1>4, <1>5, <3>2, ContiguousConcat DEF PacketInv, PacketOf
      <4>2. Contiguous(d, Cat(a, new))
        BY <2>2, <4>1
      <4> QED
        BY <2>2, <4>2, ContiguousSuffix
    <3>4. th[d] \in Unstarted => \A i \in 1..Len(new) : new[i] # d
      <4> SUFFICES ASSUME th[d] \in Unstarted PROVE \A i \in 1..Len(new) : new[i] # d
        OBVIOUS
      <4>1. \A i \in 1..Len(Content) : Content[i] # d
        BY DEF PacketInv, PacketOf
      <4>2. \A i \in 1..Len(Cat(Content, chunk)) : Cat(Content, chunk)[i] # d
        BY <1>4, <1>5, <3>2, <4>1, AbsentConcat
      <4>3. \A i \in 1..Len(Cat(a, new)) : Cat(a, new)[i] # d
        BY <2>2, <4>2
      <4> QED
        BY <2>2, <4>3, AbsentSuffix
    <3> QED
      BY <1>2, <3>1, <3>3, <3>4 DEF PacketInv, PacketOf, Receiving, new
  <2> QED
    BY <2>4, <2>5 DEF PacketInv
<1> QED
  BY <1>2, <1>6, <1>7

\* Only the owner of the mutex writes, and what it writes continues its packet.
LEMMA PacketStep ==
  ASSUME NamedPackets, ServerBase, ServerBase', MutexInv, PacketInv, [Next]_vars
  PROVE  PacketInv'
<1>1. th \in [Clients -> Threads] /\ ServerTypeOK /\ AcceptInv
  BY DEF ServerBase, ServerTypeOK
<1>2. CASE UNCHANGED vars
  <2>1. UNCHANGED <<th, unsent, buffer>> /\ Content' = Content
    BY <1>2 DEF vars, device, Content, Stored
  <2> QED
    BY <2>1, PacketKept DEF PacketInv
<1>3. CASE MainMoves
  <2>1. UNCHANGED <<unsent, buffer>> /\ Content' = Content
    BY <1>3, MainFrame DEF Content, Stored
  <2>2. ASSUME NEW d \in Clients PROVE PacketOf(d)'
    <3>1. CASE th'[d] = th[d]
      BY <2>1, <3>1, PacketKept DEF PacketInv
    <3>2. CASE th[d] = "none" /\ th'[d] = "start"
      BY <2>1, <3>2 DEF PacketInv, PacketOf, Unstarted, Receiving
    <3> QED
      BY <1>1, <1>3, <3>1, <3>2, MainThreads
  <2> QED
    BY <2>2 DEF PacketInv
<1>4. ASSUME NEW c \in Clients, HandlerStep(c) \/ Cancelled(c) PROVE PacketInv'
  <2>1. CASE Write(c)
    BY <2>1, PacketWriteStep
  <2>2. CASE ~Write(c)
    <3>1. /\ PacketOf(c)' /\ Content' = Content
          /\ \A d \in Clients \ {c} : unsent'[d] = unsent[d] /\ buffer'[d] = buffer[d]
      BY <1>4, <2>2, PacketOwnStep DEF PacketInv
    <3>2. \A d \in Clients \ {c} : th'[d] = th[d]
      BY <1>1, <1>4, HandlerStepMoves DEF HandlerMoves
    <3>3. ASSUME NEW d \in Clients, d # c PROVE PacketOf(d)'
      BY <3>1, <3>2, <3>3, PacketKept DEF PacketInv
    <3> QED
      BY <3>1, <3>3 DEF PacketInv
  <2> QED
    BY <2>1, <2>2
<1> QED
  BY <1>2, <1>3, <1>4, StepKinds

\* At the start the device holds nothing of any packet.
LEMMA PacketInit ==
  ASSUME NamedPackets, Init
  PROVE  MutexInv /\ PacketInv
<1>1. Content = << >>
  BY FlattenEmpty, CatEmpty, EmptySeq DEF Init, Device!Init, Content, Stored
<1>2. Len(Content) = 0
  BY <1>1, EmptySeq
<1>3. th = [c \in Clients |-> "none"] /\ unsent = Packet
  BY DEF Init
<1>4. MutexInv
  BY <1>3 DEF MutexInv, Receiving
<1>5. ASSUME NEW c \in Clients PROVE PacketOf(c)
  BY <1>2, <1>3 DEF PacketOf, Contiguous, NamedPackets, Unstarted, Receiving
<1> QED
  BY <1>4, <1>5 DEF PacketInv

(***************************************************************************)
(* The packets of the connections are not mixed in the device, for any     *)
(* number of clients and any lengths of their packets, wherever TCP cuts   *)
(* them, the device forgets old commands, writes fail, clients go away and *)
(* the shutdown cancels handlers.                                          *)
(***************************************************************************)
THEOREM PacketsAreNotMixed == NamedPackets => (Spec => []PacketsContiguous)
<1> SUFFICES ASSUME NamedPackets PROVE Spec => []PacketsContiguous
  OBVIOUS
<1> DEFINE I == ServerBase /\ MutexInv /\ PacketInv
<1>1. Init => I
  BY ServerBaseInit, PacketInit
<1>2. I /\ [Next]_vars => I'
  BY ServerBaseStep, MutexStep, PacketStep
<1>3. I => PacketsContiguous
  <2> SUFFICES ASSUME I, NEW c \in Clients, NEW i \in BytesOf(c), NEW j \in BytesOf(c), NEW k \in i..j
               PROVE  (Stored \o partial)[k] \in {c, NL}
    BY DEF PacketsContiguous
  <2>1. Content = Stored \o partial
    BY DEF Content, Cat
  <2>2. /\ i \in 1..Len(Content) /\ j \in 1..Len(Content) /\ Content[i] = c /\ Content[j] = c
    BY <2>1 DEF BytesOf
  <2>3. Contiguous(c, Content)
    BY DEF PacketInv, PacketOf
  <2>4. Content[k] \in {c, NL}
    BY <2>2, <2>3 DEF Contiguous
  <2> QED
    BY <2>1, <2>4
<1> HIDE DEF I
<1> QED
  BY <1>1, <1>2, <1>3, PTL DEF Spec

-----------------------------------------------------------------------------
(* Answers                                                                 *)

\* Pieces of a sequence: none, two that touch, and one of a sequence that grows.
LEMMA PieceEmpty ==
  ASSUME NEW s, NEW i \in Nat
  PROVE  Piece(s, i, i) = << >>
<1>1. i + 1 \in Int /\ i \in Int /\ i < i + 1
  OBVIOUS
<1> QED
  BY <1>1, SubSeqEmpty DEF Piece

\* Two adjacent pieces of a sequence make one.
LEMMA PieceExtends ==
  ASSUME NEW T, NEW s \in Seq(T), NEW i \in Nat, NEW j \in Nat, NEW k \in Nat,
         i <= j, j <= k, k <= Len(s)
  PROVE  Cat(Piece(s, i, j), Piece(s, j, k)) = Piece(s, i, k)
<1>1. i + 1 \in 1..Len(s) + 1 /\ j \in (i + 1) - 1..Len(s) /\ k \in j..Len(s)
  BY LenZero
<1>2. SubSeq(s, i + 1, j) \o SubSeq(s, j + 1, k) = SubSeq(s, i + 1, k)
  BY <1>1, ConcatAdjacentSubSeq
<1> QED
  BY <1>2, Zenon DEF Piece, Cat

\* What is appended to a sequence changes no piece before it.
LEMMA PieceGrows ==
  ASSUME NEW T, NEW s \in Seq(T), NEW b \in Seq(T), NEW i \in Nat, NEW j \in Nat,
         i <= j, j <= Len(s)
  PROVE  Piece(Cat(s, b), i, j) = Piece(s, i, j)
<1> DEFINE x == Cat(s, b)
<1>1. /\ x \in Seq(T) /\ Len(x) = Len(s) + Len(b) /\ Len(s) \in Nat /\ Len(b) \in Nat
      /\ \A k \in 1..Len(s) : x[k] = s[k]
  BY CatIs
<1> HIDE DEF x
<1>2. /\ \A k \in (i + 1)..j : s[k] \in T /\ x[k] = s[k]
      /\ i + 1 \in Int /\ j \in Int
  BY <1>1, SMTT(60)
<1> DEFINE p == SubSeq(x, i + 1, j)
           q == SubSeq(s, i + 1, j)
<1>3. /\ p \in Seq(T) /\ Len(p) = IF i + 1 <= j THEN j - (i + 1) + 1 ELSE 0
      /\ \A k \in 1..(j - (i + 1) + 1) : p[k] = x[(i + 1) + k - 1]
  BY <1>2, SubSeqProperties
<1>4. /\ q \in Seq(T) /\ Len(q) = IF i + 1 <= j THEN j - (i + 1) + 1 ELSE 0
      /\ \A k \in 1..(j - (i + 1) + 1) : q[k] = s[(i + 1) + k - 1]
  BY <1>2, SubSeqProperties
<1> HIDE DEF p, q
<1>5. Len(p) = Len(q) /\ \A k \in 1..Len(p) : p[k] = q[k]
  <2> SUFFICES ASSUME NEW k \in 1..Len(p) PROVE p[k] = q[k]
    BY <1>3, <1>4
  <2>1. k \in 1..(j - (i + 1) + 1) /\ (i + 1) + k - 1 \in (i + 1)..j
    BY <1>3
  <2> QED
    BY <1>2, <1>3, <1>4, <2>1
<1>6. p = q
  BY <1>3, <1>4, <1>5, SeqEqual
<1> QED
  BY <1>6 DEF Piece, p, q, x

\* The content grows at its end when the device forgets nothing.
LEMMA StoredGrows ==
  ASSUME ContentTyped, NEW chunk \in Seq(Characters), Device!Write(chunk),
         IsPrefix(commands, commands')
  PROVE  \E b \in Seq(Characters) : Stored' = Cat(Stored, b)
<1> DEFINE line == Cat(partial, chunk)
<1>1. /\ commands \in Seq(Seq(Characters)) /\ partial \in Seq(Characters)
      /\ Stored \in Seq(Characters) /\ << >> \in Seq(Characters)
  BY ContentIsSeq, EmptySeq DEF ContentTyped
<1>2. line \in Seq(Characters)
  BY <1>1, CatIs
<1>3. \/ commands' = Append(commands, line)
      \/ commands' = Append(Tail(commands), line) /\ Len(commands) = Capacity
      \/ commands' = commands
  BY DEF Device!Write, Cat
<1> HIDE DEF line
<1>4. CASE commands' = commands
  BY <1>1, <1>4, CatEmpty DEF Stored
<1>5. CASE commands' = Append(commands, line)
  <2>1. FlattenSeq(Append(commands, line)) = Cat(FlattenSeq(commands), line)
    BY <1>1, <1>2, FlattenAppend DEF Cat
  <2> QED
    BY <1>2, <1>5, <2>1 DEF Stored
<1>6. CASE commands' = Append(Tail(commands), line) /\ Len(commands) = Capacity
  <2>1. commands # << >>
    <3>1. Capacity # 0
      BY ServerAssumption
    <3> QED
      BY <1>1, <1>6, <3>1, LenZero
  <2>2. Tail(commands) \in Seq(Seq(Characters)) /\ Len(Tail(commands)) = Len(commands) - 1
    BY <1>1, <2>1, HeadTailProperties
  <2>3. commands' \in Seq(Seq(Characters)) /\ Len(commands') = Len(commands)
    <3> DEFINE tl == Tail(commands)
    <3>1. tl \in Seq(Seq(Characters)) /\ Len(tl) = Len(commands) - 1 /\ Len(commands) \in Nat
      BY <1>1, <2>2, LenZero
    <3> HIDE DEF tl
    <3>2. Append(tl, line) \in Seq(Seq(Characters)) /\ Len(Append(tl, line)) = Len(tl) + 1
      BY <1>2, <3>1, AppendProperties
    <3> QED
      BY <1>6, <3>1, <3>2 DEF tl
  <2>4. SubSeq(commands, 1, Len(commands)) = commands
    BY <1>1, SubSeqFull
  <2>5. SubSeq(commands', 1, Len(commands')) = commands'
    BY <2>3, SubSeqFull
  <2>6. commands' = commands
    BY <2>3, <2>4, <2>5, Zenon DEF IsPrefix
  <2> QED
    BY <1>1, <2>6, CatEmpty DEF Stored
<1> QED
  BY <1>3, <1>4, <1>5, <1>6

\* A client whose handler does nothing keeps its clause while the content grows.
LEMMA AnswerKept ==
  ASSUME ServerBase, NEW d \in Clients, AnswerOf(d), Alive, NEW b \in Seq(Characters),
         Stored' = Cat(Stored, b), UNCHANGED <<pos[d], start[d], sent[d], buffer[d]>>,
         \/ th'[d] = th[d]
         \/ /\ {th[d], th'[d]} \subseteq Unstarted \cup Receiving \cup {"unlock"}
  PROVE  AnswerOf(d)'
<1>1. Stored \in Seq(Characters) /\ pos[d] \in Nat /\ start[d] \in Nat
  BY ContentIsSeq DEF ServerBase, ServerTypeOK
<1>2. Len(Cat(Stored, b)) = Len(Stored) + Len(b) /\ Len(Stored) \in Nat /\ Len(b) \in Nat
  BY <1>1, CatIs
<1>3. pos'[d] <= Len(Stored')
  BY <1>1, <1>2 DEF AnswerOf
<1>4. th[d] \in {"read", "send"} =>
        Piece(Stored', start'[d], pos'[d]) = Piece(Stored, start[d], pos[d])
  BY <1>1, PieceGrows DEF AnswerOf
<1>5. CASE th'[d] = th[d]
  BY <1>3, <1>4, <1>5 DEF AnswerOf
<1>6. CASE {th[d], th'[d]} \subseteq Unstarted \cup Receiving \cup {"unlock"}
  <2>1. th'[d] \notin {"read", "send"} /\ sent'[d] = << >>
    BY <1>6 DEF AnswerOf, Unstarted, Receiving
  <2> QED
    BY <1>3, <2>1 DEF AnswerOf
<1> QED
  BY <1>5, <1>6

\* The steps that leave the device and a handler's position alone.
LEMMA StoredSame ==
  ASSUME ServerBase, UNCHANGED commands
  PROVE  Stored' = Stored /\ Stored' = Cat(Stored, << >>) /\ << >> \in Seq(Characters)
  BY ContentIsSeq, CatEmpty, EmptySeq DEF ServerBase, Stored

\* The handler's own steps.
LEMMA AnswerOwnStep ==
  ASSUME ServerBase, NEW c \in Clients, AnswerOf(c), HandlerStep(c) \/ Cancelled(c),
         IsPrefix(commands, commands') \/ UNCHANGED vars
  PROVE  /\ AnswerOf(c)' /\ Alive
         /\ \E b \in Seq(Characters) : Stored' = Cat(Stored, b)
         /\ \A d \in Clients \ {c} : UNCHANGED <<pos[d], start[d], sent[d], buffer[d]>>
<1>1. /\ th \in [Clients -> Threads] /\ buffer \in [Clients -> Seq(Characters)]
      /\ pos \in [Clients -> Nat] /\ start \in [Clients -> Nat]
      /\ sent \in [Clients -> Seq(Characters)] /\ ContentTyped
  BY DEF ServerBase, ServerTypeOK, ContentTyped
<1>2. Stored \in Seq(Characters) /\ Len(Stored) \in Nat
  BY <1>1, ContentIsSeq, LenZero
<1>3. Alive
  BY DEF HandlerStep, Cancelled, BlockSignals, Lock, Open, RecvChunk, RecvEnds, Write, Ioctl,
         EndOfPacket, Unlock, Read, ReadEnds, Send, Close
<1>4. \A d \in Clients \ {c} : UNCHANGED <<pos[d], start[d], sent[d], buffer[d]>>
  BY <1>1 DEF HandlerStep, Cancelled, BlockSignals, Lock, Open, RecvChunk, RecvEnds, Write, Ioctl,
              EndOfPacket, Unlock, Read, ReadEnds, Send, Close
<1>5. \E b \in Seq(Characters) : Stored' = Cat(Stored, b)
  <2>1. CASE Write(c)
    <3>1. Device!Write(buffer[c]) \/ UNCHANGED commands
      BY <2>1 DEF Write, device
    <3>2. UNCHANGED vars => UNCHANGED commands
      BY DEF vars, device
    <3> QED
      BY <1>1, <3>1, <3>2, StoredGrows, StoredSame
  <2>2. CASE ~Write(c)
    <3>1. UNCHANGED commands
      BY <2>2 DEF HandlerStep, Cancelled, BlockSignals, Lock, Open, RecvChunk, RecvEnds, Ioctl,
             EndOfPacket, Unlock, Read, ReadEnds, Send, Close, device
    <3> QED
      BY <3>1, StoredSame
  <2> QED
    BY <2>1, <2>2
<1> SUFFICES AnswerOf(c)'
  BY <1>3, <1>4, <1>5
<1>6. CASE \/ BlockSignals(c) \/ Lock(c) \/ Open(c) \/ (\E n \in 1..Len(unsent[c]) : RecvChunk(c, n))
           \/ RecvEnds(c) \/ Write(c) \/ EndOfPacket(c)
  <2>1. th[c] \in Unstarted \cup Receiving /\ th'[c] \in Unstarted \cup Receiving \cup {"unlock"}
    BY <1>1, <1>6 DEF BlockSignals, Lock, Open, RecvChunk, RecvEnds, Write, EndOfPacket, Goto,
                      Unstarted, Receiving
  <2>2. UNCHANGED <<pos[c], start[c], sent[c]>>
    BY <1>6 DEF BlockSignals, Lock, Open, RecvChunk, RecvEnds, Write, EndOfPacket
  <2>3. PICK b \in Seq(Characters) : Stored' = Cat(Stored, b)
    BY <1>5
  <2>4. Len(Stored') = Len(Stored) + Len(b) /\ Len(b) \in Nat
    BY <1>2, <2>3, CatIs
  <2>5. pos'[c] <= Len(Stored') /\ sent'[c] = << >> /\ th'[c] \notin {"read", "send"}
    BY <1>1, <1>2, <2>1, <2>2, <2>4 DEF AnswerOf, Unstarted, Receiving
  <2> QED
    BY <2>5 DEF AnswerOf
<1>7. CASE Ioctl(c)
  <2>1. /\ th[c] = "ioctl" /\ th'[c] = "log" /\ sent' = sent /\ Stored' = Stored
        /\ \E x \in 0..(Len(Stored) - 1) \cup {pos[c]} : pos' = [pos EXCEPT ![c] = x]
    BY <1>1, <1>7 DEF Ioctl, Goto, device, Stored
  <2>2. pos'[c] <= Len(Stored)
    BY <1>1, <1>2, <2>1 DEF AnswerOf
  <2> QED
    BY <2>1, <2>2 DEF AnswerOf, Unstarted, Receiving
<1>8. CASE Unlock(c)
  <2>1. /\ th[c] = "unlock" /\ th'[c] = "read" /\ sent' = sent /\ Stored' = Stored
        /\ pos' = pos /\ start'[c] = pos[c]
    BY <1>1, <1>8 DEF Unlock, Goto, device, Stored
  <2>2. Piece(Stored, pos[c], pos[c]) = << >>
    BY <1>1, PieceEmpty
  <2>3. sent[c] = << >> /\ pos[c] <= Len(Stored) /\ pos[c] <= pos[c]
    BY <1>1, <2>1 DEF AnswerOf
  <2> QED
    BY <2>1, <2>2, <2>3 DEF AnswerOf, Unstarted, Receiving
<1>9. CASE Read(c)
  <2> DEFINE r == RestOfCommand(pos[c])
  <2>1. /\ th[c] = "read" /\ th'[c] = "send" /\ sent' = sent /\ Stored' = Stored /\ start' = start
        /\ pos[c] < Len(Stored) /\ buffer'[c] = r /\ pos'[c] = pos[c] + Len(r)
    BY <1>1, <1>9 DEF Read, Goto, device, Stored
  <2>2. PICK e \in (pos[c] + 1)..Len(Stored) :
          r = SubSeq(Stored, pos[c] + 1, e) /\ pos[c] + Len(r) = e
    BY <1>1, <2>1, RestIs DEF ContentTyped
  <2>3. /\ r = Piece(Stored, pos[c], e) /\ pos[c] \in Nat /\ start[c] \in Nat /\ e \in Nat
        /\ start[c] <= pos[c] /\ pos[c] <= e /\ e <= Len(Stored) /\ start[c] <= e
    BY <1>1, <1>2, <2>1, <2>2, SMTT(60) DEF Piece, AnswerOf
  <2>4. sent[c] = Piece(Stored, start[c], pos[c])
    BY <1>3, <2>1 DEF AnswerOf
  <2> HIDE DEF r
  <2>5. Cat(sent[c], r) = Piece(Stored, start[c], e)
    BY <1>2, <2>3, <2>4, PieceExtends
  <2> QED
    BY <2>1, <2>2, <2>3, <2>5 DEF AnswerOf, Unstarted, Receiving
<1>10. CASE Send(c)
  <2>1. /\ th[c] = "send" /\ UNCHANGED <<pos, start>> /\ Stored' = Stored
        /\ sent'[c] = Cat(sent[c], buffer[c])
        /\ th'[c] = "read" \/ (th'[c] = "send" /\ ~Alive')
    BY <1>1, <1>10 DEF Send, Goto, device, Stored, Cat, Alive
  <2>2. sent'[c] = Piece(Stored, start[c], pos[c])
    BY <1>3, <2>1 DEF AnswerOf
  <2> QED
    BY <2>1, <2>2 DEF AnswerOf, Unstarted, Receiving
<1>11. CASE Cancelled(c) \/ ReadEnds(c) \/ Close(c)
  <2>1. /\ th'[c] \in {"cancelled", "close", "done"} /\ pos' = pos /\ Stored' = Stored
    BY <1>1, <1>11 DEF Cancelled, ReadEnds, Close, Goto, device, Stored
  <2> QED
    BY <2>1 DEF AnswerOf, Unstarted, Receiving
<1> QED
  BY <1>6, <1>7, <1>8, <1>9, <1>10, <1>11 DEF HandlerStep

\* A read continues the answer where it stopped, also while others write, since
\* the content only grows at its end.
LEMMA AnswerStep ==
  ASSUME ServerBase, AnswerInv, [Next]_vars, [IsPrefix(commands, commands')]_vars
  PROVE  AnswerInv'
<1>1. th \in [Clients -> Threads] /\ ServerTypeOK /\ AcceptInv
  BY DEF ServerBase, ServerTypeOK
<1>2. CASE UNCHANGED vars
  BY <1>2 DEF vars, mainvars, device, AnswerInv, AnswerOf, Stored, Alive
<1>3. CASE MainMoves
  <2>1. UNCHANGED <<pos, start, sent, buffer, commands>> /\ Alive
    BY <1>3, MainFrame, MainAlive
  <2>2. Stored' = Cat(Stored, << >>) /\ << >> \in Seq(Characters)
    BY <2>1, StoredSame
  <2>3. ASSUME NEW d \in Clients PROVE AnswerOf(d)'
    <3>1. th'[d] = th[d] \/ (th[d] = "none" /\ th'[d] = "start")
      BY <1>1, <1>3, MainThreads
    <3> QED
      BY <2>1, <2>2, <3>1, AnswerKept DEF AnswerInv, Unstarted
  <2> QED
    BY <2>3 DEF AnswerInv
<1>4. ASSUME NEW c \in Clients, HandlerStep(c) \/ Cancelled(c) PROVE AnswerInv'
  <2>1. /\ AnswerOf(c)' /\ Alive
        /\ \A d \in Clients \ {c} : UNCHANGED <<pos[d], start[d], sent[d], buffer[d]>>
    BY <1>4, AnswerOwnStep DEF AnswerInv
  <2>2. PICK b \in Seq(Characters) : Stored' = Cat(Stored, b)
    BY <1>4, AnswerOwnStep DEF AnswerInv
  <2>3. \A d \in Clients \ {c} : th'[d] = th[d]
    BY <1>1, <1>4, HandlerStepMoves DEF HandlerMoves
  <2>4. ASSUME NEW d \in Clients, d # c PROVE AnswerOf(d)'
    BY <2>1, <2>2, <2>3, <2>4, AnswerKept DEF AnswerInv
  <2> QED
    BY <2>1, <2>4 DEF AnswerInv
<1> QED
  BY <1>2, <1>3, <1>4, StepKinds

\* At the start nothing has been sent.
LEMMA AnswerInit ==
  ASSUME Init
  PROVE  AnswerInv
<1>1. /\ th = [c \in Clients |-> "none"] /\ pos = [c \in Clients |-> 0]
      /\ sent = [c \in Clients |-> << >>] /\ Stored = << >>
  BY FlattenEmpty DEF Init, Device!Init, Stored
<1>2. Len(Stored) = 0
  BY <1>1, EmptySeq
<1> QED
  BY <1>1, <1>2 DEF AnswerInv, AnswerOf

(***************************************************************************)
(* A handler that reads to the end of the device has sent its client the   *)
(* whole content from where it started, for any clients, packets and       *)
(* faults, although it reads without the mutex while others write, as long *)
(* as the device forgets no command.  (If one is forgotten while a handler *)
(* reads, the positions shift under it and bytes are skipped.)             *)
(***************************************************************************)
THEOREM AnswersAreWhole == Spec /\ NothingForgotten => ReadBackWhole
<1> DEFINE I == ServerBase /\ AnswerInv
           A == \A c \in Clients : th[c] = "read" /\ th'[c] = "close" =>
                  sent[c] = SubSeq(Stored, start[c] + 1, Len(Stored))
<1>1. Init => I
  BY ServerBaseInit, AnswerInit
<1>2. I /\ [Next]_vars /\ [IsPrefix(commands, commands')]_vars => I'
  BY ServerBaseStep, AnswerStep
<1>3. I /\ [Next]_vars => [A]_vars
  <2> SUFFICES ASSUME I, Next, NEW c \in Clients, th[c] = "read", th'[c] = "close"
               PROVE  sent[c] = SubSeq(Stored, start[c] + 1, Len(Stored))
    OBVIOUS
  <2>1. /\ th \in [Clients -> Threads] /\ ServerTypeOK /\ AcceptInv /\ ContentTyped
        /\ pos \in [Clients -> Nat]
    BY DEF ServerBase, ServerTypeOK
  <2>2. ~MainMoves
    BY <2>1, MainThreads
  <2>3. PICK d \in Clients : HandlerStep(d) \/ Cancelled(d)
    BY <2>2, StepKinds
  <2>4. d = c
    BY <2>1, <2>3, HandlerStepMoves DEF HandlerMoves
  <2>5. ReadEnds(c)
    BY <2>1, <2>3, <2>4 DEF HandlerStep, Cancelled, BlockSignals, Lock, Open, RecvChunk, RecvEnds,
       Write, Ioctl, EndOfPacket, Unlock, Read, Send, Close, Goto
  <2>6. Alive /\ pos[c] >= Len(Stored) /\ pos[c] <= Len(Stored)
    BY <2>5 DEF ReadEnds, AnswerInv, AnswerOf
  <2>7. Len(Stored) \in Nat /\ pos[c] \in Nat
    BY <2>1, ContentIsSeq, LenZero
  <2>8. pos[c] = Len(Stored)
    BY <2>6, <2>7
  <2> QED
    BY <2>6, <2>8 DEF AnswerInv, AnswerOf, Piece
<1> HIDE DEF I
<1> QED
  BY <1>1, <1>2, <1>3, PTL DEF Spec, NothingForgotten, ReadBackWhole


-----------------------------------------------------------------------------
(* The answer contains the client's own packet                             *)

\* A byte of a concatenation is a byte of one of its parts.
LEMMA NamesCat ==
  ASSUME NEW c, NEW s \in Seq(Characters), NEW t \in Seq(Characters)
  PROVE  Names(c, Cat(s, t)) <=> Names(c, s) \/ Names(c, t)
<1> DEFINE x == Cat(s, t)
<1>1. Len(x) = Len(s) + Len(t) /\ Len(s) \in Nat /\ Len(t) \in Nat
  BY CatIs
<1>2. \A j \in 1..Len(s) : x[j] = s[j]
  BY CatIs
<1>3. \A i \in 1..Len(t) : x[Len(s) + i] = t[i]
  <2>1. \A i \in 1..Len(t) : Cat(s, t)[Len(s) + i] = t[i]
    BY CatIs
  <2> QED
    BY <2>1, Zenon
<1>4. ~Names(c, s) /\ ~Names(c, t) => ~Names(c, x)
  BY AbsentConcat DEF Names
<1> HIDE DEF x
<1>5. Names(c, s) => Names(c, x)
  BY <1>1, <1>2 DEF Names
<1>6. Names(c, t) => Names(c, x)
  <2> SUFFICES ASSUME NEW i \in 1..Len(t), t[i] = c PROVE Names(c, x)
    BY DEF Names
  <2>1. Len(s) + i \in 1..Len(x) /\ x[Len(s) + i] = c
    BY <1>1, <1>3
  <2> QED
    BY <2>1 DEF Names
<1> QED
  BY <1>4, <1>5, <1>6 DEF x

\* However a text packet is cut, the chunk is no seek command, the rest is text,
\* and the last chunk ends with the newline.
LEMMA TextCut ==
  ASSUME NEW c, NEW u \in Seq(Characters), NEW n \in 1..Len(u), NoHeader(u), Last(u) = NL
  PROVE  LET chunk == SubSeq(u, 1, n)
             rest == SubSeq(u, n + 1, Len(u))
         IN /\ ~MayBeSeek(chunk) /\ chunk # << >>
            /\ NoHeader(rest) /\ (rest # << >> => Last(rest) = NL)
            /\ rest = << >> => Last(chunk) = NL
            /\ Names(c, u) => Names(c, chunk) \/ Names(c, rest)
<1> DEFINE L == Len(u)
           chunk == SubSeq(u, 1, n)
           rest == SubSeq(u, n + 1, L)
<1>1. L \in Nat /\ n \in Nat /\ 1 <= n /\ n <= L /\ \A i \in 1..L : u[i] \in Characters
  BY LenZero
<1>2. chunk \in Seq(Characters) /\ Len(chunk) = n /\ \A i \in 1..n : chunk[i] = u[i]
  BY <1>1, SubSeqProperties
<1>3. rest \in Seq(Characters) /\ Len(rest) = L - n /\ \A i \in 1..(L - n) : rest[i] = u[n + i]
  BY <1>1, SubSeqProperties
<1>4. ~MayBeSeek(chunk)
  <2>1. 0 \in 0..Len(u) /\ n \in 0..Len(u) /\ chunk = Piece(u, 0, n)
    BY <1>1 DEF Piece
  <2> HIDE DEF chunk
  <2> QED
    BY <2>1 DEF NoHeader
<1>5. NoHeader(rest)
  <2> SUFFICES ASSUME NEW i \in 0..Len(rest), NEW j \in i..Len(rest)
               PROVE  i # j => ~MayBeSeek(Piece(rest, i, j))
    BY DEF NoHeader
  <2>1. i \in Nat /\ j \in Nat /\ i <= j /\ j <= L - n /\ n + i \in 0..Len(u) /\ n + j \in (n + i)..Len(u)
    BY <1>1, <1>3
  <2>2. Piece(rest, i, j) = Piece(u, n + i, n + j)
    <3>1. CASE i = j
      BY <2>1, <3>1, <1>1, PieceEmpty
    <3>2. CASE i < j
      <4>1. /\ n + 1 \in 1..Len(u) /\ L \in (n + 1) - 1..Len(u)
            /\ i + 1 \in 1..(L - (n + 1)) + 1 /\ j \in (i + 1)..(L - (n + 1)) + 1
        BY <1>1, <2>1, <3>2 DEF L
      <4>2. SubSeq(SubSeq(u, n + 1, L), i + 1, j) = SubSeq(u, (n + 1) + (i + 1) - 1, (n + 1) + j - 1)
        BY <4>1, SubSeqOfSubSeq DEF L
      <4>3. (n + 1) + (i + 1) - 1 = (n + i) + 1 /\ (n + 1) + j - 1 = n + j
        BY <1>1, <2>1
      <4> QED
        BY <4>2, <4>3, Zenon DEF Piece, rest
    <3> QED
      BY <2>1, <3>1, <3>2
  <2> QED
    BY <2>1, <2>2 DEF NoHeader
<1>6. chunk # << >> /\ (rest = << >> <=> n = L)
  <2> HIDE DEF chunk, rest, L
  <2>1. chunk # << >>
    BY <1>1, <1>2, LenZero
  <2>2. rest = << >> <=> L - n = 0
    BY <1>3, LenZero
  <2> QED
    BY <1>1, <2>1, <2>2
<1>7. n = L => Last(chunk) = NL
  BY <1>1, <1>2 DEF Last, L
<1>8. n # L => Last(rest) = NL
  <2>1. n # L => L - n \in 1..(L - n) /\ n + (L - n) = L
    BY <1>1
  <2> QED
    BY <1>3, <2>1 DEF Last, L
<1>9. Names(c, u) => Names(c, chunk) \/ Names(c, rest)
  <2> HIDE DEF chunk, rest, L
  <2> SUFFICES ASSUME NEW i \in 1..L, u[i] = c PROVE Names(c, chunk) \/ Names(c, rest)
    BY DEF Names, L
  <2>1. CASE i <= n
    BY <1>1, <1>2, <2>1 DEF Names
  <2>2. CASE i > n
    <3>1. i - n \in 1..(L - n) /\ n + (i - n) = i
      BY <1>1, <2>2
    <3> QED
      BY <1>3, <3>1 DEF Names
  <2> QED
    BY <1>1, <2>1, <2>2
<1> QED
  BY <1>4, <1>5, <1>6, <1>7, <1>8, <1>9

\* A write loses no name, and one that ends a line stores every name of it.
LEMMA WriteNames ==
  ASSUME ContentTyped, ContentTyped', NEW chunk \in Seq(Characters), Device!Write(chunk),
         IsPrefix(commands, commands'), NEW c
  PROVE  /\ Names(c, Stored) => Names(c, Stored')
         /\ Names(c, Content) \/ Names(c, chunk) => Names(c, Content')
         /\ chunk # << >> /\ Last(chunk) = NL =>
              (Names(c, Content) \/ Names(c, chunk) => Names(c, Stored'))
<1> DEFINE line == Cat(partial, chunk)
           kept == IF Len(commands) = Capacity THEN Tail(commands) ELSE commands
<1>1. /\ commands \in Seq(Seq(Characters)) /\ partial \in Seq(Characters)
      /\ Stored \in Seq(Characters) /\ Content = Cat(Stored, partial)
      /\ Stored' \in Seq(Characters) /\ partial' \in Seq(Characters)
      /\ Content' = Cat(Stored', partial')
  BY ContentIsSeq, ContentIsSeqNext DEF ContentTyped, Content
<1>2. line \in Seq(Characters)
  BY <1>1, CatIs
<1>3. Names(c, line) <=> Names(c, partial) \/ Names(c, chunk)
  BY <1>1, NamesCat
<1>4. Names(c, Content) <=> Names(c, Stored) \/ Names(c, partial)
  BY <1>1, NamesCat
<1>5. Names(c, Content') <=> Names(c, Stored') \/ Names(c, partial')
  BY <1>1, NamesCat
<1>6. Names(c, Stored) => Names(c, Stored')
  <2>1. PICK b \in Seq(Characters) : Stored' = Cat(Stored, b)
    BY StoredGrows
  <2>2. Names(c, Cat(Stored, b)) <=> Names(c, Stored) \/ Names(c, b)
    BY <1>1, NamesCat
  <2> QED
    BY <2>1, <2>2
<1>7. \/ commands' = Append(kept, line) /\ partial' = << >>
      \/ partial' = line /\ ~Contains(line, NL)
  BY DEF Device!Write, Device!Contains, Contains, Cat
<1>8. commands' = Append(kept, line) => (Names(c, line) => Names(c, Stored'))
  <2>1. kept \in Seq(Seq(Characters))
    <3>1. Capacity # 0 /\ Capacity \in Nat
      BY ServerAssumption
    <3> QED
      BY <1>1, <3>1, LenZero, HeadTailProperties
  <2> HIDE DEF kept, line
  <2>2. FlattenSeq(Append(kept, line)) = Cat(FlattenSeq(kept), line) /\ FlattenSeq(kept) \in Seq(Characters)
    BY <1>2, <2>1, FlattenAppend, FlattenTyped DEF Cat
  <2>3. Names(c, Cat(FlattenSeq(kept), line)) <=> Names(c, FlattenSeq(kept)) \/ Names(c, line)
    BY <1>2, <2>2, NamesCat
  <2> QED
    BY <2>2, <2>3 DEF Stored
<1>9. chunk # << >> /\ Last(chunk) = NL => Contains(line, NL)
  <2>1. chunk # << >> => Len(chunk) \in 1..Len(chunk)
    BY LenZero
  <2>2. Len(line) = Len(partial) + Len(chunk) /\ Len(partial) \in Nat /\ Len(chunk) \in Nat
    BY <1>1, CatIs
  <2>3. \A i \in 1..Len(chunk) : line[Len(partial) + i] = chunk[i]
    BY <1>1, CatIs
  <2> HIDE DEF line
  <2>4. \A i \in 1..Len(chunk) : Len(partial) + i \in 1..Len(line)
    BY <2>2
  <2> QED
    BY <2>1, <2>3, <2>4 DEF Last, Contains
<1> HIDE DEF line, kept
<1>10. CASE commands' = Append(kept, line) /\ partial' = << >>
  BY <1>3, <1>4, <1>5, <1>6, <1>8, <1>10
<1>11. CASE partial' = line /\ ~Contains(line, NL)
  BY <1>3, <1>4, <1>5, <1>6, <1>9, <1>11
<1> QED
  BY <1>7, <1>10, <1>11


\* The clause of a client whose handler does nothing.
LEMMA TextKept ==
  ASSUME NEW d \in Clients, TextOf(d), th'[d] = th[d] \/ (th[d] = "none" /\ th'[d] = "start"),
         UNCHANGED <<unsent[d], buffer[d], pos[d], start[d], sent[d]>>,
         Names(d, Stored) => Names(d, Stored'), Names(d, Content) => Names(d, Content')
  PROVE  TextOf(d)'
<1>1. CASE th'[d] = th[d]
  <2>1. RestOfText(d)'
    BY <1>1 DEF TextOf, RestOfText
  <2>2. NameOnTheWay(d)'
    BY <1>1 DEF TextOf, NameOnTheWay
  <2>3. NameDelivered(d)'
    BY <1>1 DEF TextOf, NameDelivered
  <2> QED
    BY <2>1, <2>2, <2>3 DEF TextOf
<1>2. CASE th[d] = "none" /\ th'[d] = "start"
  <2>1. RestOfText(d)'
    BY <1>2 DEF TextOf, RestOfText, Unstarted
  <2>2. NameOnTheWay(d)' /\ NameDelivered(d)'
    BY <1>2 DEF NameOnTheWay, NameDelivered
  <2> QED
    BY <2>1, <2>2 DEF TextOf
<1> QED
  BY <1>1, <1>2

\* The handler's own steps: it writes what it has received, and reads back from
\* the start of the device.
LEMMA TextOwnStep ==
  ASSUME ServerBase, ServerBase', TextPackets, "write" \notin Faults,
         NEW c \in Clients, TextClient(c), TextOf(c), AnswerOf(c),
         HandlerStep(c) \/ Cancelled(c), IsPrefix(commands, commands')
  PROVE  TextOf(c)'
<1>1. /\ th \in [Clients -> Threads] /\ buffer \in [Clients -> Seq(Characters)]
      /\ unsent \in [Clients -> Seq(Characters)]
      /\ pos \in [Clients -> Nat] /\ start \in [Clients -> Nat]
      /\ sent \in [Clients -> Seq(Characters)] /\ ContentTyped /\ ContentTyped'
  BY DEF ServerBase, ServerTypeOK, ContentTyped
<1>2. RestOfText(c) /\ NameOnTheWay(c) /\ NameDelivered(c)
  BY DEF TextOf
<1>3. CASE BlockSignals(c) \/ Lock(c) \/ Open(c)
  <2>1. /\ th[c] \in Unstarted /\ th'[c] \in Unstarted \cup {"recv"}
        /\ UNCHANGED <<unsent, buffer, pos, start, sent>>
    BY <1>1, <1>3 DEF BlockSignals, Lock, Open, Goto, Unstarted
  <2>2. unsent[c] = Packet[c] /\ Names(c, unsent[c]) /\ unsent[c] # << >>
    <3>1. unsent[c] = Packet[c] /\ Names(c, unsent[c])
      BY <1>2, <2>1 DEF RestOfText, TextPackets
    <3>2. Len(unsent[c]) # 0
      BY <3>1 DEF Names
    <3> QED
      BY <1>1, <3>1, <3>2, LenZero
  <2>3. RestOfText(c)'
    BY <1>2, <2>1, <2>2 DEF RestOfText, Unstarted, Receiving
  <2>4. NameOnTheWay(c)' /\ NameDelivered(c)'
    BY <2>1, <2>2 DEF NameOnTheWay, NameDelivered, Unstarted
  <2> QED
    BY <2>3, <2>4 DEF TextOf
<1>4. CASE \E n \in 1..Len(unsent[c]) : RecvChunk(c, n)
  <2>1. PICK n \in 1..Len(unsent[c]) : RecvChunk(c, n)
    BY <1>4
  <2> DEFINE u == unsent[c]
             chunk == SubSeq(u, 1, n)
             rest == SubSeq(u, n + 1, Len(u))
  <2>2. /\ th[c] = "recv" /\ (~MayBeSeek(chunk) => th' = [th EXCEPT ![c] = "write"])
        /\ buffer' = [buffer EXCEPT ![c] = chunk] /\ unsent' = [unsent EXCEPT ![c] = rest]
        /\ UNCHANGED <<pos, start, sent, commands, partial>>
    BY <2>1 DEF RecvChunk, Goto, device
  <2>3. u \in Seq(Characters) /\ NoHeader(u) /\ Last(u) = NL /\ (Names(c, u) \/ Names(c, Content))
    BY <1>1, <1>2, <2>2 DEF RestOfText, NameOnTheWay
  <2>4. /\ ~MayBeSeek(chunk) /\ chunk # << >>
        /\ NoHeader(rest) /\ (rest # << >> => Last(rest) = NL)
        /\ rest = << >> => Last(chunk) = NL
        /\ Names(c, u) => Names(c, chunk) \/ Names(c, rest)
    BY <2>3, TextCut
  <2>5. pos[c] = 0
    BY <1>2, <2>2 DEF RestOfText, Receiving
  <2> HIDE DEF u, chunk, rest
  <2>6. th'[c] = "write" /\ buffer'[c] = chunk /\ unsent'[c] = rest /\ pos'[c] = 0 /\ Content' = Content
    BY <1>1, <2>2, <2>4, <2>5 DEF Content, Stored
  <2>7. RestOfText(c)'
    BY <2>4, <2>6 DEF RestOfText, Unstarted, Receiving
  <2>8. NameOnTheWay(c)'
    BY <2>3, <2>4, <2>6 DEF NameOnTheWay
  <2>9. NameDelivered(c)'
    BY <2>4, <2>6 DEF NameDelivered
  <2> QED
    BY <2>7, <2>8, <2>9 DEF TextOf
<1>5. CASE Write(c)
  <2> DEFINE chunk == buffer[c]
  <2>1. /\ th[c] = "write" /\ th'[c] = "log" /\ Device!Write(chunk)
        /\ UNCHANGED <<unsent, buffer, pos, start, sent>>
    BY <1>1, <1>5 DEF Write, Goto
  <2>2. chunk \in Seq(Characters)
    BY <1>1
  <2>3. /\ Names(c, Content) \/ Names(c, chunk) => Names(c, Content')
        /\ chunk # << >> /\ Last(chunk) = NL =>
             (Names(c, Content) \/ Names(c, chunk) => Names(c, Stored'))
    BY <1>1, <2>1, <2>2, WriteNames
  <2>4. Names(c, unsent[c]) \/ Names(c, chunk) \/ Names(c, Content)
    BY <1>2, <2>1 DEF NameOnTheWay
  <2>5. unsent[c] = << >> => chunk # << >> /\ Last(chunk) = NL /\ ~Names(c, unsent[c])
    <3>1. unsent[c] = << >> => Len(unsent[c]) = 0
      BY EmptySeq
    <3>2. unsent[c] = << >> => ~Names(c, unsent[c])
      BY <3>1 DEF Names
    <3> QED
      BY <1>2, <2>1, <3>2 DEF NameDelivered
  <2>6. RestOfText(c)'
    BY <1>2, <2>1 DEF RestOfText, Unstarted, Receiving
  <2>7. NameOnTheWay(c)'
    BY <2>1, <2>3, <2>4 DEF NameOnTheWay
  <2>8. NameDelivered(c)'
    BY <2>1, <2>3, <2>4, <2>5 DEF NameDelivered
  <2> QED
    BY <2>6, <2>7, <2>8 DEF TextOf
<1>6. CASE Ioctl(c)
  BY <1>2, <1>6 DEF Ioctl, RestOfText
<1>7. CASE EndOfPacket(c)
  <2>1. /\ th[c] = "log" /\ th'[c] = (IF Last(buffer[c]) = NL THEN "unlock" ELSE "recv")
        /\ UNCHANGED <<unsent, buffer, pos, start, sent, commands, partial>>
    BY <1>1, <1>7 DEF EndOfPacket, Goto, device
  <2>2. Content' = Content /\ Stored' = Stored
    BY <2>1 DEF Content, Stored
  <2>3. RestOfText(c)'
    BY <1>2, <2>1 DEF RestOfText, Unstarted, Receiving
  <2>4. NameOnTheWay(c)'
    BY <1>2, <2>1, <2>2 DEF NameOnTheWay, NameDelivered
  <2>5. NameDelivered(c)'
    BY <1>2, <2>1, <2>2 DEF NameDelivered
  <2> QED
    BY <2>3, <2>4, <2>5 DEF TextOf
<1>8. CASE RecvEnds(c)
  <2>1. th[c] = "recv" /\ th'[c] = "unlock" /\ UNCHANGED <<unsent, buffer, pos, start, sent>>
    BY <1>1, <1>8 DEF RecvEnds, Goto
  <2>2. unsent[c] # << >>
    BY <1>2, <2>1 DEF NameOnTheWay
  <2>3. RestOfText(c)'
    BY <1>2, <2>1 DEF RestOfText, Unstarted, Receiving
  <2>4. NameOnTheWay(c)' /\ NameDelivered(c)'
    BY <2>1, <2>2 DEF NameOnTheWay, NameDelivered
  <2> QED
    BY <2>3, <2>4 DEF TextOf
<1>9. CASE Unlock(c) \/ Read(c) \/ Send(c)
  <2>1. /\ th[c] \in {"unlock", "read", "send"} /\ th'[c] \in {"read", "send"}
        /\ unsent' = unsent /\ commands' = commands
    BY <1>1, <1>9 DEF Unlock, Read, Send, Goto, device
  <2>2. th[c] = "unlock" => start'[c] = pos[c]
    BY <1>1, <1>9 DEF Unlock, Read, Send
  <2>3. th[c] # "unlock" => start'[c] = start[c]
    BY <1>1, <1>9 DEF Unlock, Read, Send
  <2>4. start'[c] = 0
    BY <1>2, <2>1, <2>2, <2>3 DEF RestOfText
  <2>5. RestOfText(c)'
    BY <1>2, <2>1, <2>4 DEF RestOfText, Unstarted, Receiving
  <2>6. NameOnTheWay(c)' /\ NameDelivered(c)'
    BY <1>2, <2>1 DEF NameOnTheWay, NameDelivered, Stored
  <2> QED
    BY <2>5, <2>6 DEF TextOf
<1>10. CASE ReadEnds(c)
  <2>1. /\ Alive /\ th[c] = "read" /\ th'[c] = "close" /\ pos[c] >= Len(Stored)
        /\ UNCHANGED <<unsent, sent>>
    BY <1>1, <1>10 DEF ReadEnds, Goto
  <2>2. start[c] = 0 /\ (unsent[c] = << >> => Names(c, Stored))
    BY <1>2, <2>1 DEF RestOfText, NameDelivered
  <2>3. Stored \in Seq(Characters) /\ Len(Stored) \in Nat
    BY <1>1, ContentIsSeq, LenZero
  <2>4. pos[c] = Len(Stored) /\ sent[c] = Piece(Stored, start[c], pos[c])
    BY <1>1, <2>1, <2>3 DEF AnswerOf
  <2>5. Piece(Stored, 0, Len(Stored)) = Stored
    <3>1. 0 + 1 = 1 /\ SubSeq(Stored, 1, Len(Stored)) = Stored
      BY <2>3, SubSeqFull
    <3> QED
      BY <3>1, Zenon DEF Piece
  <2>6. sent[c] = Stored
    BY <2>2, <2>4, <2>5
  <2>7. RestOfText(c)'
    BY <1>2, <2>1 DEF RestOfText, Unstarted, Receiving
  <2>8. NameOnTheWay(c)' /\ NameDelivered(c)'
    BY <2>1, <2>2, <2>6 DEF NameOnTheWay, NameDelivered
  <2> QED
    BY <2>7, <2>8 DEF TextOf
<1>11. CASE Close(c) \/ Cancelled(c)
  <2>1. /\ th'[c] = "cancelled" \/ (th[c] = "close" /\ th'[c] = "done")
        /\ UNCHANGED <<unsent, sent>>
    BY <1>1, <1>11 DEF Close, Cancelled, Goto
  <2>2. RestOfText(c)'
    BY <1>2, <2>1 DEF RestOfText, Unstarted, Receiving
  <2>3. NameOnTheWay(c)' /\ NameDelivered(c)'
    BY <1>2, <2>1 DEF NameOnTheWay, NameDelivered
  <2> QED
    BY <2>2, <2>3 DEF TextOf
<1> QED
  BY <1>3, <1>4, <1>5, <1>6, <1>7, <1>8, <1>9, <1>10, <1>11 DEF HandlerStep

\* No step of anybody loses a name that is in the device.
LEMMA NamesKept ==
  ASSUME ServerBase, ServerBase', [Next]_vars, [IsPrefix(commands, commands')]_vars, NEW d
  PROVE  /\ Names(d, Stored) => Names(d, Stored')
         /\ Names(d, Content) => Names(d, Content')
<1>1. CASE UNCHANGED <<commands, partial>>
  BY <1>1 DEF Stored, Content
<1>2. CASE \E c \in Clients : Write(c) /\ Device!Write(buffer[c])
  <2>1. PICK c \in Clients : Device!Write(buffer[c])
    BY <1>2
  <2>2. buffer[c] \in Seq(Characters) /\ ContentTyped /\ ContentTyped'
    BY DEF ServerBase, ContentTyped
  <2>3. CASE IsPrefix(commands, commands')
    BY <2>1, <2>2, <2>3, WriteNames
  <2>4. CASE UNCHANGED vars
    BY <1>1, <2>4 DEF vars, device
  <2> QED
    BY <2>3, <2>4
<1>3. UNCHANGED <<commands, partial>> \/ \E c \in Clients : Write(c) /\ Device!Write(buffer[c])
  <2>1. CASE UNCHANGED vars
    BY <2>1 DEF vars, device
  <2>2. CASE MainMoves
    BY <2>2, MainFrame
  <2>3. ASSUME NEW c \in Clients, HandlerStep(c) \/ Cancelled(c)
        PROVE  UNCHANGED <<commands, partial>> \/ (Write(c) /\ Device!Write(buffer[c]))
    <3>1. CASE Write(c)
      BY <3>1 DEF Write, device
    <3>2. CASE ~Write(c)
      BY <2>3, <3>2 DEF HandlerStep, Cancelled, BlockSignals, Lock, Open, RecvChunk, RecvEnds, Ioctl,
           EndOfPacket, Unlock, Read, ReadEnds, Send, Close, device
    <3> QED
      BY <3>1, <3>2
  <2> QED
    BY <2>1, <2>2, <2>3, StepKinds
<1> QED
  BY <1>1, <1>2, <1>3

\* Text packets stay on their way from the socket through the device to the answer.
LEMMA TextStep ==
  ASSUME TextPackets, "write" \notin Faults, ServerBase, ServerBase', AnswerInv, TextInv,
         [Next]_vars, [IsPrefix(commands, commands')]_vars
  PROVE  TextInv'
<1>1. th \in [Clients -> Threads] /\ ServerTypeOK /\ AcceptInv
  BY DEF ServerBase, ServerTypeOK
<1> SUFFICES ASSUME NEW d \in Clients, TextClient(d) PROVE TextOf(d)'
  BY DEF TextInv, TextClient
<1>2. TextOf(d) /\ AnswerOf(d)
  BY DEF TextInv, AnswerInv
<1>3. Names(d, Stored) => Names(d, Stored')
  BY NamesKept
<1>4. Names(d, Content) => Names(d, Content')
  BY NamesKept
<1>5. CASE UNCHANGED vars
  <2>1. th' = th /\ UNCHANGED <<unsent, buffer, pos, start, sent>>
    BY <1>5 DEF vars
  <2> QED
    BY <1>2, <1>3, <1>4, <2>1, TextKept
<1>6. CASE MainMoves
  <2>1. UNCHANGED <<unsent, buffer, pos, start, sent>>
    BY <1>6, MainFrame
  <2>2. th'[d] = th[d] \/ (th[d] = "none" /\ th'[d] = "start")
    BY <1>1, <1>6, MainThreads
  <2> QED
    BY <1>2, <1>3, <1>4, <2>1, <2>2, TextKept
<1>7. ASSUME NEW c \in Clients, HandlerStep(c) \/ Cancelled(c), ~UNCHANGED vars PROVE TextOf(d)'
  <2>1. CASE c = d
    BY <1>2, <1>7, <2>1, TextOwnStep
  <2>2. CASE c # d
    <3>1. th'[d] = th[d]
      BY <1>1, <1>7, <2>2, HandlerStepMoves DEF HandlerMoves
    <3>2. /\ unsent \in [Clients -> Seq(Characters)] /\ buffer \in [Clients -> Seq(Characters)]
          /\ pos \in [Clients -> Nat] /\ start \in [Clients -> Nat] /\ sent \in [Clients -> Seq(Characters)]
      BY DEF ServerBase, ServerTypeOK, ContentTyped
    <3>3. UNCHANGED <<unsent[d], buffer[d], pos[d], start[d], sent[d]>>
      BY <1>7, <2>2, <3>2 DEF HandlerStep, Cancelled, BlockSignals, Lock, Open, RecvChunk, RecvEnds,
         Write, Ioctl, EndOfPacket, Unlock, Read, ReadEnds, Send, Close
    <3> QED
      BY <1>2, <1>3, <1>4, <3>1, <3>3, TextKept
  <2> QED
    BY <2>1, <2>2
<1> QED
  BY <1>5, <1>6, <1>7, StepKinds

\* At the start every text packet is still to be sent.
LEMMA TextInit ==
  ASSUME TextPackets, Init
  PROVE  TextInv
<1> SUFFICES ASSUME NEW c \in Clients, TextClient(c) PROVE TextOf(c)
  BY DEF TextInv
<1>1. th[c] = "none" /\ unsent[c] = Packet[c] /\ pos[c] = 0
  BY DEF Init
<1>2. RestOfText(c)
  BY <1>1 DEF RestOfText, TextPackets, TextClient
<1>3. NameOnTheWay(c) /\ NameDelivered(c)
  BY <1>1 DEF NameOnTheWay, NameDelivered
<1> QED
  BY <1>2, <1>3 DEF TextOf


(***************************************************************************)
(* As long as the device forgets nothing and takes every write, the        *)
(* packets stay whole and a client that sent a whole text packet finds it  *)
(* in its answer, for any clients and packets, however TCP cuts them and   *)
(* whoever goes away.  (A part of a packet that happens to begin with the  *)
(* header of a seek command would be one, and move the answer's start.)    *)
(***************************************************************************)
THEOREM OwnPacketsAreAnswered ==
  NamedPackets /\ TextPackets /\ "write" \notin Faults =>
    (Spec /\ NothingForgotten => []ServerInv)
<1> SUFFICES ASSUME NamedPackets, TextPackets, "write" \notin Faults
             PROVE  Spec /\ NothingForgotten => []ServerInv
  OBVIOUS
<1> DEFINE I == ServerBase /\ AnswerInv /\ TextInv
<1>1. Init => I
  BY ServerBaseInit, AnswerInit, TextInit
<1>2. I /\ [Next]_vars /\ [IsPrefix(commands, commands')]_vars => I'
  BY ServerBaseStep, AnswerStep, TextStep
<1>3. I => ServerTypeOK /\ OwnPacketAnswered
  BY DEF ServerBase, TextInv, TextClient, TextOf, NameDelivered, Names, OwnPacketAnswered
<1>4. Spec => []PacketsContiguous
  BY PacketsAreNotMixed
<1>5. ServerTypeOK /\ PacketsContiguous /\ OwnPacketAnswered => ServerInv
  BY DEF ServerInv
<1> HIDE DEF I
<1> QED
  BY <1>1, <1>2, <1>3, <1>4, <1>5, PTL DEF Spec, NothingForgotten

-----------------------------------------------------------------------------
(* A device with room for every line forgets nothing                       *)

\* The lines of a packet can be counted, and no more of them are left as it is
\* received; one less when a newline is among what is received.
LEMMA LinesCounted ==
  ASSUME NEW c \in Clients, NEW i \in Nat, NEW j \in Nat, i <= j
  PROVE  /\ Cardinality(NewlinesFrom(c, i)) \in Nat /\ Cardinality(NewlinesFrom(c, j)) \in Nat
         /\ Cardinality(NewlinesFrom(c, j)) <= Cardinality(NewlinesFrom(c, i))
         /\ (\E k \in NewlinesFrom(c, i) : k <= j) =>
              Cardinality(NewlinesFrom(c, j)) + 1 <= Cardinality(NewlinesFrom(c, i))
<1> DEFINE S == NewlinesFrom(c, i)
           T == NewlinesFrom(c, j)
<1>1. IsFiniteSet(S)
  <2>1. Len(Packet[c]) \in Int /\ 1 \in Int
    BY ServerAssumption, LenZero
  <2>2. IsFiniteSet(1..Len(Packet[c]))
    BY <2>1, FS_Interval
  <2>3. S \in SUBSET (1..Len(Packet[c]))
    BY DEF NewlinesFrom
  <2> HIDE DEF S
  <2> QED
    BY <2>2, <2>3, FS_Subset
<1>2. T \in SUBSET S
  <2>1. Len(Packet[c]) \in Nat
    BY ServerAssumption, LenZero
  <2> QED
    BY <2>1 DEF NewlinesFrom
<1>3. (\E k \in S : k <= j) => S # T
  <2>1. Len(Packet[c]) \in Nat
    BY ServerAssumption, LenZero
  <2>2. \A k \in T : k > j /\ k \in Nat
    BY <2>1 DEF NewlinesFrom
  <2> HIDE DEF S, T
  <2> QED
    BY <2>2
<1> HIDE DEF S, T
<1>4. IsFiniteSet(T) /\ Cardinality(T) <= Cardinality(S) /\ (Cardinality(S) = Cardinality(T) => S = T)
  BY <1>1, <1>2, FS_Subset
<1>5. Cardinality(S) \in Nat /\ Cardinality(T) \in Nat
  BY <1>1, <1>4, FS_CardinalityType
<1> QED
  BY <1>3, <1>4, <1>5 DEF S, T

\* The lines that are left are counted by naturals.
LEMMA LinesTyped ==
  (ServerBase /\ (\A c \in Clients : RestOfPacket(c))) => LinesLeft \in [Clients -> Nat]
<1> SUFFICES ASSUME ServerBase, NEW c \in Clients, RestOfPacket(c)
             PROVE  Cardinality(NewlinesFrom(c, Received(c))) + Holding(c) \in Nat
  BY DEF LinesLeft
<1>1. Received(c) \in Nat
  <2>1. Len(Packet[c]) \in Nat /\ Len(unsent[c]) \in Nat
    BY ServerAssumption, LenZero DEF ServerBase, ContentTyped
  <2> QED
    BY <2>1 DEF RestOfPacket, Received
<1>2. Cardinality(NewlinesFrom(c, Received(c))) \in Nat
  BY <1>1, LinesCounted
<1>3. Holding(c) \in Nat
  BY DEF Holding
<1> QED
  BY <1>2, <1>3

\* LinesTyped after a step.
LEMMA LinesTypedNext ==
  ((ServerBase /\ (\A c \in Clients : RestOfPacket(c))) => LinesLeft \in [Clients -> Nat])'
<1>1. (ServerBase /\ (\A c \in Clients : RestOfPacket(c))) => LinesLeft \in [Clients -> Nat]
  BY LinesTyped
<1> QED
  BY <1>1, PTL

\* A handler's chunk carries the newlines that it takes from the packet.
LEMMA LinesReceived ==
  ASSUME ServerBase, NEW c \in Clients, RestOfPacket(c), NEW n \in 1..Len(unsent[c]), RecvChunk(c, n)
  PROVE  RestOfPacket(c)' /\ LinesLeft'[c] <= LinesLeft[c]
<1> DEFINE u == unsent[c]
           L == Len(u)
           chunk == SubSeq(u, 1, n)
           rest == SubSeq(u, n + 1, L)
           P == Len(Packet[c])
<1>1. /\ th \in [Clients -> Threads] /\ unsent \in [Clients -> Seq(Characters)]
      /\ buffer \in [Clients -> Seq(Characters)] /\ u \in Seq(Characters)
  BY DEF ServerBase, ServerTypeOK, ContentTyped
<1>2. L \in Nat /\ n \in Nat /\ 1 <= n /\ n <= L /\ P \in Nat /\ \A i \in 1..L : u[i] \in Characters
  BY <1>1, LenZero, ServerAssumption
<1>3. Len(chunk) = n /\ \A i \in 1..n : chunk[i] = u[i]
  BY <1>1, <1>2, SubSeqProperties
<1>4. Len(rest) = L - n /\ \A i \in 1..(L - n) : rest[i] = u[n + i]
  BY <1>1, <1>2, SubSeqProperties
<1>5. /\ th[c] = "recv" /\ th'[c] \in {"ioctl", "write"}
      /\ buffer'[c] = chunk /\ unsent'[c] = rest
  BY <1>1 DEF RecvChunk, Goto
<1>6. L <= P /\ Received(c) = P - L /\ \A k \in 1..L : u[k] = Packet[c][(P - L) + k]
  BY DEF RestOfPacket, Received
<1> DEFINE r == P - L
<1> HIDE DEF u, L, chunk, rest, P
<1>7. Received(c)' = r + n
  BY <1>2, <1>4, <1>5, SMTT(60) DEF Received, P
<1>8. RestOfPacket(c)'
  <2>1. Len(unsent'[c]) <= Len(Packet[c])
    BY <1>2, <1>4, <1>5, <1>6 DEF P
  <2>2. ASSUME NEW k \in 1..Len(unsent'[c]) PROVE unsent'[c][k] = Packet[c][Received(c)' + k]
    <3>1. k \in 1..(L - n) /\ n + k \in 1..L /\ r + (n + k) = (r + n) + k
      BY <1>2, <1>4, <1>5, <1>6, <2>2
    <3>2. rest[k] = u[n + k] /\ u[n + k] = Packet[c][r + (n + k)]
      BY <1>4, <1>6, <3>1
    <3> QED
      BY <1>5, <1>7, <3>1, <3>2
  <2> QED
    BY <2>1, <2>2 DEF RestOfPacket
<1>9. r \in Nat /\ r + n \in Nat /\ r <= r + n
  BY <1>2, <1>6
<1>10. Contains(chunk, NL) => \E k \in NewlinesFrom(c, r) : k <= r + n
  <2> SUFFICES ASSUME NEW i \in 1..n, chunk[i] = NL PROVE \E k \in NewlinesFrom(c, r) : k <= r + n
    BY <1>3 DEF Contains
  <2>1. i \in 1..L /\ r + i \in 1..P /\ r + i > r /\ r + i <= r + n
    BY <1>2, <1>6
  <2>2. Packet[c][r + i] = NL
    BY <1>3, <1>6, <2>1
  <2>3. r + i \in NewlinesFrom(c, r)
    BY <2>1, <2>2 DEF NewlinesFrom, P
  <2> QED
    BY <2>1, <2>3
<1>11. LinesLeft[c] = Cardinality(NewlinesFrom(c, r))
  <2>1. Holding(c) = 0 /\ Received(c) = r
    BY <1>5, <1>6 DEF Holding
  <2>2. Cardinality(NewlinesFrom(c, r)) \in Nat
    BY <1>9, LinesCounted
  <2>3. LinesLeft[c] = Cardinality(NewlinesFrom(c, Received(c))) + Holding(c)
    BY DEF LinesLeft
  <2> QED
    BY <2>1, <2>2, <2>3
<1>12. LinesLeft'[c] = Cardinality(NewlinesFrom(c, r + n)) + Holding(c)'
  BY <1>7 DEF LinesLeft, NewlinesFrom
<1>13. Holding(c)' \in {0, 1} /\ (Holding(c)' = 1 => Contains(chunk, NL))
  BY <1>5 DEF Holding
<1>14. /\ Cardinality(NewlinesFrom(c, r)) \in Nat /\ Cardinality(NewlinesFrom(c, r + n)) \in Nat
       /\ Cardinality(NewlinesFrom(c, r + n)) <= Cardinality(NewlinesFrom(c, r))
       /\ (\E k \in NewlinesFrom(c, r) : k <= r + n) =>
            Cardinality(NewlinesFrom(c, r + n)) + 1 <= Cardinality(NewlinesFrom(c, r))
  BY <1>9, LinesCounted
<1>15. LinesLeft'[c] <= LinesLeft[c]
  <2> DEFINE a == Cardinality(NewlinesFrom(c, r))
             b == Cardinality(NewlinesFrom(c, r + n))
             h == Holding(c)'
             x == LinesLeft'[c]
             y == LinesLeft[c]
  <2>1. a \in Nat /\ b \in Nat /\ b <= a /\ (Contains(chunk, NL) => b + 1 <= a)
    BY <1>10, <1>14
  <2>2. y = a /\ x = b + h /\ h \in {0, 1} /\ (h = 1 => Contains(chunk, NL))
    BY <1>11, <1>12, <1>13
  <2> SUFFICES x <= y
    OBVIOUS
  <2> HIDE DEF a, b, h, x, y
  <2> QED
    BY <2>1, <2>2
<1> QED
  BY <1>8, <1>15


\* A handler's step brings a line to the device at most by giving one up.
LEMMA LinesOwnStep ==
  ASSUME ServerBase, NEW c \in Clients, RestOfPacket(c), HandlerStep(c) \/ Cancelled(c)
  PROVE  /\ RestOfPacket(c)'
         /\ \A d \in Clients : d # c => th'[d] = th[d] /\ unsent'[d] = unsent[d] /\ buffer'[d] = buffer[d]
         /\ \/ /\ LinesLeft'[c] <= LinesLeft[c] /\ UNCHANGED <<commands, partial>>
            \/ /\ LinesLeft'[c] + Holding(c) = LinesLeft[c] /\ LinesLeft'[c] \in Nat
               /\ Write(c) /\ Device!Write(buffer[c])
               /\ Holding(c) = (IF Contains(buffer[c], NL) THEN 1 ELSE 0)
<1>1. /\ th \in [Clients -> Threads] /\ unsent \in [Clients -> Seq(Characters)]
      /\ buffer \in [Clients -> Seq(Characters)] /\ ServerTypeOK
  BY DEF ServerBase, ServerTypeOK, ContentTyped
<1>2. \A d \in Clients : d # c => th'[d] = th[d] /\ unsent'[d] = unsent[d] /\ buffer'[d] = buffer[d]
  <2>1. \A d \in Clients : d # c => th'[d] = th[d]
    BY <1>1, HandlerStepMoves DEF HandlerMoves
  <2>2. \A d \in Clients : d # c => unsent'[d] = unsent[d] /\ buffer'[d] = buffer[d]
    BY <1>1 DEF HandlerStep, Cancelled, BlockSignals, Lock, Open, RecvChunk, RecvEnds, Write, Ioctl,
              EndOfPacket, Unlock, Read, ReadEnds, Send, Close
  <2> QED
    BY <2>1, <2>2
<1>3. CASE \E n \in 1..Len(unsent[c]) : RecvChunk(c, n)
  <2>1. PICK n \in 1..Len(unsent[c]) : RecvChunk(c, n)
    BY <1>3
  <2>2. RestOfPacket(c)' /\ LinesLeft'[c] <= LinesLeft[c]
    BY <2>1, LinesReceived
  <2>3. UNCHANGED <<commands, partial>>
    BY <2>1 DEF RecvChunk, device
  <2> QED
    BY <1>2, <2>2, <2>3
<1>4. CASE ~\E n \in 1..Len(unsent[c]) : RecvChunk(c, n)
  <2>1. unsent' = unsent /\ th'[c] # "write"
    BY <1>1, <1>4 DEF HandlerStep, Cancelled, BlockSignals, Lock, Open, RecvEnds, Write, Ioctl,
              EndOfPacket, Unlock, Read, ReadEnds, Send, Close, Goto
  <2>2. RestOfPacket(c)' /\ Received(c)' = Received(c) /\ Holding(c)' = 0
    BY <2>1 DEF RestOfPacket, Received, Holding
  <2>3. Received(c) \in Nat
    <3>1. Len(Packet[c]) \in Nat /\ Len(unsent[c]) \in Nat
      BY <1>1, ServerAssumption, LenZero
    <3> QED
      BY <3>1 DEF RestOfPacket, Received
  <2> DEFINE a == Cardinality(NewlinesFrom(c, Received(c)))
  <2>4. a \in Nat
    BY <2>3, LinesCounted
  <2>5. LinesLeft[c] = a + Holding(c)
    BY DEF LinesLeft
  <2>6. LinesLeft'[c] = a + Holding(c)'
    BY <2>2 DEF LinesLeft, NewlinesFrom
  <2> HIDE DEF a
  <2>7. Holding(c) \in {0, 1}
    BY DEF Holding
  <2>8. LinesLeft'[c] <= LinesLeft[c] /\ LinesLeft'[c] + Holding(c) = LinesLeft[c] /\ LinesLeft'[c] \in Nat
    BY <2>2, <2>4, <2>5, <2>6, <2>7
  <2>9. CASE Write(c)
    <3>1. UNCHANGED <<commands, partial>> \/ Device!Write(buffer[c])
      BY <2>9 DEF Write, device
    <3>2. Holding(c) = (IF Contains(buffer[c], NL) THEN 1 ELSE 0)
      BY <2>9 DEF Holding, Write
    <3> QED
      BY <1>2, <2>2, <2>8, <2>9, <3>1, <3>2
  <2>10. CASE ~Write(c)
    <3>1. UNCHANGED <<commands, partial>>
      BY <1>4, <2>10 DEF HandlerStep, Cancelled, BlockSignals, Lock, Open, RecvEnds, Ioctl,
           EndOfPacket, Unlock, Read, ReadEnds, Send, Close, device
    <3> QED
      BY <1>2, <2>2, <2>8, <3>1
  <2> QED
    BY <2>9, <2>10
<1> QED
  BY <1>3, <1>4

\* A write to a device that is not full stores at most one command, and only a
\* chunk with a newline stores one.
LEMMA LinesWritten ==
  ASSUME ServerBase, ~Contains(partial, NL), NEW chunk \in Seq(Characters), Device!Write(chunk)
  PROVE  /\ ~Contains(partial', NL)
         /\ Contains(chunk, NL) => Len(commands') <= Len(commands) + 1
         /\ ~Contains(chunk, NL) => commands' = commands
         /\ Contains(chunk, NL) /\ Len(commands) < Capacity => IsPrefix(commands, commands')
<1> DEFINE line == Cat(partial, chunk)
           kept == IF Len(commands) = Capacity THEN Tail(commands) ELSE commands
<1>1. commands \in Seq(Seq(Characters)) /\ partial \in Seq(Characters) /\ Len(commands) \in Nat
  BY LenZero DEF ServerBase, ContentTyped
<1>2. line \in Seq(Characters)
  BY <1>1, CatIs
<1>3. Contains(line, NL) <=> Contains(chunk, NL)
  <2>1. Names(NL, line) <=> Names(NL, partial) \/ Names(NL, chunk)
    BY <1>1, NamesCat
  <2> QED
    BY <2>1 DEF Names, Contains
<1>4. IF Contains(line, NL)
      THEN commands' = Append(kept, line) /\ partial' = << >>
      ELSE commands' = commands /\ partial' = line
  BY DEF Device!Write, Device!Contains, Contains, Cat
<1>5. ~Contains(<< >>, NL)
  <2>1. Len(<< >>) = 0
    BY EmptySeq
  <2> QED
    BY <2>1 DEF Contains
<1>6. kept \in Seq(Seq(Characters)) /\ Len(kept) <= Len(commands)
  <2>1. Capacity # 0 /\ Capacity \in Nat
    BY ServerAssumption
  <2>2. CASE Len(commands) = Capacity
    BY <1>1, <2>1, <2>2, LenZero, HeadTailProperties
  <2> QED
    BY <1>1, <2>2
<1> HIDE DEF line
<1>7. Contains(line, NL) => Len(commands') <= Len(commands) + 1
  <2> HIDE DEF kept
  <2>1. Len(Append(kept, line)) = Len(kept) + 1 /\ Len(kept) \in Nat
    BY <1>2, <1>6, AppendProperties, LenZero
  <2> QED
    BY <1>1, <1>4, <1>6, <2>1
<1>8. Contains(line, NL) /\ Len(commands) < Capacity => IsPrefix(commands, commands')
  <2> SUFFICES ASSUME Contains(line, NL), Len(commands) < Capacity PROVE IsPrefix(commands, commands')
    OBVIOUS
  <2>1. commands' = Append(commands, line)
    <3>1. Capacity \in Nat
      BY ServerAssumption
    <3>2. kept = commands
      BY <1>1, <3>1
    <3> QED
      BY <1>4, <3>2
  <2>2. <<line>> \in Seq(Seq(Characters)) /\ Append(commands, line) = Cat(commands, <<line>>)
    BY <1>1, <1>2, AppendIsConcat DEF Cat
  <2>3. Len(Append(commands, line)) = Len(commands) + 1
    BY <1>1, <1>2, AppendProperties
  <2>4. 0 \in Nat /\ 0 <= Len(commands) /\ Len(commands) <= Len(commands)
    BY <1>1
  <2> DEFINE one == <<line>>
  <2> HIDE DEF one
  <2>5. Piece(Cat(commands, one), 0, Len(commands)) = Piece(commands, 0, Len(commands))
    BY <1>1, <2>2, <2>4, PieceGrows DEF one
  <2>6. SubSeq(Append(commands, line), 1, Len(commands)) = SubSeq(commands, 1, Len(commands))
    <3>1. 0 + 1 = 1
      OBVIOUS
    <3> QED
      BY <2>2, <2>5, <3>1, Zenon DEF Piece, one
  <2>7. Len(commands) <= Len(Append(commands, line))
    BY <1>1, <2>3
  <2> QED
    BY <2>1, <2>6, <2>7 DEF IsPrefix
<1> QED
  BY <1>3, <1>4, <1>5, <1>7, <1>8

\* The lines in the device and those to come are never more than the packets'
\* lines, so that a device with room for these drops no command.
LEMMA LineStep ==
  ASSUME RoomForAll, ServerBase, ServerBase', LineInv, [Next]_vars
  PROVE  LineInv' /\ [IsPrefix(commands, commands')]_vars
<1>1. /\ th \in [Clients -> Threads] /\ ServerTypeOK /\ AcceptInv
      /\ unsent \in [Clients -> Seq(Characters)] /\ commands \in Seq(Seq(Characters))
  BY DEF ServerBase, ServerTypeOK, ContentTyped
<1>2. Len(commands) \in Nat
  BY <1>1, LenZero
<1>3. /\ LinesLeft \in [Clients -> Nat] /\ IsFiniteSet(Clients) /\ \A c \in Clients : RestOfPacket(c)
      /\ ~Contains(partial, NL) /\ Len(commands) + Total(LinesLeft) <= Total(PacketLines)
  BY LinesTyped DEF LineInv, RoomForAll
<1>4. Total(PacketLines) \in Nat /\ Total(PacketLines) <= Capacity /\ Capacity \in Nat
  <2>1. PacketLines \in [Clients -> Nat]
    <3>1. \A c \in Clients : Cardinality(NewlinesFrom(c, 0)) \in Nat
      BY LinesCounted
    <3> QED
      BY <3>1 DEF PacketLines
  <2>2. \A c \in Clients : PacketLines[c] <= PacketLines[c]
    BY <2>1
  <2> QED
    BY <1>3, <2>1, <2>2, TotalGrows, ServerAssumption DEF RoomForAll
<1>5. IsPrefix(commands, commands)
  BY <1>2 DEF IsPrefix
<1>6. ASSUME UNCHANGED <<unsent, buffer, commands, partial>>,
             \A d \in Clients : th'[d] = "write" <=> th[d] = "write"
      PROVE  LineInv' /\ IsPrefix(commands, commands')
  <2>1. \A d \in Clients : RestOfPacket(d)'
    BY <1>3, <1>6 DEF RestOfPacket, Received
  <2>2. LinesLeft' = LinesLeft
    BY <1>6 DEF LinesLeft, Received, Holding, NewlinesFrom
  <2>3. ~Contains(partial', NL) /\ Len(commands') + Total(LinesLeft') <= Total(PacketLines)
    BY <1>3, <1>6, <2>2
  <2>4. PacketLines' = PacketLines
    BY DEF PacketLines, NewlinesFrom
  <2> QED
    BY <1>5, <1>6, <2>1, <2>3, <2>4 DEF LineInv
<1>7. CASE UNCHANGED vars
  BY <1>6, <1>7 DEF vars, device
<1>8. CASE MainMoves
  <2>1. UNCHANGED <<unsent, buffer, commands, partial>>
    BY <1>8, MainFrame
  <2>2. \A d \in Clients : th'[d] = th[d] \/ (th[d] = "none" /\ th'[d] = "start")
    BY <1>1, <1>8, MainThreads
  <2> QED
    BY <1>6, <2>1, <2>2
<1>9. ASSUME NEW c \in Clients, HandlerStep(c) \/ Cancelled(c)
      PROVE  LineInv' /\ IsPrefix(commands, commands')
  <2>1. /\ RestOfPacket(c)'
        /\ \A d \in Clients : d # c => th'[d] = th[d] /\ unsent'[d] = unsent[d] /\ buffer'[d] = buffer[d]
        /\ \/ /\ LinesLeft'[c] <= LinesLeft[c] /\ UNCHANGED <<commands, partial>>
           \/ /\ LinesLeft'[c] + Holding(c) = LinesLeft[c] /\ LinesLeft'[c] \in Nat
              /\ Write(c) /\ Device!Write(buffer[c])
              /\ Holding(c) = (IF Contains(buffer[c], NL) THEN 1 ELSE 0)
    BY <1>3, <1>9, LinesOwnStep
  <2>2. \A d \in Clients : RestOfPacket(d)'
    <3>1. ASSUME NEW d \in Clients, d # c PROVE RestOfPacket(d)'
      <4>1. RestOfPacket(d) /\ unsent'[d] = unsent[d]
        BY <1>3, <2>1, <3>1
      <4> QED
        BY <4>1 DEF RestOfPacket, Received
    <3> QED
      BY <2>1, <3>1
  <2>3. LinesLeft' \in [Clients -> Nat]
    BY <2>2, LinesTypedNext
  <2>4. \A d \in Clients : d # c => LinesLeft'[d] = LinesLeft[d]
    <3> SUFFICES ASSUME NEW d \in Clients, d # c PROVE LinesLeft'[d] = LinesLeft[d]
      OBVIOUS
    <3>1. Received(d)' = Received(d) /\ Holding(d)' = Holding(d)
      BY <2>1 DEF Received, Holding
    <3> QED
      BY <3>1 DEF LinesLeft, NewlinesFrom
  <2>5. /\ Total(LinesLeft) \in Nat /\ Total(LinesLeft') \in Nat /\ LinesLeft[c] <= Total(LinesLeft)
        /\ Total(LinesLeft') + LinesLeft[c] = Total(LinesLeft) + LinesLeft'[c]
    BY <1>3, <2>3, <2>4, TotalUpdate
  <2>6. PacketLines' = PacketLines
    BY DEF PacketLines, NewlinesFrom
  <2> DEFINE a == Total(LinesLeft)
             b == Total(LinesLeft')
             x == LinesLeft[c]
             y == LinesLeft'[c]
             m == Len(commands)
             p == Total(PacketLines)
  <2>7. /\ a \in Nat /\ b \in Nat /\ x \in Nat /\ y \in Nat /\ m \in Nat /\ p \in Nat
        /\ x <= a /\ b + x = a + y /\ m + a <= p /\ p <= Capacity /\ Capacity \in Nat
    BY <1>2, <1>3, <1>4, <2>3, <2>5
  <2>8. CASE LinesLeft'[c] <= LinesLeft[c] /\ UNCHANGED <<commands, partial>>
    <3>1. Len(commands') = m /\ y <= x
      BY <2>8
    <3> HIDE DEF a, b, x, y, m, p
    <3>2. Len(commands') + b <= p
      BY <2>7, <3>1
    <3> QED
      BY <1>3, <1>5, <2>2, <2>6, <2>8, <3>2 DEF LineInv, b, p
  <2>9. CASE /\ LinesLeft'[c] + Holding(c) = LinesLeft[c] /\ LinesLeft'[c] \in Nat
             /\ Write(c) /\ Device!Write(buffer[c])
             /\ Holding(c) = (IF Contains(buffer[c], NL) THEN 1 ELSE 0)
    <3>1. buffer[c] \in Seq(Characters)
      BY DEF ServerBase, ContentTyped
    <3>2. /\ ~Contains(partial', NL)
          /\ Contains(buffer[c], NL) => Len(commands') <= Len(commands) + 1
          /\ ~Contains(buffer[c], NL) => commands' = commands
          /\ Contains(buffer[c], NL) /\ Len(commands) < Capacity => IsPrefix(commands, commands')
      BY <1>3, <2>9, <3>1, LinesWritten
    <3>3. Len(commands') \in Nat
      BY LenZero DEF ServerBase, ContentTyped
    <3> DEFINE h == Holding(c)
               q == Len(commands')
    <3>4. h \in {0, 1} /\ y + h = x /\ q \in Nat /\ q <= m + h
      BY <1>2, <2>9, <3>2, <3>3
    <3>5. h = 1 => Contains(buffer[c], NL)
      BY <2>9
    <3>6. h = 0 => ~Contains(buffer[c], NL)
      BY <2>9
    <3> HIDE DEF a, b, x, y, m, p, h, q
    <3>7. q + b <= p /\ (h = 1 => m < Capacity)
      BY <2>7, <3>4
    <3>8. IsPrefix(commands, commands')
      <4>1. CASE h = 1
        BY <3>2, <3>5, <3>7, <4>1 DEF m
      <4>2. CASE h = 0
        BY <1>5, <3>2, <3>6, <4>2
      <4> QED
        BY <3>4, <4>1, <4>2
    <3> QED
      BY <2>2, <2>6, <3>2, <3>7, <3>8 DEF LineInv, b, p, q
  <2> QED
    BY <2>1, <2>8, <2>9
<1> QED
  BY <1>7, <1>8, <1>9, StepKinds

\* At the start all the lines are still to come.
LEMMA LineInit ==
  ASSUME RoomForAll, Init
  PROVE  LineInv
<1>1. /\ unsent = Packet /\ th = [c \in Clients |-> "none"] /\ commands = << >> /\ partial = << >>
  BY DEF Init, Device!Init
<1>2. \A c \in Clients : Len(Packet[c]) \in Nat
  BY ServerAssumption, LenZero
<1>3. \A c \in Clients : Received(c) = 0 /\ Holding(c) = 0
  BY <1>1, <1>2 DEF Received, Holding
<1>4. ASSUME NEW c \in Clients PROVE RestOfPacket(c)
  BY <1>1, <1>2, <1>3 DEF RestOfPacket
<1>5. ASSUME NEW c \in Clients PROVE LinesLeft[c] = PacketLines[c]
  <2>1. Cardinality(NewlinesFrom(c, 0)) \in Nat
    BY LinesCounted
  <2>2. LinesLeft[c] = Cardinality(NewlinesFrom(c, 0)) + 0
    BY <1>3 DEF LinesLeft
  <2> QED
    BY <2>1, <2>2 DEF PacketLines
<1>6. LinesLeft = PacketLines
  BY <1>5 DEF LinesLeft, PacketLines
<1>7. Len(commands) = 0 /\ ~Contains(partial, NL)
  <2>1. Len(<< >>) = 0
    BY EmptySeq
  <2> QED
    BY <1>1, <2>1 DEF Contains
<1>8. Total(PacketLines) \in Nat
  <2>1. PacketLines \in [Clients -> Nat]
    <3>1. \A c \in Clients : Cardinality(NewlinesFrom(c, 0)) \in Nat
      BY LinesCounted
    <3> QED
      BY <3>1 DEF PacketLines
  <2>2. \A c \in Clients : PacketLines[c] <= PacketLines[c]
    BY <2>1
  <2> QED
    BY <2>1, <2>2, TotalGrows DEF RoomForAll
<1> QED
  BY <1>4, <1>6, <1>7, <1>8 DEF LineInv

\* A device with room for all the lines forgets nothing.
LEMMA NothingIsForgotten == RoomForAll => (Spec => NothingForgotten)
<1> SUFFICES ASSUME RoomForAll PROVE Spec => NothingForgotten
  OBVIOUS
<1> DEFINE I == ServerBase /\ LineInv
<1>1. Init => I
  BY ServerBaseInit, LineInit
<1>2. I /\ [Next]_vars => I'
  BY ServerBaseStep, LineStep
<1>3. I /\ [Next]_vars => [IsPrefix(commands, commands')]_vars
  BY ServerBaseStep, LineStep
<1> HIDE DEF I
<1> QED
  BY <1>1, <1>2, <1>3, PTL DEF Spec, NothingForgotten

(***************************************************************************)
(* A server whose device has room for every line its clients send keeps    *)
(* their packets whole, answers each text packet with at least itself, and *)
(* sends every client the device's content without a gap, whatever the     *)
(* interleaving and, but for a refused write, whatever fails.              *)
(***************************************************************************)
THEOREM ServerIsCorrect ==
  NamedPackets /\ TextPackets /\ RoomForAll /\ "write" \notin Faults =>
    (Spec => []ServerInv /\ ReadBackWhole)
<1> SUFFICES ASSUME NamedPackets, TextPackets, RoomForAll, "write" \notin Faults
             PROVE  Spec => []ServerInv /\ ReadBackWhole
  OBVIOUS
<1>1. Spec => NothingForgotten
  BY NothingIsForgotten
<1>2. Spec /\ NothingForgotten => []ServerInv
  BY OwnPacketsAreAnswered
<1>3. Spec /\ NothingForgotten => ReadBackWhole
  BY AnswersAreWhole
<1> QED
  BY <1>1, <1>2, <1>3, PTL

=============================================================================
