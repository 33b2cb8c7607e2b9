----------------------------- MODULE CommandLog -----------------------------
(***************************************************************************)
(* What /dev/aesdchar promises the programs that write to it: written      *)
(* bytes accumulate until a write brings a newline, the line they form is  *)
(* then one command, and the device remembers the latest Capacity commands *)
(* in the order they were completed.                                       *)
(***************************************************************************)
EXTENDS Integers, Sequences, SequencesExt

CONSTANTS Capacity,   \* how many commands are remembered
          Chunks,     \* what one write may carry
          NL          \* the newline character

VARIABLES commands,   \* the remembered commands, oldest first
          partial     \* the bytes written since the last complete command

Init == commands = << >> /\ partial = << >>

Write(chunk) ==
  LET line == partial \o chunk
      kept == IF Len(commands) = Capacity THEN Tail(commands) ELSE commands
  IN IF Contains(line, NL)
     THEN commands' = Append(kept, line) /\ partial' = << >>
     ELSE UNCHANGED commands /\ partial' = line

\* The module is loaded or unloaded: nothing survives.
Reset == commands' = << >> /\ partial' = << >>

Next == Reset \/ \E chunk \in Chunks : Write(chunk)

Spec == Init /\ [][Next]_<<commands, partial>>

=============================================================================
