---------------------------- MODULE RecentWrites ----------------------------
(***************************************************************************)
(* What the circular buffer of aesd-char-driver promises its callers: it   *)
(* remembers the most recent Capacity entries added, oldest first, and     *)
(* forgets the oldest one when a new entry does not fit.                   *)
(***************************************************************************)
EXTENDS Integers, Sequences

CONSTANTS Capacity,   \* how many entries are remembered
          Entries     \* the entries a caller may add

VARIABLE log          \* the remembered entries, oldest first

Init == log = << >>

Reset == log' = << >>

\* Adding to a full log drops its oldest entry.
Add(e) == log' = Append(IF Len(log) = Capacity THEN Tail(log) ELSE log, e)

Next == Reset \/ \E e \in Entries : Add(e)

Spec == Init /\ [][Next]_log

=============================================================================
