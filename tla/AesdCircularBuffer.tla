------------------------- MODULE AesdCircularBuffer -------------------------
(***************************************************************************)
(* The circular buffer of aesd-char-driver/aesd-circular-buffer.{c,h}: a   *)
(* fixed array of the most recent write entries with an insertion index,   *)
(* an oldest-entry index and a full flag.  Entries are opaque records; the *)
(* buffer itself only looks at their size field.  The caller does all the  *)
(* locking, so every operation is one step.                                *)
(***************************************************************************)
EXTENDS Integers, Sequences, SequencesExt

CONSTANTS MaxWriteOps,  \* AESDCHAR_MAX_WRITE_OPERATIONS_SUPPORTED
          Entries,      \* values of struct aesd_buffer_entry a caller may add
          NoEntry       \* the all-zero entry: NULL buffptr, size 0

\* in_offs and out_offs are uint8_t, so at most 255 slots can be indexed.
ASSUME BufferAssumption ==
  /\ MaxWriteOps \in 1..255
  /\ \A e \in Entries \cup {NoEntry} : e.size \in Nat
  /\ NoEntry.size = 0

VARIABLE buffer         \* struct aesd_circular_buffer

Slots == 0..(MaxWriteOps - 1)

\* for (i = 0; i < n; i++) sum += f[i]
SumUpTo(f, n) ==
  LET sum[k \in 0..n] == IF k = 0 THEN 0 ELSE sum[k - 1] + f[k - 1]
  IN  sum[n]

-----------------------------------------------------------------------------
(* aesd_circular_buffer_init                                               *)

EmptyBuffer ==
  [entry |-> [i \in Slots |-> NoEntry], in_offs |-> 0, out_offs |-> 0, full |-> FALSE]

aesd_circular_buffer_init == buffer' = EmptyBuffer

-----------------------------------------------------------------------------
(* aesd_circular_buffer_add_entry                                          *)

Advance(i) == (i + 1) % MaxWriteOps

\* A plausible bug: the oldest index moves only once the new entry fills the
\* buffer, one insertion too early.
Mutant_add_entry(e) ==
  LET in == Advance(buffer.in_offs)
      full == in = buffer.out_offs
  IN buffer' = [entry    |-> [buffer.entry EXCEPT ![buffer.in_offs] = e],
                in_offs  |-> in,
                out_offs |-> IF full THEN Advance(buffer.out_offs) ELSE buffer.out_offs,
                full     |-> full]

aesd_circular_buffer_add_entry(e) ==
  LET in == Advance(buffer.in_offs)
      out == IF buffer.full THEN Advance(buffer.out_offs) ELSE buffer.out_offs
  IN buffer' = [entry    |-> [buffer.entry EXCEPT ![buffer.in_offs] = e],
                in_offs  |-> in,
                out_offs |-> out,
                full     |-> in = out]

-----------------------------------------------------------------------------
(* aesd_circular_buffer_find_entry_offset_for_fpos                         *)

NotFound == [slot |-> -1, offset |-> -1]

TotalBytesWritten == SumUpTo([i \in Slots |-> buffer.entry[i].size], MaxWriteOps)

\* The search loop visits SearchSlot(0), SearchSlot(1), ...; is_wrapped is set
\* once the last slot of the array has been passed.
\* A plausible bug: the search forgets that the oldest entry moves.
Mutant_SearchSlot(k) == k % MaxWriteOps

SearchSlot(k) == (buffer.out_offs + k) % MaxWriteOps

SearchWrapped(k) == \E j \in 0..(k - 1) : SearchSlot(j) = MaxWriteOps - 1

SearchReaches(k) ==
  \A j \in 0..k : SearchSlot(j) # buffer.in_offs \/ ~SearchWrapped(j)

\* The loop condition holds at most 2 * MaxWriteOps - 1 times.
SearchSteps == 0..(2 * MaxWriteOps - 1)

BytesSearched(k) ==
  SumUpTo([j \in SearchSteps |-> buffer.entry[SearchSlot(j)].size], k)

\* The visit at which the loop returns, if it does.
HitAt(char_offset, k) ==
  /\ SearchReaches(k)
  /\ char_offset < BytesSearched(k + 1)
  /\ \A j \in 0..(k - 1) : ~(char_offset < BytesSearched(j + 1))

find_entry_offset_for_fpos(char_offset) ==
  LET hits == {k \in SearchSteps : HitAt(char_offset, k)}
  IN IF char_offset >= TotalBytesWritten \/ hits = {}
     THEN NotFound
     ELSE LET k == CHOOSE h \in hits : TRUE
          IN  [slot |-> SearchSlot(k), offset |-> char_offset - BytesSearched(k)]

-----------------------------------------------------------------------------
(* The buffer on its own, used by a caller that holds its lock.            *)

BufferInit == buffer = EmptyBuffer

BufferNext ==
  \/ aesd_circular_buffer_init
  \/ \E e \in Entries : aesd_circular_buffer_add_entry(e)

BufferSpec == BufferInit /\ [][BufferNext]_buffer

-----------------------------------------------------------------------------

BufferTypeOK ==
  buffer \in [entry    : [Slots -> Entries \cup {NoEntry}],
              in_offs  : Slots,
              out_offs : Slots,
              full     : BOOLEAN]

(***************************************************************************)
(* The shape add_entry keeps.  Until the buffer fills for the first time   *)
(* its oldest entry is in slot 0 and the slots from in_offs on are still   *)
(* zero; from then on it stays full and the next slot to overwrite is the  *)
(* oldest one.                                                             *)
(***************************************************************************)
WindowShape ==
  /\ buffer.full => buffer.in_offs = buffer.out_offs
  /\ ~buffer.full => /\ buffer.out_offs = 0
                     /\ \A i \in buffer.in_offs..(MaxWriteOps - 1) : buffer.entry[i] = NoEntry

\* The entries held, oldest first: the abstraction the callers rely on.
EntryCount == IF buffer.full THEN MaxWriteOps ELSE buffer.in_offs

BufferLog ==
  [k \in 1..EntryCount |-> buffer.entry[(buffer.out_offs + (k - 1)) % MaxWriteOps]]

Recent == INSTANCE RecentWrites WITH Capacity <- MaxWriteOps, log <- BufferLog

(***************************************************************************)
(* The buffer implements RecentWrites: add_entry never loses an entry that *)
(* is among the MaxWriteOps latest and keeps them in the order they were   *)
(* added, across every wrap of in_offs and out_offs.                       *)
(***************************************************************************)
RemembersRecentWrites == Recent!Spec

(***************************************************************************)
(* The remembered bytes laid end to end, oldest entry first, each byte     *)
(* named by the slot and the offset that hold it.                          *)
(***************************************************************************)
BytesEndToEnd ==
  FlattenSeq([k \in 1..Len(BufferLog) |->
    [o \in 1..BufferLog[k].size |->
       [slot |-> (buffer.out_offs + (k - 1)) % MaxWriteOps, offset |-> o - 1]]])

(***************************************************************************)
(* find_entry_offset_for_fpos returns the entry and byte that character    *)
(* char_offset has "if all buffer strings were concatenated end to end",   *)
(* and NULL exactly for the offsets past the last byte, although its loop  *)
(* may run past in_offs and through the array a second time.               *)
(***************************************************************************)
FindLocatesByte ==
  \A off \in 0..(TotalBytesWritten + 1) :
    find_entry_offset_for_fpos(off) =
      IF off < Len(BytesEndToEnd) THEN BytesEndToEnd[off + 1] ELSE NotFound

=============================================================================
