------------------------------ MODULE AesdChar ------------------------------
(***************************************************************************)
(* The aesdchar driver of aesd-char-driver/main.c: module load and unload, *)
(* open and release, and read, write, llseek and ioctl as the processes    *)
(* that use the device run them, interleaved at the points where the code  *)
(* takes or drops the lock, touches the heap or user memory, or leaves the *)
(* critical section.  The kernel around it (mutex, kmalloc, VFS file       *)
(* positions) is modelled from how the driver uses it.                     *)
(***************************************************************************)
EXTENDS AesdCircularBuffer, SequencesExt

CONSTANTS Procs,      \* the processes or threads that use the device
          Files,      \* open file descriptions
          FileOf,     \* the file each process uses; threads may share one
          Blocks,     \* what kmalloc may return
          NULL,
          Nobody,     \* the owner of a free mutex
          NL,         \* the newline character
          Garbage,    \* the content of memory nobody has written
          Requests,   \* the system calls a process may make
          Faults,     \* what may go wrong: a subset of FaultKinds
          SizeMod,    \* one more than the largest size_t
          MaxPending, \* bound: bytes of one unfinished command
          MaxLoads    \* bound: how often the module is loaded

FaultKinds ==
  {"alloc",    \* kmalloc or krealloc returns NULL
   "copy",     \* copy_to_user or copy_from_user meets a bad address
   "signal",   \* a signal interrupts a process that waits for the lock
   "queue"}    \* a waiting process is put on the mutex's wait_list

ASSUME DeviceAssumption ==
  /\ IsFiniteSet(Procs) /\ FileOf \in [Procs -> Files]
  /\ NULL \notin Blocks /\ Nobody \notin Procs
  /\ Entries = [buffptr : Blocks, size : 0..MaxPending]
  /\ NoEntry = [buffptr |-> NULL, size |-> 0]
  /\ Faults \subseteq FaultKinds
  /\ \A c \in Requests :
       /\ c.op \in {"read", "write", "llseek", "ioctl"}
       /\ c.op = "read" => c.count \in Nat
       /\ c.op = "write" => c.chunk \in Seq(Range(c.chunk)) /\ Garbage \notin Range(c.chunk)
       /\ c.op = "llseek" => c.off \in Int
       /\ c.op = "ioctl" => /\ c.cmd \in {"foreign", "other", "seekto"}
                            /\ c.cmd = "seekto" => c.write_cmd \in Nat /\ c.write_cmd_offset \in Nat
  /\ MaxPending \in Nat /\ MaxLoads \in Nat \ {0}
  \* File positions are signed and as wide as size_t: they can count the stored bytes.
  /\ SizeMod \in Nat /\ SizeMod > 2 * (MaxWriteOps * MaxPending)

VARIABLES entry,       \* dev->entry: the unfinished command
          total_bytes, \* dev->total_bytes
          owner,       \* the owner field of dev->lock
          heap,        \* allocated block -> its bytes
          memory,      \* "ok" until the driver leaves its own memory
          module,      \* "out" or "in"
          loads,       \* how often the module has been loaded
          opened,      \* the files that are open
          f_pos,       \* filp->f_pos of each file
          pc,          \* where each process is
          call,        \* the system call each process is in
          local        \* its local variables

device == <<buffer, entry, total_bytes>>
life   == <<module, loads, opened>>
vars   == <<device, owner, heap, memory, life, f_pos, pc, call, local>>

EINVAL == 22
EFAULT == 14
ENOMEM == 12
ENOTTY == 25
ERESTARTSYS == 512

NoCall == [op |-> "none"]
NoLocals == [pos |-> 0, found |-> NotFound, ret |-> 0, buf |-> << >>]

Goto(p, label) == pc' = [pc EXCEPT ![p] = label]

\* Leave the call with this value, through the label that follows.
Result(p, ret, label) ==
  /\ local' = [local EXCEPT ![p].ret = ret]
  /\ Goto(p, label)

size_t(x) == x % SizeMod

-----------------------------------------------------------------------------
(* The module and its files                                                *)

ZeroDevice == buffer' = EmptyBuffer /\ entry' = NoEntry /\ total_bytes' = 0

\* memset leaves the lock free but its wait_list uninitialized: see QueueWaiter.
aesd_init_module ==
  /\ module = "out"
  /\ module' = "in" /\ loads' = loads + 1
  /\ ZeroDevice /\ owner' = Nobody
  /\ UNCHANGED <<heap, memory, opened, f_pos, pc, call, local>>

\* The kernel unloads the module only when no file of it is open; the last load
\* the bound allows is not undone.
aesd_cleanup_module ==
  /\ module = "in" /\ opened = {} /\ loads < MaxLoads
  /\ module' = "out"
  /\ ZeroDevice /\ owner' = Nobody
  /\ UNCHANGED <<heap, memory, loads, opened, f_pos, pc, call, local>>

aesd_open(f) ==
  /\ module = "in" /\ f \notin opened
  /\ opened' = opened \cup {f}
  /\ f_pos' = [f_pos EXCEPT ![f] = 0]
  /\ UNCHANGED <<device, owner, heap, memory, module, loads, pc, call, local>>

\* The last reference is gone: no system call on the file is under way.
aesd_release(f) ==
  /\ f \in opened
  /\ \A p \in Procs : FileOf[p] = f => pc[p] = "user"
  /\ opened' = opened \ {f}
  /\ f_pos' = [f_pos EXCEPT ![f] = 0]
  /\ UNCHANGED <<device, owner, heap, memory, module, loads, pc, call, local>>

-----------------------------------------------------------------------------
(* System call entry and exit, and the mutex                               *)

\* The bound on an unfinished command counts the writes that are under way.
PendingBytes ==
  entry.size + FoldFunction(+, 0, [p \in Procs |->
                                     IF call[p].op = "write" THEN Len(call[p].chunk) ELSE 0])

\* read and write get a copy of the file's position; the kernel itself fails
\* them where it is negative.
Syscall(p, c) ==
  /\ pc[p] = "user" /\ FileOf[p] \in opened
  /\ c.op \in {"read", "write"} => f_pos[FileOf[p]] >= 0
  /\ c.op = "write" => PendingBytes + Len(c.chunk) <= MaxPending
  /\ call' = [call EXCEPT ![p] = c]
  /\ local' = [local EXCEPT ![p].pos = f_pos[FileOf[p]]]
  /\ Goto(p, IF c.op = "ioctl" THEN "ioctl" ELSE "lock")
  /\ UNCHANGED <<device, owner, heap, memory, life, f_pos>>

\* The first step inside the critical section.
FirstStep(op) ==
  CASE op = "read"   -> "read_find"
    [] op = "write"  -> "write_alloc"
    [] op = "llseek" -> "llseek"
    [] op = "ioctl"  -> "ioctl_seek"

\* A plausible bug: the lock is taken without looking whether it is free.
Mutant_lock(p) ==
  /\ pc[p] = "lock"
  /\ owner' = p
  /\ Goto(p, FirstStep(call[p].op))
  /\ UNCHANGED <<device, heap, memory, life, f_pos, call, local>>

mutex_lock_interruptible(p) ==
  /\ pc[p] = "lock" /\ owner = Nobody
  /\ owner' = p
  /\ Goto(p, FirstStep(call[p].op))
  /\ UNCHANGED <<device, heap, memory, life, f_pos, call, local>>

Interrupted(p) ==
  /\ pc[p] = "lock" /\ owner # Nobody /\ "signal" \in Faults
  /\ Result(p, -ERESTARTSYS, "return")
  /\ UNCHANGED <<device, owner, heap, memory, life, f_pos, call>>

\* A waiter that does not find the owner running is linked into wait_list,
\* whose head no mutex_init ever made a list: a NULL pointer is followed.
QueueWaiter(p) ==
  /\ pc[p] = "lock" /\ owner # Nobody /\ "queue" \in Faults
  /\ Goto(p, "oopsed")
  /\ UNCHANGED <<device, owner, heap, memory, life, f_pos, call, local>>

\* mutex_unlock frees the lock whoever holds it.  Of what the call has found and
\* copied the driver only looks at the entry of a seek again.
mutex_unlock(p) ==
  /\ pc[p] = "unlock"
  /\ owner' = Nobody
  /\ Goto(p, "return")
  /\ local' = [local EXCEPT ![p].found = IF call[p].op = "llseek" THEN @ ELSE NotFound,
                            ![p].buf = << >>]
  /\ UNCHANGED <<device, heap, memory, life, f_pos, call>>

\* After the unlock, the kernel (read, write that do not fail) or llseek itself
\* (if it has found an entry) stores the new position; ioctl has done so already.
StoresPosition(p) ==
  \/ call[p].op \in {"read", "write"} /\ local[p].ret >= 0
  \/ call[p].op = "llseek" /\ local[p].found # NotFound

Return(p) ==
  /\ pc[p] = "return"
  /\ f_pos' = IF StoresPosition(p)
              THEN [f_pos EXCEPT ![FileOf[p]] = local[p].pos] ELSE f_pos
  /\ Goto(p, "user")
  /\ call' = [call EXCEPT ![p] = NoCall]
  /\ local' = [local EXCEPT ![p] = NoLocals]
  /\ UNCHANGED <<device, owner, heap, memory, life>>

-----------------------------------------------------------------------------
(* Driver memory                                                           *)

\* The n bytes from offset on belong to the block a pointer names.
InBlock(b, offset, n) ==
  /\ b \in DOMAIN heap /\ n >= 0
  /\ offset + n <= Len(heap[b])

Slice(b, offset, n) == SubSeq(heap[b], offset + 1, offset + n)

FreeBlocks == Blocks \ DOMAIN heap

\* The step would read, write or free memory that is not the driver's.  The
\* outcomes from there on are not modelled: the process stops.
BadAccess(p) ==
  /\ memory' = "invalid"
  /\ Goto(p, "oopsed")
  /\ UNCHANGED <<device, owner, heap, life, f_pos, call, local>>

-----------------------------------------------------------------------------
(* aesd_read                                                               *)

\* A plausible bug: a read past the end drops the lock and tries again.
Mutant_read_find(p) ==
  LET at == find_entry_offset_for_fpos(size_t(local[p].pos))
  IN /\ pc[p] = "read_find"
     /\ IF at = NotFound
        THEN Goto(p, "lock") /\ owner' = Nobody /\ UNCHANGED local
        ELSE /\ local' = [local EXCEPT ![p].found = at]
             /\ Goto(p, "read_copy") /\ UNCHANGED owner
     /\ UNCHANGED <<device, heap, memory, life, f_pos, call>>

aesd_read_find(p) ==
  LET at == find_entry_offset_for_fpos(size_t(local[p].pos))
  IN /\ pc[p] = "read_find"
     /\ IF at = NotFound
        THEN Result(p, -EFAULT, "unlock")
        ELSE /\ local' = [local EXCEPT ![p].found = at]
             /\ Goto(p, "read_copy")
     /\ UNCHANGED <<device, owner, heap, memory, life, f_pos, call>>

\* At most the rest of one entry is copied.
BytesToRead(p) ==
  LET rest == buffer.entry[local[p].found.slot].size - local[p].found.offset
  IN IF rest > call[p].count THEN call[p].count ELSE rest

aesd_read_copy(p) ==
  LET at == local[p].found
      b  == buffer.entry[at.slot].buffptr
      n  == BytesToRead(p)
  IN /\ pc[p] = "read_copy"
     /\ IF ~InBlock(b, at.offset, n)
        THEN BadAccess(p)
        ELSE /\ \/ /\ local' = [local EXCEPT ![p].pos = @ + n, ![p].ret = n,
                                             ![p].buf = Slice(b, at.offset, n)]
                   /\ Goto(p, "unlock")
                \/ "copy" \in Faults /\ Result(p, -EFAULT, "unlock")
             /\ UNCHANGED <<device, owner, heap, memory, life, f_pos, call>>

-----------------------------------------------------------------------------
(* aesd_write                                                              *)

Fresh(n) == [i \in 1..n |-> Garbage]

\* kmalloc hands out the free block b with room for n bytes.
kmalloc(b, n) ==
  heap' = [c \in DOMAIN heap \cup {b} |-> IF c = b THEN Fresh(n) ELSE heap[c]]

\* A plausible bug: the unfinished command is replaced, not extended.
Mutant_write_alloc_succeeds(p) ==
  \E b \in FreeBlocks :
    /\ kmalloc(b, entry.size + Len(call[p].chunk))
    /\ entry' = [entry EXCEPT !.buffptr = b]

\* A plausible bug: the block is one byte short.
Mutant_alloc_short(p) ==
  LET n == Len(call[p].chunk) - 1
  IN \/ /\ entry.buffptr # NULL
        /\ heap' = [heap EXCEPT ![entry.buffptr] = Slice(entry.buffptr, 0, entry.size) \o Fresh(n)]
        /\ UNCHANGED entry
     \/ /\ entry.buffptr = NULL
        /\ \E b \in FreeBlocks : /\ kmalloc(b, n)
                                /\ entry' = [entry EXCEPT !.buffptr = b]

\* krealloc extends the block; kmalloc takes a new one.
write_alloc_succeeds(p) ==
  LET n == Len(call[p].chunk)
  IN \/ /\ entry.buffptr # NULL
        /\ heap' = [heap EXCEPT ![entry.buffptr] = Slice(entry.buffptr, 0, entry.size) \o Fresh(n)]
        /\ UNCHANGED entry
     \/ /\ entry.buffptr = NULL
        /\ \E b \in FreeBlocks : /\ kmalloc(b, n)
                                /\ entry' = [entry EXCEPT !.buffptr = b]

\* Its result overwrites entry.buffptr even when it is NULL.
aesd_write_alloc(p) ==
  /\ pc[p] = "write_alloc"
  /\ \/ /\ write_alloc_succeeds(p)
        /\ Goto(p, "write_copy")
        /\ UNCHANGED local
     \/ /\ "alloc" \in Faults
        /\ entry' = [entry EXCEPT !.buffptr = NULL]
        /\ Result(p, -ENOMEM, "unlock")
        /\ UNCHANGED heap
  /\ UNCHANGED <<buffer, total_bytes, owner, memory, life, f_pos, call>>

aesd_write_copy(p) ==
  LET n == Len(call[p].chunk)
      b == entry.buffptr
  IN /\ pc[p] = "write_copy"
     /\ IF ~InBlock(b, entry.size, n)
        THEN BadAccess(p)
        ELSE /\ \/ /\ heap' = [heap EXCEPT ![b] = Slice(b, 0, entry.size) \o call[p].chunk]
                   /\ Goto(p, "write_commit")
                   /\ UNCHANGED local
                \/ /\ "copy" \in Faults
                   /\ Result(p, -EFAULT, "unlock")
                   /\ UNCHANGED heap
             /\ UNCHANGED <<device, owner, memory, life, f_pos, call>>

\* Plausible bugs: the overwritten entry stays in the byte count; it is never
\* freed; the unfinished command is not reset.
Mutant_commit_counts_old(e) ==
  /\ heap' = [b \in DOMAIN heap \ {buffer.entry[buffer.in_offs].buffptr} |-> heap[b]]
  /\ total_bytes' = total_bytes + e.size
  /\ aesd_circular_buffer_add_entry(e)
  /\ entry' = NoEntry

Mutant_commit_never_frees(e) ==
  LET old == buffer.entry[buffer.in_offs]
  IN /\ UNCHANGED heap
     /\ total_bytes' = total_bytes - (IF old.buffptr # NULL THEN old.size ELSE 0) + e.size
     /\ aesd_circular_buffer_add_entry(e)
     /\ entry' = NoEntry

Mutant_commit_keeps_entry(e) ==
  LET old == buffer.entry[buffer.in_offs]
  IN /\ heap' = [b \in DOMAIN heap \ {old.buffptr} |-> heap[b]]
     /\ total_bytes' = total_bytes - (IF old.buffptr # NULL THEN old.size ELSE 0) + e.size
     /\ aesd_circular_buffer_add_entry(e)
     /\ entry' = [e EXCEPT !.size = 0]

\* The entry about to be overwritten is freed and leaves the byte count.
commit_entry(e) ==
  LET old == buffer.entry[buffer.in_offs]
  IN /\ heap' = [b \in DOMAIN heap \ {old.buffptr} |-> heap[b]]
     /\ total_bytes' = total_bytes - (IF old.buffptr # NULL THEN old.size ELSE 0) + e.size
     /\ aesd_circular_buffer_add_entry(e)
     /\ entry' = NoEntry

\* kfree takes NULL or an allocated block.
aesd_write_commit(p) ==
  LET e        == [entry EXCEPT !.size = @ + Len(call[p].chunk)]
      complete == Contains(Slice(e.buffptr, 0, e.size), NL)
      old      == buffer.entry[buffer.in_offs].buffptr
  IN /\ pc[p] = "write_commit"
     /\ IF complete /\ old \notin DOMAIN heap \cup {NULL}
        THEN BadAccess(p)
        ELSE /\ IF complete
                THEN commit_entry(e)
                ELSE entry' = e /\ UNCHANGED <<buffer, total_bytes, heap>>
             /\ Result(p, Len(call[p].chunk), "unlock")
             /\ UNCHANGED <<owner, memory, life, f_pos, call>>

-----------------------------------------------------------------------------
(* aesd_llseek and aesd_ioctl                                              *)

\* A plausible bug: SEEK_END counts from the last byte instead of the end.
Mutant_SeekTarget(p) ==
  CASE call[p].whence = 0 -> call[p].off
    [] call[p].whence = 1 -> f_pos[FileOf[p]] + call[p].off
    [] call[p].whence = 2 -> size_t(total_bytes - 1 + call[p].off)

\* The position a seek asks for: SEEK_SET, SEEK_CUR, SEEK_END.
SeekTarget(p) ==
  CASE call[p].whence = 0 -> call[p].off
    [] call[p].whence = 1 -> f_pos[FileOf[p]] + call[p].off
    [] call[p].whence = 2 -> size_t(total_bytes + call[p].off)

\* A plausible bug: a seek outside the data returns before the unlock.
Mutant_llseek(p) ==
  LET at == find_entry_offset_for_fpos(size_t(SeekTarget(p)))
  IN /\ pc[p] = "llseek"
     /\ IF at = NotFound
        THEN Result(p, -EINVAL, "return")
        ELSE /\ local' = [local EXCEPT ![p].pos = SeekTarget(p), ![p].found = at]
             /\ Goto(p, "llseek_target")
     /\ UNCHANGED <<device, owner, heap, memory, life, f_pos, call>>

\* A plausible bug: every case searches for the offset, as SEEK_SET does.
Mutant_llseek_offset(p) ==
  LET at == find_entry_offset_for_fpos(size_t(call[p].off))
  IN /\ pc[p] = "llseek"
     /\ IF call[p].whence \notin 0..2
        THEN Result(p, -EINVAL, "return")
        ELSE IF at = NotFound
             THEN Result(p, -EINVAL, "unlock")
             ELSE /\ local' = [local EXCEPT ![p].pos = SeekTarget(p), ![p].found = at]
                  /\ Goto(p, "llseek_target")
     /\ UNCHANGED <<device, owner, heap, memory, life, f_pos, call>>

\* The search.  The default case of the switch returns with the lock held.
aesd_llseek(p) ==
  /\ pc[p] = "llseek"
  /\ IF call[p].whence \notin 0..2
     THEN Result(p, -EINVAL, "return")
     ELSE LET at == find_entry_offset_for_fpos(size_t(SeekTarget(p)))
          IN IF at = NotFound
             THEN Result(p, -EINVAL, "unlock")
             ELSE /\ local' = [local EXCEPT ![p].pos = SeekTarget(p), ![p].found = at]
                  /\ Goto(p, "llseek_target")
  /\ UNCHANGED <<device, owner, heap, memory, life, f_pos, call>>

\* The target is computed again for the result.  filp->f_pos, which the lock does
\* not protect, may have changed since the search if the file is shared.
aesd_llseek_target(p) ==
  /\ pc[p] = "llseek_target"
  /\ local' = [local EXCEPT ![p].pos = SeekTarget(p), ![p].ret = SeekTarget(p)]
  /\ Goto(p, "unlock")
  /\ UNCHANGED <<device, owner, heap, memory, life, f_pos, call>>

\* Commands: "seekto" is AESDCHAR_IOCSEEKTO, "other" any other command with the
\* driver's magic and a number it admits, "foreign" all the rest.  The default
\* case of the switch reaches the unlock without having locked.
aesd_ioctl(p) ==
  /\ pc[p] = "ioctl"
  /\ \/ call[p].cmd = "foreign" /\ Result(p, -ENOTTY, "return")
     \/ call[p].cmd = "other" /\ Goto(p, "unlock") /\ UNCHANGED local
     \/ call[p].cmd = "seekto" /\ Goto(p, "lock") /\ UNCHANGED local
     \/ call[p].cmd = "seekto" /\ "copy" \in Faults /\ Result(p, -EFAULT, "return")
  /\ UNCHANGED <<device, owner, heap, memory, life, f_pos, call>>

\* The bytes in the first write_cmd slots of the array.
SlotPosition(write_cmd) == SumUpTo([i \in Slots |-> buffer.entry[i].size], write_cmd)

\* A plausible bug: the offset just past the command is accepted.
Mutant_ioctl_seek(p) ==
  LET cmd == call[p].write_cmd
      off == call[p].write_cmd_offset
  IN /\ pc[p] = "ioctl_seek"
     /\ IF MaxWriteOps <= cmd \/ buffer.entry[cmd].size < off
        THEN Result(p, -EINVAL, "unlock") /\ UNCHANGED f_pos
        ELSE /\ f_pos' = [f_pos EXCEPT ![FileOf[p]] = SlotPosition(cmd) + off]
             /\ Goto(p, "unlock")
             /\ UNCHANGED local
     /\ UNCHANGED <<device, owner, heap, memory, life, call>>

aesd_ioctl_seek(p) ==
  LET cmd == call[p].write_cmd
      off == call[p].write_cmd_offset
  IN /\ pc[p] = "ioctl_seek"
     /\ IF MaxWriteOps <= cmd \/ buffer.entry[cmd].size <= off
        THEN Result(p, -EINVAL, "unlock") /\ UNCHANGED f_pos
        ELSE /\ f_pos' = [f_pos EXCEPT ![FileOf[p]] = SlotPosition(cmd) + off]
             /\ Goto(p, "unlock")
             /\ UNCHANGED local
     /\ UNCHANGED <<device, owner, heap, memory, life, call>>

-----------------------------------------------------------------------------

Init ==
  /\ buffer = EmptyBuffer /\ entry = NoEntry /\ total_bytes = 0
  /\ owner = Nobody /\ heap = << >> /\ memory = "ok"
  /\ module = "out" /\ loads = 0 /\ opened = {}
  /\ f_pos = [f \in Files |-> 0]
  /\ pc = [p \in Procs |-> "user"]
  /\ call = [p \in Procs |-> NoCall]
  /\ local = [p \in Procs |-> NoLocals]

\* The steps of a system call that has been made and has the processor.
KernelStep(p) ==
  \/ mutex_unlock(p) \/ Return(p)
  \/ aesd_read_find(p) \/ aesd_read_copy(p)
  \/ aesd_write_alloc(p) \/ aesd_write_copy(p) \/ aesd_write_commit(p)
  \/ aesd_llseek(p) \/ aesd_llseek_target(p)
  \/ aesd_ioctl(p) \/ aesd_ioctl_seek(p)

Next ==
  \/ aesd_init_module \/ aesd_cleanup_module
  \/ \E f \in Files : aesd_open(f) \/ aesd_release(f)
  \/ \E p \in Procs :
       \/ \E c \in Requests : Syscall(p, c)
       \/ mutex_lock_interruptible(p) \/ Interrupted(p) \/ QueueWaiter(p)
       \/ KernelStep(p)

Spec == Init /\ [][Next]_vars

\* Once the kernel runs a system call it keeps running it, and a process that
\* waits for the lock gets it if nobody takes it first.
FairSpec ==
  Spec /\ \A p \in Procs : WF_vars(KernelStep(p)) /\ WF_vars(mutex_lock_interruptible(p))

-----------------------------------------------------------------------------
(* Properties                                                              *)

Labels ==
  {"user", "ioctl", "lock", "read_find", "read_copy", "write_alloc", "write_copy",
   "write_commit", "llseek", "llseek_target", "ioctl_seek", "unlock", "return", "oopsed"}

CriticalSection ==
  {"read_find", "read_copy", "write_alloc", "write_copy", "write_commit",
   "llseek", "llseek_target", "ioctl_seek", "unlock"}

TypeOK ==
  /\ BufferTypeOK
  /\ entry \in [buffptr : Blocks \cup {NULL}, size : 0..MaxPending]
  /\ total_bytes \in Nat
  /\ owner \in Procs \cup {Nobody}
  /\ DOMAIN heap \subseteq Blocks
  /\ memory \in {"ok", "invalid"} /\ module \in {"out", "in"}
  /\ loads \in 0..MaxLoads /\ opened \subseteq Files
  /\ f_pos \in [Files -> Int]
  /\ pc \in [Procs -> Labels]
  /\ call \in [Procs -> Requests \cup {NoCall}]
  /\ DOMAIN local = Procs

\* Requests that keep to the driver's documented interface: the three whence
\* values it handles and no ioctl command of its magic but AESDCHAR_IOCSEEKTO.
DocumentedRequests ==
  \A c \in Requests : /\ c.op = "llseek" => c.whence \in 0..2
                      /\ c.op = "ioctl" => c.cmd # "other"

(***************************************************************************)
(* The driver's locking: at most one process is between lock and unlock,   *)
(* and it is the lock's owner.  The circular buffer relies on it ("Any     *)
(* necessary locking must be performed by caller").                        *)
(***************************************************************************)
MutualExclusion ==
  \A p \in Procs : pc[p] \in CriticalSection =>
    owner = p /\ \A q \in Procs : pc[q] \in CriticalSection => q = p

\* The lock is owned only by a process that is going to release it.
LockIsReleased == owner # Nobody => pc[owner] \in CriticalSection

\* No step reads, writes or frees memory outside the driver's own blocks.
MemorySafe == memory = "ok"

\* total_bytes, which SEEK_END starts from, is the size of what is stored.
BytesAccounted == total_bytes = TotalBytesWritten

Committed == {buffer.entry[i].buffptr : i \in Slots} \ {NULL}

(***************************************************************************)
(* Every stored command has a block of its own, exactly as long as its     *)
(* size says, that is still allocated, holds no uninitialized byte and     *)
(* holds a newline; the unfinished command shares none of them.            *)
(***************************************************************************)
CommandsIntact ==
  /\ \A i \in Slots : LET e == buffer.entry[i] IN e.buffptr # NULL =>
       /\ e.buffptr \in DOMAIN heap /\ Len(heap[e.buffptr]) = e.size
       /\ Contains(heap[e.buffptr], NL) /\ ~Contains(heap[e.buffptr], Garbage)
       /\ \A j \in Slots : buffer.entry[j].buffptr = e.buffptr => j = i
  /\ entry.buffptr \notin Committed

\* While the module is loaded for the first time, every allocated block is one
\* of the stored commands or the unfinished one.
NothingLeaked == loads <= 1 /\ module = "in" => DOMAIN heap \subseteq Committed \cup {entry.buffptr}

\* What the driver stores: every block is accounted for, holds what its entry says
\* and is left by no access, although the unfinished command moves into the
\* buffer and pushes out the oldest one in steps of several calls.
StorageInv == TypeOK /\ MemorySafe /\ BytesAccounted /\ CommandsIntact /\ NothingLeaked

EntryBytes(e) == IF e.buffptr = NULL THEN << >> ELSE Slice(e.buffptr, 0, e.size)

CommandsHeld == [k \in 1..EntryCount |-> EntryBytes(BufferLog[k])]

Device ==
  INSTANCE CommandLog WITH Capacity <- MaxWriteOps,
                           Chunks <- {c.chunk : c \in {r \in Requests : r.op = "write"}},
                           commands <- CommandsHeld, partial <- EntryBytes(entry)

(***************************************************************************)
(* The driver implements CommandLog: whatever the processes do, the stored *)
(* entries are the latest complete commands, byte for byte and in order,   *)
(* and the unfinished command is what has been written since.              *)
(***************************************************************************)
RemembersCommands == Device!Spec

(***************************************************************************)
(* A read that succeeds returns the bytes at its file position of the      *)
(* stored commands laid end to end, and fewer than asked for only where a  *)
(* command ends; it fails with EFAULT only past the end or on a bad user   *)
(* address.  The search takes the position for a size_t.                   *)
(***************************************************************************)
ReadsTheLog ==
  [][\A p \in Procs :
       pc[p] \in {"read_find", "read_copy"} /\ pc'[p] = "unlock" =>
         LET all == FlattenSeq(CommandsHeld)
             pos == size_t(local[p].pos)
             n   == local'[p].ret
             ends == {Len(FlattenSeq(SubSeq(CommandsHeld, 1, k))) : k \in 1..EntryCount}
         IN IF n >= 0
            THEN /\ pos + n <= Len(all) /\ local'[p].buf = SubSeq(all, pos + 1, pos + n)
                 /\ local'[p].pos = local[p].pos + n
                 /\ n = call[p].count \/ pos + n \in ends
            ELSE n = -EFAULT /\ (pos >= Len(all) \/ "copy" \in Faults)]_vars

\* No other process uses this one's file.
Alone(p) == \A q \in Procs \ {p} : FileOf[q] # FileOf[p]

SeekSucceeds(p) == pc[p] = "llseek_target" /\ pc'[p] = "unlock"

(***************************************************************************)
(* A seek that succeeds goes to a byte that is stored at that moment, for  *)
(* negative and too large offsets too: SEEK_SET to the offset, SEEK_END to *)
(* the offset from the end of the stored bytes, SEEK_CUR to the position   *)
(* searched, unless it loads a shared file position twice and somebody has *)
(* moved it in between.  So does AESDCHAR_IOCSEEKTO.                       *)
(***************************************************************************)
SeeksIntoTheLog ==
  [][\A p \in Procs :
       LET all == Len(FlattenSeq(CommandsHeld))
           ret == local'[p].ret
           searched == local[p].pos IN
       /\ SeekSucceeds(p) =>
            /\ size_t(searched) \in 0..(all - 1)
            /\ call[p].whence # 1 \/ Alone(p) => ret = searched
            /\ call[p].whence = 0 => ret = call[p].off /\ ret \in 0..(all - 1)
            /\ call[p].whence = 2 => ret = all + call[p].off /\ ret \in 0..(all - 1)
       /\ pc[p] = "ioctl_seek" /\ pc'[p] = "unlock" /\ ret = 0 =>
            f_pos'[FileOf[p]] \in 0..(all - 1)]_vars

\* What the search in every case of aesd_llseek is for, a shared file included:
\* the position a seek returns is one where a byte is stored.
SeeksFindBytes ==
  [][\A p \in Procs :
       SeekSucceeds(p) => size_t(local'[p].ret) < Len(FlattenSeq(CommandsHeld))]_vars

\* Where byte off of the stored command number cmd is, counted from the oldest.
CommandPosition(cmd, off) ==
  Len(FlattenSeq(SubSeq(CommandsHeld, 1, cmd))) + off

\* AESDCHAR_IOCSEEKTO on command cmd and byte off succeeds exactly if there is
\* such a byte and then moves the file there.
SeektoMeets(p) ==
  LET cmd == call[p].write_cmd
      off == call[p].write_cmd_offset
      exists == cmd < EntryCount /\ off < Len(CommandsHeld[cmd + 1])
  IN IF exists THEN f_pos'[FileOf[p]] = CommandPosition(cmd, off) /\ local'[p].ret = 0
               ELSE UNCHANGED f_pos /\ local'[p].ret = -EINVAL

\* Until the oldest command has been overwritten once, SEEKTO does what
\* aesd_ioctl.h says of it.
SeektoBeforeWrap ==
  [][\A p \in Procs : pc[p] = "ioctl_seek" /\ pc'[p] = "unlock" /\ buffer.out_offs = 0 => SeektoMeets(p)]_vars

\* aesd_ioctl.h: "The zero referenced write command to seek into", at any time.
SeektoFindsCommand ==
  [][\A p \in Procs : pc[p] = "ioctl_seek" /\ pc'[p] = "unlock" => SeektoMeets(p)]_vars

\* A seek of unknown whence is on its way out with the lock held.
LeavesLocked(p) ==
  pc[p] = "return" /\ owner = p /\ call[p].op = "llseek" /\ call[p].whence \notin 0..2

(***************************************************************************)
(* Every system call returns, a read past the end, a failing allocation, a *)
(* bad address and a signal included, unless a process has oopsed, a seek  *)
(* of unknown whence has left the device locked, or the other processes    *)
(* take the lock again and again.                                          *)
(***************************************************************************)
SyscallsReturn ==
  \A p \in Procs :
    \/ []<>(pc[p] = "user")
    \/ <>(\E q \in Procs : pc[q] = "oopsed" \/ LeavesLocked(q))
    \/ []<><<\E q \in Procs \ {p} : mutex_lock_interruptible(q)>>_vars

=============================================================================
