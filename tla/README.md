# Formal models of the AESD assignments repository

TLA+ modules for the parts of this repository that run concurrently, keep
state and can fail: the `aesdchar` character driver with its circular buffer,
the `aesdsocket` server that stores what its clients send in it, the list
macros the server includes, the tetris game with its `rpikey` key driver and
its `ssd1306` display, and the system call and threading examples. Each
module is translated from the C source; TLC checks small instances and TLAPS
proves the central facts for every instance.

## 1. Inventory

| Component | State | Operations | What makes it correct |
|---|---|---|---|
| circular buffer (`aesd-char-driver/aesd-circular-buffer.c`) | `entry[10]`, `in_offs`, `out_offs`, `full` | `init`, `add_entry`, `find_entry_offset_for_fpos` | holds the latest entries in order; a position finds the byte it names |
| aesdchar driver (`aesd-char-driver/main.c`) | `aesd_device`: lock, unfinished `entry`, `buffer`, `total_bytes`; kernel heap; `f_pos` per file | module init and exit, open, release, read, write, llseek, ioctl | mutual exclusion, no byte lost or torn, no access outside its blocks, no leak, every call returns |
| aesdsocket server (`server/aesdsocket.c`) | thread list, mutex, one thread and descriptor per connection | accept loop, `connection_handler`, `handle_signal` | packets are stored whole, answers are whole, clients are served, a signal ends the server |
| rpikey driver (`tetris-app/driver/main.c`) | key buffer `my_buf`, `count`, five work items | interrupt, work callback, read, init, exit | no key is delivered twice, no press is forgotten, the unlocked buffer is never left |
| tetris game (`tetris-app/main.c`) | field, current piece, score, interval, screen state | key handling, drop, lock, line clear, game over | pieces never overlap, no complete line stays, speed and score stay in range |
| ssd1306 display (`tetris-app/display/ssd1306.c`) | the controller's addressing window and cursor | command and data writes over I2C | a picture fills exactly its window |
| list macros (`server/queue.h`) | first, last, next and prev pointers | INIT, INSERT, REMOVE, REPLACE, CONCAT, SWAP and the loops of five kinds of list | following the pointers, either way, gives the list that was asked for |
| systemcalls, threading (`examples/`) | descriptors, child process; thread data, mutex | `do_system`, `do_exec`, `do_exec_redirect`; `threadfunc`, `start_thread_obtaining_mutex` | nothing leaks, the caller learns of every failure |
| finder app, scripts, image frames | none of their own | file writing, build and start scripts, picture data | not modelled (section 9) |

How they interact: a handler thread of `aesdsocket` opens `/dev/aesdchar`,
writes the chunks of a packet, may seek with `AESDCHAR_IOCSEEKTO` and reads the
content back. The driver keeps the chunks in its unfinished entry until a
newline arrives and then moves the entry into the circular buffer. The tetris
game reads keys from the rpikey driver and draws through ssd1306, from `main`
and from the handler of the alarm that animates the title.

What is hard here: interleavings of system calls on one device and of handler
threads on one server, the window between two steps of a call that fails in the
middle, a signal that arrives anywhere, cancellation of threads that hold or
wait for a mutex, TCP cutting packets anywhere, indices at the wrap of the
buffer, file positions that are relative to the oldest entry. `PROJECT.json`
lists each of these hazards at its line with the properties that cover it.

## 2. Plan

Done: the models of all components and their runs; proofs of the safety
properties of the circular buffer, the driver, the server, the list macros, the
key driver, the game, the screens and the display, and the two examples. What stays with
TLC,
and why, is at the end of section 7.

## 3. Modules

* `RecentWrites`: what the circular buffer promises, a log of the latest
  `Capacity` entries.
* `AesdCircularBuffer`: the buffer. `buffer` is `struct aesd_circular_buffer`;
  `aesd_circular_buffer_add_entry` and `aesd_circular_buffer_init` are actions,
  `find_entry_offset_for_fpos` is an operator that describes the search loop by
  the slots it visits (`SearchSlot`), the point where its condition fails
  (`SearchReaches`, with `is_wrapped` as `SearchWrapped`) and the first visit at
  which it returns (`HitAt`).
* `CommandLog`: what `/dev/aesdchar` promises: chunks accumulate until one
  brings a newline, then the line is one command of a log of `Capacity`
  commands.
* `AesdChar` (extends `AesdCircularBuffer`): the driver. Each process runs a
  system call as a sequence of steps: `Syscall`, the lock
  (`mutex_lock_interruptible`, or `Interrupted`, or `QueueWaiter`), the body,
  `mutex_unlock`, `Return`. `aesd_read` is two body steps (find, copy),
  `aesd_write` three (allocate, copy, commit), `aesd_llseek` two (the search and,
  since SEEK_CUR loads `filp->f_pos` a second time for the result,
  `aesd_llseek_target`), `aesd_ioctl` one before the lock and one after it. The
  heap maps allocated blocks to their
  bytes; an access outside a block makes `memory` "invalid" and stops the
  process, since what follows is undefined. The kernel's part is external: the
  mutex, `kmalloc`, and the VFS, which hands `read` and `write` a copy of the
  file position and stores it back afterwards (`StoresPosition`; `aesd_llseek` does so
  itself, after the unlock). `mutex_unlock` frees the lock
  whoever holds it, as the kernel's does. The lock is never passed to
  `mutex_init`, so a waiter that the kernel queues, instead of letting it spin on
  the running owner, follows a NULL pointer: `QueueWaiter`.
* `AesdSocket`: the server in the build for the device. `main` is the program
  counter of the main thread, which the signal handler takes over for good; `th`
  has one for each handler thread. The device is `CommandLog` (`Device!Write`);
  a read returns the rest of one command, as `aesd_read` does, and a seek
  command moves the file to some stored byte or fails, which is what `AesdChar`
  guarantees of it (`SeeksIntoTheLog`). `Cancelled` is deferred cancellation: it
  acts only in the calls of `CancellationPoints` and releases nothing. The two
  signals are not blocked in each other's handler: `SecondSignal` lets the handler
  begin anew at any of its steps. `held` has the library locks of the calls that
  signals have interrupted: `main` may be in `syslog`, `malloc` or
  `pthread_create`, the handler in `syslog`, `pthread_join` or `free`, each of
  which may or may not hold its lock at that moment (`LibraryLocks`). The signal
  handler that comes to a call with such a lock waits for itself ("hung"). A
  short chunk may pass for a seek command if the bytes behind it in the buffer,
  which an earlier one has left there, complete the header (`MayBeSeek`).
  Cancelling or joining a thread that was joined
  before, or that never was created, is undefined, and the model chooses between
  a crash and nothing.
* `RpiKey`: the key driver. `gpio_irq` is a falling edge with its interrupt
  handler; `queued` is the pending bit that `schedule_work` sets and `StartWork`
  clears when the callback begins, so that a press during a callback queues it
  again. The five callbacks differ only in the pin and the letter and are one
  definition with the key as parameter: `SampleKey` after the sleep, then
  `LoadCount` and the stores to `count` and `my_buf` one by one. Nothing locks
  them, so the stores appear in any order, and a value the C code names twice may
  be loaded once or twice (`StoreNul`, `PutUser`). A stored key is a number, so
  that two presses of one key can be told apart. `oops` is an access outside
  `my_buf`, to the unmapped registers, or a call into the unloaded module;
  everything stops there. One program reads, as the start script runs one game.
* `TetrisGame`: one game after the other. A cell of the model is the 8 columns
  (`MOVE_X`) of the code, of which every comparison in `is_hit` and in the line
  scan looks at one; `mino_shape` has the nine pieces in four angles. `Moved` and
  `HardDrop` are the keys, `Fall` and `Land` the two outcomes of an interval that
  has passed, `ScanLine` and `ScanBehindField` the loop over the lines, whose last
  turn is behind the field, `GameOver` and `NextPiece` what follows. `expected`,
  `pieces` and `memory` are not in the code: they count the cells that ought to be
  there, bound the game and record a write behind the array.
* `Ssd1306`: a drawing is the sequence of its I2C writes. The controller that
  receives them is external: it collects a command's arguments, keeps the
  addressing window and the cursor, and stores data where they are. It outlives
  the program.
* `TetrisScreens` (extends `Ssd1306`): `main` around the game. `todo` holds the
  writes of main's drawing and `handler` those of `title_handler`, which runs on
  top of main and between any two of its writes while `alarm` is set. `Kill` ends
  the program between two writes, but not while `ssd1306_init` makes its own, and
  the next process finds the display and the driver as they were. The game is a
  picture and a score here. A key is named by the screen it was pressed at. The
  driver's callback sleeps before it stores it, so a press (`Press`, `coming`) and
  its storing (`StoreKey`) are two steps with any others between them; the driver
  then has the one key that a read of one byte can get (section 8). What is still
  `coming` when main reads the driver empty is "late" from then on.
* `QueueMacros`: the macros of `queue.h` as operators on memory, the assignments
  in their order. `QueueLists`: a program that applies them to two lists in any
  order, frees what it removes, and loops with the SAFE macros.
* `Stdio`: the buffer of stdout and what was written from it, by whom and to
  which file. `SystemCalls`: `do_system`, `do_exec` and `do_exec_redirect`; the
  child of a call is a process of its own with copies of descriptors and stdio's
  buffer. The caller prints a line before each call; `fflush` and `fork` are two
  steps. `Threading`: `start_thread_obtaining_mutex`, `threadfunc` and the joiner
  that `threading.h` describes; a thread that fails prints a line (`ERROR_LOG`) to
  the same buffer. `Examples` composes both: one process runs commands while its
  threads are under way, and its `exit` ends them.
* `MCCircularBuffer`, `MCAesdChar`, `MCAesdSocket`: constants for TLC. The other
  modules need none: their constants are numbers and model values.
* `ListLemmas`: facts about sequences, their concatenation and induction that
  several proofs use. `AesdCharProofs` (with those
  about the circular buffer), `AesdSocketProofs`, `QueueListsProofs`,
  `RpiKeyProofs`, `TetrisGameProofs`, `TetrisScreensProofs` and `ExamplesProofs`:
  the theorems about the module of that name.

Data is abstracted to what the properties tell apart: a byte is a letter, the
newline or `Garbage`; a client's bytes are the client's name; the header of the
seek command is two bytes; error codes are the negative numbers the code
returns; a picture on the display is a name, of which each byte can be told from
every other. Positions and sizes are integers, and `size_t` arithmetic is modulo
`SizeMod`, so that negative offsets become large positions.

Definitions named `Mutant_...` are variations of the definition that follows them,
each with a plausible programming error, used to confirm that the properties
notice it. They are part of no specification.

## 4. Runs

Invariants that belong together are conjunctions of named parts (`StorageInv`,
`ServerInv`, `FieldInv`, `DisplayInv`, `ListInv`, `CallInv`, `OutputInv`,
`ThreadInv`), each with the module's type invariant where it has one. Section 7 says which of
the properties are also proved, for every value of the constants.

Passing runs:

* `circular_buffer`: 4 slots, entries of 0 to 2 bytes. Four slots let both
  indices wrap and the search lap the array with and without a full buffer.
  `WindowShape` and the refinement of `RecentWrites` (`RemembersRecentWrites`)
  concern the indices. `FindLocatesByte` compares the search with the entries laid end
  to end, the definition its comment gives.
* `concurrent`: two threads with one shared file (so that their positions
  race), 2 slots, commands of up to 2 bytes in pieces, reads of 1 and 3 bytes,
  SEEK_END, SEEKTO; signals and queued waiters. Three commands overwrite the
  oldest, so every wrap case occurs. Checks mutual exclusion, that a lock's owner
  is about to release it, `StorageInv` (types, memory safety, the byte count, that
  stored commands keep their own intact blocks, that no block is lost), the
  refinement of `CommandLog`, what reads return, and that SEEKTO does what its
  header says until the first overwrite.
* `any_input`: one process, every kind of request (empty writes, newlines in the
  middle, all whence values, unknown ioctl commands, offsets on both sides), every
  failure, two module loads. What is stored and where seeks go stays right. One
  process is enough here, and all that can be asked: with an unknown ioctl
  command two processes are no longer excluded from each other (section 8) and
  steps that are atomic under the lock are not.
* `whole_lines`: two threads with one shared file, every write a complete line,
  every failure, queued waiters included, seeks of known and unknown whence, with
  fairness. The unfinished command is then never longer than nothing, and an
  allocation failure costs only the write it hits. `SeeksIntoTheLog` says what a
  seek returns although the other thread moves the position it is relative to.
  `SyscallsReturn`: every system call returns, unless one of three things
  happens, all of which this run lets happen: a process oopses, a seek of unknown
  whence leaves with the lock, or the other thread takes the lock again and again.
  Without any one of the three TLC finds it violated.
* `server`: two clients, one with two lines in its packet, one with a seek
  command, received in any pieces, who may go away at any time; the device holds
  all commands. `ClientsServed` excepts the server's death by SIGPIPE.
* `server_faults`: two clients; start-up, accept, thread creation, open and
  write failures, clients that leave in the middle of their packet, a signal at any
  time and the other one while the first is handled, each possibly in the middle of a call that
  holds a library lock. `SignalExitsQuiet` says when the server does end: at most
  one handler is under way when the signal comes, and no signal interrupts a call
  whose lock the signal handler needs. With two handlers, see `shutdown_hang`;
  with such a lock, `SignalInSyslog.cfg` (section 8).
* `rpikey_races`: two keys, three presses, four cells, reads of 1 and 5 bytes,
  an unload at any time. Two callbacks and the reader are all that can meet in
  one cell; the third press lets a key be pressed again while its callback runs;
  the 5-byte read is longer than the buffer, so only the terminator stops it.
  `SafeWhileLoaded` says that the buffer is never left (the proofs get it from
  `WithinPresses`); `DeliveredOnce` and `PressNotForgotten` say what survives of
  the keys although updates of `count` get lost.
* `tetris_game`: a field of 4 by 5 cells, games of up to five pieces of the types
  I, O, J and the single cell, any keys between two ticks. Five pieces are enough
  to complete one and several lines, to overlap a new piece with the pile, and to
  top the field. `LinesCleared` (in `FieldInv`) and `CellsConserved` concern the
  shift that copies lines while the scan goes on and never empties the uppermost
  one: what makes it right is that a pile that reaches it has ended the game. `ScanStaysInside` shows
  that the turn behind the field does nothing: to be taken for complete it would
  need a cell in every row of the uppermost line but one. `PieceLands` needs only
  that time passes.
* `display`: all walks through title, top score, game, game over and exit, write
  by write, with the alarm between any two, one kill anywhere but during the
  writes of `ssd1306_init`, a key pressed at any time. The
  display has its real size in units
  of 8 columns. `ScreenShown` compares every byte with what the screen should
  show whenever a key is awaited, and nothing after the end; `ControllerInStep`
  (in `DisplayInv`) says that the controller is at a command's beginning again,
  also after a kill in the middle of a command. `NoStaleKey`: what title and game
  act on was pressed there, or came late. `TitleAppears`: the animated half of the
  title does appear.
* `lists`: each of the five kinds, two lists, four elements; with four elements
  the first, the last, both, an inner one and the neighbours of an inner one are
  all distinct cases. `ListInv` compares the pointers, forwards and backwards, with
  the sequences the program asked for. The elements are the only bound.
* `examples`: two calls, two threads, every system call failing at any time. Two
  calls let what the first leaves behind (a child that was not waited for, a
  descriptor, an unflushed line) meet the second; `OpenMax` 4 lets the
  descriptors run out. `CallInv` is about results and children, `ThreadInv` about
  the mutex and the threads' data. `OutputInv` is about what is written where and
  by whom: a call's line is written once at most (`CallLinesOnce`), waits in the
  buffer or has been written (`CallLinesKept`), and has been written when the call
  has a child (`PrintedBeforeChild`); the same of a thread's line, but that a
  failing child may write it once more (`ThreadLines`); the buffer is empty when
  the program has ended; a command has the right file (`CommandOutput`).

Deadlock checking is off where the system may stop: clients connect once each
and the server then waits for ever; after an oops, or a seek of unknown whence,
the driver's lock may stay taken; the key driver may be unloaded; a game ends at
its bound of pieces; the examples end after their calls and threads.

One run shows a disagreement between the code and a comment:

* `shutdown_hang`: a cancelled handler keeps the mutex, and the signal handler
  waits for ever for a handler that waits for it.

## 5. Bounds

`MaxPending` bounds the bytes of an unfinished command, `MaxLoads` the module
loads, `Blocks` the heap; with `MaxWriteOps` slots, `MaxWriteOps + 1` blocks are
in use at most unless something leaks, which `NothingLeaked` would show. The
numbers are small because each case needs few actors: two processes for every
race on the lock (a third only waits), one overwrite for every wrap, two chunks
for a packet or command in pieces. The theorems cover the unbounded case for
what they state. `DeviceAssumption` asks that there are finitely many processes
and that `SizeMod`, the number of values of `size_t`, exceeds twice the bytes that
`MaxWriteOps` commands of `MaxPending` bytes have, as memory does in reality.
Blocks are interchangeable, and so are the two threads of
`concurrent`, which is why symmetry is used there; it is not used in runs with
liveness. `MaxPresses` bounds the falling edges in `RpiKey`; it is below
`BufferSize`, since with as many presses as cells and no reader the callbacks
run over the end of `my_buf`.

`MaxPieces` bounds a game, `MaxScore` its score on the display (700 has two low
zeros, which the loop over the digits must not take for the end, below a digit; beside
a saved 0, a game may end with a new best score or without), `MaxKills` the
program's deaths, `MaxCalls` the commands run.
`Pictures` has two members because a picture of the game matters only as being the
current one or not, and `TITLE_NUM_FRAME` two for the same reason. `MaxKeys`
bounds the presses that no read has taken away; one is enough for a key that is
stored too early or comes late, and a second one stored behind it is lost anyway.
The runs take from a second to two minutes (`server_faults`) with two workers.

## 6. Fairness

`AesdChar!FairSpec`: a process in the kernel keeps running (weak fairness of
`KernelStep`), and a process that waits for the lock gets it if it stays free
(weak fairness). The kernel promises no more: a newcomer may take the lock before
one that waits, so `SyscallsReturn` excepts a process that others overtake for
ever. Nothing is assumed of the programs: no call need ever be made.

`AesdSocket!FairSpec`: main and the handlers run when they can, and a pending
cancellation is noticed in a blocking call. Fairness of a handler includes its
receiving: clients send what they have. A client that stays silent holds the
mutex for ever, which is why `ClientsServed` needs it. Weak fairness of the mutex
suffices, since each handler takes it once.

`TetrisGame!FairSpec`: the interval passes. The loop polls the keys without
waiting, so no key press can stop it.

`TetrisScreens!Spec`: main goes on, a write to the bus ends, a handler that has
begun runs to its end, and an armed alarm goes off again and again, as `ualarm`
with an interval does. Nothing is assumed of the player.

`Examples!Spec`: threads are scheduled and their sleeps end. Nothing is assumed of
the calls, the commands and the start of threads. Each thread takes the mutex
once, so weak fairness suffices.

## 7. Proofs

All proofs are checked by TLAPS. The constants are arbitrary but for the
assumptions of the modules, which say of what kind they are: `BufferAssumption`
(1 to 255 slots, sizes are natural numbers, the zero entry has size 0),
`DeviceAssumption`, `ServerAssumption`, `RpiKeyAssumption`, `GameAssumption`,
`DisplayAssumption` and `ScreenAssumption`, `SysAssumption`, `ThreadAssumption`,
`ListAssumption` (heads, elements, `NULL` and freed memory are told apart, and the
elements are finitely many).
Where a theorem needs more, it is a hypothesis of the theorem and named below.
Every inductive invariant was first checked by TLC as an invariant of a run.

TLAPS has no induction over data here. Where the models need it (sums over slots,
commands laid end to end), `ListLemmas!SetInduction` gives it for a set of
numbers: a nonempty set of naturals has a least member, and the least number
outside a set that is closed under the successor is neither 0 nor a successor.

### Circular buffer

* `BufferInvariance`: the indices stay in the array and the buffer keeps
  `WindowShape`. The invariant is inductive as it stands: while not full,
  `out_offs` is 0 and the slots from `in_offs` on are empty, so the buffer can only
  become full when `in_offs` wraps to 0; once full, both indices move together and
  it stays full.
* `BufferRefinesRecentWrites`: the buffer implements `RecentWrites` under the
  mapping `BufferLog`. Two lemmas treat the two cases of `add_entry`:
  `AddToFreeSlot` (the log grows by one) and `AddOverOldest` (the log loses its
  head); both compare the sequences element by element, with the modulo turned
  into a case distinction by `ModWrap`.
* `SearchFindsByte`: the search returns what `FindLocatesByte` says, in every
  reachable buffer. `SearchReachesLog`: the loop visits at least the slots in
  use; `AllBytesSearched`: the sizes it has added up by then are all the stored
  bytes, because a sum over the array does not depend on where it starts
  (`SumUpToRotated`); `SearchResult`: it returns at the slot whose range of bytes
  holds the position; `Places`: that range is where the string is when all are
  laid end to end.

### Driver

The theorems are for any processes, files, requests and failures. All of them have
the hypothesis `DocumentedRequests` (no unknown whence, no unknown ioctl command of
the driver's magic), without which they are false (section 8).

* `DeviceMutualExclusion`. `MutualExclusion` is not inductive: `aesd_init_module`
  and `aesd_cleanup_module` reset the lock, so the invariant needs that nobody is
  in a system call then (`UsageInv`: a call keeps its file open, an open file keeps
  the module loaded), and `aesd_ioctl` needs to know the command it was called with
  (`ControlInv`). `HolderInv`, whoever is inside owns the lock, does the rest.
* `StoredCommandsIntact`, `BytesAreAccounted`, `DriverStaysInMemory`,
  `LockGetsReleased`, `NoBlockLeaks`, from one inductive invariant `DeviceInv`:
  `LockInv` as above; what each process is doing and has found (`CallInv`,
  `ReadInv`: the entry that `aesd_read` has found is still there when it copies,
  because nobody else is inside); the blocks of the stored commands and of the
  unfinished one (`SlotsInv`, `PartialInv`); that a process which has left its
  memory holds the lock for good, so that the damage stays where it is
  (`HungInv`). With a failing `krealloc` the driver does leave its memory; `KeptInv`
  says what holds without that, under the hypothesis `NoLostPartial` (allocations
  succeed, or every write ends a command), and `LeakInv` what holds if no
  allocation fails. `NothingLeaked` also needs that nothing was allocated before
  the first load. The other two theorems hold under all failures.
* `DriverImplementsCommandLog`, under `NoLostPartial`: the driver implements
  `CommandLog`. All steps but two leave blocks and entries as they are, or change
  only bytes behind the unfinished command; `aesd_write_commit` without a newline
  appends to `partial`, and with one it appends to `commands` what
  `AddToFreeSlot` or `AddOverOldest` says of the buffer's log.
* `ReadsReturnTheLog`, `SeeksStayInTheLog`: what a read returns and where a seek
  goes, in terms of the stored commands laid end to end. `PlaceInv`: what
  `aesd_read` and `aesd_llseek` have found is what the position they searched
  names, still so at their next step, since the device waits for them
  (`DeviceWaits`); and the position that `aesd_llseek` computes there is the one
  it has searched, unless it is relative to a file position that other processes
  share (`OwnPositionMoves`). With a shared position the theorem says only that
  the position searched is one of a stored byte; the returned one need not be
  (section 8). One more hypothesis for seeks: an offset is a signed number as wide
  as `size_t` (`SeekOffsetsFit`). The stored bytes are fewer than half the
  values of `size_t` (`StoredBytesFit`, from `RoomInv` below), so that the conversion of a
  negative
  position to `size_t` is past the end and is refused (`SeekLands`).
  `HeldLayout` ties the sums of the search loop to lengths of commands, and
  `ReadIsPiece` the bytes of a block to the bytes of the whole.
* `SeektoMeetsHeader`: until the first overwrite slot and command number agree
  (`SlotsInOrder`), and the result is still 0 when `aesd_ioctl` gets the lock
  (`ResultInv`).
* `DriverTypeCorrect`: `TypeOK` with its bounds. That an unfinished command stays
  within `MaxPending` is a fact about all processes together, since several may
  have a write under way when the bound is tested: `RoomInv` adds the bytes that
  each of them will still append, `Total(BytesAhead)`, to the size of the
  unfinished command. The lemmas on sums over a finite set (`Total...` in
  `ListLemmas`) say what a step of one process does to such a sum.
* `StorageInvariance`: `StorageInv` as one formula, which follows from
  `DeviceInv`, `KeptInv`, `LeakInv`, `RoomInv` and `PlaceInv` when no allocation
  fails.

### Server

Any clients and packets, any pieces that TCP makes of them, all faults, one
signal or two at any step.

* `NodesAreSafe`: from `ServerBase`, types and how far `main` and the signal
  handler are with each thread (`AcceptInv`, `ShutdownInv`).
* `PacketsAreNotMixed`, under `NamedPackets`: a packet consists of its client's
  name and newlines, possibly behind characters that name nobody (the seek
  command); this is what lets `PacketsContiguous` tell the packets apart.
  `PacketInv` says of every client that what it has yet to write may follow what
  the device holds, and that nobody else writes between: that is `MutexInv`, the
  owner of the mutex alone is in the part it protects, which cancellation does not
  break although it never releases the mutex.
* `AnswersAreWhole`, under `NothingForgotten`: no command has been overwritten.
  `AnswerInv`: what a handler has sent with what it has read is the content from
  where it started to its file position.
* `OwnPacketsAreAnswered`: all of `ServerInv`, under `NamedPackets`,
  `NothingForgotten`, without failing writes, and under `TextPackets`: no part that
  TCP may cut out of a text packet begins with the header of a seek command, nor is
  a beginning of that header, which the bytes that an earlier chunk left behind it
  in the buffer may complete. The handler would take either for a seek. (This
  leaves texts without the header's first character: the model does not know what
  a buffer held before.) `TextInv` follows a client's name from the packet through
  the handler's buffer and the device to the answer.
* `ServerIsCorrect`: the same, and `ReadBackWhole`, with `NothingForgotten`
  replaced by a condition on the constants, `RoomForAll`: the packets have at most
  `Capacity` lines together. `LineInv`: the commands stored and the newlines yet to
  come, over all clients, are at most those lines.

### List macros

* `ListsAreRight`, `LoopsVisitAll`, for any number of heads and elements and all
  five kinds of list. `ListInv` speaks of what the loops of the macros visit, which
  no single step says anything about; the invariant `Inv` speaks of pointers.
  `Links` numbers the stops on the way through a list, the head, its elements and
  the end, and says of each where its `next` leads, and where the kind has them,
  of `prev` and of the head's last pointer; `Apart`, that no element is in two
  lists or twice in one. A macro writes few pointers: for each one it is shown
  once, from its assignments, that it puts an element between two neighbours
  (`Joined`), takes out what is between them (`Closed`), exchanges two heads
  (`Swapped`) or puts one list behind another (`Concatenated`). That each of these
  four keeps `Links` does not depend on the kind or the macro (`JoinedLinks`,
  `ClosedLinks`, `SwapKeeps`, `ConcatLinks`). The REMOVE macros of the singly-linked
  kinds search for the element before: `CurElmIs` says that they find it.
* From `Links` to loops: `WalkIs` follows a loop along the pointers by induction
  over the places of the list, and `VisitsIs` concludes that it visits the list and
  stops at its end, since no list is longer than there are elements (`ListFits`).
  `TailqBack` does the same for `TAILQ_LAST` and `TAILQ_PREV`, which reach the
  element before through the pointer of the one before that.
* The second part of `Inv`, `LoopAt`, is about a loop under way: the elements to
  come are those behind a place of the list, `tvar` is the first of them, and the
  element the loop is at is in that place or, if the body removed it, nowhere.
  Removing it moves the place by one and leaves `tvar` alone
  (`LoopOutlivesRemove`).

### Key driver

* `KeysWithinPresses`, `KeysSafeWhileLoaded`: for any keys, any buffer size above
  the number of presses and any read sizes, `count` and everything derived from it
  stays within the buffer. `SafeWhileLoaded` is not inductive, and no bound on
  `count` alone is: a callback may store a stale `count + 1` long after a read has
  reset it. `Used`, the presses that are no longer queued or before their load,
  only grows; `LoadCount` raises it by one, and so `count`, the copies in
  callbacks, the cells in use and the read pointer stay below it. The
  cardinalities are handled by one lemma per action.
* `PressesNotForgotten`: needs in addition that only keys with an interrupt are
  awaited (`PressInv`).
* `KeysDeliveredOnce`: without any bound. `CopyInv`: a stored key is in one cell,
  and a key that was delivered is in none but the one the reader is about to clear.

### Game, screens

* `FieldIsSound`, `CellsAreConserved`, `ScanIsInside`, for a field of any size and
  the pieces of `mino_shape`. The invariant `GameInd` says for every turn of the
  scan which lines are done and which may still be complete (`Scanning`), and that
  the pile has the expected cells when the copies are left out that each shift
  makes of the uppermost line (`Counting`, `Real`). The uppermost line has at most
  two cells, by the shapes, so the turn behind the field finds no complete line.
* `NeverInterrupted`: from `AlarmOnlyAtTitle`. `KeysAreFresh`, for any
  number of presses: from `KeyIsFresh`, the keys that are stored or whose callback
  sleeps while the program is at the title or in the game were pressed there or
  are late; `KeysAfter` says what each step does to these keys.
* `ControllerStaysInStep`, `ScreensAreShown`, for any title, pictures, saved
  scores and number of kills, under `ScoresFit`: scores have at most six digits,
  the places `main.c` has for them; with a seventh the digits would run into the
  next page. The invariant `DisplayParts` has four parts.
  `ControllerTyped` is about the controller's registers. `ProgramInv` is about
  main's locals. `DigitsInv`: the digits still to be drawn are those of the score
  above the ones drawn (`Remain`). `ScreenInv` says for every place of main, and
  between any two writes, how far the drawing is and what will be on the
  display at its end: `Stage(k, a)` is the controller after `k` of the nine
  writes of the drawing of area `a`, `InitStage(k)` after `k` writes of
  `ssd1306_init`, `Drawing(t, final)` and `Underway(t, final)` that the writes `t`
  are left and lead to `final`, and `Shows(final)` what the screen asks of it.
  `Leftover` is what a kill may leave in the controller: at most one command
  with some of its arguments missing. The first two bytes of `ssd1306_init`
  complete it, or are ignored, and all later ones are commands again; the setting those two
  should have made, the mux ratio, is already made in every such state
  (`InitStep`). `StageData` computes what the bytes of a picture, sent row by
  row into the window, leave in memory; `TwoDrawings` joins the clearing of the
  display to the drawing that follows it.

### Examples

* `ThreadsSafe`: from `ThrInd`, the owner of the mutex is the thread at the steps
  between lock and unlock, and data is freed by the joiner alone.
* `CallsSafe`: from `SysInd`, for each child what kind of call it belongs to and
  its descriptors at each of its steps.
* `OutputSafe`, for any number of calls and threads, which may print between
  `fflush` and `fork`: `LineInd` follows each line from the buffer to the
  copies of it that were written (`LineOK`). A call's line has left the buffer
  before the call forks, so no child has it; a thread's line is copied by one child
  at most, because the program writes it before it forks again.
  The cardinality of a child's descriptors for the redirected file comes from the
  shape of the table.

### Only model-checked

* Liveness and absence of deadlock: `SyscallsReturn`, `ClientsServed`,
  `SignalExitsQuiet`, `PieceLands` and the others need fairness and ENABLED.

## 8. Deviations

`shutdown_hang` is quoted in `PROJECT.json`. For the following deviations of the
code from its comments and headers there is a configuration under which TLC
shows the property violated:

* `SpuriousUnlock.cfg` (`MCAesdChar`, `MutualExclusion`): the default case of
  `aesd_ioctl` (main.c:251) unlocks a mutex it has not locked, while another
  process may be inside.
* `AllocFailure.cfg` (`MCAesdChar`, `MemorySafe`): a failed `krealloc`
  (main.c:111) leaves a size without a block; the next write copies behind its
  block.
* `SeektoAfterWrap.cfg` (`MCAesdChar`, `SeektoFindsCommand`): SEEKTO
  (main.c:246) counts array slots; `aesd_ioctl.h` speaks of the write command
  to seek into. The two agree until the first overwrite.
* `RpiKeyLost.cfg` (`RpiKey`, `ZeroMeansEmpty`): a one-byte read
  (driver/main.c:392), the only kind the game makes, leaves the keys behind the
  first one unreachable, and the next read returns 0.
* `UnknownWhence.cfg` (`MCAesdChar`, `LockIsReleased`): `aesd_llseek`'s default
  case (main.c:188) returns with the lock held. The documented requests of
  `concurrent` and of the theorems leave it out.
* `SeekCurRace.cfg` (`MCAesdChar`, `SeeksFindBytes`): SEEK_CUR searches one
  position and returns another (main.c:174, 176) if a call on the same open file
  moves it in between. The result may be past the end, where the comment at
  main.c:172 speaks of finding entry and offset for the position.
* `SignalInSyslog.cfg` (`MCAesdSocket`, `SignalExits`): the signal handler calls
  `syslog` (aesdsocket.c:41) while `main`, which it has interrupted, holds
  syslog's lock. The same is in the model for `malloc` and `free`, for the stacks
  of `pthread_create` and `pthread_join`, and for a second signal in the handler.
* `StaleKey.cfg` (`TetrisScreens`, `OnlyFreshKeys`): the comment at
  tetris-app/main.c:186 says that the input buffer is cleared before the game; a
  key whose callback sleeps (driver/main.c:104) at that moment is stored afterwards
  and acted on.
* `LineTwice.cfg` (`Examples`, `LinesOnce`): a thread prints between `fflush` and
  `fork` (systemcalls.c:151, 152) and the child fails: its `exit` writes the line
  again, to the redirected file if `dup2` has been made.
* `RedirectLeak.cfg` (`Examples`, `FileClosed`): the comment at systemcalls.c:116
  says that the redirected file is closed at the end; the parent never closes it.

More are in the models without a configuration of their own:

* `do_exec_redirect` ends the caller when `open` or `fork` fails, where its
  comment promises `false` (`ExitCaller`).
* `system` does not flush stdout, so that what the program printed before
  `do_system` may appear behind the command's output (`do_system`).
* A thread whose lock or unlock fails returns NULL (threading.c:31, 41), where
  threading.h:37-38 promises a pointer to its data: the joiner can neither free
  the data nor look at `thread_complete_success` (`FailThread`).
* `aesd_init_module` never initializes the mutex (`QueueWaiter`), and
  `aesd_cleanup_module` frees nothing (it leaves `heap` unchanged).
* A handler reads the device back without the mutex, so that packets which
  overwrite old commands tear its answer: `ReadBackWhole` fails as soon as
  `Capacity` is smaller than the number of commands.
* `send` to a client that has gone raises SIGPIPE, and the server ends (`Send`).
* The beginning of a seek command's header alone may be taken for a seek command,
  with old bytes behind it (aesdsocket.c:106), and is then not stored; a header
  cut otherwise is stored as text (`RecvChunk`).
* A signal between `pthread_create` and `SLIST_INSERT_HEAD` leaves the new
  thread running when the server exits.
* `rpikey_exit` unmaps the registers before it frees the interrupts and cancels no
  work (`SampleKey`, `LeftBehind`); pin 13 is requested where 16 is meant
  (`RequestedPins`) and stays requested; a bounce during the debounce sleep queues
  the callback again, so that one long press is stored twice; `class_destroy`
  unregisters the class that `class_unregister` has just unregistered
  (driver/main.c:567-568), so that what happens then is anybody's guess
  (`rpikey_exit_free_irqs`).

## 9. Not modelled

* The build of the server without `USE_AESD_CHAR_DEVICE`: its timer thread and its
  regular file. The build for the device leaves them out.
* `malloc(sizeof(node))` in the server, which asks for the size of a pointer:
  what that overwrites depends on the allocator.
* A signal that arrives in `main` before it accepts, when there is no thread to
  join, and one that goes to a handler thread: each blocks the two signals when
  it begins (aesdsocket.c:84), but until then the kernel may choose it, and the
  signal handler would run there, beside `main`. Signals go to `main` here.
  The library locks of the handler threads are released again by them, and so are
  not modelled; a cancelled thread releases them too.
* Buffer sizes of the server (1024 bytes a call) and the parsing of the numbers
  in a seek command: a failed parse passes arbitrary numbers, which the free
  choice of the position covers.
* A failed module load, which leaves no state behind; a second load of `rpikey`
  (after an unload with work left behind nothing is defined); a bad user address
  in `rpikey_read`, whose `put_user` result is ignored.
* The length of the tetris interval: the clock may tick at any time. A failure to
  open a device or the score file, which ends the program or crashes it; a score
  file that `fscanf` cannot read.
* A failed I2C write, which the code only logs: what a display shows that misses
  a byte is not defined by anything here. A kill during the writes of
  `ssd1306_init`: between the two bytes of a setting, the next start spoils that
  setting.
* `CIRCLEQ_REPLACE`, `CIRCLEQ_FOREACH_REVERSE_SAFE` and `SLIST_HEAD_INITIALIZER`,
  which do not compile when used. `LIST_PREV` is modelled, but uses
  `__containerof`, which BSD systems define and this platform does not: it does
  not compile here either.
* `finder-app`, scripts, tests, CI: one-shot input and output without state. The
  image frames under `bitmap/image` are data.
