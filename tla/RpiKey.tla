------------------------------- MODULE RpiKey -------------------------------
(***************************************************************************)
(* The rpikey driver of tetris-app/driver/main.c.  A falling edge on a     *)
(* key's pin interrupts; the handler schedules the key's work item; its    *)
(* callback sleeps, samples the pin and appends the key to my_buf.  One    *)
(* program reads the keys.  my_buf and count have no lock: callbacks of    *)
(* different keys and the reader race, so every load and store of them is  *)
(* a step.  Interrupts and the work queue are modelled from their use.     *)
(***************************************************************************)
EXTENDS Integers, FiniteSets

CONSTANTS Keys,       \* the pins with a key, of 12, 16, 20, 21 and 26
          BufferSize, \* BUFFER_SIZE
          ReadSizes,  \* the sizes the program passes to read
          MaxPresses  \* bound: how many falling edges there are

ASSUME RpiKeyAssumption ==
  /\ Keys \subseteq {12, 16, 20, 21, 26}
  /\ BufferSize \in Nat \ {0} /\ MaxPresses \in Nat
  /\ ReadSizes \subseteq Nat

VARIABLES stage,     \* "new", "in", "leaving" (in rpikey_exit) or "out"
          irqs,      \* the pins whose interrupt is requested
          gpios,     \* the pins requested from the GPIO layer
          level,     \* the level of each pin; a pressed key pulls it to 0
          queued,    \* the pending bit of each work item
          work,      \* the callback of each work item
          my_buf, count, msg_ptr,
          opened,    \* the program has the device open
          reader,    \* the program's call of rpikey_read
          presses,   \* falling edges so far
          stored,    \* keys stored so far: numbers the keys
          delivered, \* how often put_user has copied each key
          awaited,   \* keys pressed since their pin was last sampled low
          oops       \* the kernel runs or touches what is not there

vars == <<stage, irqs, gpios, level, queued, work, my_buf, count, msg_ptr,
          opened, reader, presses, stored, delivered, awaited, oops>>

Cells == 0..(BufferSize - 1)
NUL   == 0   \* keys are numbered from 1
Idle  == [pc |-> "idle", c |-> 0, todo |-> {}]
User  == [pc |-> "user", size |-> 0, bytes_read |-> 0, ch |-> NUL]

Init ==
  /\ stage = "new" /\ irqs = {} /\ gpios = {}
  /\ level = [k \in Keys |-> 1]
  /\ queued = [k \in Keys |-> FALSE] /\ work = [k \in Keys |-> Idle]
  /\ my_buf = [i \in Cells |-> NUL] /\ count = 0 /\ msg_ptr = 0
  /\ opened = FALSE /\ reader = User
  /\ presses = 0 /\ stored = 0
  /\ delivered = [n \in 1..MaxPresses |-> 0]
  /\ awaited = {} /\ oops = FALSE

\* The module's code is there to be run.
Loaded == stage \in {"in", "leaving"} /\ ~oops

-----------------------------------------------------------------------------
(* Loading and unloading                                                   *)

\* rpikey_init asks for pin 13 where it means pin 16.
RequestedPins == {IF k = 16 THEN 13 ELSE k : k \in Keys}

\* A request_irq that fails is logged and otherwise ignored.
rpikey_init ==
  /\ stage = "new"
  /\ stage' = "in"
  /\ gpios' = gpios \cup RequestedPins
  /\ irqs' \in SUBSET Keys
  /\ UNCHANGED <<level, queued, work, my_buf, count, msg_ptr, opened, reader,
                 presses, stored, delivered, awaited, oops>>

\* The first half of rpikey_exit: the registers are unmapped, interrupts still
\* arrive.  key_fops names no owner, so an open file does not prevent it.
rpikey_exit ==
  /\ stage = "in" /\ ~oops
  /\ stage' = "leaving"
  /\ gpios' = gpios \ Keys
  /\ UNCHANGED <<irqs, level, queued, work, my_buf, count, msg_ptr, opened, reader,
                 presses, stored, delivered, awaited, oops>>

\* What would still call into the module: work that is queued or running, which
\* is not cancelled, and an open file.
LeftBehind == opened \/ \E k \in Keys : queued[k] \/ work[k].pc # "idle"

\* The rest of rpikey_exit; then the module's code and data are gone.  The class
\* is unregistered, which frees it, and destroyed, which unregisters it again:
\* this use of freed memory may crash as well.
rpikey_exit_free_irqs ==
  /\ stage = "leaving" /\ ~oops
  /\ stage' = "out" /\ irqs' = {}
  /\ oops' \in {LeftBehind, TRUE}
  /\ UNCHANGED <<gpios, level, queued, work, my_buf, count, msg_ptr, opened, reader,
                 presses, stored, delivered, awaited>>

-----------------------------------------------------------------------------
(* Keys and interrupts                                                     *)

\* schedule_work: nothing if the item is already pending.  An item whose
\* callback is running is not pending and runs once more afterwards.
Mutant_schedule_work(k) ==
  queued' = IF work[k].pc = "idle" THEN [queued EXCEPT ![k] = TRUE] ELSE queued
schedule_work(k) == queued' = [queued EXCEPT ![k] = TRUE]

\* The key is pressed, or bounces: a falling edge, and the interrupt handler.
\* (Keys pressed after the module has gone concern nobody.)
gpio_irq(k) ==
  /\ stage # "out" /\ ~oops
  /\ level[k] = 1 /\ presses < MaxPresses
  /\ level' = [level EXCEPT ![k] = 0]
  /\ presses' = presses + 1
  /\ IF k \in irqs
     THEN schedule_work(k) /\ awaited' = awaited \cup {k}
     ELSE UNCHANGED <<queued, awaited>>
  /\ UNCHANGED <<stage, irqs, gpios, work, my_buf, count, msg_ptr, opened, reader,
                 stored, delivered, oops>>

ReleaseKey(k) ==
  /\ stage # "out" /\ ~oops
  /\ level[k] = 0
  /\ level' = [level EXCEPT ![k] = 1]
  /\ UNCHANGED <<stage, irqs, gpios, queued, work, my_buf, count, msg_ptr, opened,
                 reader, presses, stored, delivered, awaited, oops>>

-----------------------------------------------------------------------------
(* The work callbacks                                                      *)

callbacks == <<stage, irqs, gpios, level, msg_ptr, opened, reader, presses, delivered>>

\* The work queue starts a callback, which sleeps first; an item is never run
\* by two workers at a time.
StartWork(k) ==
  /\ Loaded /\ queued[k] /\ work[k].pc = "idle"
  /\ queued' = [queued EXCEPT ![k] = FALSE]
  /\ work' = [work EXCEPT ![k].pc = "msleep"]
  /\ UNCHANGED <<callbacks, my_buf, count, stored, awaited, oops>>

\* msleep is over: get_gpio_input_value, and return if the key is up again.
SampleKey(k) ==
  /\ Loaded /\ work[k].pc = "msleep"
  /\ IF stage = "leaving"
     THEN oops' = TRUE /\ UNCHANGED <<work, awaited>>
     ELSE /\ work' = [work EXCEPT ![k].pc = IF level[k] = 0 THEN "load" ELSE "idle"]
          /\ awaited' = IF level[k] = 0 THEN awaited \ {k} ELSE awaited
          /\ UNCHANGED oops
  /\ UNCHANGED <<callbacks, queued, my_buf, count, stored>>

\* count++ loads count.
LoadCount(k) ==
  /\ Loaded /\ work[k].pc = "load"
  /\ work' = [work EXCEPT ![k] = [pc |-> "store", c |-> count,
                                  todo |-> {"count", "key", "nul"}]]
  /\ UNCHANGED <<callbacks, queued, my_buf, count, stored, awaited, oops>>

\* One of the callback's three stores is done; the last one ends it.
Finish(k, store) ==
  work' = [work EXCEPT ![k] =
             IF work[k].todo = {store} THEN Idle
             ELSE [work[k] EXCEPT !.todo = work[k].todo \ {store}]]

\* Store a value in a cell, or behind the array.
PutCell(i, ch) ==
  IF i \in Cells THEN my_buf' = [my_buf EXCEPT ![i] = ch] /\ UNCHANGED oops
                 ELSE oops' = TRUE /\ UNCHANGED my_buf

\* Nothing orders the three stores for an observer without a lock.
StoreCount(k) ==
  /\ Loaded /\ "count" \in work[k].todo
  /\ count' = work[k].c + 1
  /\ Finish(k, "count")
  /\ UNCHANGED <<callbacks, queued, my_buf, stored, awaited, oops>>

StoreKey(k) ==
  /\ Loaded /\ "key" \in work[k].todo
  /\ PutCell(work[k].c, stored + 1)
  /\ stored' = stored + 1
  /\ Finish(k, "key")
  /\ UNCHANGED <<callbacks, queued, count, awaited>>

\* my_buf[count] = NUL: the index is the incremented value, or, in a build that
\* loads count again after the other stores, whatever count is by then.
StoreNul(k) ==
  /\ Loaded /\ "nul" \in work[k].todo
  /\ \/ PutCell(work[k].c + 1, NUL)
     \/ work[k].todo = {"nul"} /\ PutCell(count, NUL)
  /\ Finish(k, "nul")
  /\ UNCHANGED <<callbacks, queued, count, stored, awaited>>

-----------------------------------------------------------------------------
(* The program that reads                                                  *)

readside == <<stage, irqs, gpios, level, queued, work, presses, stored, awaited>>

rpikey_open ==
  /\ Loaded /\ ~opened
  /\ opened' = TRUE /\ msg_ptr' = 0
  /\ UNCHANGED <<readside, my_buf, count, reader, delivered, oops>>

rpikey_release ==
  /\ Loaded /\ opened /\ reader.pc = "user"
  /\ opened' = FALSE
  /\ UNCHANGED <<readside, my_buf, count, msg_ptr, reader, delivered, oops>>

rpikey_read(size) ==
  /\ Loaded /\ opened /\ reader.pc = "user"
  /\ msg_ptr' = 0 /\ count' = 0
  /\ reader' = [User EXCEPT !.pc = "while", !.size = size]
  /\ UNCHANGED <<readside, my_buf, opened, delivered, oops>>

Mutant_ReadLoop ==
  /\ Loaded /\ reader.pc = "while"
  /\ IF reader.size > 0 /\ msg_ptr \notin Cells
     THEN oops' = TRUE /\ UNCHANGED reader
     ELSE /\ reader' = IF reader.size > 0
                       THEN [reader EXCEPT !.pc = "put", !.ch = my_buf[msg_ptr]]
                       ELSE User
          /\ UNCHANGED oops
  /\ UNCHANGED <<readside, my_buf, count, msg_ptr, opened, delivered>>
\* The test for an empty buffer and the loop's condition: the same load.
ReadLoop ==
  /\ Loaded /\ reader.pc = "while"
  /\ IF reader.size > 0 /\ msg_ptr \notin Cells
     THEN oops' = TRUE /\ UNCHANGED reader
     ELSE /\ reader' = IF reader.size > 0 /\ my_buf[msg_ptr] # NUL
                       THEN [reader EXCEPT !.pc = "put", !.ch = my_buf[msg_ptr]]
                       ELSE User
          /\ UNCHANGED oops
  /\ UNCHANGED <<readside, my_buf, count, msg_ptr, opened, delivered>>

\* put_user copies what the condition loaded, or what is there by now.
PutUser ==
  /\ Loaded /\ reader.pc = "put"
  /\ \E ch \in {reader.ch, my_buf[msg_ptr]} :
       delivered' = IF ch = NUL THEN delivered ELSE [delivered EXCEPT ![ch] = @ + 1]
  /\ reader' = [reader EXCEPT !.pc = "clear", !.ch = NUL]
  /\ UNCHANGED <<readside, my_buf, count, msg_ptr, opened, oops>>

Mutant_ClearCell ==
  /\ Loaded /\ reader.pc = "clear"
  /\ msg_ptr' = msg_ptr + 1
  /\ reader' = [reader EXCEPT !.pc = "while", !.size = @ - 1, !.bytes_read = @ + 1]
  /\ UNCHANGED <<readside, my_buf, count, opened, delivered, oops>>
ClearCell ==
  /\ Loaded /\ reader.pc = "clear"
  /\ my_buf' = [my_buf EXCEPT ![msg_ptr] = NUL]
  /\ msg_ptr' = msg_ptr + 1
  /\ reader' = [reader EXCEPT !.pc = "while", !.size = @ - 1, !.bytes_read = @ + 1]
  /\ UNCHANGED <<readside, count, opened, delivered, oops>>

-----------------------------------------------------------------------------
WorkStep(k) ==
  StartWork(k) \/ SampleKey(k) \/ LoadCount(k) \/ StoreCount(k) \/ StoreKey(k) \/ StoreNul(k)

Next ==
  \/ rpikey_init \/ rpikey_exit \/ rpikey_exit_free_irqs
  \/ \E k \in Keys : gpio_irq(k) \/ ReleaseKey(k) \/ WorkStep(k)
  \/ rpikey_open \/ rpikey_release \/ (\E n \in ReadSizes : rpikey_read(n))
  \/ ReadLoop \/ PutUser \/ ClearCell

Spec == Init /\ [][Next]_vars

-----------------------------------------------------------------------------
(* Properties                                                              *)

\* The variables have their types; a callback is storing exactly while a store
\* is left to do.
KeyTypeOK ==
  /\ stage \in {"new", "in", "leaving", "out"} /\ irqs \subseteq Keys
  /\ gpios \subseteq Keys \cup {13}
  /\ level \in [Keys -> 0..1] /\ queued \in [Keys -> BOOLEAN]
  /\ work \in [Keys -> [pc : {"idle", "msleep", "load", "store"}, c : Nat,
                        todo : SUBSET {"count", "key", "nul"}]]
  /\ \A k \in Keys : work[k].todo # {} <=> work[k].pc = "store"
  /\ my_buf \in [Cells -> Nat] /\ count \in Nat /\ msg_ptr \in Nat
  /\ opened \in BOOLEAN
  /\ reader \in [pc : {"user", "while", "put", "clear"}, size : Nat,
                 bytes_read : Nat, ch : Nat]
  /\ reader.pc \in {"put", "clear"} => reader.size > 0
  /\ presses \in 0..MaxPresses /\ stored \in Nat
  /\ DOMAIN delivered = 1..MaxPresses
  /\ awaited \subseteq Keys /\ oops \in BOOLEAN

\* The keys whose press has not yet led to a load of count.
InQueue == {k \in Keys : queued[k]}
BeforeLoad == {k \in Keys : work[k].pc \in {"msleep", "load"}}
\* How many loads of count there can have been: one for each press at most.
Used == presses - Cardinality(InQueue) - Cardinality(BeforeLoad)

\* What bounds the unlocked buffer: count, the copies of it that callbacks hold,
\* the cells in use and the reader's pointer stay within the presses that have
\* been consumed, whatever order loads and stores take.
WithinPresses ==
  /\ count <= Used
  /\ \A k \in Keys : work[k].pc = "store" => work[k].c < Used
  /\ \A i \in Cells : my_buf[i] # NUL => i < Used
  /\ reader.pc = "while" => msg_ptr <= Used
  /\ reader.pc \in {"put", "clear"} => msg_ptr < Used

\* As long as fewer keys are pressed than my_buf has cells, neither the callbacks
\* nor the loop of rpikey_read leaves the array while the module is loaded,
\* whatever the races on count do to it.
SafeWhileLoaded == oops => stage # "in"

\* A stored key reaches the program at most once: rpikey_read clears each cell
\* it has copied, and no lost update brings a key back.
DeliveredOnce == \A n \in DOMAIN delivered : delivered[n] <= 1

\* A key that has been pressed and is held is still to be sampled after the
\* press, also when its callback was queued or running by then: schedule_work
\* forgets no press.
PressNotForgotten ==
  \A k \in awaited : level[k] = 0 => queued[k] \/ work[k].pc = "msleep"

\* rpikey_read's comment: a return of 0 says that there is no more data to read.
\* (Judged when no callback is between its stores.)
ZeroMeansEmpty ==
  [][reader.pc = "while" /\ reader'.pc = "user"
       /\ reader.size > 0 /\ reader.bytes_read = 0
       /\ (\A k \in Keys : work[k].pc # "store")
     => \A i \in Cells : my_buf[i] = NUL]_vars
=============================================================================
