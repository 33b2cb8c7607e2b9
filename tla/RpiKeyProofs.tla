---------------------------- MODULE RpiKeyProofs ----------------------------
(***************************************************************************)
(* Proofs about RpiKey for every set of keys, buffer size and read sizes.  *)
(***************************************************************************)
EXTENDS RpiKey, FiniteSetTheorems, TLAPS

\* Nothing goes wrong before the module is being unloaded.
OopsLate == oops => stage \in {"leaving", "out"}

\* The records of the work items.
WorkItems ==
  [pc : {"idle", "msleep", "load", "store"}, c : Nat, todo : SUBSET {"count", "key", "nul"}]

KeyInv == KeyTypeOK /\ WithinPresses /\ OopsLate

\* The keys are some of the five pins.
LEMMA KeysFinite == IsFiniteSet(Keys)
<1>1. Keys \in SUBSET Nat /\ \A k \in Keys : k <= 26
  BY RpiKeyAssumption
<1> QED
  BY <1>1, FS_BoundedSetOfNaturals

\* The sets that Used counts are finite, so Used is an integer of at most
\* MaxPresses.
LEMMA UsedBound ==
  ASSUME KeyTypeOK
  PROVE  /\ IsFiniteSet(InQueue) /\ Cardinality(InQueue) \in Nat
         /\ IsFiniteSet(BeforeLoad) /\ Cardinality(BeforeLoad) \in Nat
         /\ Used \in Int /\ Used <= MaxPresses
<1>1. InQueue \in SUBSET Keys /\ BeforeLoad \in SUBSET Keys
  BY DEF InQueue, BeforeLoad
<1>2. IsFiniteSet(InQueue) /\ IsFiniteSet(BeforeLoad)
  BY <1>1, KeysFinite, FS_Subset
<1>3. Cardinality(InQueue) \in Nat /\ Cardinality(BeforeLoad) \in Nat
  BY <1>2, FS_CardinalityType
<1>4. presses \in 0..MaxPresses
  BY DEF KeyTypeOK
<1> QED
  BY <1>2, <1>3, <1>4, RpiKeyAssumption DEF Used

\* What an element adds to the cardinality of a set.
LEMMA AtMostOneMore ==
  ASSUME NEW S, IsFiniteSet(S), NEW x, NEW T, T = S \/ T = S \cup {x}
  PROVE  Cardinality(T) \in Nat /\ Cardinality(T) <= Cardinality(S) + 1
<1>1. Cardinality(S) \in Nat
  BY FS_CardinalityType
<1>2. Cardinality(S \cup {x}) = IF x \in S THEN Cardinality(S) ELSE Cardinality(S) + 1
  BY FS_AddElement
<1>3. CASE T = S
  BY <1>1, <1>3
<1>4. CASE T = S \cup {x}
  <2>1. Cardinality(T) = Cardinality(S \cup {x})
    BY <1>4
  <2> QED
    BY <1>1, <1>2, <2>1
<1> QED
  BY <1>3, <1>4

\* What removing an element leaves of it.
LEMMA NotMore ==
  ASSUME NEW S, IsFiniteSet(S), NEW x, NEW T, T = S \/ T = S \ {x}
  PROVE  Cardinality(T) \in Nat /\ Cardinality(T) <= Cardinality(S)
<1>1. IsFiniteSet(S \ {x}) /\ S \ {x} \in SUBSET S
  BY FS_RemoveElement
<1>2. Cardinality(S \ {x}) <= Cardinality(S)
  BY <1>1, FS_Subset
<1>3. Cardinality(S) \in Nat /\ Cardinality(S \ {x}) \in Nat
  BY <1>1, FS_CardinalityType
<1>4. CASE T = S
  BY <1>3, <1>4
<1>5. CASE T = S \ {x}
  <2>1. Cardinality(T) = Cardinality(S \ {x})
    BY <1>5
  <2> QED
    BY <1>2, <1>3, <2>1
<1> QED
  BY <1>4, <1>5

\* A press adds one key to the queue at most.
LEMMA UsedAfterPress ==
  ASSUME KeyTypeOK, NEW k \in Keys, gpio_irq(k)
  PROVE  Used' \in Int /\ Used' >= Used
<1>1. BeforeLoad' = BeforeLoad /\ presses' = presses + 1 /\ presses \in Int
  BY RpiKeyAssumption DEF gpio_irq, BeforeLoad, KeyTypeOK
<1>2. InQueue' = InQueue \/ InQueue' = InQueue \cup {k}
  BY DEF gpio_irq, schedule_work, InQueue, KeyTypeOK
<1>3. /\ Cardinality(InQueue') \in Nat
      /\ Cardinality(InQueue') <= Cardinality(InQueue) + 1
  BY <1>2, UsedBound, AtMostOneMore
<1> QED
  BY <1>1, <1>3, UsedBound DEF Used

\* A key that starts its callback leaves the queue and is still to load count.
LEMMA UsedAfterStart ==
  ASSUME KeyTypeOK, NEW k \in Keys, StartWork(k)
  PROVE  Used' = Used
<1>1. presses' = presses /\ presses \in Int
  BY RpiKeyAssumption DEF StartWork, callbacks, KeyTypeOK
<1>2. InQueue' = InQueue \ {k} /\ k \in InQueue
  BY DEF StartWork, InQueue, KeyTypeOK
<1>3. BeforeLoad' = BeforeLoad \cup {k} /\ k \notin BeforeLoad
  BY DEF StartWork, BeforeLoad, KeyTypeOK
<1>4. Cardinality(InQueue') = Cardinality(InQueue) - 1
  BY <1>2, UsedBound, FS_RemoveElement
<1>5. Cardinality(BeforeLoad') = Cardinality(BeforeLoad) + 1
  BY <1>3, UsedBound, FS_AddElement
<1> QED
  BY <1>1, <1>4, <1>5, UsedBound DEF Used

\* A callback that finds its key up consumes its press without a load.
LEMMA UsedAfterSample ==
  ASSUME KeyTypeOK, NEW k \in Keys, SampleKey(k)
  PROVE  Used' \in Int /\ Used' >= Used
<1>1. presses' = presses /\ presses \in Int /\ InQueue' = InQueue
  BY RpiKeyAssumption DEF SampleKey, callbacks, KeyTypeOK, InQueue
<1>2. BeforeLoad' = BeforeLoad \/ BeforeLoad' = BeforeLoad \ {k}
  <2>1. CASE stage = "leaving"
    BY <2>1 DEF SampleKey, BeforeLoad
  <2>2. CASE stage # "leaving" /\ level[k] = 0
    <3>1. work' = [work EXCEPT ![k].pc = "load"] /\ work[k].pc = "msleep"
      BY <2>2 DEF SampleKey
    <3> QED
      BY <3>1 DEF BeforeLoad, KeyTypeOK
  <2>3. CASE stage # "leaving" /\ level[k] # 0
    <3>1. work' = [work EXCEPT ![k].pc = "idle"] /\ work[k].pc = "msleep"
      BY <2>3 DEF SampleKey
    <3> QED
      BY <3>1 DEF BeforeLoad, KeyTypeOK
  <2> QED
    BY <2>1, <2>2, <2>3
<1>3. Cardinality(BeforeLoad') \in Nat /\ Cardinality(BeforeLoad') <= Cardinality(BeforeLoad)
  BY <1>2, UsedBound, NotMore
<1> QED
  BY <1>1, <1>3, UsedBound DEF Used

\* The load of count consumes a press.
LEMMA UsedAfterLoad ==
  ASSUME KeyTypeOK, NEW k \in Keys, LoadCount(k)
  PROVE  Used' = Used + 1
<1>1. presses' = presses /\ presses \in Int /\ InQueue' = InQueue
  BY RpiKeyAssumption DEF LoadCount, callbacks, KeyTypeOK, InQueue
<1>2. BeforeLoad' = BeforeLoad \ {k} /\ k \in BeforeLoad
  BY DEF LoadCount, BeforeLoad, KeyTypeOK
<1>3. Cardinality(BeforeLoad') = Cardinality(BeforeLoad) - 1
  BY <1>2, UsedBound, FS_RemoveElement
<1> QED
  BY <1>1, <1>3, UsedBound DEF Used

\* Finishing a store moves no key into or out of the sets that Used counts.
LEMMA FinishStore ==
  ASSUME KeyTypeOK, NEW k \in Keys, NEW s \in {"count", "key", "nul"},
         s \in work[k].todo, Finish(k, s), UNCHANGED <<presses, queued>>
  PROVE  /\ Used' = Used
         /\ work' \in [Keys -> WorkItems]
         /\ \A q \in Keys : work'[q].todo # {} <=> work'[q].pc = "store"
         /\ \A q \in Keys : work'[q].pc = "store" =>
              work[q].pc = "store" /\ work'[q].c = work[q].c
<1>1. work[k].pc = "store" /\ work[k] \in WorkItems
  BY DEF KeyTypeOK, WorkItems
<1> DEFINE w == IF work[k].todo = {s} THEN Idle
                ELSE [work[k] EXCEPT !.todo = work[k].todo \ {s}]
<1>2. work' = [work EXCEPT ![k] = w]
  BY DEF Finish
<1>3. /\ w \in WorkItems
      /\ w.todo # {} <=> w.pc = "store"
      /\ w.pc \in {"idle", "store"}
      /\ w.pc = "store" => w.c = work[k].c
  <2>1. CASE work[k].todo = {s}
    BY <2>1 DEF Idle, WorkItems
  <2>2. CASE work[k].todo # {s}
    <3>1. work[k].todo \ {s} # {}
      BY <2>2
    <3>2. w = [pc |-> "store", c |-> work[k].c, todo |-> work[k].todo \ {s}]
      BY <1>1, <2>2 DEF WorkItems
    <3> QED
      BY <1>1, <3>1, <3>2 DEF WorkItems
  <2> QED
    BY <2>1, <2>2
<1> HIDE DEF w
<1>4. work \in [Keys -> WorkItems]
  BY DEF KeyTypeOK, WorkItems
<1>5. BeforeLoad' = BeforeLoad
  BY <1>1, <1>2, <1>3, <1>4 DEF BeforeLoad
<1>6. Used' = Used
  BY <1>5 DEF Used, InQueue
<1> QED
  BY <1>1, <1>2, <1>3, <1>4, <1>6 DEF KeyTypeOK

-----------------------------------------------------------------------------
(* The buffer                                                              *)

\* A step that leaves the buffer, the callbacks' copies of count and the reader
\* alone keeps the bounds if it does not lower Used.
LEMMA FrameStep ==
  ASSUME KeyInv, Used' \in Int, Used' >= Used,
         UNCHANGED <<count, my_buf, reader>>,
         msg_ptr' \in {0, msg_ptr},
         \A k \in Keys : work'[k].pc = "store" =>
           work[k].pc = "store" /\ work'[k].c = work[k].c
  PROVE  WithinPresses'
<1>1. Used \in Int /\ count \in Nat /\ msg_ptr \in Nat /\ \A k \in Keys : work[k].c \in Nat
  BY UsedBound DEF KeyInv, KeyTypeOK
<1>2. \A i \in Cells : i \in Int
  BY RpiKeyAssumption DEF Cells
<1>3. Cells' = Cells
  BY DEF Cells
<1> QED
  BY <1>1, <1>2, <1>3 DEF KeyInv, WithinPresses, NUL

\* The bounds are small enough for the array.
LEMMA InsideCells ==
  ASSUME KeyInv, MaxPresses < BufferSize
  PROVE  /\ count \in Cells
         /\ \A k \in Keys : work[k].pc = "store" => work[k].c \in Cells /\ work[k].c + 1 \in Cells
         /\ reader.pc = "while" => msg_ptr \in Cells
<1>1. /\ Used \in Int /\ Used <= MaxPresses /\ count \in Nat /\ msg_ptr \in Nat
      /\ \A k \in Keys : work[k].c \in Nat
  BY UsedBound DEF KeyInv, KeyTypeOK
<1>2. BufferSize \in Nat /\ MaxPresses \in Nat
  BY RpiKeyAssumption
<1>3. count \in Cells
  BY <1>1, <1>2 DEF KeyInv, WithinPresses, Cells
<1>4. ASSUME NEW k \in Keys, work[k].pc = "store"
      PROVE  work[k].c \in Cells /\ work[k].c + 1 \in Cells
  <2>1. work[k].c \in Nat /\ work[k].c < Used
    BY <1>1, <1>4 DEF KeyInv, WithinPresses
  <2> QED
    BY <1>1, <1>2, <2>1 DEF Cells
<1>5. ASSUME reader.pc = "while"
      PROVE  msg_ptr \in Cells
  BY <1>1, <1>2, <1>5 DEF KeyInv, WithinPresses, Cells
<1> QED
  BY <1>3, <1>4, <1>5

\* Loading, unloading, open and release.
LEMMA SetUpSteps ==
  ASSUME KeyInv, rpikey_init \/ rpikey_exit \/ rpikey_exit_free_irqs \/ rpikey_open \/ rpikey_release
  PROVE  KeyInv'
<1>1. /\ UNCHANGED <<level, queued, work, presses, stored, delivered, awaited,
                      count, my_buf, reader>>
      /\ msg_ptr' \in {0, msg_ptr}
  BY DEF rpikey_init, rpikey_exit, rpikey_exit_free_irqs, rpikey_open, rpikey_release, readside
<1>2. Used' = Used /\ Used \in Int
  BY <1>1, UsedBound DEF Used, InQueue, BeforeLoad, KeyInv
<1>3. WithinPresses'
  BY <1>1, <1>2, FrameStep
<1>4. OopsLate'
  BY DEF rpikey_init, rpikey_exit, rpikey_exit_free_irqs, rpikey_open, rpikey_release,
         readside, KeyInv, OopsLate
<1>5. gpios' \subseteq Keys \cup {13} /\ irqs' \subseteq Keys
  <2>1. gpios \subseteq Keys \cup {13} /\ irqs \subseteq Keys
    BY DEF KeyInv, KeyTypeOK
  <2>2. /\ gpios' \in {gpios, gpios \cup RequestedPins, gpios \ Keys}
        /\ irqs' \in {irqs, {}} \cup SUBSET Keys
    BY DEF rpikey_init, rpikey_exit, rpikey_exit_free_irqs, rpikey_open, rpikey_release, readside
  <2>3. RequestedPins \subseteq Keys \cup {13}
    BY DEF RequestedPins
  <2> QED
    BY <2>1, <2>2, <2>3
<1>6. /\ stage' \in {"new", "in", "leaving", "out"}
      /\ opened' \in BOOLEAN /\ oops' \in BOOLEAN
  BY DEF rpikey_init, rpikey_exit, rpikey_exit_free_irqs, rpikey_open, rpikey_release,
         readside, KeyInv, KeyTypeOK, LeftBehind
<1>7. KeyTypeOK'
  BY <1>1, <1>5, <1>6 DEF KeyInv, KeyTypeOK, Cells
<1> QED
  BY <1>3, <1>4, <1>7 DEF KeyInv

\* A key going down or up.
LEMMA PinSteps ==
  ASSUME KeyInv, NEW k \in Keys, gpio_irq(k) \/ ReleaseKey(k)
  PROVE  KeyInv'
<1>1. UNCHANGED <<stage, irqs, gpios, work, my_buf, count, msg_ptr, opened, reader,
                  stored, delivered, oops>>
  BY DEF gpio_irq, ReleaseKey
<1>2. Used' \in Int /\ Used' >= Used
  <2>1. CASE gpio_irq(k)
    BY <2>1, UsedAfterPress DEF KeyInv
  <2>2. CASE ReleaseKey(k)
    BY <2>2, UsedBound DEF ReleaseKey, Used, InQueue, BeforeLoad, KeyInv
  <2> QED
    BY <2>1, <2>2
<1>3. WithinPresses'
  BY <1>1, <1>2, FrameStep
<1>4. level' \in [Keys -> 0..1] /\ awaited' \subseteq Keys
  <2>1. level \in [Keys -> 0..1] /\ awaited \subseteq Keys
    BY DEF KeyInv, KeyTypeOK
  <2>2. \/ level' = [level EXCEPT ![k] = 0]
        \/ level' = [level EXCEPT ![k] = 1]
    BY DEF gpio_irq, ReleaseKey
  <2>3. awaited' = awaited \/ awaited' = awaited \cup {k}
    BY DEF gpio_irq, ReleaseKey
  <2> QED
    BY <2>1, <2>2, <2>3
<1>5. queued' \in [Keys -> BOOLEAN]
  BY DEF gpio_irq, ReleaseKey, schedule_work, KeyInv, KeyTypeOK
<1>6. presses' \in 0..MaxPresses
  BY RpiKeyAssumption DEF gpio_irq, ReleaseKey, KeyInv, KeyTypeOK
<1>7. KeyTypeOK' /\ OopsLate'
  BY <1>1, <1>4, <1>5, <1>6 DEF KeyInv, KeyTypeOK, OopsLate, Cells
<1> QED
  BY <1>3, <1>7 DEF KeyInv

\* A callback that moves, but not to its stores, keeps what is known of them.
LEMMA PcStep ==
  ASSUME KeyTypeOK, NEW k \in Keys, NEW l \in {"idle", "msleep", "load"},
         work[k].pc # "store", work' = [work EXCEPT ![k].pc = l]
  PROVE  /\ work' \in [Keys -> WorkItems]
         /\ \A q \in Keys : work'[q].todo # {} <=> work'[q].pc = "store"
         /\ \A q \in Keys : work'[q].pc = "store" =>
              work[q].pc = "store" /\ work'[q].c = work[q].c
<1>1. /\ work \in [Keys -> WorkItems] /\ work[k].todo = {}
      /\ \A q \in Keys : work[q].todo # {} <=> work[q].pc = "store"
  BY DEF KeyTypeOK, WorkItems
<1> DEFINE w == [work[k] EXCEPT !.pc = l]
<1>2. w \in WorkItems /\ w.todo = {} /\ w.pc # "store"
  <2>1. w = [pc |-> l, c |-> work[k].c, todo |-> {}] /\ work[k] \in WorkItems
    BY <1>1, SMTT(60) DEF WorkItems
  <2> QED
    BY <2>1 DEF WorkItems
<1>3. work' = [work EXCEPT ![k] = w]
  OBVIOUS
<1> HIDE DEF w, WorkItems
<1> QED
  BY <1>1, <1>2, <1>3

\* The work queue starts a callback.
LEMMA StartStep ==
  ASSUME KeyInv, NEW k \in Keys, StartWork(k)
  PROVE  KeyInv'
<1>1. /\ work' = [work EXCEPT ![k].pc = "msleep"]
      /\ work[k].pc = "idle"
      /\ queued' = [queued EXCEPT ![k] = FALSE]
      /\ UNCHANGED <<stage, irqs, gpios, level, msg_ptr, opened, reader, presses,
                      delivered, my_buf, count, stored, awaited, oops>>
  BY DEF StartWork, callbacks
<1>2. Used' = Used /\ Used \in Int
  BY UsedAfterStart, UsedBound DEF KeyInv
<1>3. /\ work' \in [Keys -> WorkItems]
      /\ \A q \in Keys : work'[q].todo # {} <=> work'[q].pc = "store"
      /\ \A q \in Keys : work'[q].pc = "store" =>
           work[q].pc = "store" /\ work'[q].c = work[q].c
  BY <1>1, PcStep DEF KeyInv
<1>4. WithinPresses'
  BY <1>1, <1>2, <1>3, FrameStep
<1>5. queued' \in [Keys -> BOOLEAN]
  BY <1>1 DEF KeyInv, KeyTypeOK
<1>6. KeyTypeOK'
  BY <1>1, <1>3, <1>5 DEF KeyInv, KeyTypeOK, Cells, WorkItems
<1> QED
  BY <1>1, <1>4, <1>6 DEF KeyInv, OopsLate

\* A callback wakes and samples its pin.
LEMMA SampleStep ==
  ASSUME KeyInv, NEW k \in Keys, SampleKey(k)
  PROVE  KeyInv'
<1>1. /\ work[k].pc = "msleep" /\ work[k].todo = {}
      /\ UNCHANGED <<stage, irqs, gpios, level, msg_ptr, opened, reader, presses,
                      delivered, queued, my_buf, count, stored>>
  BY DEF SampleKey, callbacks, KeyInv, KeyTypeOK
<1>2. \/ work' = work
      \/ work' = [work EXCEPT ![k].pc = "load"]
      \/ work' = [work EXCEPT ![k].pc = "idle"]
  BY DEF SampleKey
<1>3. /\ work' \in [Keys -> WorkItems]
      /\ \A q \in Keys : work'[q].todo # {} <=> work'[q].pc = "store"
      /\ \A q \in Keys : work'[q].pc = "store" =>
           work[q].pc = "store" /\ work'[q].c = work[q].c
  <2>1. CASE work' = work
    BY <2>1 DEF KeyInv, KeyTypeOK, WorkItems
  <2>2. CASE work' = [work EXCEPT ![k].pc = "load"]
    BY <1>1, <2>2, PcStep DEF KeyInv
  <2>3. CASE work' = [work EXCEPT ![k].pc = "idle"]
    BY <1>1, <2>3, PcStep DEF KeyInv
  <2> QED
    BY <1>2, <2>1, <2>2, <2>3
<1>4. WithinPresses'
  BY <1>1, <1>3, UsedAfterSample, FrameStep DEF KeyInv
<1>5. oops' \in BOOLEAN /\ awaited' \subseteq Keys /\ OopsLate'
  BY <1>1 DEF SampleKey, KeyInv, KeyTypeOK, OopsLate
<1>6. KeyTypeOK'
  BY <1>1, <1>3, <1>5 DEF KeyInv, KeyTypeOK, Cells, WorkItems
<1> QED
  BY <1>4, <1>5, <1>6 DEF KeyInv

\* The copy of count that a callback takes is below Used, since the load
\* raises Used by one.
LEMMA LoadStep ==
  ASSUME KeyInv, NEW k \in Keys, LoadCount(k)
  PROVE  KeyInv'
<1> DEFINE w == [pc |-> "store", c |-> count, todo |-> {"count", "key", "nul"}]
<1>1. /\ work' = [work EXCEPT ![k] = w]
      /\ UNCHANGED <<stage, irqs, gpios, level, msg_ptr, opened, reader, presses,
                      delivered, queued, my_buf, count, stored, awaited, oops>>
  BY DEF LoadCount, callbacks
<1>2. /\ work \in [Keys -> WorkItems]
      /\ \A q \in Keys : work[q].todo # {} <=> work[q].pc = "store"
      /\ count \in Nat /\ msg_ptr \in Nat
      /\ \A q \in Keys : work[q].c \in Nat
  BY DEF KeyInv, KeyTypeOK, WorkItems
<1>3. w \in WorkItems /\ w.todo # {} /\ w.pc = "store" /\ w.c = count
  BY <1>2 DEF WorkItems
<1> HIDE DEF w
<1>4. /\ work' \in [Keys -> WorkItems]
      /\ \A q \in Keys : work'[q].todo # {} <=> work'[q].pc = "store"
  BY <1>1, <1>2, <1>3
<1>5. Used' = Used + 1 /\ Used \in Int /\ count <= Used
  BY UsedAfterLoad, UsedBound DEF KeyInv, WithinPresses
<1>6. ASSUME NEW q \in Keys, work'[q].pc = "store"
      PROVE  work'[q].c < Used'
  <2>1. CASE q = k
    BY <1>1, <1>2, <1>3, <1>5, <2>1
  <2>2. CASE q # k
    <3>1. work'[q] = work[q] /\ work[q].c \in Nat
      BY <1>1, <1>2, <2>2
    <3>2. work[q].c < Used
      BY <1>6, <3>1 DEF KeyInv, WithinPresses
    <3> QED
      BY <1>5, <3>1, <3>2
  <2> QED
    BY <2>1, <2>2
<1>7. \A i \in Cells : my_buf[i] # NUL => i < Used + 1
  <2>1. \A i \in Cells : i \in Int
    BY RpiKeyAssumption DEF Cells
  <2> QED
    BY <1>5, <2>1 DEF KeyInv, WithinPresses
<1>8. /\ reader.pc = "while" => msg_ptr <= Used + 1
      /\ reader.pc \in {"put", "clear"} => msg_ptr < Used + 1
  BY <1>2, <1>5 DEF KeyInv, WithinPresses
<1>9. WithinPresses'
  BY <1>1, <1>2, <1>5, <1>6, <1>7, <1>8 DEF WithinPresses, Cells, NUL
<1>10. KeyTypeOK'
  BY <1>1, <1>4 DEF KeyInv, KeyTypeOK, Cells, WorkItems
<1> QED
  BY <1>1, <1>9, <1>10 DEF KeyInv, OopsLate

\* Storing a stale count + 1 stays within Used, which has only grown since.
LEMMA StoreCountStep ==
  ASSUME KeyInv, NEW k \in Keys, StoreCount(k)
  PROVE  KeyInv'
<1>1. /\ count' = work[k].c + 1 /\ "count" \in work[k].todo
      /\ UNCHANGED <<stage, irqs, gpios, level, msg_ptr, opened, reader, presses,
                      delivered, queued, my_buf, stored, awaited, oops>>
  BY DEF StoreCount, callbacks
<1>2. /\ Used' = Used
      /\ work' \in [Keys -> WorkItems]
      /\ \A q \in Keys : work'[q].todo # {} <=> work'[q].pc = "store"
      /\ \A q \in Keys : work'[q].pc = "store" =>
           work[q].pc = "store" /\ work'[q].c = work[q].c
  BY <1>1, FinishStore DEF StoreCount, KeyInv
<1>3. work[k].c \in Nat /\ Used \in Int /\ work[k].c < Used
  BY <1>1, UsedBound DEF KeyInv, KeyTypeOK, WithinPresses
<1>4. WithinPresses'
  BY <1>1, <1>2, <1>3 DEF KeyInv, WithinPresses, Cells, NUL
<1>5. KeyTypeOK'
  BY <1>1, <1>2, <1>3 DEF KeyInv, KeyTypeOK, Cells, WorkItems
<1> QED
  BY <1>1, <1>4, <1>5 DEF KeyInv, OopsLate

\* Both stores into the array: a cell below the bound, or a NUL.
LEMMA StoreCellStep ==
  ASSUME KeyInv, NEW k \in Keys, NEW s \in {"key", "nul"}, s \in work[k].todo,
         NEW i \in Cells, NEW ch \in Nat, ch # NUL => i < Used,
         PutCell(i, ch), Finish(k, s), stored' \in Nat,
         UNCHANGED <<stage, irqs, gpios, level, msg_ptr, opened, reader, presses,
                     delivered, queued, count, awaited>>
  PROVE  KeyInv'
<1>1. my_buf' = [my_buf EXCEPT ![i] = ch] /\ oops' = oops
  BY DEF PutCell
<1>2. /\ Used' = Used
      /\ work' \in [Keys -> WorkItems]
      /\ \A q \in Keys : work'[q].todo # {} <=> work'[q].pc = "store"
      /\ \A q \in Keys : work'[q].pc = "store" =>
           work[q].pc = "store" /\ work'[q].c = work[q].c
  BY FinishStore DEF KeyInv
<1>3. my_buf \in [Cells -> Nat]
  BY DEF KeyInv, KeyTypeOK
<1>4. my_buf' \in [Cells -> Nat] /\ \A j \in Cells : my_buf'[j] # NUL => j < Used
  BY <1>1, <1>3 DEF KeyInv, WithinPresses
<1>5. WithinPresses'
  BY <1>2, <1>4 DEF KeyInv, WithinPresses, Cells, NUL
<1>6. KeyTypeOK'
  BY <1>1, <1>2, <1>4 DEF KeyInv, KeyTypeOK, Cells, WorkItems
<1> QED
  BY <1>1, <1>5, <1>6 DEF KeyInv, OopsLate

\* The two stores to my_buf are inside it, and the key's cell is below Used.
LEMMA StoreSteps ==
  ASSUME KeyInv, MaxPresses < BufferSize, NEW k \in Keys, StoreKey(k) \/ StoreNul(k)
  PROVE  KeyInv'
<1>1. UNCHANGED <<stage, irqs, gpios, level, msg_ptr, opened, reader, presses,
                  delivered, queued, count, awaited>>
  BY DEF StoreKey, StoreNul, callbacks
<1>2. stored \in Nat
  BY DEF KeyInv, KeyTypeOK
<1>3. work[k].todo # {} => work[k].pc = "store"
  BY DEF KeyInv, KeyTypeOK
<1>4. CASE StoreKey(k)
  <2>1. /\ "key" \in work[k].todo /\ PutCell(work[k].c, stored + 1)
        /\ Finish(k, "key") /\ stored' = stored + 1
    BY <1>4 DEF StoreKey
  <2>2. work[k].c \in Cells /\ work[k].c < Used
    BY <1>3, <2>1, InsideCells DEF KeyInv, WithinPresses
  <2>3. stored + 1 \in Nat /\ stored' \in Nat
    BY <1>2, <2>1
  <2> QED
    BY <1>1, <2>1, <2>2, <2>3, StoreCellStep
<1>5. CASE StoreNul(k)
  <2>1. "nul" \in work[k].todo /\ Finish(k, "nul") /\ stored' \in Nat
    BY <1>2, <1>5 DEF StoreNul
  <2>2. \E i \in {work[k].c + 1, count} : PutCell(i, NUL)
    BY <1>5 DEF StoreNul
  <2>3. PICK i \in {work[k].c + 1, count} : PutCell(i, NUL)
    BY <2>2
  <2>4. i \in Cells /\ NUL \in Nat
    BY <1>3, <2>1, <2>3, InsideCells DEF NUL
  <2> QED
    BY <1>1, <2>1, <2>3, <2>4, StoreCellStep
<1> QED
  BY <1>4, <1>5

\* The type of the reader, and the steps that leave the callbacks alone.
Readers == [pc : {"user", "while", "put", "clear"}, size : Nat, bytes_read : Nat, ch : Nat]

\* A step of the reader leaves the callbacks alone.
LEMMA ReaderFrame ==
  ASSUME KeyInv, UNCHANGED <<readside, opened, oops>>,
         DOMAIN delivered' = DOMAIN delivered,
         count' \in Nat, count' <= Used,
         my_buf' \in [Cells -> Nat], \A i \in Cells : my_buf'[i] # NUL => i < Used,
         msg_ptr' \in Nat, reader' \in Readers,
         reader'.pc \in {"put", "clear"} => reader'.size > 0 /\ msg_ptr' < Used,
         reader'.pc = "while" => msg_ptr' <= Used
  PROVE  KeyInv'
<1>1. UNCHANGED <<stage, irqs, gpios, level, queued, work, presses, stored, awaited>>
  BY DEF readside
<1>2. Used' = Used
  BY <1>1 DEF Used, InQueue, BeforeLoad
<1>3. WithinPresses'
  BY <1>1, <1>2 DEF KeyInv, WithinPresses, Cells, NUL
<1>4. KeyTypeOK'
  BY <1>1 DEF KeyInv, KeyTypeOK, Cells, Readers
<1> QED
  BY <1>1, <1>3, <1>4 DEF KeyInv, OopsLate

\* The reader stops at the first empty cell, and all cells from Used on are empty.
LEMMA ReadSteps ==
  ASSUME KeyInv, MaxPresses < BufferSize,
         (\E n \in ReadSizes : rpikey_read(n)) \/ ReadLoop \/ PutUser \/ ClearCell
  PROVE  KeyInv'
<1>1. /\ my_buf \in [Cells -> Nat] /\ \A i \in Cells : my_buf[i] # NUL => i < Used
      /\ count \in Nat /\ count <= Used /\ msg_ptr \in Nat /\ reader \in Readers
      /\ reader.pc \in {"put", "clear"} => reader.size > 0 /\ msg_ptr < Used
      /\ reader.pc = "while" => msg_ptr <= Used
      /\ Used \in Int /\ Used <= MaxPresses /\ MaxPresses \in Nat /\ BufferSize \in Nat
      /\ DOMAIN delivered = 1..MaxPresses
  BY UsedBound, RpiKeyAssumption DEF KeyInv, KeyTypeOK, WithinPresses, Readers
<1>2. User \in Readers
  BY DEF User, Readers, NUL
<1>3. CASE \E n \in ReadSizes : rpikey_read(n)
  <2>1. PICK n \in ReadSizes : rpikey_read(n)
    BY <1>3
  <2>2. n \in Nat
    BY RpiKeyAssumption
  <2>3. reader' \in Readers /\ reader'.pc = "while"
    BY <2>1, <2>2 DEF rpikey_read, User, Readers, NUL
  <2>4. /\ UNCHANGED <<readside, my_buf, opened, delivered, oops>>
        /\ msg_ptr' = 0 /\ count' = 0
    BY <2>1 DEF rpikey_read
  <2>5. 0 <= Used
    BY <1>1
  <2> QED
    BY <1>1, <2>3, <2>4, <2>5, ReaderFrame
<1>4. CASE ReadLoop
  <2>1. reader.pc = "while" /\ msg_ptr \in Cells
    BY <1>4, InsideCells DEF ReadLoop
  <2>2. /\ UNCHANGED <<readside, my_buf, count, msg_ptr, opened, delivered, oops>>
        /\ reader' = IF reader.size > 0 /\ my_buf[msg_ptr] # NUL
                     THEN [reader EXCEPT !.pc = "put", !.ch = my_buf[msg_ptr]]
                     ELSE User
    BY <1>4, <2>1 DEF ReadLoop
  <2>3. CASE reader.size > 0 /\ my_buf[msg_ptr] # NUL
    <3>1. my_buf[msg_ptr] \in Nat /\ msg_ptr < Used
      BY <1>1, <2>1, <2>3
    <3>2. reader' \in Readers /\ reader'.pc = "put" /\ reader'.size = reader.size
      BY <1>1, <2>2, <2>3, <3>1 DEF Readers
    <3> QED
      BY <1>1, <2>2, <2>3, <3>1, <3>2, ReaderFrame
  <2>4. CASE ~(reader.size > 0 /\ my_buf[msg_ptr] # NUL)
    <3>1. reader' = User /\ User.pc = "user"
      BY <2>2, <2>4 DEF User
    <3> QED
      BY <1>1, <1>2, <2>2, <3>1, ReaderFrame
  <2> QED
    BY <2>3, <2>4
<1>5. CASE PutUser
  <2>1. /\ reader.pc = "put" /\ reader' = [reader EXCEPT !.pc = "clear", !.ch = NUL]
        /\ UNCHANGED <<readside, my_buf, count, msg_ptr, opened, oops>>
        /\ DOMAIN delivered' = DOMAIN delivered
    BY <1>5 DEF PutUser
  <2>2. reader' \in Readers /\ reader'.pc = "clear" /\ reader'.size = reader.size
    BY <1>1, <2>1 DEF Readers, NUL
  <2> QED
    BY <1>1, <2>1, <2>2, ReaderFrame
<1>6. CASE ClearCell
  <2>1. /\ reader.pc = "clear" /\ msg_ptr' = msg_ptr + 1
        /\ my_buf' = [my_buf EXCEPT ![msg_ptr] = NUL]
        /\ reader' = [reader EXCEPT !.pc = "while", !.size = reader.size - 1,
                                    !.bytes_read = reader.bytes_read + 1]
        /\ UNCHANGED <<readside, count, opened, delivered, oops>>
    BY <1>6 DEF ClearCell
  <2>2. reader' \in Readers /\ reader'.pc = "while"
    <3>1. reader.size - 1 \in Nat /\ reader.bytes_read + 1 \in Nat /\ reader.ch \in Nat
      BY <1>1, <2>1 DEF Readers
    <3>2. reader' = [pc |-> "while", size |-> reader.size - 1,
                     bytes_read |-> reader.bytes_read + 1, ch |-> reader.ch]
      BY <1>1, <2>1 DEF Readers
    <3> QED
      BY <3>1, <3>2 DEF Readers
  <2>3. my_buf' \in [Cells -> Nat] /\ \A i \in Cells : my_buf'[i] # NUL => i < Used
    BY <1>1, <2>1 DEF NUL
  <2>4. msg_ptr' \in Nat /\ msg_ptr' <= Used
    BY <1>1, <2>1
  <2> QED
    BY <1>1, <2>1, <2>2, <2>3, <2>4, ReaderFrame
<1> QED
  BY <1>3, <1>4, <1>5, <1>6

\* Nothing has been pressed at the start.
LEMMA KeyInvInit == Init => KeyInv
<1> SUFFICES ASSUME Init PROVE KeyInv
  OBVIOUS
<1>1. KeyTypeOK
  <2>1. /\ level \in [Keys -> 0..1] /\ queued \in [Keys -> BOOLEAN]
        /\ my_buf \in [Cells -> Nat] /\ DOMAIN delivered = 1..MaxPresses
    BY DEF Init, NUL
  <2>2. Idle \in WorkItems /\ Idle.todo = {} /\ Idle.pc = "idle"
    BY DEF Idle, WorkItems
  <2>3. work = [k \in Keys |-> Idle]
    BY DEF Init
  <2>4. /\ work \in [Keys -> WorkItems]
        /\ \A k \in Keys : work[k].todo # {} <=> work[k].pc = "store"
    BY <2>2, <2>3
  <2>5. /\ reader \in [pc : {"user", "while", "put", "clear"}, size : Nat,
                        bytes_read : Nat, ch : Nat]
        /\ reader.pc = "user"
    BY DEF Init, User, NUL
  <2>6. /\ stage = "new" /\ irqs \subseteq Keys /\ gpios \subseteq Keys \cup {13}
        /\ count \in Nat /\ msg_ptr \in Nat /\ stored \in Nat
        /\ presses \in 0..MaxPresses
    BY RpiKeyAssumption DEF Init
  <2>7. opened \in BOOLEAN /\ oops \in BOOLEAN /\ awaited \subseteq Keys
    BY Zenon DEF Init
  <2> QED
    BY <2>1, <2>4, <2>5, <2>6, <2>7 DEF KeyTypeOK, WorkItems
<1>2. InQueue = {} /\ BeforeLoad = {}
  BY DEF Init, InQueue, BeforeLoad, Idle
<1>3. Used = 0
  BY <1>2, FS_EmptySet DEF Used, Init
<1>4. WithinPresses
  BY <1>3 DEF Init, WithinPresses, Idle, User, NUL
<1> QED
  BY <1>1, <1>4 DEF KeyInv, OopsLate, Init

\* KeyInv is inductive while there are fewer presses than cells.
LEMMA KeyInvStep ==
  ASSUME KeyInv, MaxPresses < BufferSize, [Next]_vars
  PROVE  KeyInv'
<1>1. CASE UNCHANGED vars
  BY <1>1 DEF vars, KeyInv, KeyTypeOK, WithinPresses, OopsLate, Used, InQueue, BeforeLoad,
              Cells, NUL
<1>2. CASE Next
  <2>1. CASE rpikey_init \/ rpikey_exit \/ rpikey_exit_free_irqs \/ rpikey_open \/ rpikey_release
    BY <2>1, SetUpSteps
  <2>2. CASE \E k \in Keys : gpio_irq(k) \/ ReleaseKey(k)
    BY <2>2, PinSteps
  <2>3. CASE \E k \in Keys : WorkStep(k)
    BY <2>3, StartStep, SampleStep, LoadStep, StoreCountStep, StoreSteps DEF WorkStep
  <2>4. CASE (\E n \in ReadSizes : rpikey_read(n)) \/ ReadLoop \/ PutUser \/ ClearCell
    BY <2>4, ReadSteps
  <2> QED
    BY <1>2, <2>1, <2>2, <2>3, <2>4 DEF Next
<1> QED
  BY <1>1, <1>2

\* As long as there are fewer presses than cells, count, the callbacks' copies of
\* it, the used cells and the reader's pointer stay within the presses consumed,
\* for any keys and read sizes and whatever the order of loads and stores.
THEOREM KeysWithinPresses ==
  ASSUME MaxPresses < BufferSize
  PROVE  Spec => []WithinPresses
<1>1. KeyInv /\ [Next]_vars => KeyInv'
  BY KeyInvStep
<1>2. KeyInv => WithinPresses
  BY DEF KeyInv
<1> QED
  BY <1>1, <1>2, KeyInvInit, PTL DEF Spec

\* Under the same bound, no callback and no read leaves my_buf while the module
\* is loaded, although nothing locks it.
THEOREM KeysSafeWhileLoaded ==
  ASSUME MaxPresses < BufferSize
  PROVE  Spec => []SafeWhileLoaded
<1>1. KeyInv /\ [Next]_vars => KeyInv'
  BY KeyInvStep
<1>2. KeyInv => SafeWhileLoaded
  BY DEF KeyInv, OopsLate, SafeWhileLoaded
<1> QED
  BY <1>1, <1>2, KeyInvInit, PTL DEF Spec

-----------------------------------------------------------------------------
(* The work items                                                          *)

\* What keeps a press from being forgotten: only keys with an interrupt are
\* awaited, and their work item is still to sample them.
PressInv ==
  /\ PressNotForgotten
  /\ stage = "new" => irqs = {}
  /\ stage # "out" => awaited \subseteq irqs

\* A press queues the key's callback, whether or not one is running.
LEMMA PressPins ==
  ASSUME KeyTypeOK, PressInv, NEW k \in Keys, gpio_irq(k) \/ ReleaseKey(k)
  PROVE  PressInv'
<1>1. /\ level \in [Keys -> 0..1] /\ queued \in [Keys -> BOOLEAN] /\ awaited \subseteq Keys
      /\ stage # "out" /\ UNCHANGED <<stage, irqs, work>>
  BY DEF gpio_irq, ReleaseKey, KeyTypeOK
<1>2. CASE gpio_irq(k) /\ k \in irqs
  <2>1. /\ level' = [level EXCEPT ![k] = 0] /\ awaited' = awaited \cup {k}
        /\ queued' = [queued EXCEPT ![k] = TRUE]
    BY <1>2 DEF gpio_irq, schedule_work
  <2> QED
    BY <1>1, <1>2, <2>1 DEF PressInv, PressNotForgotten
<1>3. CASE gpio_irq(k) /\ k \notin irqs
  <2>1. level' = [level EXCEPT ![k] = 0] /\ UNCHANGED <<awaited, queued>>
    BY <1>3 DEF gpio_irq
  <2> QED
    BY <1>1, <1>3, <2>1 DEF PressInv, PressNotForgotten
<1>4. CASE ReleaseKey(k)
  <2>1. level' = [level EXCEPT ![k] = 1] /\ UNCHANGED <<awaited, queued>>
    BY <1>4 DEF ReleaseKey
  <2> QED
    BY <1>1, <2>1 DEF PressInv, PressNotForgotten
<1> QED
  BY <1>2, <1>3, <1>4

\* The pending bit is cleared only by a callback that has still to sample.
LEMMA PressWork ==
  ASSUME KeyTypeOK, PressInv, NEW k \in Keys, WorkStep(k)
  PROVE  PressInv'
<1>1. /\ queued \in [Keys -> BOOLEAN] /\ awaited \subseteq Keys /\ work \in [Keys -> WorkItems]
      /\ UNCHANGED <<stage, irqs, level>>
  BY DEF WorkStep, StartWork, SampleKey, LoadCount, StoreCount, StoreKey, StoreNul,
         callbacks, KeyTypeOK, WorkItems
<1>2. CASE StartWork(k)
  <2>1. /\ queued' = [queued EXCEPT ![k] = FALSE] /\ awaited' = awaited
        /\ work' = [work EXCEPT ![k].pc = "msleep"]
    BY <1>2 DEF StartWork
  <2>2. work'[k].pc = "msleep" /\ \A q \in Keys \ {k} : work'[q] = work[q]
    BY <1>1, <2>1 DEF WorkItems
  <2> QED
    BY <1>1, <2>1, <2>2 DEF PressInv, PressNotForgotten
<1>3. CASE SampleKey(k)
  <2>1. \A q \in Keys \ {k} : work'[q] = work[q]
    BY <1>1, <1>3 DEF SampleKey
  <2>2. queued' = queued /\ awaited' \subseteq awaited
    BY <1>3 DEF SampleKey
  <2>3. level[k] = 0 => k \notin awaited' \/ work' = work
    BY <1>3 DEF SampleKey
  <2> QED
    BY <1>1, <2>1, <2>2, <2>3 DEF PressInv, PressNotForgotten
<1>4. CASE LoadCount(k) \/ StoreCount(k) \/ StoreKey(k) \/ StoreNul(k)
  <2>1. work[k].pc \in {"load", "store"} /\ UNCHANGED <<queued, awaited>>
    BY <1>4 DEF LoadCount, StoreCount, StoreKey, StoreNul, KeyTypeOK
  <2>2. \A q \in Keys \ {k} : work'[q] = work[q]
    BY <1>1, <1>4 DEF LoadCount, StoreCount, StoreKey, StoreNul, Finish
  <2> QED
    BY <1>1, <2>1, <2>2 DEF PressInv, PressNotForgotten
<1> QED
  BY <1>2, <1>3, <1>4 DEF WorkStep

\* Nothing else touches the pending bits or the pins.
LEMMA PressOther ==
  ASSUME PressInv,
         \/ rpikey_init \/ rpikey_exit \/ rpikey_exit_free_irqs
         \/ rpikey_open \/ rpikey_release
         \/ (\E n \in ReadSizes : rpikey_read(n)) \/ ReadLoop \/ PutUser \/ ClearCell
         \/ UNCHANGED vars
  PROVE  PressInv'
<1>1. UNCHANGED <<level, queued, work, awaited>>
  BY DEF rpikey_init, rpikey_exit, rpikey_exit_free_irqs, rpikey_open, rpikey_release,
         rpikey_read, ReadLoop, PutUser, ClearCell, readside, vars
<1>2. \/ stage' = stage /\ irqs' = irqs
      \/ stage = "new" /\ stage' = "in"
      \/ stage = "in" /\ stage' = "leaving" /\ irqs' = irqs
      \/ stage' = "out"
  BY DEF rpikey_init, rpikey_exit, rpikey_exit_free_irqs, rpikey_open, rpikey_release,
         rpikey_read, ReadLoop, PutUser, ClearCell, readside, vars
<1> QED
  BY <1>1, <1>2 DEF PressInv, PressNotForgotten

\* A key that has been pressed and is held will be sampled after the press, for
\* any keys: an item already pending covers the press, and one whose callback is
\* running is queued again.  (The bound keeps the callbacks inside my_buf: behind
\* it they would write over the other variables.)
THEOREM PressesNotForgotten ==
  ASSUME MaxPresses < BufferSize
  PROVE  Spec => []PressNotForgotten
<1>1. Init => PressInv
  BY DEF Init, PressInv, PressNotForgotten
<1>2. KeyInv /\ PressInv /\ [Next]_vars => PressInv'
  BY PressPins, PressWork, PressOther DEF KeyInv, Next
<1>3. KeyInv /\ [Next]_vars => KeyInv'
  BY KeyInvStep
<1>4. PressInv => PressNotForgotten
  BY DEF PressInv
<1> QED
  BY <1>1, <1>2, <1>3, <1>4, KeyInvInit, PTL DEF Spec
-----------------------------------------------------------------------------
(* Keys that are delivered                                                 *)

\* Keys are numbered in the order they are stored: a stored key is in one cell
\* at most; one that has been copied to the program is only in the cell that
\* rpikey_read is about to clear; and the key that the loop's condition loaded
\* has not been copied and is in no other cell than the one it came from.
CopyInv ==
  /\ stored \in Nat /\ my_buf \in [Cells -> Nat]
  /\ delivered \in [1..MaxPresses -> Nat]
  /\ \A i \in Cells : my_buf[i] <= stored
  /\ \A i, j \in Cells : my_buf[i] = my_buf[j] /\ my_buf[i] # NUL => i = j
  /\ reader.pc # "user" => opened
  /\ reader.pc = "put" => /\ reader.ch \in 1..stored /\ msg_ptr \in Cells
                          /\ \A i \in Cells : my_buf[i] = reader.ch => i = msg_ptr
                          /\ reader.ch \in 1..MaxPresses => delivered[reader.ch] = 0
  /\ reader.pc = "clear" => msg_ptr \in Cells
  /\ \A n \in 1..MaxPresses : delivered[n] > 0 =>
       /\ delivered[n] = 1 /\ n <= stored
       /\ \A i \in Cells : my_buf[i] = n => reader.pc = "clear" /\ i = msg_ptr

\* The type of the reader's record.
ReaderTyped ==
  reader \in [pc : {"user", "while", "put", "clear"}, size : Int,
              bytes_read : Int, ch : Nat]

\* No key has been stored at the start.
LEMMA CopyInit == Init => CopyInv /\ ReaderTyped
<1> SUFFICES ASSUME Init PROVE CopyInv /\ ReaderTyped
  OBVIOUS
<1> QED
  BY RpiKeyAssumption DEF Init, CopyInv, ReaderTyped, User, NUL, Cells

\* Steps that touch neither the cells nor the reader.
LEMMA CopyFrame ==
  ASSUME CopyInv, UNCHANGED <<my_buf, stored, delivered, reader>>,
         \/ UNCHANGED <<msg_ptr, opened>>
         \/ reader.pc = "user"
  PROVE  CopyInv'
  BY DEF CopyInv, Cells, NUL

\* A callback stores a key under a new number, or clears a cell, or leaves my_buf.
LEMMA CopyStore ==
  ASSUME CopyInv, NEW i \in Cells, NEW ch,
         \/ ch = stored + 1 /\ stored' = stored + 1
         \/ ch = NUL /\ stored' = stored,
         my_buf' = [my_buf EXCEPT ![i] = ch],
         UNCHANGED <<delivered, reader, msg_ptr, opened>>
  PROVE  CopyInv'
<1>1. /\ stored \in Nat /\ stored' \in Nat /\ stored <= stored' /\ ch \in Nat /\ ch <= stored'
      /\ ch # NUL => ch > stored
      /\ Cells' = Cells
  BY DEF CopyInv, NUL, Cells
<1>2. /\ my_buf' \in [Cells -> Nat] /\ my_buf'[i] = ch
      /\ \A j \in Cells \ {i} : my_buf'[j] = my_buf[j]
  BY <1>1 DEF CopyInv
<1>3. \A j \in Cells : my_buf[j] \in Nat /\ my_buf[j] <= stored
  BY DEF CopyInv
<1>4. \A j \in Cells : my_buf'[j] <= stored'
  BY <1>1, <1>2, <1>3
<1>5. \A j, l \in Cells : my_buf'[j] = my_buf'[l] /\ my_buf'[j] # NUL => j = l
  BY <1>1, <1>2, <1>3 DEF CopyInv
<1>6. ASSUME reader.pc = "put"
      PROVE  /\ reader.ch \in 1..stored'
             /\ \A j \in Cells : my_buf'[j] = reader.ch => j = msg_ptr
  <2>1. reader.ch \in 1..stored /\ \A j \in Cells : my_buf[j] = reader.ch => j = msg_ptr
    BY <1>6 DEF CopyInv
  <2> QED
    BY <1>1, <1>2, <2>1 DEF NUL
<1>7. ASSUME NEW n \in 1..MaxPresses, delivered[n] > 0
      PROVE  /\ delivered[n] = 1 /\ n <= stored'
             /\ \A j \in Cells : my_buf'[j] = n => reader.pc = "clear" /\ j = msg_ptr
  <2>1. /\ delivered[n] = 1 /\ n <= stored /\ n \in Nat /\ n # NUL
        /\ \A j \in Cells : my_buf[j] = n => reader.pc = "clear" /\ j = msg_ptr
    BY <1>7, RpiKeyAssumption DEF CopyInv, NUL
  <2> QED
    BY <1>1, <1>2, <2>1
<1> QED
  BY <1>1, <1>2, <1>4, <1>5, <1>6, <1>7 DEF CopyInv

\* A callback's stores, inside or behind the array, keep the numbering.
LEMMA CopyWork ==
  ASSUME CopyInv, NEW k \in Keys, WorkStep(k)
  PROVE  CopyInv'
<1>1. CASE StartWork(k) \/ SampleKey(k) \/ LoadCount(k) \/ StoreCount(k)
  BY <1>1, CopyFrame DEF StartWork, SampleKey, LoadCount, StoreCount, callbacks
<1>2. CASE StoreKey(k)
  <2>1. /\ PutCell(work[k].c, stored + 1) /\ stored' = stored + 1
        /\ UNCHANGED <<delivered, reader, msg_ptr, opened>>
    BY <1>2 DEF StoreKey, callbacks
  <2>2. CASE work[k].c \in Cells
    BY <2>1, <2>2, CopyStore DEF PutCell
  <2>3. CASE work[k].c \notin Cells
    <3>1. my_buf' = my_buf
      BY <2>1, <2>3 DEF PutCell
    <3> QED
      BY <2>1, <3>1, RpiKeyAssumption, SMTT(60) DEF CopyInv, Cells
  <2> QED
    BY <2>2, <2>3
<1>3. CASE StoreNul(k)
  <2>1. UNCHANGED <<delivered, reader, msg_ptr, opened, stored>>
    BY <1>3 DEF StoreNul, callbacks
  <2>2. ASSUME NEW i, PutCell(i, NUL) PROVE CopyInv'
    <3>1. CASE i \in Cells
      BY <2>1, <2>2, <3>1, CopyStore DEF PutCell
    <3>2. CASE i \notin Cells
      BY <2>1, <2>2, <3>2, CopyFrame DEF PutCell
    <3> QED
      BY <3>1, <3>2
  <2> QED
    BY <1>3, <2>2 DEF StoreNul
<1> QED
  BY <1>1, <1>2, <1>3 DEF WorkStep

\* The loop's condition loads a key that has not been copied: what has been
\* copied is in no cell by then.
LEMMA CopyLoad ==
  ASSUME CopyInv, ReaderTyped, ReadLoop
  PROVE  CopyInv' /\ ReaderTyped'
<1>1. /\ reader.pc = "while" /\ Cells' = Cells
      /\ UNCHANGED <<my_buf, stored, delivered, msg_ptr, opened>>
  BY DEF ReadLoop, readside, Cells
<1>2. CASE reader' = reader
  BY <1>1, <1>2, CopyFrame DEF ReaderTyped
<1>3. CASE reader' = User
  BY <1>1, <1>3 DEF User, NUL, CopyInv, ReaderTyped
<1>4. CASE /\ msg_ptr \in Cells /\ my_buf[msg_ptr] # NUL
           /\ reader' = [reader EXCEPT !.pc = "put", !.ch = my_buf[msg_ptr]]
  <2>1. my_buf[msg_ptr] \in Nat /\ my_buf[msg_ptr] \in 1..stored
    BY <1>4 DEF CopyInv, NUL
  <2>2. reader'.pc = "put" /\ reader'.ch = my_buf[msg_ptr] /\ ReaderTyped'
    BY <1>4, <2>1 DEF ReaderTyped
  <2>3. \A i \in Cells : my_buf[i] = my_buf[msg_ptr] => i = msg_ptr
    BY <1>4 DEF CopyInv
  <2>4. my_buf[msg_ptr] \in 1..MaxPresses => delivered[my_buf[msg_ptr]] = 0
    BY <1>1, <1>4 DEF CopyInv
  <2> QED
    BY <1>1, <1>4, <2>1, <2>2, <2>3, <2>4 DEF CopyInv
<1> QED
  BY <1>1, <1>2, <1>3, <1>4, RpiKeyAssumption DEF ReadLoop, ReaderTyped

\* put_user copies the key loaded before or the one that is there now; neither
\* has been copied before, and neither is in another cell.
LEMMA CopyPut ==
  ASSUME CopyInv, ReaderTyped, PutUser
  PROVE  CopyInv' /\ ReaderTyped'
<1>1. /\ reader.pc = "put" /\ Cells' = Cells /\ msg_ptr \in Cells
      /\ reader' = [reader EXCEPT !.pc = "clear", !.ch = NUL]
      /\ UNCHANGED <<my_buf, stored, msg_ptr, opened>>
  BY DEF PutUser, readside, Cells, CopyInv
<1>2. reader'.pc = "clear" /\ ReaderTyped'
  BY <1>1 DEF ReaderTyped, NUL
<1>3. PICK ch \in {reader.ch, my_buf[msg_ptr]} :
        delivered' = IF ch = NUL THEN delivered ELSE [delivered EXCEPT ![ch] = @ + 1]
  BY DEF PutUser
<1>4. \A n \in 1..MaxPresses : delivered[n] > 0 =>
        delivered[n] = 1 /\ n <= stored /\ \A i \in Cells : my_buf[i] # n
  BY <1>1 DEF CopyInv
<1>5. CASE delivered' = delivered
  BY <1>1, <1>2, <1>4, <1>5 DEF CopyInv
<1>6. CASE ch # NUL /\ ch \in 1..MaxPresses
  <2>1. ch <= stored /\ \A i \in Cells : my_buf[i] = ch => i = msg_ptr
    BY <1>1, <1>3, <1>6 DEF CopyInv
  <2>2. delivered[ch] = 0
    <3>1. CASE ch = reader.ch
      BY <1>1, <1>6, <3>1 DEF CopyInv
    <3>2. CASE ch = my_buf[msg_ptr]
      BY <1>1, <1>4, <1>6, <3>2 DEF CopyInv
    <3> QED
      BY <1>3, <3>1, <3>2
  <2>3. /\ delivered' \in [1..MaxPresses -> Nat] /\ delivered'[ch] = 1
        /\ \A n \in 1..MaxPresses : n # ch => delivered'[n] = delivered[n]
    BY <1>3, <1>6, <2>2 DEF CopyInv
  <2>4. \A n \in 1..MaxPresses : delivered'[n] > 0 =>
          /\ delivered'[n] = 1 /\ n <= stored
          /\ \A i \in Cells : my_buf[i] = n => i = msg_ptr
    BY <1>4, <2>1, <2>3
  <2> QED
    BY <1>1, <1>2, <2>3, <2>4 DEF CopyInv
<1>7. CASE ch # NUL /\ ch \notin 1..MaxPresses
  BY <1>3, <1>5, <1>7 DEF CopyInv
<1> QED
  BY <1>3, <1>5, <1>6, <1>7

\* The cell is cleared before the next key is loaded.
LEMMA CopyClear ==
  ASSUME CopyInv, ReaderTyped, ClearCell
  PROVE  CopyInv' /\ ReaderTyped'
<1>1. /\ reader.pc = "clear" /\ Cells' = Cells /\ msg_ptr \in Cells
      /\ my_buf' = [my_buf EXCEPT ![msg_ptr] = NUL]
      /\ reader' = [reader EXCEPT !.pc = "while", !.size = @ - 1, !.bytes_read = @ + 1]
      /\ UNCHANGED <<stored, delivered, opened>>
  BY DEF ClearCell, readside, Cells, CopyInv
<1>2. reader' = [pc |-> "while", size |-> reader.size - 1,
                 bytes_read |-> reader.bytes_read + 1, ch |-> reader.ch]
  BY <1>1 DEF ReaderTyped
<1>3. reader'.pc = "while" /\ ReaderTyped'
  BY <1>2 DEF ReaderTyped
<1>4. /\ my_buf' \in [Cells -> Nat] /\ my_buf'[msg_ptr] = NUL
      /\ \A i \in Cells \ {msg_ptr} : my_buf'[i] = my_buf[i]
  BY <1>1 DEF CopyInv, NUL
<1>5. \A i \in Cells : my_buf'[i] <= stored
  BY <1>4 DEF CopyInv, NUL
<1>6. \A i, j \in Cells : my_buf'[i] = my_buf'[j] /\ my_buf'[i] # NUL => i = j
  BY <1>4 DEF CopyInv
<1>7. ASSUME NEW n \in 1..MaxPresses, delivered[n] > 0
      PROVE  delivered[n] = 1 /\ n <= stored /\ \A i \in Cells : my_buf'[i] # n
  BY <1>1, <1>4, <1>7, RpiKeyAssumption DEF CopyInv, NUL
<1> QED
  BY <1>1, <1>3, <1>4, <1>5, <1>6, <1>7 DEF CopyInv

\* CopyInv is inductive.
LEMMA CopyStep == CopyInv /\ ReaderTyped /\ [Next]_vars => CopyInv' /\ ReaderTyped'
<1> SUFFICES ASSUME CopyInv, ReaderTyped, [Next]_vars PROVE CopyInv' /\ ReaderTyped'
  OBVIOUS
<1>1. CASE UNCHANGED vars
  BY <1>1, CopyFrame DEF vars, ReaderTyped
<1>2. CASE rpikey_init \/ rpikey_exit \/ rpikey_exit_free_irqs
  BY <1>2, CopyFrame DEF rpikey_init, rpikey_exit, rpikey_exit_free_irqs, ReaderTyped
<1>3. CASE rpikey_open \/ rpikey_release
  <2>1. /\ UNCHANGED <<my_buf, stored, delivered, reader>> /\ reader.pc = "user"
    BY <1>3 DEF rpikey_open, rpikey_release, readside, CopyInv
  <2> QED
    BY <2>1, CopyFrame DEF ReaderTyped
<1>4. ASSUME NEW k \in Keys, gpio_irq(k) \/ ReleaseKey(k)
      PROVE  CopyInv' /\ ReaderTyped'
  BY <1>4, CopyFrame DEF gpio_irq, ReleaseKey, ReaderTyped
<1>5. ASSUME NEW k \in Keys, WorkStep(k) PROVE CopyInv' /\ ReaderTyped'
  <2>1. reader' = reader
    BY <1>5 DEF WorkStep, StartWork, SampleKey, LoadCount, StoreCount, StoreKey,
                StoreNul, callbacks
  <2> QED
    BY <1>5, <2>1, CopyWork DEF ReaderTyped
<1>6. ASSUME NEW n \in ReadSizes, rpikey_read(n) PROVE CopyInv' /\ ReaderTyped'
  <2>1. /\ UNCHANGED <<my_buf, stored, delivered, opened>> /\ opened /\ reader.pc = "user"
        /\ reader' = [pc |-> "while", size |-> n, bytes_read |-> 0, ch |-> NUL]
    BY <1>6 DEF rpikey_read, readside, User
  <2>2. n \in Nat
    BY RpiKeyAssumption
  <2> QED
    BY <2>1, <2>2 DEF CopyInv, ReaderTyped, NUL, Cells
<1> QED
  BY <1>1, <1>2, <1>3, <1>4, <1>5, <1>6, CopyLoad, CopyPut, CopyClear DEF Next

\* For any keys, buffer size, read sizes and number of presses, a stored key
\* reaches the program at most once, although callbacks store into the very cells
\* that rpikey_read copies and clears, and put_user may load a cell again.
THEOREM KeysDeliveredOnce == Spec => []DeliveredOnce
<1>1. CopyInv => DeliveredOnce
  BY RpiKeyAssumption DEF CopyInv, DeliveredOnce
<1> QED
  BY <1>1, CopyInit, CopyStep, PTL DEF Spec

=============================================================================
