--------------------------- MODULE AesdCharProofs ---------------------------
(***************************************************************************)
(* Proofs about the aesdchar driver.  First its circular buffer, for every *)
(* number of slots and every set of entries: the window shape is           *)
(* inductive, the search finds the byte, and the buffer implements         *)
(* RecentWrites.  Then AesdChar, for every set of processes, files and     *)
(* requests.                                                               *)
(***************************************************************************)
EXTENDS AesdChar, ListLemmas

-----------------------------------------------------------------------------
(* The circular buffer                                                     *)

\* The inductive invariant of a buffer whose slots hold members of E.
BufferOf(E) ==
  buffer \in [entry : [Slots -> E], in_offs : Slots, out_offs : Slots, full : BOOLEAN]

BufferInv(E) == BufferOf(E) /\ WindowShape

-----------------------------------------------------------------------------

\* Modular index arithmetic as case distinction: one lap at most is taken off.
LEMMA ModWrap ==
  ASSUME NEW a \in 0..(2 * MaxWriteOps - 1)
  PROVE  a % MaxWriteOps = IF a < MaxWriteOps THEN a ELSE a - MaxWriteOps
  BY BufferAssumption

\* What Advance, the index increment of add_entry, returns.
LEMMA AdvanceValue ==
  ASSUME NEW i \in Slots
  PROVE  /\ Advance(i) = IF i = MaxWriteOps - 1 THEN 0 ELSE i + 1
         /\ Advance(i) \in Slots
  BY BufferAssumption, ModWrap DEF Advance, Slots

-----------------------------------------------------------------------------
(* The sums that the search and the byte counts are made of.               *)

\* s is the running sum that the loop behind SumUpTo(f, n) computes.
RunningSum(f, n, s) == s = [k \in 0..n |-> IF k = 0 THEN 0 ELSE s[k - 1] + f[k - 1]]

\* The loop has a result.
LEMMA RunningSumExists ==
  ASSUME NEW f, NEW n \in Nat
  PROVE  \E s : RunningSum(f, n, s)
<1> DEFINE S == {m \in Nat : \E s : RunningSum(f, m, s)}
<1>1. 0 \in S
  <2> DEFINE s == [k \in 0..0 |-> 0]
  <2>1. RunningSum(f, 0, s)
    BY DEF RunningSum
  <2> QED
    BY <2>1
<1>2. ASSUME NEW m \in Nat, m \in S PROVE m + 1 \in S
  <2>1. PICK s : RunningSum(f, m, s)
    BY <1>2
  <2> DEFINE t == [k \in 0..(m + 1) |-> IF k = m + 1 THEN s[m] + f[m] ELSE s[k]]
  <2>2. ASSUME NEW k \in 0..(m + 1)
        PROVE  t[k] = IF k = 0 THEN 0 ELSE t[k - 1] + f[k - 1]
    <3>1. CASE k = m + 1
      BY <3>1
    <3>2. CASE k # m + 1
      <4>1. k \in 0..m
        BY <3>2
      <4>2. s[k] = IF k = 0 THEN 0 ELSE s[k - 1] + f[k - 1]
        BY <2>1, <4>1 DEF RunningSum
      <4> QED
        BY <3>2, <4>1, <4>2
    <3> QED
      BY <3>1, <3>2
  <2>3. RunningSum(f, m + 1, t)
    BY <2>2 DEF RunningSum
  <2> HIDE DEF t
  <2> QED
    BY <2>3
<1> HIDE DEF S
<1>3. Nat \subseteq S
  BY <1>1, <1>2, SetInduction
<1> QED
  BY <1>3 DEF S

\* Two runs of the loop agree as far as both go.
LEMMA RunningSumsAgree ==
  ASSUME NEW f, NEW n \in Nat, NEW m \in Nat, NEW s, NEW t,
         RunningSum(f, n, s), RunningSum(f, m, t)
  PROVE  \A k \in Nat : k <= n /\ k <= m => s[k] = t[k]
<1> DEFINE S == {k \in Nat : k <= n /\ k <= m => s[k] = t[k]}
<1>1. 0 \in S
  BY DEF RunningSum
<1>2. ASSUME NEW k \in Nat, k \in S PROVE k + 1 \in S
  <2> SUFFICES ASSUME k + 1 <= n, k + 1 <= m PROVE s[k + 1] = t[k + 1]
    OBVIOUS
  <2>1. s[k] = t[k]
    BY <1>2
  <2>2. s[k + 1] = s[k] + f[k]
    BY DEF RunningSum
  <2>3. t[k + 1] = t[k] + f[k]
    BY DEF RunningSum
  <2> QED
    BY <2>1, <2>2, <2>3
<1> HIDE DEF S
<1>3. Nat \subseteq S
  BY <1>1, <1>2, SetInduction
<1> QED
  BY <1>3 DEF S

\* SumUpTo adds one element at a time.
LEMMA SumUpToStep ==
  ASSUME NEW f
  PROVE  /\ SumUpTo(f, 0) = 0
         /\ \A n \in Nat : SumUpTo(f, n + 1) = SumUpTo(f, n) + f[n]
<1>1. ASSUME NEW n \in Nat
      PROVE  \E s : RunningSum(f, n, s) /\ SumUpTo(f, n) = s[n]
  <2> DEFINE s == CHOOSE s : RunningSum(f, n, s)
  <2>1. RunningSum(f, n, s)
    BY RunningSumExists
  <2>2. SumUpTo(f, n) = s[n]
    BY DEF SumUpTo, RunningSum
  <2> HIDE DEF s
  <2> QED
    BY <2>1, <2>2
<1>2. SumUpTo(f, 0) = 0
  BY <1>1 DEF RunningSum
<1>3. ASSUME NEW n \in Nat PROVE SumUpTo(f, n + 1) = SumUpTo(f, n) + f[n]
  <2>1. PICK s : RunningSum(f, n, s) /\ SumUpTo(f, n) = s[n]
    BY <1>1
  <2>2. PICK t : RunningSum(f, n + 1, t) /\ SumUpTo(f, n + 1) = t[n + 1]
    BY <1>1
  <2>3. s[n] = t[n]
    BY <2>1, <2>2, RunningSumsAgree
  <2>4. t[n + 1] = t[n] + f[n]
    BY <2>2 DEF RunningSum
  <2> QED
    BY <2>1, <2>2, <2>3, <2>4
<1> QED
  BY <1>2, <1>3

\* A sum of naturals is a natural.
LEMMA SumUpToNat ==
  ASSUME NEW f, NEW N \in Nat, \A i \in 0..(N - 1) : f[i] \in Nat
  PROVE  \A n \in 0..N : SumUpTo(f, n) \in Nat
<1> DEFINE S == {n \in Nat : n <= N => SumUpTo(f, n) \in Nat}
<1>1. 0 \in S
  BY SumUpToStep
<1>2. ASSUME NEW n \in Nat, n \in S PROVE n + 1 \in S
  <2> SUFFICES ASSUME n + 1 <= N PROVE SumUpTo(f, n + 1) \in Nat
    OBVIOUS
  <2>1. SumUpTo(f, n) \in Nat /\ f[n] \in Nat
    BY <1>2
  <2>2. SumUpTo(f, n + 1) = SumUpTo(f, n) + f[n]
    BY SumUpToStep
  <2> QED
    BY <2>1, <2>2
<1> HIDE DEF S
<1>3. Nat \subseteq S
  BY <1>1, <1>2, SetInduction
<1> QED
  BY <1>3 DEF S

\* A sum of zeros is zero.
LEMMA SumUpToZero ==
  ASSUME NEW N \in Nat, NEW f, \A i \in 0..(N - 1) : f[i] = 0
  PROVE  SumUpTo(f, N) = 0
<1> DEFINE S == {n \in Nat : n <= N => SumUpTo(f, n) = 0}
<1>1. 0 \in S
  BY SumUpToStep
<1>2. ASSUME NEW n \in Nat, n \in S PROVE n + 1 \in S
  <2> SUFFICES ASSUME n + 1 <= N PROVE SumUpTo(f, n + 1) = 0
    OBVIOUS
  <2>1. SumUpTo(f, n) = 0 /\ f[n] = 0
    BY <1>2
  <2>2. SumUpTo(f, n + 1) = SumUpTo(f, n) + f[n]
    BY SumUpToStep
  <2> QED
    BY <2>1, <2>2
<1> HIDE DEF S
<1>3. Nat \subseteq S
  BY <1>1, <1>2, SetInduction
<1> QED
  BY <1>3 DEF S

\* Replacing one element changes the sums that reach it by the difference.
LEMMA SumUpToUpdate ==
  ASSUME NEW N \in Nat, NEW f \in [0..(N - 1) -> Nat], NEW g \in [0..(N - 1) -> Nat],
         NEW i \in 0..(N - 1), \A j \in 0..(N - 1) : j # i => g[j] = f[j]
  PROVE  \A n \in 0..N :
           SumUpTo(g, n) = IF i < n THEN SumUpTo(f, n) - f[i] + g[i] ELSE SumUpTo(f, n)
<1> DEFINE P(n) == SumUpTo(g, n) = IF i < n THEN SumUpTo(f, n) - f[i] + g[i] ELSE SumUpTo(f, n)
           S == {n \in Nat : n <= N => P(n)}
<1>1. 0 \in S
  BY SumUpToStep
<1>2. ASSUME NEW n \in Nat, n \in S PROVE n + 1 \in S
  <2> SUFFICES ASSUME n + 1 <= N PROVE P(n + 1)
    OBVIOUS
  <2>1. P(n)
    BY <1>2
  <2>2. /\ SumUpTo(f, n + 1) = SumUpTo(f, n) + f[n]
        /\ SumUpTo(g, n + 1) = SumUpTo(g, n) + g[n]
    BY SumUpToStep
  <2>3. SumUpTo(f, n) \in Nat /\ SumUpTo(g, n) \in Nat
    <3>1. \A j \in 0..(N - 1) : f[j] \in Nat /\ g[j] \in Nat
      OBVIOUS
    <3>2. \A m \in 0..N : SumUpTo(f, m) \in Nat
      BY <3>1, SumUpToNat
    <3>3. \A m \in 0..N : SumUpTo(g, m) \in Nat
      BY <3>1, SumUpToNat
    <3> QED
      BY <3>2, <3>3
  <2>4. n \in 0..(N - 1) /\ f[n] \in Nat /\ g[n] \in Nat /\ f[i] \in Nat /\ g[i] \in Nat
    OBVIOUS
  <2>5. CASE n = i
    BY <2>1, <2>2, <2>3, <2>4, <2>5
  <2>6. CASE n # i
    BY <2>1, <2>2, <2>3, <2>4, <2>6
  <2> QED
    BY <2>5, <2>6
<1> HIDE DEF S
<1>3. Nat \subseteq S
  BY <1>1, <1>2, SetInduction
<1> QED
  BY <1>3 DEF S

\* Zeros at the end add nothing.
LEMMA SumUpToFlat ==
  ASSUME NEW f, NEW N \in Nat, NEW n \in 0..N, \A i \in 0..(N - 1) : f[i] \in Nat,
         \A i \in n..(N - 1) : f[i] = 0
  PROVE  SumUpTo(f, N) = SumUpTo(f, n)
<1> DEFINE S == {d \in Nat : n + d <= N => SumUpTo(f, n + d) = SumUpTo(f, n)}
<1>1. 0 \in S
  OBVIOUS
<1>2. ASSUME NEW d \in Nat, d \in S PROVE d + 1 \in S
  <2> SUFFICES ASSUME n + (d + 1) <= N PROVE SumUpTo(f, n + (d + 1)) = SumUpTo(f, n)
    OBVIOUS
  <2>1. n + (d + 1) = (n + d) + 1 /\ n + d \in Nat /\ n + d \in n..(N - 1) /\ n + d <= N
    OBVIOUS
  <2>2. SumUpTo(f, (n + d) + 1) = SumUpTo(f, n + d) + f[n + d]
    BY <2>1, SumUpToStep
  <2>3. SumUpTo(f, n + d) = SumUpTo(f, n) /\ f[n + d] = 0
    BY <1>2, <2>1
  <2>4. SumUpTo(f, n) \in Nat
    BY SumUpToNat
  <2> QED
    BY <2>1, <2>2, <2>3, <2>4
<1> HIDE DEF S
<1>3. N - n \in S
  BY <1>1, <1>2, SetInduction
<1> QED
  BY <1>3 DEF S

\* More terms never make the sum smaller.
LEMMA SumUpToGrows ==
  ASSUME NEW f, NEW N \in Nat, NEW n \in 0..N, \A i \in 0..(N - 1) : f[i] \in Nat
  PROVE  SumUpTo(f, n) <= SumUpTo(f, N)
<1>0. \A m \in 0..N : SumUpTo(f, m) \in Nat
  BY SumUpToNat
<1> DEFINE S == {d \in Nat : n + d <= N => SumUpTo(f, n) <= SumUpTo(f, n + d)}
<1>1. 0 \in S
  BY <1>0
<1>2. ASSUME NEW d \in Nat, d \in S PROVE d + 1 \in S
  <2> SUFFICES ASSUME n + (d + 1) <= N PROVE SumUpTo(f, n) <= SumUpTo(f, n + (d + 1))
    OBVIOUS
  <2>1. n + (d + 1) = (n + d) + 1 /\ n + d \in Nat /\ n + d \in 0..(N - 1) /\ n + d <= N
    OBVIOUS
  <2>2. SumUpTo(f, (n + d) + 1) = SumUpTo(f, n + d) + f[n + d]
    BY <2>1, SumUpToStep
  <2>3. SumUpTo(f, n) <= SumUpTo(f, n + d) /\ f[n + d] \in Nat
    BY <1>2, <2>1
  <2>4. SumUpTo(f, n) \in Nat /\ SumUpTo(f, n + d) \in Nat
    BY <1>0, <2>1
  <2> QED
    BY <2>1, <2>2, <2>3, <2>4
<1> HIDE DEF S
<1>3. N - n \in S
  BY <1>1, <1>2, SetInduction
<1> QED
  BY <1>3 DEF S

\* n values of at most m sum up to at most n times m.
LEMMA SumUpToBounded ==
  ASSUME NEW f, NEW N \in Nat, NEW m \in Nat, \A i \in 0..(N - 1) : f[i] \in Nat /\ f[i] <= m
  PROVE  SumUpTo(f, N) <= N * m
<1>0. \A n \in 0..N : SumUpTo(f, n) \in Nat
  BY SumUpToNat
<1> DEFINE S == {n \in Nat : n <= N => SumUpTo(f, n) <= n * m}
<1>1. 0 \in S
  BY SumUpToStep
<1>2. ASSUME NEW n \in Nat, n \in S PROVE n + 1 \in S
  <2> SUFFICES ASSUME n + 1 <= N PROVE SumUpTo(f, n + 1) <= (n + 1) * m
    OBVIOUS
  <2>1. SumUpTo(f, n + 1) = SumUpTo(f, n) + f[n]
    BY SumUpToStep
  <2>2. f[n] \in Nat /\ f[n] <= m /\ SumUpTo(f, n) \in Nat /\ SumUpTo(f, n) <= n * m
    BY <1>0, <1>2
  <2>3. (n + 1) * m = n * m + m /\ n * m \in Nat
    OBVIOUS
  <2> QED
    BY <2>1, <2>2, <2>3
<1> HIDE DEF S
<1>3. Nat \subseteq S
  BY <1>1, <1>2, SetInduction
<1> QED
  BY <1>3 DEF S

\* The sum around the array does not depend on where it starts.
LEMMA SumUpToRotated ==
  ASSUME NEW N \in Nat, NEW f, NEW g, NEW o \in 0..(N - 1),
         \A i \in 0..(N - 1) : f[i] \in Nat,
         \A j \in 0..(N - 1) : g[j] = IF o + j < N THEN f[o + j] ELSE f[o + j - N]
  PROVE  SumUpTo(g, N) = SumUpTo(f, N)
<1> DEFINE F(n) == SumUpTo(f, n)
           V(k) == IF k <= N - o THEN F(o + k) - F(o) ELSE F(N) - F(o) + F(k - (N - o))
           S == {k \in Nat : k <= N => SumUpTo(g, k) = V(k)}
<1>1. \A n \in 0..N : F(n) \in Nat
  BY SumUpToNat
<1>2. F(0) = 0 /\ \A n \in Nat : F(n + 1) = F(n) + f[n]
  BY SumUpToStep
<1> HIDE DEF F
<1>3. 0 \in S
  <2>1. V(0) = 0
    BY <1>1
  <2> QED
    BY <2>1, SumUpToStep
<1>4. ASSUME NEW k \in Nat, k \in S PROVE k + 1 \in S
  <2> SUFFICES ASSUME k + 1 <= N PROVE SumUpTo(g, k + 1) = V(k + 1)
    OBVIOUS
  <2>1. SumUpTo(g, k + 1) = V(k) + g[k]
    BY <1>4, SumUpToStep
  <2>2. CASE o + k < N
    <3>1. g[k] = f[o + k] /\ f[o + k] \in Nat
      BY <2>2
    <3>2. F((o + k) + 1) = F(o + k) + f[o + k] /\ o + (k + 1) = (o + k) + 1
      BY <1>2
    <3>3. F(o) \in Nat /\ F(o + k) \in Nat
      BY <1>1, <2>2
    <3>4. V(k) = F(o + k) - F(o) /\ V(k + 1) = F(o + (k + 1)) - F(o)
      BY <2>2
    <3> HIDE DEF V
    <3> QED
      BY <2>1, <3>1, <3>2, <3>3, <3>4
  <2>3. CASE o + k >= N
    <3> DEFINE m == k - (N - o)
    <3>1. m \in 0..(N - 1) /\ m \in Nat /\ o + k - N = m /\ (k + 1) - (N - o) = m + 1
      BY <2>3
    <3>2. g[k] = f[m] /\ f[m] \in Nat
      BY <2>3, <3>1
    <3>3. F(o) \in Nat /\ F(N) \in Nat /\ F(m) \in Nat /\ F(m + 1) = F(m) + f[m]
      BY <1>1, <1>2, <3>1
    <3>4. V(k + 1) = F(N) - F(o) + F(m + 1)
      BY <2>3, <3>1
    <3>5. V(k) = F(N) - F(o) + F(m)
      <4>1. CASE k = N - o
        <5>1. m = 0 /\ o + k = N
          BY <4>1
        <5> QED
          BY <1>2, <3>3, <4>1, <5>1
      <4>2. CASE k # N - o
        BY <2>3, <4>2
      <4> QED
        BY <4>1, <4>2
    <3> HIDE DEF V, m
    <3> QED
      BY <2>1, <3>2, <3>3, <3>4, <3>5
  <2> QED
    BY <2>2, <2>3
<1> HIDE DEF S
<1>5. N \in S
  BY <1>3, <1>4, SetInduction
<1>6. V(N) = F(N)
  <2>1. CASE o = 0
    BY <1>1, <1>2, <2>1
  <2>2. CASE o # 0
    <3>1. N - (N - o) = o /\ ~(N <= N - o)
      BY <2>2
    <3> QED
      BY <1>1, <3>1
  <2> QED
    BY <2>1, <2>2
<1> HIDE DEF V
<1> QED
  BY <1>5, <1>6 DEF S, F

-----------------------------------------------------------------------------

\* aesd_circular_buffer_init, and a zeroed device, establish the invariant.
LEMMA EmptyBufferInv ==
  ASSUME NEW E, NoEntry \in E
  PROVE  /\ buffer = EmptyBuffer => BufferInv(E)
         /\ buffer' = EmptyBuffer => BufferInv(E)'
<1>1. 0 \in Slots
  BY BufferAssumption DEF Slots
<1>2. buffer = EmptyBuffer => BufferInv(E)
  BY <1>1 DEF EmptyBuffer, BufferInv, BufferOf, WindowShape, Slots
<1>3. buffer' = EmptyBuffer => BufferInv(E)'
  BY <1>1 DEF EmptyBuffer, BufferInv, BufferOf, WindowShape, Slots
<1> QED
  BY <1>2, <1>3

\* An empty buffer holds no bytes.
LEMMA EmptyBufferBytes ==
  /\ buffer = EmptyBuffer => TotalBytesWritten = 0
  /\ buffer' = EmptyBuffer => TotalBytesWritten' = 0
<1> DEFINE f == [i \in Slots |-> EmptyBuffer.entry[i].size]
<1>1. \A i \in 0..(MaxWriteOps - 1) : f[i] = 0
  BY BufferAssumption DEF EmptyBuffer, Slots
<1>2. MaxWriteOps \in Nat
  BY BufferAssumption
<1>3. SumUpTo(f, MaxWriteOps) = 0
  <2> HIDE DEF f
  <2> QED
    BY <1>1, <1>2, SumUpToZero
<1> QED
  BY <1>3 DEF TotalBytesWritten

\* add_entry keeps the invariant, whatever entry it is given.
LEMMA AddEntryInv ==
  ASSUME NEW E, BufferInv(E), NEW e \in E, aesd_circular_buffer_add_entry(e)
  PROVE  BufferInv(E)'
<1> DEFINE in == Advance(buffer.in_offs)
           out == IF buffer.full THEN Advance(buffer.out_offs) ELSE buffer.out_offs
<1>1. /\ buffer' = [entry    |-> [buffer.entry EXCEPT ![buffer.in_offs] = e],
                    in_offs  |-> in, out_offs |-> out, full |-> in = out]
      /\ buffer.in_offs \in Slots /\ buffer.out_offs \in Slots
      /\ buffer.entry \in [Slots -> E]
  BY DEF aesd_circular_buffer_add_entry, BufferInv, BufferOf
<1>2. in \in Slots /\ out \in Slots
  BY <1>1, AdvanceValue
<1>3. BufferOf(E)'
  BY <1>1, <1>2 DEF BufferOf
<1>4. buffer'.full => buffer'.in_offs = buffer'.out_offs
  BY <1>1
<1>5. ASSUME ~buffer'.full
      PROVE  /\ buffer'.out_offs = 0
             /\ \A i \in buffer'.in_offs..(MaxWriteOps - 1) : buffer'.entry[i] = NoEntry
  <2>1. ~buffer.full
    BY <1>1, <1>5 DEF BufferInv, WindowShape
  <2>2. in # 0
    BY <1>1, <1>5, <2>1 DEF BufferInv, WindowShape
  <2>3. in = buffer.in_offs + 1
    BY <1>1, <2>2, AdvanceValue
  <2> QED
    BY <1>1, <2>1, <2>3, BufferAssumption DEF BufferInv, WindowShape, Slots
<1> QED
  BY <1>3, <1>4, <1>5 DEF BufferInv, WindowShape

(***************************************************************************)
(* The indices stay in the array, and the buffer keeps the window shape,   *)
(* under every sequence of aesd_circular_buffer_init and add_entry calls.  *)
(***************************************************************************)
THEOREM BufferInvariance == BufferSpec => [](BufferTypeOK /\ WindowShape)
<1> DEFINE E == Entries \cup {NoEntry}
<1>1. BufferInv(E) <=> BufferTypeOK /\ WindowShape
  BY DEF BufferInv, BufferOf, BufferTypeOK
<1>2. BufferInit => BufferInv(E)
  BY EmptyBufferInv DEF BufferInit
<1>3. BufferInv(E) /\ [BufferNext]_buffer => BufferInv(E)'
  <2> SUFFICES ASSUME BufferInv(E), [BufferNext]_buffer PROVE BufferInv(E)'
    OBVIOUS
  <2>1. CASE aesd_circular_buffer_init
    BY <2>1, EmptyBufferInv DEF aesd_circular_buffer_init
  <2>2. ASSUME NEW e \in Entries, aesd_circular_buffer_add_entry(e) PROVE BufferInv(E)'
    BY <2>2, AddEntryInv
  <2>3. CASE UNCHANGED buffer
    BY <2>3 DEF BufferInv, BufferOf, WindowShape
  <2> QED
    BY <2>1, <2>2, <2>3 DEF BufferNext
<1> QED
  BY <1>1, <1>2, <1>3, PTL DEF BufferSpec

-----------------------------------------------------------------------------
(* The search                                                              *)

\* The slots the loop visits are slots of the array.
LEMMA SearchSlotInArray ==
  ASSUME NEW E, BufferInv(E), NEW k \in Nat
  PROVE  SearchSlot(k) \in Slots
  BY BufferAssumption DEF SearchSlot, Slots, BufferInv, BufferOf

(***************************************************************************)
(* What find_entry_offset_for_fpos returns, if it finds the position, lies *)
(* inside an entry: in a slot of the array, at an offset below its size.   *)
(***************************************************************************)
LEMMA FoundInsideEntry ==
  ASSUME NEW E, BufferInv(E), \A e \in E : e.size \in Nat,
         NEW char_offset \in Nat, NEW at, at = find_entry_offset_for_fpos(char_offset),
         at # NotFound
  PROVE  /\ at \in [slot : Slots, offset : Nat]
         /\ at.offset < buffer.entry[at.slot].size
<1> DEFINE hits == {k \in SearchSteps : HitAt(char_offset, k)}
<1>1. PICK k \in hits :
        at = [slot |-> SearchSlot(k), offset |-> char_offset - BytesSearched(k)]
  BY DEF find_entry_offset_for_fpos
<1>2. k \in SearchSteps /\ k \in Nat /\ HitAt(char_offset, k)
  BY <1>1, BufferAssumption DEF SearchSteps
<1> HIDE DEF hits
<1> DEFINE f == [j \in SearchSteps |-> buffer.entry[SearchSlot(j)].size]
<1>3. \A j \in SearchSteps : f[j] = buffer.entry[SearchSlot(j)].size /\ f[j] \in Nat
  <2>1. ASSUME NEW j \in SearchSteps PROVE buffer.entry[SearchSlot(j)] \in E
    <3>1. SearchSlot(j) \in Slots
      BY SearchSlotInArray, BufferAssumption DEF SearchSteps
    <3> QED
      BY <3>1 DEF BufferInv, BufferOf
  <2> QED
    BY <2>1
<1>4. \A n \in Nat : BytesSearched(n) = SumUpTo(f, n)
  BY DEF BytesSearched
<1> HIDE DEF f
<1>5. BytesSearched(k + 1) = BytesSearched(k) + f[k]
  BY <1>2, <1>4, SumUpToStep
<1>6. BytesSearched(k) \in Nat
  <2> DEFINE N == 2 * MaxWriteOps
  <2>1. N \in Nat /\ SearchSteps = 0..(N - 1)
    BY BufferAssumption DEF SearchSteps
  <2>2. \A n \in 0..N : SumUpTo(f, n) \in Nat
    <3> HIDE DEF N
    <3> QED
      BY <1>3, <2>1, SumUpToNat
  <2> QED
    BY <1>2, <1>4, <2>1, <2>2
<1>7. BytesSearched(k) <= char_offset
  <2>1. CASE k = 0
    BY <2>1, <1>4, SumUpToStep
  <2>2. CASE k # 0
    <3>1. k - 1 \in 0..(k - 1) /\ (k - 1) + 1 = k
      BY <1>2, <2>2
    <3>2. ~(char_offset < BytesSearched((k - 1) + 1))
      BY <1>2, <3>1 DEF HitAt
    <3> QED
      BY <1>6, <3>1, <3>2
  <2> QED
    BY <2>1, <2>2
<1>8. char_offset < BytesSearched(k + 1)
  BY <1>2 DEF HitAt
<1>9. SearchSlot(k) \in Slots /\ f[k] = buffer.entry[SearchSlot(k)].size /\ f[k] \in Nat
  BY <1>2, <1>3, SearchSlotInArray
<1> QED
  BY <1>1, <1>5, <1>6, <1>7, <1>8, <1>9

-----------------------------------------------------------------------------
(* Refinement of RecentWrites                                              *)

\* The length and the elements of the abstract log.
LogFacts(E) ==
  /\ BufferLog \in Seq(E)
  /\ Len(BufferLog) = EntryCount
  /\ EntryCount \in 0..MaxWriteOps
  /\ EntryCount = MaxWriteOps <=> buffer.full
  /\ \A k \in 1..EntryCount :
       BufferLog[k] = buffer.entry[(buffer.out_offs + (k - 1)) % MaxWriteOps]

\* The log has them in every state the invariant describes.
LEMMA LogElements ==
  ASSUME NEW E, BufferInv(E)
  PROVE  LogFacts(E)
<1>1. EntryCount \in 0..MaxWriteOps /\ (EntryCount = MaxWriteOps <=> buffer.full)
  BY BufferAssumption DEF BufferInv, BufferOf, EntryCount, Slots
<1>2. ASSUME NEW k \in 1..EntryCount
      PROVE  buffer.entry[(buffer.out_offs + (k - 1)) % MaxWriteOps] \in E
  <2>1. buffer.out_offs \in Slots /\ buffer.entry \in [Slots -> E]
    BY DEF BufferInv, BufferOf
  <2>2. (buffer.out_offs + (k - 1)) % MaxWriteOps \in Slots
    <3>1. buffer.out_offs + (k - 1) \in 0..(2 * MaxWriteOps - 1)
      BY <1>1, <2>1, BufferAssumption DEF Slots
    <3> QED
      BY <3>1, ModWrap, BufferAssumption DEF Slots
  <2> QED
    BY <2>1, <2>2
<1> QED
  BY <1>1, <1>2 DEF BufferLog, LogFacts

\* The same of the state after a step.
LEMMA LogElementsNext == (\A E : BufferInv(E) => LogFacts(E))'
<1>1. \A E : BufferInv(E) => LogFacts(E)
  BY LogElements
<1> QED
  BY <1>1, PTL

\* Until it is full, adding an entry appends it to the log.
LEMMA AddToFreeSlot ==
  ASSUME NEW E, BufferInv(E), ~buffer.full, NEW e \in E, aesd_circular_buffer_add_entry(e)
  PROVE  BufferLog' = Append(BufferLog, e)
<1>1. /\ buffer.in_offs \in Slots
      /\ buffer.out_offs = 0 /\ LogFacts(E)
      /\ buffer.entry \in [Slots -> E]
  BY LogElements DEF BufferInv, BufferOf, WindowShape
<1>2. /\ buffer'.entry = [buffer.entry EXCEPT ![buffer.in_offs] = e]
      /\ buffer'.out_offs = 0
      /\ buffer'.in_offs = IF buffer.in_offs = MaxWriteOps - 1 THEN 0 ELSE buffer.in_offs + 1
      /\ buffer'.full = (buffer.in_offs = MaxWriteOps - 1)
  BY <1>1, AdvanceValue, BufferAssumption DEF aesd_circular_buffer_add_entry, Slots
<1>3. EntryCount = buffer.in_offs /\ EntryCount' = buffer.in_offs + 1
  <2>1. EntryCount = buffer.in_offs
    BY DEF EntryCount
  <2>2. CASE buffer.in_offs = MaxWriteOps - 1
    <3>1. buffer'.full
      BY <1>2, <2>2
    <3> QED
      BY <2>1, <2>2, <3>1, BufferAssumption DEF EntryCount
  <2>3. CASE buffer.in_offs # MaxWriteOps - 1
    BY <1>1, <1>2, <2>1, <2>3, BufferAssumption DEF EntryCount, Slots
  <2> QED
    BY <2>1, <2>2, <2>3
<1>4. BufferInv(E)'
  BY AddEntryInv
<1>5. LogFacts(E)'
  BY <1>4, LogElementsNext
<1>6. ASSUME NEW k \in 1..(buffer.in_offs + 1)
      PROVE  BufferLog'[k] = Append(BufferLog, e)[k]
  <2>1. (0 + (k - 1)) % MaxWriteOps = k - 1
    <3>1. 0 + (k - 1) \in 0..(2 * MaxWriteOps - 1) /\ 0 + (k - 1) < MaxWriteOps
      BY <1>1, BufferAssumption DEF Slots
    <3> QED
      BY <3>1, ModWrap
  <2>2. BufferLog'[k] = buffer'.entry[k - 1]
    BY <1>1, <1>2, <1>3, <1>5, <2>1 DEF LogFacts
  <2>3. CASE k = buffer.in_offs + 1
    <3>1. Append(BufferLog, e)[k] = e
      BY <1>1, <1>3, <2>3 DEF LogFacts
    <3>2. k - 1 = buffer.in_offs
      BY <1>1, <2>3 DEF Slots
    <3> QED
      BY <1>1, <1>2, <2>2, <3>1, <3>2
  <2>4. CASE k # buffer.in_offs + 1
    <3>1. k \in 1..EntryCount /\ k - 1 # buffer.in_offs /\ k - 1 \in Slots
      BY <1>1, <1>3, <2>4, BufferAssumption DEF Slots
    <3>2. BufferLog[k] = buffer.entry[k - 1]
      BY <1>1, <2>1, <3>1 DEF LogFacts
    <3> QED
      BY <1>1, <1>2, <1>3, <2>2, <3>1, <3>2 DEF LogFacts
  <2> QED
    BY <2>3, <2>4
<1>7. Append(BufferLog, e) \in Seq(E)
      /\ Len(Append(BufferLog, e)) = buffer.in_offs + 1
  BY <1>1, <1>3 DEF LogFacts, Slots
<1>8. BufferLog' \in Seq(E) /\ Len(BufferLog') = buffer.in_offs + 1
  BY <1>3, <1>5 DEF LogFacts
<1> QED
  BY <1>6, <1>7, <1>8, SeqEqual

\* Once it is full, adding an entry drops the oldest one and appends the new one.
LEMMA AddOverOldest ==
  ASSUME NEW E, BufferInv(E), buffer.full, NEW e \in E, aesd_circular_buffer_add_entry(e)
  PROVE  BufferLog' = Append(Tail(BufferLog), e)
<1> DEFINE o == buffer.out_offs
           N == MaxWriteOps
<1>1. /\ o \in Slots /\ buffer.in_offs = o
      /\ buffer.entry \in [Slots -> E]
  BY DEF BufferInv, BufferOf, WindowShape
<1>2. /\ buffer'.entry = [buffer.entry EXCEPT ![o] = e]
      /\ buffer'.out_offs = IF o = N - 1 THEN 0 ELSE o + 1
      /\ buffer'.full
  BY <1>1, AdvanceValue DEF aesd_circular_buffer_add_entry
<1>3. EntryCount = N /\ EntryCount' = N /\ N \in Nat /\ N > 0
  BY <1>2, BufferAssumption DEF EntryCount
<1>4. BufferInv(E)'
  BY AddEntryInv
<1>5. LogFacts(E)'
  BY <1>4, LogElementsNext
<1>6. /\ BufferLog \in Seq(E) /\ Len(BufferLog) = N
      /\ \A k \in 1..N : BufferLog[k] = buffer.entry[(o + (k - 1)) % N]
  BY <1>3, LogElements DEF LogFacts
<1>7. /\ Tail(BufferLog) \in Seq(E) /\ Len(Tail(BufferLog)) = N - 1
      /\ \A k \in 1..(N - 1) : Tail(BufferLog)[k] = BufferLog[k + 1]
  BY <1>3, <1>6
<1>8. ASSUME NEW k \in 1..N
      PROVE  BufferLog'[k] = Append(Tail(BufferLog), e)[k]
  <2> DEFINE j == IF o + k < N THEN o + k ELSE o + k - N
  <2>1. (buffer'.out_offs + (k - 1)) % N = j
    <3> DEFINE a == buffer'.out_offs + (k - 1)
    <3>1. a \in 0..(2 * N - 1)
      BY <1>1, <1>2, <1>3 DEF Slots
    <3>2. a % N = IF a < N THEN a ELSE a - N
      <4> HIDE DEF a
      <4> QED
        BY <3>1, ModWrap
    <3>3. (IF a < N THEN a ELSE a - N) = j
      BY <1>1, <1>2, <1>3 DEF Slots
    <3> QED
      BY <3>2, <3>3
  <2>2. CASE k = N
    <3>1. BufferLog'[k] = buffer'.entry[o]
      BY <1>1, <1>3, <1>5, <2>1, <2>2 DEF Slots, LogFacts
    <3> QED
      BY <1>1, <1>2, <1>3, <1>7, <2>2, <3>1
  <2>3. CASE k # N
    <3>1. (o + ((k + 1) - 1)) % N = j
      <4> DEFINE a == o + k
      <4>1. a \in 0..(2 * N - 1) /\ o + ((k + 1) - 1) = a
        BY <1>1, <1>3 DEF Slots
      <4>2. a % N = j
        <5>1. a % N = IF a < N THEN a ELSE a - N
          <6> HIDE DEF a
          <6> QED
            BY <4>1, ModWrap
        <5>2. (IF a < N THEN a ELSE a - N) = j
          BY <1>1, <1>3 DEF Slots
        <5> HIDE DEF a, j
        <5> QED
          BY <5>1, <5>2
      <4> HIDE DEF a, j
      <4> QED
        BY <4>1, <4>2, Zenon
    <3>2. j \in Slots /\ j # o
      BY <1>1, <1>3, <2>3 DEF Slots
    <3>3. BufferLog'[k] = buffer'.entry[j] /\ BufferLog[k + 1] = buffer.entry[j]
      BY <1>3, <1>5, <1>6, <2>1, <2>3, <3>1 DEF LogFacts
    <3> QED
      BY <1>1, <1>2, <1>3, <1>7, <2>3, <3>2, <3>3
  <2> QED
    BY <2>2, <2>3
<1>9. Append(Tail(BufferLog), e) \in Seq(E)
      /\ Len(Append(Tail(BufferLog), e)) = N
  BY <1>3, <1>7
<1> QED
  BY <1>3, <1>5, <1>8, <1>9, SeqEqual DEF LogFacts

(***************************************************************************)
(* The circular buffer remembers exactly the MaxWriteOps most recent       *)
(* entries in the order they were added: BufferSpec implements the         *)
(* specification RecentWrites under the mapping BufferLog.                 *)
(***************************************************************************)
THEOREM BufferRefinesRecentWrites == BufferSpec => RemembersRecentWrites
<1>1. BufferInit => Recent!Init
  BY BufferAssumption DEF BufferInit, EmptyBuffer, Recent!Init, BufferLog, EntryCount
<1>2. BufferTypeOK /\ WindowShape /\ [BufferNext]_buffer => [Recent!Next]_BufferLog
  <2> SUFFICES ASSUME BufferTypeOK, WindowShape, [BufferNext]_buffer PROVE [Recent!Next]_BufferLog
    OBVIOUS
  <2> DEFINE E == Entries \cup {NoEntry}
  <2>0. BufferInv(E)
    BY DEF BufferInv, BufferOf, BufferTypeOK
  <2>1. CASE aesd_circular_buffer_init
    <3>1. EntryCount' = 0
      BY <2>1 DEF aesd_circular_buffer_init, EmptyBuffer, EntryCount
    <3>2. BufferLog' = << >>
      BY <3>1 DEF BufferLog
    <3> QED
      BY <3>2 DEF Recent!Next, Recent!Reset
  <2>2. ASSUME NEW e \in Entries, aesd_circular_buffer_add_entry(e)
        PROVE  Recent!Next
    <3>1. Recent!Add(e)
      BY <2>0, <2>2, AddToFreeSlot, AddOverOldest, LogElements DEF Recent!Add, LogFacts
    <3> QED
      BY <3>1 DEF Recent!Next
  <2>3. CASE UNCHANGED buffer
    BY <2>3 DEF BufferLog, EntryCount
  <2> QED
    BY <2>1, <2>2, <2>3 DEF BufferNext
<1> QED
  BY <1>1, <1>2, BufferInvariance, PTL
  DEF BufferSpec, RemembersRecentWrites, Recent!Spec

-----------------------------------------------------------------------------
(* What the search computes                                                *)

\* The loop adds up the sizes of the entries it visits.
LEMMA BytesSearchedStep ==
  ASSUME NEW E, BufferInv(E), \A e \in E : e.size \in Nat
  PROVE  /\ BytesSearched(0) = 0
         /\ \A k \in 0..(MaxWriteOps - 1) :
              /\ BytesSearched(k + 1) = BytesSearched(k) + buffer.entry[SearchSlot(k)].size
              /\ buffer.entry[SearchSlot(k)].size \in Nat
         /\ \A k \in 0..MaxWriteOps : BytesSearched(k) \in Nat
<1> DEFINE f == [j \in SearchSteps |-> buffer.entry[SearchSlot(j)].size]
           N == MaxWriteOps
<1>1. N \in Nat /\ \A k \in 0..(N - 1) : k \in SearchSteps /\ k \in Nat
  BY BufferAssumption DEF SearchSteps
<1>2. \A k \in 0..(N - 1) : f[k] = buffer.entry[SearchSlot(k)].size /\ f[k] \in Nat
  <2>1. ASSUME NEW k \in 0..(N - 1) PROVE buffer.entry[SearchSlot(k)] \in E
    <3>1. SearchSlot(k) \in Slots
      BY <1>1, SearchSlotInArray
    <3> QED
      BY <3>1 DEF BufferInv, BufferOf
  <2> QED
    BY <1>1, <2>1
<1>3. \A n \in Nat : BytesSearched(n) = SumUpTo(f, n)
  BY DEF BytesSearched
<1> HIDE DEF f, N
<1>4. \A n \in 0..N : SumUpTo(f, n) \in Nat
  BY <1>1, <1>2, SumUpToNat
<1>5. BytesSearched(0) = 0 /\ \A n \in 0..N : BytesSearched(n) \in Nat
  BY <1>1, <1>3, <1>4, SumUpToStep
<1>6. \A k \in 0..(N - 1) : BytesSearched(k + 1) = BytesSearched(k) + f[k]
  BY <1>1, <1>3, SumUpToStep
<1> QED
  BY <1>2, <1>5, <1>6 DEF N

\* The slots that are visited before the loop has gone around the array.
LEMMA SearchSlotValue ==
  ASSUME NEW E, BufferInv(E), NEW k \in 0..(MaxWriteOps - 1)
  PROVE  SearchSlot(k) = IF buffer.out_offs + k < MaxWriteOps THEN buffer.out_offs + k
                         ELSE buffer.out_offs + k - MaxWriteOps
<1> DEFINE a == buffer.out_offs + k
<1>1. a \in 0..(2 * MaxWriteOps - 1)
  BY BufferAssumption DEF BufferInv, BufferOf, Slots
<1> HIDE DEF a
<1>2. a % MaxWriteOps = IF a < MaxWriteOps THEN a ELSE a - MaxWriteOps
  BY <1>1, ModWrap
<1>3. SearchSlot(k) = a % MaxWriteOps
  BY DEF SearchSlot, a
<1>4. SearchSlot(k) = IF a < MaxWriteOps THEN a ELSE a - MaxWriteOps
  BY <1>2, <1>3, Zenon
<1>5. buffer.out_offs \in Int /\ k \in Int /\ MaxWriteOps \in Int
  BY BufferAssumption DEF BufferInv, BufferOf, Slots
<1> QED
  BY <1>4, <1>5 DEF a

\* The entries in the log hold all the bytes there are.
LEMMA AllBytesSearched ==
  ASSUME NEW E, BufferInv(E), \A e \in E : e.size \in Nat
  PROVE  TotalBytesWritten = BytesSearched(EntryCount)
<1> DEFINE N == MaxWriteOps
           f == [i \in Slots |-> buffer.entry[i].size]
           g == [j \in SearchSteps |-> buffer.entry[SearchSlot(j)].size]
           o == buffer.out_offs
<1>1. /\ N \in Nat /\ o \in 0..(N - 1) /\ EntryCount \in 0..N
      /\ \A k \in 0..(N - 1) : k \in SearchSteps /\ k \in Slots
  BY BufferAssumption DEF SearchSteps, BufferInv, BufferOf, Slots, EntryCount
<1>2. \A i \in 0..(N - 1) : f[i] = buffer.entry[i].size /\ f[i] \in Nat
  <2>1. \A i \in Slots : buffer.entry[i] \in E
    BY DEF BufferInv, BufferOf
  <2> QED
    BY <1>1, <2>1
<1>3. ASSUME NEW j \in 0..(N - 1)
      PROVE  g[j] = IF o + j < N THEN f[o + j] ELSE f[o + j - N]
  <2>1. g[j] = buffer.entry[SearchSlot(j)].size
    BY <1>1
  <2>2. SearchSlot(j) = IF o + j < N THEN o + j ELSE o + j - N
    BY SearchSlotValue
  <2>3. o + j < N => o + j \in 0..(N - 1)
    BY <1>1
  <2>4. ~(o + j < N) => o + j - N \in 0..(N - 1)
    BY <1>1
  <2> HIDE DEF f, g, o, N
  <2> QED
    BY <1>2, <2>1, <2>2, <2>3, <2>4
<1>4. TotalBytesWritten = SumUpTo(f, N) /\ \A n \in Nat : BytesSearched(n) = SumUpTo(g, n)
  BY DEF TotalBytesWritten, BytesSearched
<1>5. \A i \in 0..(N - 1) : g[i] \in Nat
  <2>1. ASSUME NEW i \in 0..(N - 1) PROVE (o + i < N => o + i \in 0..(N - 1))
                                       /\ (~(o + i < N) => o + i - N \in 0..(N - 1))
    BY <1>1
  <2> HIDE DEF f, g, o, N
  <2> QED
    BY <1>2, <1>3, <2>1
<1>6. buffer.full => EntryCount = N
  BY DEF EntryCount
<1>7. ~buffer.full => \A i \in EntryCount..(N - 1) : g[i] = 0
  <2> SUFFICES ASSUME ~buffer.full, NEW i \in EntryCount..(N - 1) PROVE g[i] = 0
    OBVIOUS
  <2>1. o = 0 /\ EntryCount = buffer.in_offs /\ buffer.entry[i] = NoEntry
    BY DEF BufferInv, WindowShape, EntryCount
  <2>2. i \in 0..(N - 1) /\ o + i < N /\ o + i = i
    BY <1>1, <2>1
  <2>3. g[i] = f[i]
    BY <1>3, <2>2
  <2>4. f[i] = buffer.entry[i].size
    BY <1>2, <2>2
  <2> QED
    BY <2>1, <2>3, <2>4, BufferAssumption
<1> HIDE DEF f, g, o, N
<1>8. SumUpTo(g, N) = SumUpTo(f, N)
  BY <1>1, <1>2, <1>3, SumUpToRotated
<1>9. SumUpTo(g, N) = SumUpTo(g, EntryCount)
  <2>1. CASE buffer.full
    BY <1>6, <2>1
  <2>2. CASE ~buffer.full
    BY <1>1, <1>5, <1>7, <2>2, SumUpToFlat
  <2> QED
    BY <2>1, <2>2
<1> QED
  BY <1>1, <1>4, <1>8, <1>9

\* The loop does not stop before it has visited every entry of the log.
LEMMA SearchReachesLog ==
  ASSUME NEW E, BufferInv(E), NEW k \in 0..(EntryCount - 1)
  PROVE  SearchReaches(k)
<1>1. /\ MaxWriteOps \in Nat /\ buffer.out_offs \in 0..(MaxWriteOps - 1)
      /\ EntryCount \in 0..MaxWriteOps
  BY BufferAssumption DEF BufferInv, BufferOf, Slots, EntryCount
<1>2. \A j \in 0..k : j \in 0..(MaxWriteOps - 1)
  BY <1>1
<1>3. ASSUME NEW j \in 0..k PROVE SearchSlot(j) # buffer.in_offs \/ ~SearchWrapped(j)
  <2>1. CASE buffer.full /\ j # 0
    <3>1. SearchSlot(j) # buffer.out_offs
      BY <1>1, <1>2, <2>1, SearchSlotValue
    <3> QED
      BY <2>1, <3>1 DEF BufferInv, WindowShape
  <2>2. CASE j = 0
    BY <2>2 DEF SearchWrapped
  <2>3. CASE ~buffer.full /\ j # 0
    <3>1. buffer.out_offs = 0
      BY <2>3 DEF BufferInv, WindowShape
    <3>2. ASSUME NEW i \in 0..(j - 1) PROVE SearchSlot(i) # MaxWriteOps - 1
      <4>1. i \in 0..(MaxWriteOps - 1) /\ i < MaxWriteOps - 1
        BY <1>1, <1>2
      <4>2. SearchSlot(i) = i
        BY <1>1, <3>1, <4>1, SearchSlotValue
      <4> QED
        BY <4>1, <4>2
    <3> QED
      BY <3>2 DEF SearchWrapped
  <2> QED
    BY <2>1, <2>2, <2>3
<1> QED
  BY <1>3 DEF SearchReaches

(***************************************************************************)
(* What the search returns: the entry of the log that reaches over the     *)
(* position when the sizes of the entries are added up, or nothing past    *)
(* the last byte.                                                          *)
(***************************************************************************)
LEMMA SearchResult ==
  ASSUME NEW E, BufferInv(E), \A e \in E : e.size \in Nat, NEW off \in Nat
  PROVE  /\ off >= TotalBytesWritten => find_entry_offset_for_fpos(off) = NotFound
         /\ off < TotalBytesWritten =>
              \E k \in 0..(EntryCount - 1) :
                /\ BytesSearched(k) <= off /\ off < BytesSearched(k + 1)
                /\ find_entry_offset_for_fpos(off) =
                     [slot |-> SearchSlot(k), offset |-> off - BytesSearched(k)]
<1>1. off >= TotalBytesWritten => find_entry_offset_for_fpos(off) = NotFound
  BY DEF find_entry_offset_for_fpos
<1> SUFFICES ASSUME off < TotalBytesWritten
             PROVE  \E k \in 0..(EntryCount - 1) :
                      /\ BytesSearched(k) <= off /\ off < BytesSearched(k + 1)
                      /\ find_entry_offset_for_fpos(off) =
                           [slot |-> SearchSlot(k), offset |-> off - BytesSearched(k)]
  BY <1>1
<1>2. /\ MaxWriteOps \in Nat /\ EntryCount \in 0..MaxWriteOps
      /\ \A k \in 0..(EntryCount - 1) : k \in SearchSteps /\ k \in 0..(MaxWriteOps - 1)
  BY BufferAssumption DEF BufferInv, BufferOf, Slots, EntryCount, SearchSteps
<1>3. /\ BytesSearched(0) = 0 /\ \A k \in 0..MaxWriteOps : BytesSearched(k) \in Nat
      /\ BytesSearched(EntryCount) = TotalBytesWritten
  BY BytesSearchedStep, AllBytesSearched
<1> DEFINE S == {k \in Nat : k < EntryCount /\ off < BytesSearched(k + 1)}
<1>4. EntryCount - 1 \in S
  <2>1. EntryCount # 0
    BY <1>3
  <2>2. EntryCount - 1 \in Nat /\ (EntryCount - 1) + 1 = EntryCount
    BY <1>2, <2>1
  <2> QED
    BY <1>2, <1>3, <2>2
<1>5. PICK k \in S : \A j \in S : k <= j
  BY <1>4, LeastMember
<1>6. k \in 0..(EntryCount - 1) /\ k \in Nat /\ off < BytesSearched(k + 1)
  BY <1>2, <1>5
<1>7. \A j \in 0..(k - 1) : ~(off < BytesSearched(j + 1))
  BY <1>2, <1>5, <1>6
<1>8. k \in SearchSteps /\ HitAt(off, k)
  BY <1>2, <1>6, <1>7, SearchReachesLog DEF HitAt
<1>9. BytesSearched(k) <= off
  <2>1. CASE k = 0
    BY <1>3, <2>1
  <2>2. CASE k # 0
    <3>1. k - 1 \in 0..(k - 1) /\ (k - 1) + 1 = k /\ k \in 0..MaxWriteOps
      BY <1>2, <1>6, <2>2
    <3>2. ~(off < BytesSearched((k - 1) + 1))
      BY <1>7, <3>1
    <3>3. BytesSearched(k) \in Nat
      BY <1>3, <3>1
    <3> QED
      BY <3>1, <3>2, <3>3
  <2> QED
    BY <2>1, <2>2
<1>10. ASSUME NEW h \in SearchSteps, HitAt(off, h) PROVE h = k
  <2>1. h \in Nat
    BY BufferAssumption DEF SearchSteps
  <2>2. ~(h < k)
    BY <1>6, <1>7, <1>10, <2>1 DEF HitAt
  <2>3. ~(k < h)
    BY <1>6, <1>10, <2>1 DEF HitAt
  <2> QED
    BY <1>6, <2>1, <2>2, <2>3
<1> DEFINE hits == {h \in SearchSteps : HitAt(off, h)}
           found == CHOOSE h \in hits : TRUE
<1>11. k \in hits /\ \A h \in hits : h = k
  BY <1>8, <1>10
<1>12. hits # {} /\ found = k
  <2> HIDE DEF hits
  <2> QED
    BY <1>11
<1>13. ~(off >= TotalBytesWritten)
  BY <1>2, <1>3
<1>14. find_entry_offset_for_fpos(off) =
         [slot |-> SearchSlot(found), offset |-> off - BytesSearched(found)]
  BY <1>12, <1>13 DEF find_entry_offset_for_fpos
<1> HIDE DEF hits, found
<1> QED
  BY <1>6, <1>9, <1>12, <1>14

\* The entries of the log with each byte named by its place, as BytesEndToEnd
\* lays them out.
Places ==
  [k \in 1..Len(BufferLog) |->
     [o \in 1..BufferLog[k].size |->
        [slot |-> (buffer.out_offs + (k - 1)) % MaxWriteOps, offset |-> o - 1]]]

\* The n-th of them has the size and the slot of the n-th visit.
LEMMA PlaceOf ==
  ASSUME NEW E, BufferInv(E), \A e \in E : e.size \in Nat
  PROVE  /\ Places \in Seq(Seq([slot : Int, offset : Int])) /\ Len(Places) = EntryCount
         /\ \A k \in 0..(EntryCount - 1) :
              /\ Len(Places[k + 1]) = buffer.entry[SearchSlot(k)].size
              /\ \A o \in 1..buffer.entry[SearchSlot(k)].size :
                   Places[k + 1][o] = [slot |-> SearchSlot(k), offset |-> o - 1]
<1> DEFINE T == [slot : Int, offset : Int]
           Place(k) == [o \in 1..buffer.entry[SearchSlot(k)].size |->
                          [slot |-> SearchSlot(k), offset |-> o - 1]]
<1>1. /\ EntryCount \in 0..MaxWriteOps /\ MaxWriteOps \in Nat /\ Len(BufferLog) = EntryCount
      /\ \A k \in 1..EntryCount : BufferLog[k] = buffer.entry[SearchSlot(k - 1)]
  BY LogElements, BufferAssumption DEF LogFacts, SearchSlot
<1>2. ASSUME NEW k \in 0..(EntryCount - 1)
      PROVE  buffer.entry[SearchSlot(k)].size \in Nat /\ SearchSlot(k) \in Int
  <2>1. k \in Nat /\ k \in 0..(MaxWriteOps - 1)
    BY <1>1
  <2>2. SearchSlot(k) \in Slots /\ buffer.entry[SearchSlot(k)].size \in Nat
    BY <2>1, SearchSlotInArray, BytesSearchedStep
  <2> QED
    BY <2>2 DEF Slots
<1>3. ASSUME NEW k \in 0..(EntryCount - 1)
      PROVE  Place(k) \in Seq(T) /\ Len(Place(k)) = buffer.entry[SearchSlot(k)].size
  <2> DEFINE n == buffer.entry[SearchSlot(k)].size
             v(o) == [slot |-> SearchSlot(k), offset |-> o - 1]
  <2>1. n \in Nat /\ \A o \in 1..n : v(o) \in T
    BY <1>2
  <2> HIDE DEF n, v, T
  <2>2. [o \in 1..n |-> v(o)] \in Seq(T) /\ Len([o \in 1..n |-> v(o)]) = n
    BY <2>1
  <2> QED
    BY <2>2 DEF n, v
<1>4. ASSUME NEW k \in 1..EntryCount PROVE Places[k] = Place(k - 1)
  BY <1>1 DEF Places, SearchSlot
<1>5. Places = [k \in 1..EntryCount |-> Places[k]]
  BY <1>1 DEF Places
<1>6. ASSUME NEW k \in 1..EntryCount PROVE Places[k] \in Seq(T)
  <2>1. k - 1 \in 0..(EntryCount - 1)
    BY <1>1
  <2> HIDE DEF Place, T
  <2> QED
    BY <1>3, <1>4, <2>1
<1> HIDE DEF T
<1>7. Places \in Seq(Seq(T)) /\ Len(Places) = EntryCount
  BY <1>1, <1>5, <1>6
<1>8. ASSUME NEW k \in 0..(EntryCount - 1) PROVE Places[k + 1] = Place(k)
  <2>1. k + 1 \in 1..EntryCount /\ (k + 1) - 1 = k
    BY <1>1
  <2> HIDE DEF Place
  <2> QED
    BY <1>4, <2>1
<1>9. ASSUME NEW k \in 0..(EntryCount - 1), NEW o \in 1..buffer.entry[SearchSlot(k)].size
      PROVE  Place(k)[o] = [slot |-> SearchSlot(k), offset |-> o - 1]
  OBVIOUS
<1> HIDE DEF Place
<1> QED
  BY <1>3, <1>7, <1>8, <1>9 DEF T

\* The entries of the log begin where the sizes of the ones before them add up to.
LEMMA PlacesBegin ==
  ASSUME NEW E, BufferInv(E), \A e \in E : e.size \in Nat
  PROVE  \A k \in 0..EntryCount : Len(Upto(Places, k)) = BytesSearched(k)
<1> DEFINE T == [slot : Int, offset : Int]
           S == {k \in Nat : k <= EntryCount => Len(Upto(Places, k)) = BytesSearched(k)}
<1>1. /\ Places \in Seq(Seq(T)) /\ Len(Places) = EntryCount
      /\ \A k \in 0..(EntryCount - 1) : Len(Places[k + 1]) = buffer.entry[SearchSlot(k)].size
  BY PlaceOf
<1> HIDE DEF T
<1>2. EntryCount \in Nat /\ EntryCount <= MaxWriteOps /\ MaxWriteOps \in Nat
  BY LogElements, BufferAssumption DEF LogFacts
<1>3. 0 \in S
  <2>1. Upto(Places, 0) = << >>
    BY <1>1, UptoStep
  <2> QED
    BY <2>1, EmptySeq, BytesSearchedStep
<1>4. ASSUME NEW k \in Nat, k \in S PROVE k + 1 \in S
  <2> SUFFICES ASSUME k + 1 <= EntryCount PROVE Len(Upto(Places, k + 1)) = BytesSearched(k + 1)
    OBVIOUS
  <2>1. k \in 0..(EntryCount - 1) /\ k \in 0..(MaxWriteOps - 1)
    BY <1>2
  <2>2. Len(Upto(Places, k + 1)) = Len(Upto(Places, k)) + Len(Places[k + 1])
    BY <1>1, <2>1, FlattenElements
  <2>3. BytesSearched(k + 1) = BytesSearched(k) + buffer.entry[SearchSlot(k)].size
    BY <2>1, BytesSearchedStep
  <2>4. Len(Places[k + 1]) = buffer.entry[SearchSlot(k)].size /\ Len(Upto(Places, k)) = BytesSearched(k)
    BY <1>1, <1>2, <1>4, <2>1
  <2> QED
    BY <2>2, <2>3, <2>4
<1> HIDE DEF S
<1>5. Nat \subseteq S
  BY <1>3, <1>4, SetInduction
<1> QED
  BY <1>2, <1>5 DEF S

\* The search returns what the bytes laid end to end have at the position.
LEMMA SearchIsRight ==
  ASSUME NEW E, BufferInv(E), \A e \in E : e.size \in Nat
  PROVE  FindLocatesByte
<1> DEFINE T == [slot : Int, offset : Int]
<1>1. /\ Places \in Seq(Seq(T)) /\ Len(Places) = EntryCount /\ BytesEndToEnd = FlattenSeq(Places)
  BY PlaceOf DEF BytesEndToEnd, Places
<1> HIDE DEF T
<1>2. EntryCount \in Nat /\ EntryCount <= MaxWriteOps /\ MaxWriteOps \in Nat
  BY LogElements, BufferAssumption DEF LogFacts
<1>3. Len(BytesEndToEnd) = TotalBytesWritten
  <2>1. Upto(Places, EntryCount) = FlattenSeq(Places)
    BY <1>1, UptoStep
  <2>2. Len(Upto(Places, EntryCount)) = BytesSearched(EntryCount)
    BY <1>2, PlacesBegin
  <2> QED
    BY <1>1, <2>1, <2>2, AllBytesSearched
<1>4. TotalBytesWritten \in Nat
  BY <1>2, AllBytesSearched, BytesSearchedStep
<1> SUFFICES ASSUME NEW off \in Nat
             PROVE  find_entry_offset_for_fpos(off) =
                      IF off < Len(BytesEndToEnd) THEN BytesEndToEnd[off + 1] ELSE NotFound
  BY <1>4 DEF FindLocatesByte
<1>5. CASE off >= TotalBytesWritten
  BY <1>3, <1>4, <1>5, SearchResult
<1>6. CASE off < TotalBytesWritten
  <2>1. PICK k \in 0..(EntryCount - 1) :
          /\ BytesSearched(k) <= off /\ off < BytesSearched(k + 1)
          /\ find_entry_offset_for_fpos(off) =
               [slot |-> SearchSlot(k), offset |-> off - BytesSearched(k)]
    BY <1>6, SearchResult
  <2>2. k \in 0..(MaxWriteOps - 1) /\ k \in 0..EntryCount /\ k \in 0..MaxWriteOps
    BY <1>2
  <2>3. /\ BytesSearched(k + 1) = BytesSearched(k) + buffer.entry[SearchSlot(k)].size
        /\ buffer.entry[SearchSlot(k)].size \in Nat /\ BytesSearched(k) \in Nat
    BY <2>2, BytesSearchedStep
  <2> DEFINE i == off - BytesSearched(k) + 1
  <2>4. /\ i \in 1..buffer.entry[SearchSlot(k)].size
        /\ BytesSearched(k) + i = off + 1 /\ i - 1 = off - BytesSearched(k)
    BY <2>1, <2>3
  <2> HIDE DEF i
  <2>5. /\ Len(Places[k + 1]) = buffer.entry[SearchSlot(k)].size
        /\ Places[k + 1][i] = [slot |-> SearchSlot(k), offset |-> i - 1]
    BY <2>4, PlaceOf
  <2>6. Len(Upto(Places, k)) = BytesSearched(k)
    BY <2>2, PlacesBegin
  <2>7. FlattenSeq(Places)[Len(Upto(Places, k)) + i] = Places[k + 1][i]
    <3>1. \A j \in 1..Len(Places[k + 1]) :
            FlattenSeq(Places)[Len(Upto(Places, k)) + j] = Places[k + 1][j]
      BY <1>1, FlattenElements
    <3>2. i \in 1..Len(Places[k + 1])
      BY <2>4, <2>5
    <3> QED
      BY <3>1, <3>2
  <2>8. BytesEndToEnd[off + 1] = find_entry_offset_for_fpos(off)
    BY <1>1, <2>1, <2>4, <2>5, <2>6, <2>7
  <2> QED
    BY <1>3, <1>6, <2>8
<1> QED
  BY <1>4, <1>5, <1>6

(***************************************************************************)
(* For every number of slots, every set of entries and every sequence of   *)
(* calls, find_entry_offset_for_fpos finds the entry and the byte that the *)
(* position has in the stored strings laid end to end, and nothing exactly *)
(* past the last byte: entries of size 0, the wrap of the array and the    *)
(* second lap that the loop may begin make no difference.                  *)
(***************************************************************************)
THEOREM SearchFindsByte == BufferSpec => []FindLocatesByte
<1>1. BufferTypeOK /\ WindowShape => FindLocatesByte
  <2> SUFFICES ASSUME BufferTypeOK, WindowShape PROVE FindLocatesByte
    OBVIOUS
  <2>1. BufferInv(Entries \cup {NoEntry})
    BY DEF BufferTypeOK, BufferInv, BufferOf
  <2> QED
    BY <2>1, SearchIsRight, BufferAssumption
<1> QED
  BY <1>1, BufferInvariance, PTL

-----------------------------------------------------------------------------
(* The lock                                                                *)

\* Where control is: the labels, and the call a process waits with.
ControlInv ==
  /\ pc \in [Procs -> Labels]
  /\ call \in [Procs -> Requests \cup {NoCall}]
  /\ \A p \in Procs : pc[p] \in {"ioctl", "lock"} => call[p] \in Requests
  /\ \A p \in Procs : pc[p] = "ioctl" => call[p].op = "ioctl"

\* A process in a system call keeps its file open, and an open file keeps the
\* module loaded: aesd_init_module and aesd_cleanup_module, which reset the
\* lock, find nobody inside the critical section.
UsageInv ==
  /\ \A p \in Procs : pc[p] # "user" => FileOf[p] \in opened
  /\ opened # {} => module = "in"

HolderInv == \A p \in Procs : pc[p] \in CriticalSection => owner = p

LockInv == ControlInv /\ UsageInv /\ HolderInv

\* A step of process p that leaves the lock alone moves p within the critical
\* section, within the outside, or out of it.
LEMMA StepWithoutLock ==
  ASSUME LockInv, NEW p \in Procs, NEW l \in Labels, Goto(p, l),
         UNCHANGED <<owner, module, opened, call>>,
         pc[p] # "user",
         l \in CriticalSection => pc[p] \in CriticalSection,
         l = "lock" => pc[p] = "ioctl",
         l # "ioctl"
  PROVE  LockInv'
<1>1. pc' = [pc EXCEPT ![p] = l] /\ pc \in [Procs -> Labels]
  BY DEF Goto, LockInv, ControlInv
<1>2. ControlInv'
  BY <1>1 DEF LockInv, ControlInv
<1>3. UsageInv'
  BY <1>1 DEF LockInv, UsageInv
<1>4. HolderInv'
  BY <1>1 DEF LockInv, HolderInv
<1> QED
  BY <1>2, <1>3, <1>4 DEF LockInv

\* Taking the lock, when it is free, keeps the invariant.
LEMMA LockStep ==
  ASSUME LockInv, NEW p \in Procs, mutex_lock_interruptible(p)
  PROVE  LockInv'
<1> DEFINE l == FirstStep(call[p].op)
<1>1. /\ pc' = [pc EXCEPT ![p] = l] /\ pc \in [Procs -> Labels]
      /\ pc[p] = "lock" /\ owner = Nobody /\ owner' = p
      /\ UNCHANGED <<module, opened, call>>
  BY DEF mutex_lock_interruptible, Goto, LockInv, ControlInv, life
<1>2. l \in CriticalSection \ {"unlock"}
  <2>1. call[p].op \in {"read", "write", "llseek", "ioctl"}
    BY <1>1, DeviceAssumption DEF LockInv, ControlInv
  <2> QED
    BY <2>1 DEF FirstStep, CriticalSection
<1>3. l \in Labels /\ l \notin {"ioctl", "lock", "user"}
  BY <1>2 DEF CriticalSection, Labels
<1> HIDE DEF l
<1>4. ControlInv'
  BY <1>1, <1>3 DEF LockInv, ControlInv
<1>5. UsageInv'
  BY <1>1, <1>3 DEF LockInv, UsageInv
<1>6. \A q \in Procs : pc[q] \notin CriticalSection
  BY <1>1, DeviceAssumption DEF LockInv, HolderInv
<1>7. HolderInv'
  BY <1>1, <1>6 DEF HolderInv
<1> QED
  BY <1>4, <1>5, <1>7 DEF LockInv

\* Releasing the lock keeps the invariant: p was the only one inside.
LEMMA UnlockStep ==
  ASSUME LockInv, NEW p \in Procs, mutex_unlock(p)
  PROVE  LockInv'
<1>1. /\ pc' = [pc EXCEPT ![p] = "return"] /\ pc \in [Procs -> Labels]
      /\ pc[p] = "unlock" /\ owner' = Nobody
      /\ UNCHANGED <<module, opened, call>>
  BY DEF mutex_unlock, Goto, LockInv, ControlInv, life
<1>2. ControlInv'
  BY <1>1 DEF LockInv, ControlInv, Labels
<1>3. UsageInv'
  BY <1>1 DEF LockInv, UsageInv
<1>4. \A q \in Procs : pc[q] \in CriticalSection => q = p
  BY <1>1 DEF LockInv, HolderInv, CriticalSection
<1>5. HolderInv'
  BY <1>1, <1>4 DEF HolderInv, CriticalSection
<1> QED
  BY <1>2, <1>3, <1>5 DEF LockInv

\* The invariant survives every step of a program that keeps to the
\* documented requests.
LEMMA LockInvStep ==
  ASSUME DocumentedRequests, LockInv, [Next]_vars
  PROVE  LockInv'
<1> USE DEF life
<1>1. CASE aesd_init_module
  BY <1>1 DEF aesd_init_module, LockInv, ControlInv, UsageInv, HolderInv, CriticalSection
<1>2. CASE aesd_cleanup_module
  BY <1>2 DEF aesd_cleanup_module, LockInv, ControlInv, UsageInv, HolderInv, CriticalSection
<1>3. ASSUME NEW f \in Files, aesd_open(f) \/ aesd_release(f)
      PROVE  LockInv'
  BY <1>3 DEF aesd_open, aesd_release, LockInv, ControlInv, UsageInv, HolderInv
<1>4. ASSUME NEW p \in Procs, NEW c \in Requests, Syscall(p, c)
      PROVE  LockInv'
  BY <1>4 DEF Syscall, Goto, LockInv, ControlInv, UsageInv, HolderInv, CriticalSection, Labels
<1>5. ASSUME NEW p \in Procs, mutex_lock_interruptible(p)
      PROVE  LockInv'
  BY <1>5, LockStep
<1>6. ASSUME NEW p \in Procs, Interrupted(p) \/ QueueWaiter(p)
      PROVE  LockInv'
  <2>1. PICK l \in {"return", "oopsed"} :
          Goto(p, l) /\ UNCHANGED <<owner, module, opened, call>> /\ pc[p] = "lock"
    BY <1>6 DEF Interrupted, QueueWaiter, Result
  <2> QED
    BY <2>1, StepWithoutLock DEF Labels, CriticalSection
<1>7. ASSUME NEW p \in Procs, mutex_unlock(p)
      PROVE  LockInv'
  BY <1>7, UnlockStep
<1>8. ASSUME NEW p \in Procs, Return(p)
      PROVE  LockInv'
  BY <1>8 DEF Return, Goto, LockInv, ControlInv, UsageInv, HolderInv, CriticalSection, Labels
<1>9. ASSUME NEW p \in Procs,
             \/ aesd_read_find(p) \/ aesd_read_copy(p) \/ aesd_write_alloc(p)
             \/ aesd_write_copy(p) \/ aesd_write_commit(p)
             \/ aesd_llseek(p) \/ aesd_llseek_target(p) \/ aesd_ioctl_seek(p)
      PROVE  LockInv'
  <2>1. PICK l \in {"read_copy", "write_copy", "write_commit", "llseek_target",
                   "unlock", "return", "oopsed"} :
          /\ Goto(p, l) /\ UNCHANGED <<owner, module, opened, call>>
          /\ pc[p] \in CriticalSection
    <3>1. CASE aesd_read_find(p)
      BY <3>1 DEF aesd_read_find, Result, CriticalSection
    <3>2. CASE aesd_read_copy(p)
      BY <3>2 DEF aesd_read_copy, Result, BadAccess, CriticalSection
    <3>3. CASE aesd_write_alloc(p)
      BY <3>3 DEF aesd_write_alloc, Result, CriticalSection
    <3>4. CASE aesd_write_copy(p)
      BY <3>4 DEF aesd_write_copy, Result, BadAccess, CriticalSection
    <3>5. CASE aesd_write_commit(p)
      BY <3>5 DEF aesd_write_commit, BadAccess, Result, CriticalSection
    <3>6. CASE aesd_llseek(p)
      BY <3>6 DEF aesd_llseek, Result, CriticalSection
    <3>7. CASE aesd_llseek_target(p)
      BY <3>7 DEF aesd_llseek_target, CriticalSection
    <3>8. CASE aesd_ioctl_seek(p)
      BY <3>8 DEF aesd_ioctl_seek, Result, CriticalSection
    <3> QED
      BY <1>9, <3>1, <3>2, <3>3, <3>4, <3>5, <3>6, <3>7, <3>8
  <2> QED
    BY <2>1, StepWithoutLock DEF Labels, CriticalSection
<1>10. ASSUME NEW p \in Procs, aesd_ioctl(p)
       PROVE  LockInv'
  <2>1. pc[p] = "ioctl" /\ call[p] \in Requests /\ call[p].op = "ioctl"
    BY <1>10 DEF aesd_ioctl, LockInv, ControlInv
  <2>2. call[p].cmd # "other"
    BY <2>1 DEF DocumentedRequests
  <2>3. PICK l \in {"return", "lock"} : Goto(p, l) /\ UNCHANGED <<owner, module, opened, call>>
    BY <1>10, <2>2 DEF aesd_ioctl, Result
  <2> QED
    BY <2>1, <2>3, StepWithoutLock DEF Labels, CriticalSection
<1>11. CASE UNCHANGED vars
  BY <1>11 DEF vars, LockInv, ControlInv, UsageInv, HolderInv
<1> QED
  BY <1>1, <1>2, <1>3, <1>4, <1>5, <1>6, <1>7, <1>8, <1>9, <1>10, <1>11
  DEF Next, KernelStep

(***************************************************************************)
(* However many processes use the device, at most one of them is between   *)
(* lock and unlock in aesd_read, aesd_write, aesd_llseek and aesd_ioctl,   *)
(* and it owns dev->lock, provided that no program sends an unknown ioctl  *)
(* command of the driver's magic.                                          *)
(***************************************************************************)
THEOREM DeviceMutualExclusion == DocumentedRequests => (Spec => []MutualExclusion)
<1> SUFFICES ASSUME DocumentedRequests PROVE Spec => []MutualExclusion
  OBVIOUS
<1>1. Init => LockInv
  BY DEF Init, LockInv, ControlInv, UsageInv, HolderInv, CriticalSection, Labels
<1>2. LockInv /\ [Next]_vars => LockInv'
  BY LockInvStep
<1>3. LockInv => MutualExclusion
  BY DEF LockInv, HolderInv, MutualExclusion
<1> QED
  BY <1>1, <1>2, <1>3, PTL DEF Spec

-----------------------------------------------------------------------------
(* What a call carries, and the positions it works with                    *)

\* Inside the critical section a call runs the steps of its own operation.
CallInv ==
  \A p \in Procs :
    /\ pc[p] # "user" => call[p] \in Requests
    /\ pc[p] \in {"read_find", "read_copy"} => call[p].op = "read"
    /\ pc[p] \in {"write_alloc", "write_copy", "write_commit"} => call[p].op = "write"
    /\ pc[p] \in {"llseek", "llseek_target"} => call[p].op = "llseek"
    /\ pc[p] = "ioctl_seek" => call[p].op = "ioctl"
    /\ pc[p] \in {"lock", "ioctl_seek"} /\ call[p].op = "ioctl" => call[p].cmd = "seekto"

\* The operation a call runs in each step is decided when it takes the lock.
LEMMA CallInvStep ==
  ASSUME LockInv, CallInv, [Next]_vars
  PROVE  CallInv'
<1> USE DEF CallInv
<1>0. pc \in [Procs -> Labels] /\ call \in [Procs -> Requests \cup {NoCall}]
  BY DEF LockInv, ControlInv
<1>1. CASE UNCHANGED <<pc, call>>
  BY <1>1
<1>2. ASSUME NEW p \in Procs, NEW c \in Requests, Syscall(p, c)
      PROVE  CallInv'
  BY <1>0, <1>2 DEF Syscall, Goto
<1>3. ASSUME NEW p \in Procs, mutex_lock_interruptible(p)
      PROVE  CallInv'
  <2>1. /\ pc[p] = "lock" /\ pc' = [pc EXCEPT ![p] = FirstStep(call[p].op)]
        /\ UNCHANGED call
    BY <1>3 DEF mutex_lock_interruptible, Goto
  <2>2. call[p] \in Requests /\ call[p].op \in {"read", "write", "llseek", "ioctl"}
    BY <2>1, DeviceAssumption
  <2>3. CASE call[p].op = "read"
    BY <1>0, <2>1, <2>2, <2>3 DEF FirstStep
  <2>4. CASE call[p].op = "write"
    BY <1>0, <2>1, <2>2, <2>4 DEF FirstStep
  <2>5. CASE call[p].op = "llseek"
    BY <1>0, <2>1, <2>2, <2>5 DEF FirstStep
  <2>6. CASE call[p].op = "ioctl"
    BY <1>0, <2>1, <2>2, <2>6 DEF FirstStep
  <2> QED
    BY <2>2, <2>3, <2>4, <2>5, <2>6
<1>4. ASSUME NEW p \in Procs,
             \/ Interrupted(p) \/ QueueWaiter(p) \/ mutex_unlock(p)
             \/ aesd_read_find(p) \/ aesd_read_copy(p) \/ aesd_write_alloc(p)
             \/ aesd_write_copy(p) \/ aesd_write_commit(p)
             \/ aesd_llseek(p) \/ aesd_llseek_target(p) \/ aesd_ioctl(p) \/ aesd_ioctl_seek(p)
      PROVE  CallInv'
  <2>1. PICK l \in Labels :
          /\ Goto(p, l) /\ UNCHANGED call /\ pc[p] # "user"
          /\ l \in {"read_copy", "write_copy", "write_commit", "llseek_target", "lock", "unlock",
                    "return", "oopsed"}
          /\ l = "read_copy" => pc[p] = "read_find"
          /\ l = "llseek_target" => pc[p] = "llseek"
          /\ l = "write_copy" => pc[p] = "write_alloc"
          /\ l = "write_commit" => pc[p] = "write_copy"
          /\ l = "lock" => pc[p] = "ioctl" /\ call[p].cmd = "seekto"
    <3>1. CASE Interrupted(p) \/ QueueWaiter(p) \/ mutex_unlock(p)
      BY <3>1 DEF Interrupted, QueueWaiter, mutex_unlock, Result, Labels
    <3>2. CASE aesd_read_find(p)
      BY <3>2 DEF aesd_read_find, Result, Labels
    <3>3. CASE aesd_read_copy(p)
      BY <3>3 DEF aesd_read_copy, BadAccess, Result, Labels
    <3>4. CASE aesd_write_alloc(p)
      BY <3>4 DEF aesd_write_alloc, Result, Labels
    <3>5. CASE aesd_write_copy(p)
      BY <3>5 DEF aesd_write_copy, BadAccess, Result, Labels
    <3>6. CASE aesd_write_commit(p)
      BY <3>6 DEF aesd_write_commit, BadAccess, Result, Labels
    <3>7. CASE aesd_llseek(p)
      BY <3>7 DEF aesd_llseek, Result, Labels
    <3>8. CASE aesd_ioctl(p)
      BY <3>8 DEF aesd_ioctl, Result, Labels
    <3>9. CASE aesd_ioctl_seek(p)
      BY <3>9 DEF aesd_ioctl_seek, Result, Labels
    <3>10. CASE aesd_llseek_target(p)
      BY <3>10 DEF aesd_llseek_target, Labels
    <3> QED
      BY <1>4, <3>1, <3>2, <3>3, <3>4, <3>5, <3>6, <3>7, <3>8, <3>9, <3>10
  <2> QED
    BY <1>0, <2>1 DEF Goto
<1>5. ASSUME NEW p \in Procs, Return(p)
      PROVE  CallInv'
  BY <1>0, <1>5 DEF Return, Goto
<1>6. CASE aesd_init_module \/ aesd_cleanup_module \/ \E f \in Files : aesd_open(f) \/ aesd_release(f)
  <2>1. UNCHANGED <<pc, call>>
    BY <1>6 DEF aesd_init_module, aesd_cleanup_module, aesd_open, aesd_release
  <2> QED
    BY <1>1, <2>1
<1>7. CASE UNCHANGED vars
  BY <1>1, <1>7 DEF vars
<1> QED
  BY <1>2, <1>3, <1>4, <1>5, <1>6, <1>7 DEF Next, KernelStep

-----------------------------------------------------------------------------
(* Types that do not depend on the heap                                    *)

\* The characters programs write, and what a byte of the heap can hold.
Written == UNION {Range(c.chunk) : c \in {r \in Requests : r.op = "write"}}

\* What the slots and dev->entry hold, bounds on an unfinished command aside.
Stored == [buffptr : Blocks \cup {NULL}, size : Nat]

\* The bound on stored bytes leaves size_t at least one value.
LEMMA SizeModPositive == SizeMod \in Nat \ {0}
<1>1. MaxWriteOps * MaxPending \in Nat
  BY DeviceAssumption, BufferAssumption
<1> QED
  BY <1>1, DeviceAssumption

\* A conversion to size_t gives a natural number.
LEMMA SizeIsNat ==
  ASSUME NEW x \in Int
  PROVE  size_t(x) \in Nat
  BY SizeModPositive DEF size_t

\* The chunk of a write is a sequence of written characters.
LEMMA ChunkOfWrite ==
  ASSUME NEW c \in Requests, c.op = "write"
  PROVE  c.chunk \in Seq(Written) /\ Len(c.chunk) \in Nat
<1>1. c.chunk \in Seq(Range(c.chunk))
  BY DeviceAssumption
<1>2. Range(c.chunk) \subseteq Written
  BY DEF Written
<1>3. c.chunk \in Seq(Written)
  BY <1>1, <1>2, SeqMonotonic
<1> QED
  BY <1>3, LenProperties

ProcessStep(p) ==
  \/ \E c \in Requests : Syscall(p, c)
  \/ mutex_lock_interruptible(p) \/ Interrupted(p) \/ QueueWaiter(p)
  \/ KernelStep(p)

\* A process changes the device structure only where it allocates for a write
\* and where it commits one.
LEMMA ProcessLeavesDevice ==
  ASSUME NEW p \in Procs, ProcessStep(p)
  PROVE  aesd_write_alloc(p) \/ aesd_write_commit(p) \/ UNCHANGED device
<1>1. CASE \/ \E c \in Requests : Syscall(p, c)
           \/ mutex_lock_interruptible(p) \/ Interrupted(p) \/ QueueWaiter(p)
           \/ mutex_unlock(p) \/ Return(p)
  BY <1>1 DEF Syscall, mutex_lock_interruptible, Interrupted, QueueWaiter, mutex_unlock, Return
<1>2. CASE \/ aesd_read_find(p) \/ aesd_read_copy(p) \/ aesd_write_copy(p)
           \/ aesd_llseek(p) \/ aesd_llseek_target(p) \/ aesd_ioctl(p) \/ aesd_ioctl_seek(p)
  BY <1>2 DEF aesd_read_find, aesd_read_copy, aesd_write_copy, BadAccess, aesd_llseek,
              aesd_llseek_target, aesd_ioctl, aesd_ioctl_seek
<1> QED
  BY <1>1, <1>2 DEF ProcessStep, KernelStep

\* Which steps touch the device structure at all.
DeviceStep ==
  \/ ZeroDevice
  \/ \E p \in Procs : aesd_write_alloc(p) \/ aesd_write_commit(p)
  \/ UNCHANGED device

\* Every step is one of these.
LEMMA NextIsDeviceStep ==
  ASSUME [Next]_vars PROVE DeviceStep
<1> USE DEF DeviceStep
<1>1. CASE aesd_init_module \/ aesd_cleanup_module
  BY <1>1 DEF aesd_init_module, aesd_cleanup_module
<1>2. CASE \E f \in Files : aesd_open(f) \/ aesd_release(f)
  BY <1>2 DEF aesd_open, aesd_release
<1>3. ASSUME NEW p \in Procs, ProcessStep(p) PROVE DeviceStep
  BY <1>3, ProcessLeavesDevice
<1>4. CASE UNCHANGED vars
  BY <1>4 DEF vars
<1> QED
  BY <1>1, <1>2, <1>3, <1>4 DEF Next, ProcessStep

DeviceTyped == BufferInv(Stored) /\ entry \in Stored /\ total_bytes \in Int

\* The buffer keeps its shape and its entries their types.
LEMMA DeviceTypedStep ==
  ASSUME CallInv, DeviceTyped, [Next]_vars
  PROVE  DeviceTyped'
<1>1. NoEntry \in Stored
  BY DeviceAssumption DEF Stored
<1>2. CASE ZeroDevice
  BY <1>1, <1>2, EmptyBufferInv DEF ZeroDevice, DeviceTyped
<1>3. ASSUME NEW p \in Procs, aesd_write_alloc(p) PROVE DeviceTyped'
  <2>1. UNCHANGED <<buffer, total_bytes>>
    BY <1>3 DEF aesd_write_alloc
  <2>2. entry' = entry \/ \E b \in Blocks \cup {NULL} : entry' = [entry EXCEPT !.buffptr = b]
    BY <1>3 DEF aesd_write_alloc, write_alloc_succeeds, FreeBlocks
  <2>3. entry' \in Stored
    BY <2>2 DEF DeviceTyped, Stored
  <2> QED
    BY <2>1, <2>3 DEF DeviceTyped, BufferInv, BufferOf, WindowShape
<1>4. ASSUME NEW p \in Procs, aesd_write_commit(p) PROVE DeviceTyped'
  <2> DEFINE e == [entry EXCEPT !.size = @ + Len(call[p].chunk)]
  <2>1. Len(call[p].chunk) \in Nat
    BY <1>4, ChunkOfWrite DEF aesd_write_commit, CallInv
  <2>2. e \in Stored
    BY <2>1 DEF DeviceTyped, Stored
  <2>3. \/ commit_entry(e)
        \/ entry' = e /\ UNCHANGED <<buffer, total_bytes>>
        \/ UNCHANGED device
    BY <1>4 DEF aesd_write_commit, BadAccess
  <2> HIDE DEF e
  <2>4. CASE commit_entry(e)
    <3>1. BufferInv(Stored)'
      BY <2>2, <2>4, AddEntryInv DEF commit_entry, DeviceTyped
    <3>2. entry' \in Stored
      BY <1>1, <2>4 DEF commit_entry
    <3>3. buffer.entry[buffer.in_offs] \in Stored
      BY DEF DeviceTyped, BufferInv, BufferOf
    <3>4. total_bytes' \in Int
      <4>1. e.size \in Int /\ buffer.entry[buffer.in_offs].size \in Int /\ total_bytes \in Int
        BY <2>2, <3>3 DEF Stored, DeviceTyped
      <4> QED
        BY <2>4, <4>1 DEF commit_entry
    <3> QED
      BY <3>1, <3>2, <3>4 DEF DeviceTyped
  <2>5. CASE entry' = e /\ UNCHANGED <<buffer, total_bytes>>
    BY <2>2, <2>5 DEF DeviceTyped, BufferInv, BufferOf, WindowShape
  <2>6. CASE UNCHANGED device
    BY <2>6 DEF device, DeviceTyped, BufferInv, BufferOf, WindowShape
  <2> QED
    BY <2>3, <2>4, <2>5, <2>6
<1>5. CASE UNCHANGED device
  BY <1>5 DEF device, DeviceTyped, BufferInv, BufferOf, WindowShape
<1> QED
  BY <1>2, <1>3, <1>4, <1>5, NextIsDeviceStep DEF DeviceStep

-----------------------------------------------------------------------------
(* File positions and local variables                                      *)

LocalsOK(r) ==
  /\ r = [pos |-> r.pos, found |-> r.found, ret |-> r.ret, buf |-> r.buf]
  /\ r.pos \in Int /\ r.found \in [slot : Int, offset : Int] /\ r.ret \in Int

PositionInv ==
  /\ f_pos \in [Files -> Int]
  /\ DOMAIN local = Procs /\ \A p \in Procs : LocalsOK(local[p])

\* What aesd_read found stays inside an entry while it holds the lock.
ReadInv ==
  \A p \in Procs : pc[p] = "read_copy" =>
    LET at == local[p].found
    IN  at.slot \in Slots /\ at.offset \in Nat /\ at.offset < buffer.entry[at.slot].size

\* p's variables become r, the others' stay.
LocalsBecome(p, r) ==
  /\ DOMAIN local' = Procs /\ local'[p] = r
  /\ \A q \in Procs \ {p} : local'[q] = local[q]

\* How the driver assigns them: the return value, the position with it, the
\* place found, all of them at the end of the call.
LEMMA LocalAssignments ==
  ASSUME PositionInv, NEW p \in Procs, NEW x, NEW y, NEW z
  PROVE  LET l == local[p] IN
         /\ local' = [local EXCEPT ![p].ret = x] =>
              LocalsBecome(p, [pos |-> l.pos, found |-> l.found, ret |-> x, buf |-> l.buf])
         /\ local' = [local EXCEPT ![p].pos = x] =>
              LocalsBecome(p, [pos |-> x, found |-> l.found, ret |-> l.ret, buf |-> l.buf])
         /\ local' = [local EXCEPT ![p].found = x] =>
              LocalsBecome(p, [pos |-> l.pos, found |-> x, ret |-> l.ret, buf |-> l.buf])
         /\ local' = [local EXCEPT ![p].pos = x, ![p].ret = y] =>
              LocalsBecome(p, [pos |-> x, found |-> l.found, ret |-> y, buf |-> l.buf])
         /\ local' = [local EXCEPT ![p].pos = x, ![p].found = y] =>
              LocalsBecome(p, [pos |-> x, found |-> y, ret |-> l.ret, buf |-> l.buf])
         /\ local' = [local EXCEPT ![p].found = x, ![p].buf = y] =>
              LocalsBecome(p, [pos |-> l.pos, found |-> x, ret |-> l.ret, buf |-> y])
         /\ local' = [local EXCEPT ![p].pos = @ + x, ![p].ret = y, ![p].buf = z] =>
              LocalsBecome(p, [pos |-> l.pos + x, found |-> l.found, ret |-> y, buf |-> z])
         /\ local' = [local EXCEPT ![p] = x] => LocalsBecome(p, x)
<1> DEFINE l == local[p]
<1>1. DOMAIN local = Procs /\ l = [pos |-> l.pos, found |-> l.found, ret |-> l.ret, buf |-> l.buf]
  BY DEF PositionInv, LocalsOK
<1>2. local' = [local EXCEPT ![p].ret = x] =>
        LocalsBecome(p, [pos |-> l.pos, found |-> l.found, ret |-> x, buf |-> l.buf])
  BY <1>1 DEF LocalsBecome
<1>3. local' = [local EXCEPT ![p].pos = x] =>
        LocalsBecome(p, [pos |-> x, found |-> l.found, ret |-> l.ret, buf |-> l.buf])
  BY <1>1 DEF LocalsBecome
<1>4. local' = [local EXCEPT ![p].found = x] =>
        LocalsBecome(p, [pos |-> l.pos, found |-> x, ret |-> l.ret, buf |-> l.buf])
  BY <1>1 DEF LocalsBecome
<1>5. local' = [local EXCEPT ![p].pos = x, ![p].ret = y] =>
        LocalsBecome(p, [pos |-> x, found |-> l.found, ret |-> y, buf |-> l.buf])
  BY <1>1 DEF LocalsBecome
<1>6. local' = [local EXCEPT ![p].found = x, ![p].buf = y] =>
        LocalsBecome(p, [pos |-> l.pos, found |-> x, ret |-> l.ret, buf |-> y])
  BY <1>1 DEF LocalsBecome
<1>7. local' = [local EXCEPT ![p].pos = @ + x, ![p].ret = y, ![p].buf = z] =>
        LocalsBecome(p, [pos |-> l.pos + x, found |-> l.found, ret |-> y, buf |-> z])
  BY <1>1 DEF LocalsBecome
<1>8. local' = [local EXCEPT ![p] = x] => LocalsBecome(p, x)
  BY <1>1 DEF LocalsBecome
<1>9. local' = [local EXCEPT ![p].pos = x, ![p].found = y] =>
        LocalsBecome(p, [pos |-> x, found |-> y, ret |-> l.ret, buf |-> l.buf])
  BY <1>1 DEF LocalsBecome
<1> QED
  BY <1>2, <1>3, <1>4, <1>5, <1>6, <1>7, <1>8, <1>9

\* A record of local variables of the right types.
LEMMA LocalsRecord ==
  ASSUME NEW x \in Int, NEW y \in [slot : Int, offset : Int], NEW z \in Int, NEW b
  PROVE  LocalsOK([pos |-> x, found |-> y, ret |-> z, buf |-> b])
  BY DEF LocalsOK

\* Local variables that keep their types keep the invariant.
LEMMA PositionKept ==
  ASSUME PositionInv, NEW p \in Procs, NEW r, LocalsOK(r), LocalsBecome(p, r),
         f_pos' \in [Files -> Int]
  PROVE  PositionInv'
<1>1. ASSUME NEW q \in Procs PROVE LocalsOK(local'[q])
  BY DEF LocalsBecome, PositionInv
<1> QED
  BY <1>1 DEF PositionInv, LocalsBecome, LocalsOK

\* The lengths aesd_read computes with are integers.
LEMMA BytesToReadBounds ==
  ASSUME CallInv, DeviceTyped, ReadInv, NEW p \in Procs, pc[p] = "read_copy"
  PROVE  /\ BytesToRead(p) \in Nat
         /\ local[p].found.offset + BytesToRead(p) <= buffer.entry[local[p].found.slot].size
<1> DEFINE at == local[p].found
           size == buffer.entry[at.slot].size
<1>1. at.slot \in Slots /\ at.offset \in Nat /\ at.offset < size
  BY DEF ReadInv
<1>2. buffer.entry[at.slot] \in Stored
  BY <1>1 DEF DeviceTyped, BufferInv, BufferOf
<1>3. size \in Nat
  BY <1>2 DEF Stored
<1>4. call[p].count \in Nat
  BY DeviceAssumption DEF CallInv
<1> QED
  BY <1>1, <1>3, <1>4 DEF BytesToRead

\* The position a seek asks for is an integer.
LEMMA SeekTargetInt ==
  ASSUME DocumentedRequests, CallInv, DeviceTyped, PositionInv, NEW p \in Procs,
         pc[p] \in {"llseek", "llseek_target"}
  PROVE  SeekTarget(p) \in Int
<1>1. call[p].off \in Int /\ call[p].whence \in 0..2
  BY DeviceAssumption DEF CallInv, DocumentedRequests
<1>2. f_pos[FileOf[p]] \in Int /\ total_bytes \in Int
  BY DeviceAssumption DEF PositionInv, DeviceTyped
<1>3. size_t(total_bytes + call[p].off) \in Int
  BY <1>1, <1>2, SizeIsNat
<1> QED
  BY <1>1, <1>2, <1>3 DEF SeekTarget

\* The search from an integer position.
LEMMA FoundByRead ==
  ASSUME DeviceTyped, NEW x \in Int, NEW at, at = find_entry_offset_for_fpos(size_t(x)),
         at # NotFound
  PROVE  /\ at \in [slot : Slots, offset : Nat]
         /\ at.offset < buffer.entry[at.slot].size
<1>1. \A e \in Stored : e.size \in Nat
  BY DEF Stored
<1>2. size_t(x) \in Nat
  BY SizeIsNat
<1> QED
  BY <1>1, <1>2, FoundInsideEntry DEF DeviceTyped

\* File positions and local variables keep their types.
LEMMA PositionStep ==
  ASSUME DocumentedRequests, CallInv, DeviceTyped, PositionInv, ReadInv, [Next]_vars
  PROVE  PositionInv'
<1>0. /\ f_pos \in [Files -> Int]
      /\ \A p \in Procs : LocalsOK(local[p]) /\ f_pos[FileOf[p]] \in Int /\ FileOf[p] \in Files
  BY DeviceAssumption DEF PositionInv
<1>t. \A p \in Procs : /\ local[p].pos \in Int /\ local[p].ret \in Int
                       /\ local[p].found \in [slot : Int, offset : Int]
  BY DEF PositionInv, LocalsOK
<1>e. /\ -EINVAL \in Int /\ -EFAULT \in Int /\ -ENOMEM \in Int
      /\ -ENOTTY \in Int /\ -ERESTARTSYS \in Int
  BY DEF EINVAL, EFAULT, ENOMEM, ENOTTY, ERESTARTSYS
<1>1. ASSUME NEW p \in Procs, NEW x \in Int, local' = [local EXCEPT ![p].ret = x],
             UNCHANGED f_pos
      PROVE  PositionInv'
  <2> DEFINE r == [pos |-> local[p].pos, found |-> local[p].found, ret |-> x, buf |-> local[p].buf]
  <2>1. LocalsBecome(p, r)
    BY <1>1, LocalAssignments
  <2>2. LocalsOK(r)
    BY <1>0 DEF LocalsOK
  <2> HIDE DEF r
  <2> QED
    BY <1>0, <1>1, <2>1, <2>2, PositionKept
<1>2. CASE UNCHANGED <<local, f_pos>>
  BY <1>2 DEF PositionInv, LocalsOK
<1>3. ASSUME NEW f \in Files, aesd_open(f) \/ aesd_release(f)
      PROVE  PositionInv'
  <2>1. f_pos' \in [Files -> Int] /\ UNCHANGED local
    BY <1>0, <1>3 DEF aesd_open, aesd_release
  <2> QED
    BY <2>1 DEF PositionInv, LocalsOK
<1>4. ASSUME NEW p \in Procs, NEW c \in Requests, Syscall(p, c)
      PROVE  PositionInv'
  <2> DEFINE l == local[p]
             r == [pos |-> f_pos[FileOf[p]], found |-> l.found, ret |-> l.ret, buf |-> l.buf]
  <2>1. LocalsBecome(p, r) /\ UNCHANGED f_pos
    BY <1>4, LocalAssignments DEF Syscall
  <2>2. LocalsOK(r)
    BY <1>0 DEF LocalsOK
  <2> HIDE DEF r
  <2> QED
    BY <1>0, <2>1, <2>2, PositionKept
<1>5. ASSUME NEW p \in Procs, Interrupted(p)
      PROVE  PositionInv'
  BY <1>1, <1>e, <1>5 DEF Interrupted, Result
<1>6. ASSUME NEW p \in Procs, mutex_unlock(p)
      PROVE  PositionInv'
  <2> DEFINE l == local[p]
             at == IF call[p].op = "llseek" THEN l.found ELSE NotFound
             r == [pos |-> l.pos, found |-> at, ret |-> l.ret, buf |-> << >>]
  <2>0. local' = [local EXCEPT ![p].found = at, ![p].buf = << >>] /\ UNCHANGED f_pos
    BY <1>6 DEF mutex_unlock
  <2>1. LocalsBecome(p, r) /\ UNCHANGED f_pos
    <3> HIDE DEF at
    <3> QED
      BY <2>0, LocalAssignments
  <2>2. LocalsOK(r)
    <3>1. at \in [slot : Int, offset : Int] /\ l.pos \in Int /\ l.ret \in Int
      BY <1>t DEF NotFound
    <3> HIDE DEF at
    <3> QED
      BY <3>1, LocalsRecord
  <2> HIDE DEF r
  <2> QED
    BY <1>0, <2>1, <2>2, PositionKept
<1>7. ASSUME NEW p \in Procs, Return(p)
      PROVE  PositionInv'
  <2>1. LocalsBecome(p, NoLocals)
    BY <1>7, LocalAssignments DEF Return
  <2>2. f_pos' \in [Files -> Int]
    <3>1. local[p].pos \in Int
      BY <1>0 DEF LocalsOK
    <3> QED
      BY <1>0, <1>7, <3>1 DEF Return
  <2>3. LocalsOK(NoLocals)
    BY DEF LocalsOK, NoLocals, NotFound
  <2> QED
    BY <2>1, <2>2, <2>3, PositionKept
<1>8. ASSUME NEW p \in Procs, aesd_read_find(p)
      PROVE  PositionInv'
  <2> DEFINE at == find_entry_offset_for_fpos(size_t(local[p].pos))
             l == local[p]
             r == [pos |-> l.pos, found |-> at, ret |-> l.ret, buf |-> l.buf]
  <2>1. CASE at = NotFound
    BY <1>1, <1>e, <1>8, <2>1 DEF aesd_read_find, Result
  <2>2. CASE at # NotFound
    <3>1. LocalsBecome(p, r) /\ UNCHANGED f_pos
      BY <1>8, <2>2, LocalAssignments DEF aesd_read_find
    <3>2. at \in [slot : Int, offset : Int]
      <4>1. l.pos \in Int
        BY <1>0 DEF LocalsOK
      <4>2. at \in [slot : Slots, offset : Nat]
        <5> HIDE DEF at
        <5>1. at = find_entry_offset_for_fpos(size_t(l.pos))
          BY DEF at
        <5> QED
          BY <2>2, <4>1, <5>1, FoundByRead
      <4> HIDE DEF at
      <4> QED
        BY <4>2, BufferAssumption DEF Slots
    <3> HIDE DEF at
    <3>3. LocalsOK(r)
      BY <1>0, <3>2 DEF LocalsOK
    <3> HIDE DEF r
    <3> QED
      BY <1>0, <3>1, <3>3, PositionKept
  <2> QED
    BY <2>1, <2>2
<1>9. ASSUME NEW p \in Procs, aesd_read_copy(p)
      PROVE  PositionInv'
  <2> DEFINE l == local[p]
             n == BytesToRead(p)
             z == Slice(buffer.entry[l.found.slot].buffptr, l.found.offset, n)
             r == [pos |-> l.pos + n, found |-> l.found, ret |-> n, buf |-> z]
  <2>1. \/ local' = [local EXCEPT ![p].pos = @ + n, ![p].ret = n, ![p].buf = z]
        \/ local' = [local EXCEPT ![p].ret = -EFAULT]
        \/ UNCHANGED local
    BY <1>9 DEF aesd_read_copy, BadAccess, Result
  <2>2. UNCHANGED f_pos
    BY <1>9 DEF aesd_read_copy, BadAccess
  <2>3. CASE local' = [local EXCEPT ![p].pos = @ + n, ![p].ret = n, ![p].buf = z]
    <3>1. LocalsBecome(p, r)
      <4> HIDE DEF n, z
      <4> QED
        BY <2>3, LocalAssignments
    <3>2. n \in Int
      BY <1>9, BytesToReadBounds DEF aesd_read_copy
    <3> HIDE DEF n, z
    <3>3. LocalsOK(r)
      <4>1. l.pos + n \in Int /\ l.found \in [slot : Int, offset : Int]
        BY <1>t, <3>2
      <4> QED
        BY <3>2, <4>1, LocalsRecord
    <3> HIDE DEF r
    <3> QED
      BY <1>0, <2>2, <3>1, <3>3, PositionKept
  <2> QED
    BY <1>1, <1>2, <1>e, <2>1, <2>2, <2>3
<1>10. ASSUME NEW p \in Procs,
              aesd_write_alloc(p) \/ aesd_write_copy(p) \/ aesd_write_commit(p) \/ aesd_ioctl(p)
       PROVE  PositionInv'
  <2>1. UNCHANGED f_pos
    BY <1>10 DEF aesd_write_alloc, aesd_write_copy, BadAccess, aesd_write_commit, aesd_ioctl
  <2>2. UNCHANGED local \/ \E x \in Int : local' = [local EXCEPT ![p].ret = x]
    <3>1. CASE aesd_write_alloc(p) \/ aesd_ioctl(p)
      BY <1>e, <3>1 DEF aesd_write_alloc, aesd_ioctl, Result
    <3>2. CASE aesd_write_copy(p)
      BY <1>e, <3>2 DEF aesd_write_copy, BadAccess, Result
    <3>3. CASE aesd_write_commit(p)
      <4>1. Len(call[p].chunk) \in Int
        BY <3>3, ChunkOfWrite DEF aesd_write_commit, CallInv
      <4> QED
        BY <3>3, <4>1 DEF aesd_write_commit, BadAccess, Result
    <3> QED
      BY <1>10, <3>1, <3>2, <3>3
  <2> QED
    BY <1>1, <1>2, <2>1, <2>2
<1>11. ASSUME NEW p \in Procs, aesd_llseek(p)
       PROVE  PositionInv'
  <2> DEFINE l == local[p]
             x == SeekTarget(p)
             at == find_entry_offset_for_fpos(size_t(x))
             r == [pos |-> x, found |-> at, ret |-> l.ret, buf |-> l.buf]
  <2>1. /\ UNCHANGED f_pos
        /\ \/ local' = [local EXCEPT ![p].ret = -EINVAL]
           \/ at # NotFound /\ local' = [local EXCEPT ![p].pos = x, ![p].found = at]
    BY <1>11 DEF aesd_llseek, Result
  <2>2. x \in Int
    BY <1>11, SeekTargetInt DEF aesd_llseek
  <2>3. CASE at # NotFound /\ local' = [local EXCEPT ![p].pos = x, ![p].found = at]
    <3>1. at \in [slot : Int, offset : Int]
      <4>1. at \in [slot : Slots, offset : Nat]
        <5> HIDE DEF x
        <5>1. at = find_entry_offset_for_fpos(size_t(x))
          OBVIOUS
        <5> HIDE DEF at
        <5> QED
          BY <2>2, <2>3, <5>1, FoundByRead
      <4> HIDE DEF at
      <4> QED
        BY <4>1, BufferAssumption DEF Slots
    <3> HIDE DEF x, at
    <3>2. LocalsBecome(p, r)
      BY <2>3, LocalAssignments
    <3>3. LocalsOK(r)
      BY <1>t, <2>2, <3>1, LocalsRecord
    <3> HIDE DEF r
    <3> QED
      BY <1>0, <2>1, <3>2, <3>3, PositionKept
  <2> QED
    BY <1>1, <1>e, <2>1, <2>3
<1>15. ASSUME NEW p \in Procs, aesd_llseek_target(p)
       PROVE  PositionInv'
  <2> DEFINE l == local[p]
             x == SeekTarget(p)
             r == [pos |-> x, found |-> l.found, ret |-> x, buf |-> l.buf]
  <2>1. UNCHANGED f_pos /\ local' = [local EXCEPT ![p].pos = x, ![p].ret = x]
    BY <1>15 DEF aesd_llseek_target
  <2>2. x \in Int
    BY <1>15, SeekTargetInt DEF aesd_llseek_target
  <2> HIDE DEF x
  <2>3. LocalsBecome(p, r)
    BY <2>1, LocalAssignments
  <2>4. LocalsOK(r)
    BY <1>t, <2>2, LocalsRecord
  <2> HIDE DEF r
  <2> QED
    BY <1>0, <2>1, <2>3, <2>4, PositionKept
<1>12. ASSUME NEW p \in Procs, aesd_ioctl_seek(p)
       PROVE  PositionInv'
  <2> DEFINE cmd == call[p].write_cmd
             off == call[p].write_cmd_offset
  <2>1. cmd \in Nat /\ off \in Nat
    BY <1>12, DeviceAssumption DEF aesd_ioctl_seek, CallInv
  <2>2. CASE local' = [local EXCEPT ![p].ret = -EINVAL] /\ UNCHANGED f_pos
    BY <1>1, <1>e, <2>2
  <2>3. CASE /\ ~(MaxWriteOps <= cmd) /\ UNCHANGED local
             /\ f_pos' = [f_pos EXCEPT ![FileOf[p]] = SlotPosition(cmd) + off]
    <3> DEFINE f == [i \in Slots |-> buffer.entry[i].size]
    <3>1. \A i \in 0..(MaxWriteOps - 1) : f[i] \in Nat
      BY DEF Slots, DeviceTyped, BufferInv, BufferOf, Stored
    <3>2. SlotPosition(cmd) = SumUpTo(f, cmd)
      BY DEF SlotPosition
    <3> HIDE DEF f
    <3>3. SumUpTo(f, cmd) \in Nat
      <4>1. MaxWriteOps \in Nat /\ cmd \in 0..MaxWriteOps
        BY <2>1, <2>3, BufferAssumption
      <4> HIDE DEF cmd
      <4> QED
        BY <3>1, <4>1, SumUpToNat
    <3>4. f_pos' \in [Files -> Int]
      BY <1>0, <2>1, <2>3, <3>2, <3>3
    <3> QED
      BY <2>3, <3>4 DEF PositionInv, LocalsOK
  <2> QED
    BY <1>12, <2>2, <2>3 DEF aesd_ioctl_seek, Result
<1>13. ASSUME NEW p \in Procs, mutex_lock_interruptible(p) \/ QueueWaiter(p)
       PROVE  PositionInv'
  BY <1>2, <1>13 DEF mutex_lock_interruptible, QueueWaiter
<1>14. CASE aesd_init_module \/ aesd_cleanup_module \/ UNCHANGED vars
  BY <1>2, <1>14 DEF aesd_init_module, aesd_cleanup_module, vars
<1> QED
  BY <1>3, <1>4, <1>5, <1>6, <1>7, <1>8, <1>9, <1>10, <1>11, <1>12, <1>13, <1>14, <1>15
  DEF Next, KernelStep

-----------------------------------------------------------------------------
(* One process moves at a time                                             *)

\* Only p may have moved.
OthersWait(p) ==
  \A q \in Procs \ {p} : pc'[q] = pc[q] /\ call'[q] = call[q] /\ local'[q] = local[q]

\* A step of one process leaves the others where they are.
LEMMA OneMoves ==
  ASSUME LockInv, PositionInv, NEW p \in Procs, ProcessStep(p)
  PROVE  OthersWait(p)
<1>0. /\ pc \in [Procs -> Labels] /\ call \in [Procs -> Requests \cup {NoCall}]
      /\ DOMAIN local = Procs
  BY DEF LockInv, ControlInv, PositionInv
<1>1. ASSUME NEW q \in Procs \ {p} PROVE pc'[q] = pc[q] /\ call'[q] = call[q]
  <2>1. (\E l : Goto(p, l)) /\ (UNCHANGED call \/ \E c : call' = [call EXCEPT ![p] = c])
    <3>1. CASE \/ \E c \in Requests : Syscall(p, c)
               \/ mutex_lock_interruptible(p) \/ Interrupted(p) \/ QueueWaiter(p)
               \/ mutex_unlock(p) \/ Return(p)
      BY <3>1 DEF Syscall, mutex_lock_interruptible, Interrupted, QueueWaiter, mutex_unlock,
                  Return, Result
    <3>2. CASE aesd_read_find(p) \/ aesd_read_copy(p)
      BY <3>2 DEF aesd_read_find, aesd_read_copy, BadAccess, Result
    <3>3. CASE aesd_write_alloc(p) \/ aesd_write_copy(p) \/ aesd_write_commit(p)
      BY <3>3 DEF aesd_write_alloc, aesd_write_copy, aesd_write_commit, BadAccess, Result
    <3>4. CASE aesd_llseek(p) \/ aesd_llseek_target(p) \/ aesd_ioctl(p) \/ aesd_ioctl_seek(p)
      BY <3>4 DEF aesd_llseek, aesd_llseek_target, aesd_ioctl, aesd_ioctl_seek, Result
    <3> QED
      BY <3>1, <3>2, <3>3, <3>4 DEF ProcessStep, KernelStep
  <2> QED
    BY <1>0, <2>1 DEF Goto
<1>2. ASSUME NEW q \in Procs \ {p} PROVE local'[q] = local[q]
  <2>1. CASE \/ \E c \in Requests : Syscall(p, c)
             \/ mutex_lock_interruptible(p) \/ Interrupted(p) \/ QueueWaiter(p)
    BY <1>0, <2>1 DEF Syscall, mutex_lock_interruptible, Interrupted, QueueWaiter, Result
  <2>2. CASE mutex_unlock(p) \/ Return(p)
    BY <1>0, <2>2 DEF mutex_unlock, Return
  <2>3. CASE aesd_read_find(p)
    BY <1>0, <2>3 DEF aesd_read_find, Result
  <2>4. CASE aesd_read_copy(p)
    BY <1>0, <2>4 DEF aesd_read_copy, BadAccess, Result
  <2>5. CASE aesd_write_alloc(p) \/ aesd_write_commit(p)
    BY <1>0, <2>5 DEF aesd_write_alloc, aesd_write_commit, BadAccess, Result
  <2>6. CASE aesd_write_copy(p)
    BY <1>0, <2>6 DEF aesd_write_copy, BadAccess, Result
  <2>7. CASE aesd_llseek(p)
    BY <1>0, <2>7 DEF aesd_llseek, Result
  <2>9. CASE aesd_llseek_target(p)
    BY <1>0, <2>9 DEF aesd_llseek_target
  <2>8. CASE aesd_ioctl(p) \/ aesd_ioctl_seek(p)
    BY <1>0, <2>8 DEF aesd_ioctl, aesd_ioctl_seek, Result
  <2> QED
    BY <2>1, <2>2, <2>3, <2>4, <2>5, <2>6, <2>7, <2>8, <2>9 DEF ProcessStep, KernelStep
<1> QED
  BY <1>1, <1>2 DEF OthersWait

\* While p holds the lock nobody else is in the critical section.
LEMMA OnlyOneInside ==
  ASSUME LockInv, NEW p \in Procs, pc[p] \in CriticalSection, NEW q \in Procs \ {p}
  PROVE  pc[q] \notin CriticalSection
  BY DEF LockInv, HolderInv

\* Nobody is in a system call when the module is loaded or unloaded.
LEMMA NobodyInside ==
  ASSUME LockInv, aesd_init_module \/ aesd_cleanup_module, NEW q \in Procs
  PROVE  pc[q] = "user"
  BY DEF LockInv, UsageInv, aesd_init_module, aesd_cleanup_module

\* Where p's step leads, for the labels the invariants single out.
LEMMA LabelsReached ==
  ASSUME LockInv, NEW p \in Procs, ProcessStep(p)
  PROVE  /\ pc'[p] = "read_copy" => aesd_read_find(p)
         /\ pc'[p] = "write_copy" => aesd_write_alloc(p)
         /\ pc'[p] = "write_commit" => aesd_write_copy(p)
         /\ pc'[p] = "llseek_target" => aesd_llseek(p)
<1>0. pc \in [Procs -> Labels]
  BY DEF LockInv, ControlInv
<1>1. CASE \/ \E c \in Requests : Syscall(p, c)
           \/ Interrupted(p) \/ QueueWaiter(p) \/ mutex_unlock(p) \/ Return(p)
  BY <1>0, <1>1 DEF Syscall, Interrupted, QueueWaiter, mutex_unlock, Return, Result, Goto
<1>2. CASE mutex_lock_interruptible(p)
  <2>1. pc'[p] = FirstStep(call[p].op) /\ call[p].op \in {"read", "write", "llseek", "ioctl"}
    BY <1>0, <1>2, DeviceAssumption DEF mutex_lock_interruptible, Goto, LockInv, ControlInv
  <2> QED
    BY <2>1 DEF FirstStep
<1>3. CASE aesd_read_copy(p)
  BY <1>0, <1>3 DEF aesd_read_copy, BadAccess, Result, Goto
<1>4. CASE aesd_read_find(p) \/ aesd_write_alloc(p) \/ aesd_write_commit(p)
  BY <1>0, <1>4 DEF aesd_read_find, aesd_write_alloc, aesd_write_commit, BadAccess, Result, Goto
<1>5. CASE aesd_write_copy(p)
  BY <1>0, <1>5 DEF aesd_write_copy, BadAccess, Result, Goto
<1>6. CASE aesd_llseek(p) \/ aesd_llseek_target(p) \/ aesd_ioctl(p) \/ aesd_ioctl_seek(p)
  BY <1>0, <1>6 DEF aesd_llseek, aesd_llseek_target, aesd_ioctl, aesd_ioctl_seek, Result, Goto
<1> QED
  BY <1>1, <1>2, <1>3, <1>4, <1>5, <1>6 DEF ProcessStep, KernelStep

\* The place aesd_read found is still inside its entry when it copies.
LEMMA ReadStep ==
  ASSUME LockInv, DeviceTyped, PositionInv, ReadInv, [Next]_vars
  PROVE  ReadInv'
<1>1. CASE UNCHANGED <<buffer, pc, local>>
  BY <1>1 DEF ReadInv
<1>2. CASE aesd_init_module \/ aesd_cleanup_module
  BY <1>2, NobodyInside DEF aesd_init_module, aesd_cleanup_module, ReadInv
<1>3. ASSUME NEW p \in Procs, ProcessStep(p) PROVE ReadInv'
  <2>1. SUFFICES ASSUME NEW q \in Procs, pc'[q] = "read_copy"
                 PROVE  LET at == local'[q].found IN
                        /\ at.slot \in Slots /\ at.offset \in Nat
                        /\ at.offset < buffer'.entry[at.slot].size
    BY DEF ReadInv
  <2>2. CASE q = p
    <3>1. aesd_read_find(p)
      BY <1>3, <2>1, <2>2, LabelsReached
    <3> DEFINE at == find_entry_offset_for_fpos(size_t(local[p].pos))
    <3>2. pc'[p] # "unlock"
      BY <2>1, <2>2
    <3>3. /\ at # NotFound /\ local' = [local EXCEPT ![p].found = at] /\ UNCHANGED buffer
      BY <3>1, <3>2 DEF aesd_read_find, Result, Goto, device, LockInv, ControlInv
    <3>4. local[p].pos \in Int
      BY DEF PositionInv, LocalsOK
    <3> HIDE DEF at
    <3>5. at = find_entry_offset_for_fpos(size_t(local[p].pos))
      BY DEF at
    <3>6. at \in [slot : Slots, offset : Nat] /\ at.offset < buffer.entry[at.slot].size
      BY <3>3, <3>4, <3>5, FoundByRead
    <3>7. local'[p].found = at
      <4>1. LocalsBecome(p, [pos |-> local[p].pos, found |-> at, ret |-> local[p].ret,
                             buf |-> local[p].buf])
        BY <3>3, LocalAssignments
      <4> QED
        BY <4>1 DEF LocalsBecome
    <3> QED
      BY <2>2, <3>3, <3>6, <3>7
  <2>3. CASE q # p
    <3>1. pc[q] = "read_copy" /\ local'[q] = local[q]
      BY <1>3, <2>1, <2>3, OneMoves DEF OthersWait
    <3>2. UNCHANGED buffer
      <4>1. pc[p] \notin CriticalSection
        BY <2>3, <3>1, OnlyOneInside DEF CriticalSection
      <4>2. ~aesd_write_alloc(p) /\ ~aesd_write_commit(p)
        BY <4>1 DEF aesd_write_alloc, aesd_write_commit, CriticalSection
      <4>3. CASE UNCHANGED device
        BY <4>3 DEF device
      <4> QED
        BY <1>3, <4>2, <4>3, ProcessLeavesDevice
    <3> QED
      BY <3>1, <3>2 DEF ReadInv
  <2> QED
    BY <2>2, <2>3
<1>4. CASE \E f \in Files : aesd_open(f) \/ aesd_release(f)
  BY <1>1, <1>4 DEF aesd_open, aesd_release, device
<1>5. CASE UNCHANGED vars
  BY <1>1, <1>5 DEF vars, device
<1> QED
  BY <1>2, <1>3, <1>4, <1>5 DEF Next, ProcessStep

-----------------------------------------------------------------------------
(* What is stored                                                          *)

\* What a byte of the heap can hold.
Byte == Written \cup {Garbage}

SlotsInv ==
  \A i \in Slots : LET e == buffer.entry[i] IN
    IF e.buffptr = NULL
    THEN e.size = 0
    ELSE /\ e.buffptr \in DOMAIN heap /\ heap[e.buffptr] \in Seq(Written)
         /\ Len(heap[e.buffptr]) = e.size /\ Contains(heap[e.buffptr], NL)
         /\ \A j \in Slots : buffer.entry[j].buffptr = e.buffptr => j = i

\* The block of the unfinished command starts with the bytes written so far.
PartialKept ==
  /\ Len(heap[entry.buffptr]) >= entry.size
  /\ SubSeq(heap[entry.buffptr], 1, entry.size) \in Seq(Written)

HeapInv ==
  /\ DOMAIN heap \subseteq Blocks /\ heap \in [DOMAIN heap -> Seq(Byte)]
  /\ entry.buffptr # NULL => entry.buffptr \in DOMAIN heap /\ entry.buffptr \notin Committed

(***************************************************************************)
(* The unfinished command along a write.  A failed krealloc leaves the     *)
(* size without a block; the next write then allocates a block that only   *)
(* has room for its own bytes, and copying into it is the bad access.      *)
(***************************************************************************)
PartialInv ==
  /\ entry.buffptr # NULL =>
       PartialKept \/ memory = "invalid" \/ \E p \in Procs : pc[p] = "write_copy"
  /\ \A p \in Procs : LET n == Len(call[p].chunk) IN
       /\ pc[p] = "write_copy" =>
            /\ entry.buffptr # NULL
            /\ \/ PartialKept /\ Len(heap[entry.buffptr]) = entry.size + n
               \/ entry.size > 0 /\ Len(heap[entry.buffptr]) = n
       /\ pc[p] = "write_commit" =>
            /\ entry.buffptr # NULL /\ PartialKept
            /\ heap[entry.buffptr] = SubSeq(heap[entry.buffptr], 1, entry.size) \o call[p].chunk

StoreInv == HeapInv /\ SlotsInv /\ PartialInv /\ BytesAccounted

\* After a bad access the process that made it holds the lock for good.
HungInv ==
  /\ memory \in {"ok", "invalid"} /\ owner \in Procs \cup {Nobody}
  /\ memory = "invalid" => owner # Nobody /\ pc[owner] = "oopsed"
  /\ memory = "ok" => LockIsReleased

(***************************************************************************)
(* The allocator's failures the driver gets through: krealloc never fails, *)
(* or it has nothing to extend because every write ends a command.         *)
(***************************************************************************)
NoLostPartial ==
  "alloc" \in Faults => \A c \in Requests : c.op = "write" => Contains(c.chunk, NL)

KeptInv ==
  NoLostPartial => /\ memory = "ok"
                   /\ entry.buffptr = NULL => entry.size = 0
                   /\ entry.buffptr # NULL => PartialKept
                   /\ \A p \in Procs : pc[p] = "write_copy" =>
                        Len(heap[entry.buffptr]) = entry.size + Len(call[p].chunk)
                   /\ "alloc" \in Faults => entry.size = 0

LeakInv ==
  "alloc" \notin Faults =>
    /\ loads \in Nat
    /\ loads = 0 => module = "out" /\ DOMAIN heap = {}
    /\ NothingLeaked

BaseInv == LockInv /\ CallInv /\ DeviceTyped /\ PositionInv /\ ReadInv

-----------------------------------------------------------------------------
(* Sequences of bytes                                                      *)

\* A prefix of a sequence.
LEMMA PrefixSeq ==
  ASSUME NEW S, NEW s \in Seq(S), NEW n \in Nat, n <= Len(s)
  PROVE  SubSeq(s, 1, n) \in Seq(S) /\ Len(SubSeq(s, 1, n)) = n
<1>1. \A i \in 1..n : s[i] \in S
  BY ElementOfSeq
<1>2. /\ SubSeq(s, 1, n) \in Seq(S)
      /\ Len(SubSeq(s, 1, n)) = IF 1 <= n THEN n - 1 + 1 ELSE 0
  BY <1>1, SubSeqProperties
<1> QED
  BY <1>2

\* What is put before something else is a prefix of the whole.
LEMMA PrefixOfConcat ==
  ASSUME NEW S, NEW s \in Seq(S), NEW t \in Seq(S)
  PROVE  SubSeq(s \o t, 1, Len(s)) = s
<1>1. /\ s \o t \in Seq(S) /\ Len(s \o t) = Len(s) + Len(t)
      /\ \A i \in 1..Len(s) : (s \o t)[i] = s[i]
      /\ Len(s) \in Nat /\ Len(t) \in Nat
  BY ConcatProperties, LenProperties
<1>2. \A i \in 1..Len(s) : (s \o t)[i] \in S
  BY <1>1, ElementOfSeq
<1>3. /\ SubSeq(s \o t, 1, Len(s)) \in Seq(S)
      /\ Len(SubSeq(s \o t, 1, Len(s))) = IF 1 <= Len(s) THEN Len(s) - 1 + 1 ELSE 0
      /\ \A i \in 1..(Len(s) - 1 + 1) : SubSeq(s \o t, 1, Len(s))[i] = (s \o t)[1 + i - 1]
  BY <1>1, <1>2, SubSeqProperties
<1>4. ASSUME NEW i \in 1..Len(s) PROVE SubSeq(s \o t, 1, Len(s))[i] = s[i]
  <2>1. i \in 1..(Len(s) - 1 + 1) /\ 1 + i - 1 = i
    BY <1>1
  <2> QED
    BY <1>1, <1>3, <2>1
<1>5. Len(SubSeq(s \o t, 1, Len(s))) = Len(s)
  BY <1>1, <1>3
<1> QED
  BY <1>3, <1>4, <1>5, SeqEqual

\* Fresh memory.
LEMMA FreshSeq ==
  ASSUME NEW n \in Nat
  PROVE  Fresh(n) \in Seq(Byte) /\ Len(Fresh(n)) = n
  BY DEF Fresh, Byte

\* What was written is a sequence of bytes too.
LEMMA WrittenIsByte ==
  ASSUME NEW s \in Seq(Written)
  PROVE  s \in Seq(Byte)
  BY SeqMonotonic DEF Byte

\* Slice from the start of a block is a prefix of its contents.
LEMMA SliceIsPrefix ==
  ASSUME NEW b, NEW n \in Int
  PROVE  Slice(b, 0, n) = SubSeq(heap[b], 1, n)
  BY DEF Slice

-----------------------------------------------------------------------------
(* The steps that leave the stored data alone                              *)

\* Blocks of stored commands that stay as they are keep the slots' invariant.
LEMMA SlotsKept ==
  ASSUME SlotsInv, DeviceTyped, UNCHANGED buffer,
         \A b \in Committed : b \in DOMAIN heap' /\ heap'[b] = heap[b]
  PROVE  SlotsInv'
<1>1. ASSUME NEW i \in Slots, buffer.entry[i].buffptr # NULL
      PROVE  buffer.entry[i].buffptr \in Committed
  BY <1>1 DEF Committed
<1> QED
  BY <1>1 DEF SlotsInv

\* A process that is about to copy what it writes does that next.
LEMMA WriterCopies ==
  ASSUME NEW p \in Procs, ProcessStep(p), pc[p] = "write_copy"
  PROVE  aesd_write_copy(p)
  BY DEF ProcessStep, KernelStep, Syscall, mutex_lock_interruptible, Interrupted, QueueWaiter,
         mutex_unlock, Return, aesd_read_find, aesd_read_copy, aesd_write_alloc,
         aesd_write_commit, aesd_llseek, aesd_llseek_target, aesd_ioctl, aesd_ioctl_seek

\* The processes that wait keep what holds of a write under way.
LEMMA PartialQuiet ==
  ASSUME BaseInv, PartialInv, NEW p \in Procs, ProcessStep(p), ~aesd_write_alloc(p),
         ~aesd_write_copy(p), UNCHANGED <<entry, heap, memory>>
  PROVE  PartialInv'
<1>1. OthersWait(p)
  BY OneMoves DEF BaseInv
<1>2. pc[p] # "write_copy" /\ pc'[p] \notin {"write_copy", "write_commit"}
  BY WriterCopies, LabelsReached DEF BaseInv
<1>3. PartialKept' <=> PartialKept
  BY DEF PartialKept
<1>4. entry'.buffptr # NULL =>
        PartialKept' \/ memory' = "invalid" \/ \E q \in Procs : pc'[q] = "write_copy"
  BY <1>1, <1>2, <1>3 DEF PartialInv, OthersWait
<1>5. ASSUME NEW q \in Procs, pc'[q] \in {"write_copy", "write_commit"}
      PROVE  pc'[q] = pc[q] /\ call'[q] = call[q]
  BY <1>1, <1>2, <1>5 DEF OthersWait
<1> QED
  BY <1>3, <1>4, <1>5, ZenonT(60) DEF PartialInv

-----------------------------------------------------------------------------
(* The steps of a write                                                    *)

\* The writer that is about to allocate finds the unfinished command in order.
LEMMA WriterFindsPartial ==
  ASSUME BaseInv, PartialInv, HungInv, NEW p \in Procs,
         pc[p] \in {"write_alloc", "write_commit"}, entry.buffptr # NULL
  PROVE  PartialKept
<1>1. pc[p] \in CriticalSection
  BY DEF CriticalSection
<1>2. memory # "invalid"
  BY <1>1 DEF BaseInv, LockInv, HolderInv, HungInv
<1>3. ASSUME NEW q \in Procs PROVE pc[q] # "write_copy"
  <2>1. CASE q = p
    BY <2>1
  <2>2. CASE q # p
    BY <1>1, <2>2, OnlyOneInside DEF BaseInv, CriticalSection
  <2> QED
    BY <2>1, <2>2
<1> QED
  BY <1>2, <1>3 DEF PartialInv

\* While p is in the critical section, p is the only writer after its step.
LEMMA OnlyWriter ==
  ASSUME BaseInv, NEW p \in Procs, ProcessStep(p), pc[p] \in CriticalSection,
         NEW q \in Procs, pc'[q] \in {"write_copy", "write_commit"}
  PROVE  q = p
<1>1. SUFFICES ASSUME q # p PROVE FALSE
  OBVIOUS
<1>2. pc[q] \in CriticalSection
  BY <1>1, OneMoves DEF BaseInv, OthersWait, CriticalSection
<1> QED
  BY <1>1, <1>2, OnlyOneInside DEF BaseInv

\* The bytes of entry d in a heap h.
BytesIn(h, d) == IF d.buffptr = NULL THEN << >> ELSE SubSeq(h[d.buffptr], 1, d.size)

\* The bytes written so far, as the block of the unfinished command holds them.
LEMMA PartialPrefix ==
  ASSUME DeviceTyped, HeapInv, entry.buffptr # NULL, PartialKept
  PROVE  LET pre == SubSeq(heap[entry.buffptr], 1, entry.size) IN
         pre \in Seq(Written) /\ Len(pre) = entry.size /\ entry.size \in Nat
<1>1. /\ heap[entry.buffptr] \in Seq(Byte) /\ entry.size \in Nat
      /\ entry.size <= Len(heap[entry.buffptr])
  BY DEF DeviceTyped, HeapInv, PartialKept, Stored
<1>2. Len(SubSeq(heap[entry.buffptr], 1, entry.size)) = entry.size
  BY <1>1, PrefixSeq
<1> QED
  BY <1>1, <1>2 DEF PartialKept

\* A command that had its block keeps its bytes and gets room for the chunk.
RoomMade(p) ==
  (entry.buffptr = NULL => entry.size = 0) /\ entry'.buffptr # NULL =>
    /\ PartialKept' /\ Len(heap'[entry'.buffptr]) = entry'.size + Len(call[p].chunk)
    /\ BytesIn(heap', entry') = BytesIn(heap, entry)

\* kmalloc and krealloc: the unfinished command gets room for the chunk, and
\* no stored command is touched.
LEMMA AllocStep ==
  ASSUME BaseInv, StoreInv, HungInv, NEW p \in Procs, aesd_write_alloc(p)
  PROVE  StoreInv' /\ RoomMade(p)
<1> DEFINE n == Len(call[p].chunk)
           b == entry.buffptr
<1>1. /\ pc[p] = "write_alloc" /\ pc \in [Procs -> Labels]
      /\ UNCHANGED <<buffer, total_bytes, memory, call>>
      /\ n \in Nat /\ entry \in Stored /\ ProcessStep(p)
      /\ DOMAIN heap \subseteq Blocks /\ heap \in [DOMAIN heap -> Seq(Byte)]
  <2>1. call[p] \in Requests /\ call[p].op = "write"
    BY DEF aesd_write_alloc, BaseInv, CallInv
  <2> QED
    BY <2>1, ChunkOfWrite
    DEF aesd_write_alloc, BaseInv, LockInv, ControlInv, DeviceTyped, ProcessStep, KernelStep,
        StoreInv, HeapInv
<1>2. BytesAccounted' /\ Committed' = Committed
  BY <1>1 DEF StoreInv, BytesAccounted, TotalBytesWritten, Committed
<1>3. Committed \subseteq DOMAIN heap /\ NULL \notin Committed
  BY DEF StoreInv, SlotsInv, Committed
<1>4. \A q \in Procs : pc'[q] \in {"write_copy", "write_commit"} => q = p
  BY <1>1, OnlyWriter DEF CriticalSection
<1>5. CASE b # NULL /\ UNCHANGED entry /\ pc'[p] = "write_copy"
           /\ heap' = [heap EXCEPT ![b] = Slice(b, 0, entry.size) \o Fresh(n)]
  <2> DEFINE pre == SubSeq(heap[b], 1, entry.size)
  <2>1. PartialKept /\ b \in DOMAIN heap /\ b \notin Committed
    BY <1>1, <1>5, WriterFindsPartial DEF StoreInv, HeapInv
  <2>2. entry.size \in Nat /\ pre \in Seq(Written) /\ Len(pre) = entry.size
    BY <1>5, <2>1, PartialPrefix DEF BaseInv, StoreInv
  <2>3. Slice(b, 0, entry.size) = pre
    BY <2>2, SliceIsPrefix
  <2> DEFINE new == pre \o Fresh(n)
  <2>4. /\ new \in Seq(Byte) /\ Len(new) = entry.size + n
        /\ SubSeq(new, 1, entry.size) = pre
    <3>1. pre \in Seq(Byte) /\ Fresh(n) \in Seq(Byte) /\ Len(Fresh(n)) = n
      BY <1>1, <2>2, FreshSeq, WrittenIsByte
    <3> HIDE DEF pre
    <3>2. SubSeq(new, 1, Len(pre)) = pre
      BY <3>1, PrefixOfConcat
    <3>3. new \in Seq(Byte) /\ Len(new) = Len(pre) + Len(Fresh(n))
      BY <3>1, ConcatProperties
    <3> HIDE DEF new
    <3> QED
      BY <2>2, <3>1, <3>2, <3>3
  <2> HIDE DEF pre, new
  <2>5. heap' = [heap EXCEPT ![b] = new]
    BY <1>5, <2>3 DEF new
  <2>6. HeapInv'
    BY <1>1, <1>2, <1>5, <2>1, <2>4, <2>5 DEF HeapInv
  <2>7. SlotsInv'
    <3>1. \A c \in Committed : c \in DOMAIN heap' /\ heap'[c] = heap[c]
      BY <1>3, <2>1, <2>5
    <3> QED
      BY <1>1, <3>1, SlotsKept DEF StoreInv, BaseInv
  <2>8. heap'[b] = new /\ entry'.buffptr = b /\ entry'.size = entry.size
    BY <1>5, <2>1, <2>5
  <2>9. PartialKept'
    BY <1>1, <2>2, <2>4, <2>8 DEF PartialKept
  <2>10. PartialInv'
    BY <1>1, <1>4, <1>5, <2>4, <2>8, <2>9 DEF PartialInv
  <2>11. RoomMade(p)
    BY <1>5, <2>4, <2>8, <2>9 DEF RoomMade, BytesIn, pre
  <2> QED
    BY <1>2, <2>6, <2>7, <2>10, <2>11 DEF StoreInv
<1>6. ASSUME b = NULL, NEW a \in FreeBlocks, kmalloc(a, n),
             entry' = [entry EXCEPT !.buffptr = a], pc'[p] = "write_copy"
      PROVE  StoreInv' /\ RoomMade(p)
  <2>1. /\ a \in Blocks /\ a \notin DOMAIN heap /\ a # NULL
        /\ DOMAIN heap' = DOMAIN heap \cup {a} /\ heap'[a] = Fresh(n)
        /\ \A c \in DOMAIN heap : heap'[c] = heap[c]
        /\ heap' = [c \in DOMAIN heap' |-> heap'[c]]
    BY <1>6, DeviceAssumption DEF FreeBlocks, kmalloc
  <2>2. entry'.buffptr = a /\ entry'.size = entry.size /\ entry.size \in Nat
    BY <1>1, <1>6 DEF Stored
  <2>3. Fresh(n) \in Seq(Byte) /\ Len(Fresh(n)) = n
    BY <1>1, FreshSeq
  <2>4. HeapInv'
    BY <1>1, <1>2, <1>3, <2>1, <2>2, <2>3 DEF HeapInv
  <2>5. SlotsInv'
    <3>1. \A c \in Committed : c \in DOMAIN heap' /\ heap'[c] = heap[c]
      BY <1>3, <2>1
    <3> QED
      BY <1>1, <3>1, SlotsKept DEF StoreInv, BaseInv
  <2>6. entry.size = 0 => /\ PartialKept' /\ Len(heap'[a]) = entry.size + n
                          /\ SubSeq(heap'[a], 1, entry.size) = << >>
    BY <1>1, <2>1, <2>2, <2>3, SubSeqEmpty, EmptySeq DEF PartialKept
  <2>7. PartialInv'
    BY <1>1, <1>4, <1>6, <2>1, <2>2, <2>3, <2>6 DEF PartialInv
  <2>8. RoomMade(p)
    BY <1>6, <2>1, <2>2, <2>6 DEF RoomMade, BytesIn
  <2> QED
    BY <1>2, <2>4, <2>5, <2>7, <2>8 DEF StoreInv
<1>7. CASE entry' = [entry EXCEPT !.buffptr = NULL] /\ UNCHANGED heap /\ pc'[p] = "unlock"
  <2>1. entry'.buffptr = NULL
    BY <1>1, <1>7 DEF Stored
  <2>2. SlotsInv'
    BY <1>1, <1>3, <1>7, SlotsKept DEF StoreInv, BaseInv
  <2>3. HeapInv'
    BY <1>1, <1>7, <2>1 DEF HeapInv
  <2>4. PartialInv'
    BY <1>4, <1>7, <2>1 DEF PartialInv
  <2> QED
    BY <1>2, <2>1, <2>2, <2>3, <2>4 DEF StoreInv, RoomMade
<1> QED
  <2>1. CASE write_alloc_succeeds(p) /\ Goto(p, "write_copy")
    <3>1. pc'[p] = "write_copy"
      BY <1>1, <2>1 DEF Goto
    <3> QED
      BY <1>5, <1>6, <2>1, <3>1 DEF write_alloc_succeeds
  <2>2. CASE entry' = [entry EXCEPT !.buffptr = NULL] /\ Result(p, -ENOMEM, "unlock") /\ UNCHANGED heap
    <3>1. pc'[p] = "unlock"
      BY <1>1, <2>2 DEF Goto, Result
    <3> QED
      BY <1>7, <2>2, <3>1
  <2> QED
    BY <2>1, <2>2 DEF aesd_write_alloc

\* copy_from_user: the chunk lands behind the bytes written so far, or the
\* step is a bad access.
LEMMA CopyStep ==
  ASSUME BaseInv, StoreInv, NEW p \in Procs, aesd_write_copy(p)
  PROVE  StoreInv'
<1> DEFINE n == Len(call[p].chunk)
           b == entry.buffptr
<1>1. /\ pc[p] = "write_copy" /\ pc \in [Procs -> Labels]
      /\ UNCHANGED <<buffer, entry, total_bytes, call>>
      /\ entry \in Stored /\ ProcessStep(p)
      /\ DOMAIN heap \subseteq Blocks /\ heap \in [DOMAIN heap -> Seq(Byte)]
  BY DEF aesd_write_copy, BadAccess, device, BaseInv, LockInv, ControlInv, DeviceTyped,
         ProcessStep, KernelStep, StoreInv, HeapInv
<1>2. call[p].chunk \in Seq(Written) /\ n \in Nat
  BY <1>1, ChunkOfWrite DEF BaseInv, CallInv
<1>3. BytesAccounted' /\ Committed' = Committed
  BY <1>1 DEF StoreInv, BytesAccounted, TotalBytesWritten, Committed
<1>4. Committed \subseteq DOMAIN heap
  BY DEF StoreInv, SlotsInv, Committed
<1>5. \A q \in Procs : pc'[q] \in {"write_copy", "write_commit"} => q = p
  BY <1>1, OnlyWriter DEF CriticalSection
<1>6. b # NULL /\ b \in DOMAIN heap /\ b \notin Committed /\ entry.size \in Nat
  BY <1>1 DEF StoreInv, HeapInv, PartialInv, Stored
<1>7. ASSUME UNCHANGED heap, pc'[p] \notin {"write_copy", "write_commit"},
             PartialKept \/ memory' = "invalid"
      PROVE  StoreInv'
  <2>1. HeapInv'
    BY <1>1, <1>3, <1>6, <1>7 DEF HeapInv
  <2>2. SlotsInv'
    BY <1>1, <1>4, <1>7, SlotsKept DEF StoreInv, BaseInv
  <2>3. PartialInv'
    BY <1>1, <1>5, <1>7 DEF PartialInv, PartialKept
  <2> QED
    BY <1>3, <2>1, <2>2, <2>3 DEF StoreInv
<1>8. CASE ~InBlock(b, entry.size, n)
  <2>1. BadAccess(p)
    BY <1>8 DEF aesd_write_copy
  <2> QED
    BY <1>1, <1>7, <2>1 DEF BadAccess, Goto
<1>9. CASE InBlock(b, entry.size, n)
  <2>1. PartialKept /\ Len(heap[b]) = entry.size + n
    BY <1>1, <1>2, <1>6, <1>9 DEF InBlock, StoreInv, PartialInv
  <2> DEFINE pre == SubSeq(heap[b], 1, entry.size)
             new == pre \o call[p].chunk
  <2>2. pre \in Seq(Written) /\ Len(pre) = entry.size
    BY <1>6, <2>1, PartialPrefix DEF BaseInv, StoreInv
  <2>3. Slice(b, 0, entry.size) = pre
    BY <1>6, SliceIsPrefix
  <2>4. CASE pc'[p] = "write_commit" /\ heap' = [heap EXCEPT ![b] = Slice(b, 0, entry.size) \o call[p].chunk]
    <3> HIDE DEF pre
    <3>1. new \in Seq(Written) /\ Len(new) = entry.size + n
      <4>1. new \in Seq(Written) /\ Len(new) = Len(pre) + Len(call[p].chunk)
        BY <1>2, <2>2, ConcatProperties
      <4> HIDE DEF new
      <4> QED
        BY <2>2, <4>1
    <3>2. SubSeq(new, 1, entry.size) = pre
      BY <1>2, <2>2, PrefixOfConcat
    <3>3. heap' = [heap EXCEPT ![b] = new]
      BY <2>3, <2>4
    <3>4. heap'[b] = SubSeq(heap'[b], 1, entry.size) \o call[p].chunk
      BY <1>6, <3>2, <3>3
    <3> HIDE DEF new
    <3>5. new \in Seq(Byte)
      BY <3>1, WrittenIsByte
    <3>6. HeapInv'
      BY <1>1, <1>3, <1>6, <3>3, <3>5 DEF HeapInv
    <3>7. SlotsInv'
      <4>1. \A c \in Committed : c \in DOMAIN heap' /\ heap'[c] = heap[c]
        BY <1>4, <1>6, <3>3
      <4> QED
        BY <1>1, <4>1, SlotsKept DEF StoreInv, BaseInv
    <3>8. PartialKept'
      BY <1>1, <1>2, <1>6, <2>2, <3>1, <3>2, <3>3, SMTT(60) DEF PartialKept
    <3>9. PartialInv'
      BY <1>1, <1>5, <1>6, <2>4, <3>4, <3>8 DEF PartialInv
    <3> QED
      BY <1>3, <3>6, <3>7, <3>9 DEF StoreInv
  <2>5. CASE pc'[p] = "unlock" /\ UNCHANGED heap
    BY <1>7, <2>1, <2>5
  <2> QED
    BY <1>1, <1>9, <2>4, <2>5 DEF aesd_write_copy, Result, Goto
<1> QED
  BY <1>8, <1>9

\* A commit whose kfree gets NULL or an allocated block.
Commits(p) ==
  LET e == [entry EXCEPT !.size = @ + Len(call[p].chunk)]
  IN /\ pc[p] = "write_commit"
     /\ IF Contains(Slice(e.buffptr, 0, e.size), NL)
        THEN commit_entry(e)
        ELSE entry' = e /\ UNCHANGED <<buffer, total_bytes, heap>>
     /\ Result(p, Len(call[p].chunk), "unlock")
     /\ UNCHANGED <<owner, memory, life, f_pos, call>>

\* Every commit is one: the blocks of stored commands are allocated.
LEMMA CommitFreesItsOwn ==
  ASSUME BaseInv, StoreInv, NEW p \in Procs, aesd_write_commit(p)
  PROVE  Commits(p)
<1>1. buffer.in_offs \in Slots
  BY DEF BaseInv, DeviceTyped, BufferInv, BufferOf
<1>2. buffer.entry[buffer.in_offs].buffptr \in DOMAIN heap \cup {NULL}
  BY <1>1 DEF StoreInv, SlotsInv
<1> QED
  BY <1>2 DEF aesd_write_commit, Commits

\* The write grows the unfinished command or makes it a stored one: the oldest
\* command's block goes, its size leaves the count.
LEMMA CommitStep ==
  ASSUME BaseInv, StoreInv, NEW p \in Procs, aesd_write_commit(p)
  PROVE  StoreInv'
<1> DEFINE n == Len(call[p].chunk)
           b == entry.buffptr
           e == [entry EXCEPT !.size = @ + n]
<1>1. /\ pc[p] = "write_commit" /\ pc \in [Procs -> Labels]
      /\ UNCHANGED <<memory, call>> /\ pc'[p] = "unlock"
      /\ entry \in Stored /\ BufferInv(Stored) /\ ProcessStep(p)
      /\ DOMAIN heap \subseteq Blocks /\ heap \in [DOMAIN heap -> Seq(Byte)]
  BY CommitFreesItsOwn DEF Commits, Result, Goto, BaseInv, LockInv, ControlInv, DeviceTyped,
                           ProcessStep, KernelStep, StoreInv, HeapInv
<1>2. call[p].chunk \in Seq(Written) /\ n \in Nat
  BY <1>1, ChunkOfWrite DEF BaseInv, CallInv
<1>3. \A q \in Procs : pc'[q] \notin {"write_copy", "write_commit"}
  BY <1>1, OnlyWriter DEF CriticalSection
<1>4. /\ b # NULL /\ b \in DOMAIN heap /\ b \notin Committed /\ entry.size \in Nat
      /\ heap[b] \in Seq(Written) /\ Len(heap[b]) = entry.size + n
  <2> DEFINE pre == SubSeq(heap[b], 1, entry.size)
  <2>1. /\ b # NULL /\ b \in DOMAIN heap /\ b \notin Committed /\ entry.size \in Nat
        /\ PartialKept /\ heap[b] = pre \o call[p].chunk
    BY <1>1 DEF StoreInv, HeapInv, PartialInv, Stored
  <2>2. pre \in Seq(Written) /\ Len(pre) = entry.size
    BY <2>1, PartialPrefix DEF BaseInv, StoreInv
  <2> HIDE DEF pre
  <2>3. /\ pre \o call[p].chunk \in Seq(Written)
        /\ Len(pre \o call[p].chunk) = Len(pre) + Len(call[p].chunk)
    BY <1>2, <2>2, ConcatProperties
  <2>4. heap[b] \in Seq(Written) /\ Len(heap[b]) = Len(pre) + Len(call[p].chunk)
    BY <2>1, <2>3, Zenon
  <2> QED
    BY <2>1, <2>2, <2>4
<1>5. e.buffptr = b /\ e.size = entry.size + n /\ e \in Stored
  BY <1>1, <1>2, <1>4, SMTT(60) DEF Stored
<1>6. SubSeq(heap[b], 1, e.size) = heap[b] /\ Slice(e.buffptr, 0, e.size) = heap[b]
  <2> HIDE DEF e
  <2>1. SubSeq(heap[b], 1, Len(heap[b])) = heap[b]
    BY <1>4, SubSeqFull
  <2>2. Slice(b, 0, e.size) = SubSeq(heap[b], 1, e.size)
    BY <1>2, <1>4, <1>5, SliceIsPrefix
  <2> QED
    BY <1>4, <1>5, <2>1, <2>2
<1>7. \/ Contains(heap[b], NL) /\ commit_entry(e)
      \/ entry' = e /\ UNCHANGED <<buffer, total_bytes, heap>>
  <2> HIDE DEF e
  <2>1. Contains(Slice(e.buffptr, 0, e.size), NL) <=> Contains(heap[b], NL)
    BY <1>6
  <2> QED
    BY <2>1, CommitFreesItsOwn DEF Commits, e
<1> HIDE DEF e
<1>8. CASE entry' = e /\ UNCHANGED <<buffer, total_bytes, heap>>
  <2>1. BytesAccounted' /\ Committed' = Committed /\ Committed \subseteq DOMAIN heap
    BY <1>8 DEF StoreInv, BytesAccounted, TotalBytesWritten, Committed, SlotsInv
  <2>2. HeapInv'
    BY <1>1, <1>4, <1>5, <1>8, <2>1 DEF HeapInv
  <2>3. SlotsInv'
    BY <1>8, <2>1, SlotsKept DEF StoreInv, BaseInv
  <2>4. PartialKept'
    BY <1>2, <1>4, <1>5, <1>6, <1>8 DEF PartialKept
  <2>5. PartialInv'
    BY <1>3, <2>4 DEF PartialInv
  <2> QED
    BY <2>1, <2>2, <2>3, <2>5 DEF StoreInv
<1>9. CASE Contains(heap[b], NL) /\ commit_entry(e)
  <2> DEFINE k == buffer.in_offs
             old == buffer.entry[k]
  <2>1. /\ heap' = [c \in DOMAIN heap \ {old.buffptr} |-> heap[c]]
        /\ total_bytes' = total_bytes - (IF old.buffptr # NULL THEN old.size ELSE 0) + e.size
        /\ buffer'.entry = [buffer.entry EXCEPT ![k] = e]
        /\ entry'.buffptr = NULL
    BY <1>9, DeviceAssumption DEF commit_entry, aesd_circular_buffer_add_entry
  <2>2. k \in Slots /\ buffer.entry \in [Slots -> Stored] /\ old \in Stored
    BY <1>1 DEF BufferInv, BufferOf
  <2>3. old.buffptr = NULL => old.size = 0
    BY <2>2 DEF StoreInv, SlotsInv
  <2>4. b \in DOMAIN heap' /\ heap'[b] = heap[b]
    BY <1>4, <2>1, <2>2 DEF Committed
  <2>5. ASSUME NEW i \in Slots, i # k, buffer.entry[i].buffptr # NULL
        PROVE  LET c == buffer.entry[i].buffptr IN c \in DOMAIN heap' /\ heap'[c] = heap[c] /\ c # b
    <3>1. buffer.entry[i].buffptr # old.buffptr /\ buffer.entry[i].buffptr \in DOMAIN heap
      BY <2>2, <2>5 DEF StoreInv, SlotsInv
    <3>2. buffer.entry[i].buffptr # b
      BY <1>4, <2>5 DEF Committed
    <3> QED
      BY <2>1, <3>1, <3>2
  <2>6. /\ buffer'.entry[k] = e
        /\ \A i \in Slots : i # k => buffer'.entry[i] = buffer.entry[i]
    BY <2>1, <2>2
  <2>7. SlotsInv'
    <3>1. SUFFICES ASSUME NEW i \in Slots
                   PROVE  LET d == buffer'.entry[i] IN
                          IF d.buffptr = NULL
                          THEN d.size = 0
                          ELSE /\ d.buffptr \in DOMAIN heap' /\ heap'[d.buffptr] \in Seq(Written)
                               /\ Len(heap'[d.buffptr]) = d.size /\ Contains(heap'[d.buffptr], NL)
                               /\ \A j \in Slots : buffer'.entry[j].buffptr = d.buffptr => j = i
      BY DEF SlotsInv
    <3>2. CASE i = k
      <4>1. \A j \in Slots : buffer'.entry[j].buffptr = b => j = i
        BY <1>4, <2>5, <2>6, <3>2
      <4> QED
        BY <1>4, <1>5, <1>9, <2>4, <2>6, <3>2, <4>1
    <3>3. CASE i # k /\ buffer.entry[i].buffptr # NULL
      <4>1. \A j \in Slots : buffer'.entry[j].buffptr = buffer.entry[i].buffptr => j = i
        BY <1>5, <2>5, <2>6, <3>3 DEF StoreInv, SlotsInv
      <4> QED
        BY <2>5, <2>6, <3>3, <4>1 DEF StoreInv, SlotsInv
    <3>4. CASE i # k /\ buffer.entry[i].buffptr = NULL
      BY <2>6, <3>4 DEF StoreInv, SlotsInv
    <3> QED
      BY <3>2, <3>3, <3>4
  <2>8. HeapInv'
    BY <1>1, <2>1 DEF HeapInv
  <2>9. PartialInv'
    BY <1>3, <2>1 DEF PartialInv
  <2>10. BytesAccounted'
    <3> DEFINE f == [i \in Slots |-> buffer.entry[i].size]
               g == [i \in Slots |-> buffer'.entry[i].size]
    <3>1. /\ f \in [0..(MaxWriteOps - 1) -> Nat] /\ g \in [0..(MaxWriteOps - 1) -> Nat]
          /\ \A j \in 0..(MaxWriteOps - 1) : j # k => g[j] = f[j]
          /\ f[k] = old.size /\ g[k] = e.size /\ k \in 0..(MaxWriteOps - 1)
      <4>1. \A i \in Slots : buffer.entry[i].size \in Nat /\ buffer'.entry[i].size \in Nat
        BY <1>5, <2>2, <2>6 DEF Stored
      <4> QED
        BY <2>2, <2>6, <4>1 DEF Slots
    <3>2. TotalBytesWritten = SumUpTo(f, MaxWriteOps) /\ TotalBytesWritten' = SumUpTo(g, MaxWriteOps)
      BY DEF TotalBytesWritten
    <3> HIDE DEF f, g, k, old
    <3>3. MaxWriteOps \in Nat /\ k < MaxWriteOps /\ MaxWriteOps \in 0..MaxWriteOps
      BY <3>1, BufferAssumption
    <3>4. SumUpTo(g, MaxWriteOps) = SumUpTo(f, MaxWriteOps) - f[k] + g[k]
      BY <3>1, <3>3, SumUpToUpdate
    <3>5. total_bytes = SumUpTo(f, MaxWriteOps)
      BY <3>2 DEF StoreInv, BytesAccounted
    <3>6. old.size = IF old.buffptr # NULL THEN old.size ELSE 0
      BY <2>3
    <3> QED
      BY <2>1, <3>1, <3>2, <3>4, <3>5, <3>6 DEF BytesAccounted
  <2> QED
    BY <2>7, <2>8, <2>9, <2>10 DEF StoreInv
<1> QED
  BY <1>7, <1>8, <1>9

-----------------------------------------------------------------------------
(* Every step keeps the store                                              *)

\* A read never leaves the block of the entry it found.
LEMMA ReadInBlock ==
  ASSUME BaseInv, StoreInv, NEW p \in Procs, aesd_read_copy(p)
  PROVE  UNCHANGED <<device, heap, memory>> /\ ~BadAccess(p)
<1> DEFINE at == local[p].found
           e == buffer.entry[at.slot]
           n == BytesToRead(p)
<1>1. /\ pc[p] = "read_copy" /\ pc \in [Procs -> Labels]
      /\ at.slot \in Slots /\ at.offset \in Nat /\ at.offset < e.size
  BY DEF aesd_read_copy, BaseInv, ReadInv, LockInv, ControlInv
<1>2. n \in Nat /\ at.offset + n <= e.size
  BY <1>1, BytesToReadBounds DEF BaseInv
<1>3. e.buffptr \in DOMAIN heap /\ Len(heap[e.buffptr]) = e.size
  BY <1>1 DEF StoreInv, SlotsInv
<1>4. InBlock(e.buffptr, at.offset, n)
  BY <1>2, <1>3 DEF InBlock
<1>5. UNCHANGED <<device, heap, memory>> /\ Goto(p, "unlock")
  BY <1>4 DEF aesd_read_copy, Result
<1> QED
  BY <1>1, <1>5 DEF BadAccess, Goto

\* What the store consists of changes in the three steps of a write only.
LEMMA QuietProcess ==
  ASSUME BaseInv, StoreInv, NEW p \in Procs, ProcessStep(p),
         ~aesd_write_alloc(p), ~aesd_write_copy(p), ~aesd_write_commit(p)
  PROVE  UNCHANGED <<buffer, entry, total_bytes, heap, memory>>
<1>1. UNCHANGED device
  BY ProcessLeavesDevice
<1>2. UNCHANGED <<heap, memory>>
  <2>1. CASE \/ \E c \in Requests : Syscall(p, c)
             \/ mutex_lock_interruptible(p) \/ Interrupted(p) \/ QueueWaiter(p)
             \/ mutex_unlock(p) \/ Return(p)
    BY <2>1 DEF Syscall, mutex_lock_interruptible, Interrupted, QueueWaiter, mutex_unlock, Return
  <2>2. CASE \/ aesd_read_find(p) \/ aesd_llseek(p) \/ aesd_llseek_target(p)
             \/ aesd_ioctl(p) \/ aesd_ioctl_seek(p)
    BY <2>2 DEF aesd_read_find, aesd_llseek, aesd_llseek_target, aesd_ioctl, aesd_ioctl_seek
  <2>3. CASE aesd_read_copy(p)
    BY <2>3, ReadInBlock
  <2> QED
    BY <2>1, <2>2, <2>3 DEF ProcessStep, KernelStep
<1> QED
  BY <1>1, <1>2 DEF device

\* Loading and unloading the module leave an empty store.
LEMMA ResetStep ==
  ASSUME BaseInv, StoreInv, aesd_init_module \/ aesd_cleanup_module
  PROVE  StoreInv'
<1>1. /\ buffer' = EmptyBuffer /\ entry' = NoEntry /\ total_bytes' = 0
      /\ UNCHANGED <<heap, pc>>
  BY DEF aesd_init_module, aesd_cleanup_module, ZeroDevice
<1>2. NoEntry.buffptr = NULL /\ NoEntry.size = 0
  BY DeviceAssumption
<1>3. SlotsInv'
  BY <1>1, <1>2 DEF SlotsInv, EmptyBuffer
<1>4. HeapInv'
  BY <1>1, <1>2 DEF StoreInv, HeapInv
<1>5. PartialInv'
  BY <1>1, <1>2, NobodyInside DEF BaseInv, PartialInv
<1>6. BytesAccounted'
  BY <1>1, EmptyBufferBytes DEF BytesAccounted
<1> QED
  BY <1>3, <1>4, <1>5, <1>6 DEF StoreInv

\* Nothing of the store has changed.
LEMMA StoreUnchanged ==
  ASSUME StoreInv, UNCHANGED <<buffer, entry, total_bytes, heap>>, PartialInv'
  PROVE  StoreInv'
<1>1. HeapInv'
  BY DEF StoreInv, HeapInv, Committed
<1>2. SlotsInv'
  BY DEF StoreInv, SlotsInv
<1>3. BytesAccounted'
  BY DEF StoreInv, BytesAccounted, TotalBytesWritten
<1> QED
  BY <1>1, <1>2, <1>3 DEF StoreInv

\* Every step keeps what is stored intact, whatever fails.
LEMMA StoreStep ==
  ASSUME BaseInv, StoreInv, HungInv, [Next]_vars
  PROVE  StoreInv'
<1>1. CASE aesd_init_module \/ aesd_cleanup_module
  BY <1>1, ResetStep
<1>2. ASSUME NEW p \in Procs, ProcessStep(p) PROVE StoreInv'
  <2>1. CASE aesd_write_alloc(p)
    BY <2>1, AllocStep
  <2>2. CASE aesd_write_copy(p)
    BY <2>2, CopyStep
  <2>3. CASE aesd_write_commit(p)
    BY <2>3, CommitStep
  <2>4. CASE ~aesd_write_alloc(p) /\ ~aesd_write_copy(p) /\ ~aesd_write_commit(p)
    <3>1. UNCHANGED <<buffer, entry, total_bytes, heap, memory>>
      BY <1>2, <2>4, QuietProcess
    <3>2. PartialInv'
      BY <1>2, <2>4, <3>1, PartialQuiet DEF StoreInv
    <3> QED
      BY <3>1, <3>2, StoreUnchanged
  <2> QED
    BY <2>1, <2>2, <2>3, <2>4
<1>3. CASE UNCHANGED <<buffer, entry, total_bytes, heap, memory, pc, call>>
  <2>1. PartialInv'
    BY <1>3 DEF StoreInv, PartialInv, PartialKept
  <2> QED
    BY <1>3, <2>1, StoreUnchanged
<1>4. CASE \E f \in Files : aesd_open(f) \/ aesd_release(f)
  BY <1>3, <1>4 DEF aesd_open, aesd_release, device
<1>5. CASE UNCHANGED vars
  BY <1>3, <1>5 DEF vars, device
<1> QED
  BY <1>1, <1>2, <1>4, <1>5 DEF Next, ProcessStep

-----------------------------------------------------------------------------
(* Who holds the lock                                                      *)

\* The owner is inside, or it has made a bad access and never lets go.
LEMMA HungStep ==
  ASSUME DocumentedRequests, BaseInv, StoreInv, HungInv, [Next]_vars
  PROVE  HungInv'
<1>0. /\ pc \in [Procs -> Labels] /\ memory \in {"ok", "invalid"} /\ owner \in Procs \cup {Nobody}
      /\ owner # Nobody => pc[owner] \in CriticalSection \cup {"oopsed"}
  BY DEF BaseInv, LockInv, ControlInv, HungInv, LockIsReleased
<1>1. CASE aesd_init_module \/ aesd_cleanup_module
  <2>1. memory = "ok"
    <3>1. \A q \in Procs : pc[q] = "user"
      BY <1>1, NobodyInside DEF BaseInv
    <3> QED
      BY <1>0, <3>1 DEF HungInv
  <2>2. owner' = Nobody /\ UNCHANGED memory
    BY <1>1 DEF aesd_init_module, aesd_cleanup_module
  <2> QED
    BY <2>1, <2>2 DEF HungInv, LockIsReleased
<1>2. ASSUME NEW p \in Procs, mutex_lock_interruptible(p) PROVE HungInv'
  <2>1. /\ owner = Nobody /\ owner' = p /\ UNCHANGED memory
        /\ pc'[p] = FirstStep(call[p].op) /\ call[p].op \in {"read", "write", "llseek", "ioctl"}
    BY <1>0, <1>2, DeviceAssumption
    DEF mutex_lock_interruptible, Goto, BaseInv, LockInv, ControlInv
  <2>2. pc'[p] \in CriticalSection
    BY <2>1 DEF FirstStep, CriticalSection
  <2> QED
    BY <1>0, <2>1, <2>2 DEF HungInv, LockIsReleased
<1>3. ASSUME NEW p \in Procs, mutex_unlock(p) PROVE HungInv'
  <2>1. pc[p] = "unlock" /\ owner = p /\ owner' = Nobody /\ UNCHANGED memory
    BY <1>3 DEF mutex_unlock, BaseInv, LockInv, HolderInv, CriticalSection
  <2>2. memory = "ok"
    BY <1>0, <2>1 DEF HungInv
  <2> QED
    BY <2>1, <2>2 DEF HungInv, LockIsReleased
<1>4. ASSUME NEW p \in Procs, NEW l \in Labels, Goto(p, l), UNCHANGED <<owner, memory>>,
             \/ pc[p] \notin CriticalSection \cup {"oopsed"}
             \/ l \in CriticalSection /\ pc[p] \in CriticalSection
      PROVE  HungInv'
  <2>1. CASE owner = p
    <3>1. pc[p] \in CriticalSection /\ l \in CriticalSection /\ pc'[p] = l
      BY <1>0, <1>4, <2>1, DeviceAssumption DEF Goto
    <3>2. memory = "ok"
      BY <1>0, <2>1, <3>1, DeviceAssumption DEF HungInv, CriticalSection
    <3> QED
      BY <1>0, <1>4, <2>1, <3>1, <3>2 DEF HungInv, LockIsReleased
  <2>2. CASE owner # p
    <3>1. owner # Nobody => pc'[owner] = pc[owner]
      BY <1>0, <1>4, <2>2 DEF Goto
    <3> QED
      BY <1>4, <3>1 DEF HungInv, LockIsReleased
  <2> QED
    BY <2>1, <2>2
<1>5. ASSUME NEW p \in Procs,
             \/ \E c \in Requests : Syscall(p, c)
             \/ Interrupted(p) \/ QueueWaiter(p) \/ Return(p) \/ aesd_ioctl(p)
      PROVE  HungInv'
  <2>1. /\ pc[p] \notin CriticalSection \cup {"oopsed"} /\ UNCHANGED <<owner, memory>>
        /\ \E l \in Labels : Goto(p, l)
    BY <1>5 DEF Syscall, Interrupted, QueueWaiter, Return, aesd_ioctl, Result, CriticalSection, Labels
  <2> QED
    BY <1>4, <2>1
<1>6. ASSUME NEW p \in Procs,
             \/ aesd_read_find(p) \/ aesd_read_copy(p) \/ aesd_write_alloc(p) \/ aesd_write_commit(p)
             \/ aesd_llseek(p) \/ aesd_llseek_target(p) \/ aesd_ioctl_seek(p)
      PROVE  HungInv'
  <2>1. /\ pc[p] \in CriticalSection /\ UNCHANGED <<owner, memory>>
        /\ \E l \in Labels \cap CriticalSection : Goto(p, l)
    <3> USE DEF Result, CriticalSection, Labels
    <3>1. CASE aesd_read_find(p)
      BY <3>1, SMTT(60) DEF aesd_read_find
    <3>2. CASE aesd_read_copy(p)
      BY <3>2, ReadInBlock DEF aesd_read_copy
    <3>3. CASE aesd_write_alloc(p)
      BY <3>3 DEF aesd_write_alloc
    <3>4. CASE aesd_write_commit(p)
      BY <3>4, CommitFreesItsOwn DEF Commits
    <3>5. CASE aesd_ioctl_seek(p)
      BY <3>5 DEF aesd_ioctl_seek
    <3>6. CASE aesd_llseek(p)
      <4>1. call[p].whence \in 0..2
        BY <3>6 DEF aesd_llseek, BaseInv, CallInv, DocumentedRequests
      <4> QED
        BY <3>6, <4>1 DEF aesd_llseek
    <3>7. CASE aesd_llseek_target(p)
      BY <3>7 DEF aesd_llseek_target
    <3> QED
      BY <1>6, <3>1, <3>2, <3>3, <3>4, <3>5, <3>6, <3>7
  <2> QED
    BY <1>4, <2>1
<1>7. ASSUME NEW p \in Procs, aesd_write_copy(p) PROVE HungInv'
  <2>1. pc[p] = "write_copy" /\ owner = p /\ UNCHANGED owner
    BY <1>7 DEF aesd_write_copy, BadAccess, BaseInv, LockInv, HolderInv, CriticalSection
  <2>2. CASE BadAccess(p)
    BY <1>0, <2>1, <2>2, DeviceAssumption DEF BadAccess, Goto, HungInv
  <2>3. CASE ~BadAccess(p)
    <3>1. UNCHANGED memory /\ \E l \in Labels \cap CriticalSection : Goto(p, l)
      BY <1>7, <2>3 DEF aesd_write_copy, Result, Labels, CriticalSection
    <3> QED
      BY <1>4, <2>1, <3>1 DEF CriticalSection
  <2> QED
    BY <2>2, <2>3
<1>8. CASE UNCHANGED <<owner, memory, pc>>
  BY <1>8 DEF HungInv, LockIsReleased
<1>9. CASE UNCHANGED vars \/ \E f \in Files : aesd_open(f) \/ aesd_release(f)
  BY <1>8, <1>9 DEF vars, aesd_open, aesd_release
<1> QED
  BY <1>1, <1>2, <1>3, <1>5, <1>6, <1>7, <1>9 DEF Next, KernelStep

-----------------------------------------------------------------------------
(* Nothing lost, nothing leaked                                            *)

\* A newline stays in the line when bytes are put before it.
LEMMA ContainsAfter ==
  ASSUME NEW S, NEW s \in Seq(S), NEW t \in Seq(S), NEW x, Contains(t, x)
  PROVE  Contains(s \o t, x)
<1>1. PICK i \in 1..Len(t) : t[i] = x
  BY DEF Contains
<1>2. /\ Len(s) \in Nat /\ Len(t) \in Nat /\ Len(s \o t) = Len(s) + Len(t)
      /\ \A j \in 1..(Len(s) + Len(t)) : (s \o t)[j] = IF j <= Len(s) THEN s[j] ELSE t[j - Len(s)]
  BY ConcatProperties, LenProperties
<1>3. Len(s) + i \in 1..Len(s \o t) /\ (s \o t)[Len(s) + i] = x
  BY <1>1, <1>2
<1> QED
  BY <1>3 DEF Contains

\* A write that brings a newline leaves no unfinished command.
LEMMA LineCompletes ==
  ASSUME BaseInv, StoreInv, NEW p \in Procs, aesd_write_commit(p), Contains(call[p].chunk, NL)
  PROVE  entry' = NoEntry
<1> DEFINE n == Len(call[p].chunk)
           b == entry.buffptr
           pre == SubSeq(heap[b], 1, entry.size)
           e == [entry EXCEPT !.size = @ + n]
<1>1. /\ pc[p] = "write_commit" /\ entry \in Stored /\ b # NULL /\ b \in DOMAIN heap
      /\ PartialKept /\ heap[b] = pre \o call[p].chunk /\ heap[b] \in Seq(Byte)
  BY DEF aesd_write_commit, BaseInv, DeviceTyped, StoreInv, HeapInv, PartialInv
<1>2. call[p].chunk \in Seq(Written) /\ n \in Nat
  BY <1>1, ChunkOfWrite DEF BaseInv, CallInv
<1>3. pre \in Seq(Written) /\ Len(pre) = entry.size /\ entry.size \in Nat
  BY <1>1, PartialPrefix DEF BaseInv, StoreInv
<1> HIDE DEF pre
<1>4. /\ Len(pre \o call[p].chunk) = Len(pre) + Len(call[p].chunk)
      /\ Contains(pre \o call[p].chunk, NL)
  BY <1>2, <1>3, ConcatProperties, ContainsAfter
<1>5. Len(heap[b]) = entry.size + n /\ Contains(heap[b], NL)
  BY <1>1, <1>3, <1>4
<1>6. e.buffptr = b /\ e.size = entry.size + n
  BY <1>1, <1>2, <1>3 DEF Stored
<1> HIDE DEF e
<1>7. Slice(e.buffptr, 0, e.size) = heap[b]
  <2>1. SubSeq(heap[b], 1, Len(heap[b])) = heap[b]
    BY <1>1, SubSeqFull
  <2>2. Slice(b, 0, e.size) = SubSeq(heap[b], 1, e.size)
    BY <1>2, <1>3, <1>6, SliceIsPrefix
  <2> QED
    BY <1>5, <1>6, <2>1, <2>2
<1>8. Contains(Slice(e.buffptr, 0, e.size), NL)
  BY <1>5, <1>7
<1> QED
  BY <1>8, CommitFreesItsOwn DEF Commits, commit_entry, e

\* Unless krealloc fails on it, the unfinished command keeps its block and its
\* bytes, and the driver stays in its memory.
LEMMA KeptStep ==
  ASSUME BaseInv, StoreInv, StoreInv', HungInv, KeptInv, [Next]_vars
  PROVE  KeptInv'
<1> SUFFICES ASSUME NoLostPartial
             PROVE  /\ memory' = "ok"
                    /\ entry'.buffptr = NULL => entry'.size = 0
                    /\ entry'.buffptr # NULL => PartialKept'
                    /\ \A q \in Procs : pc'[q] = "write_copy" =>
                         Len(heap'[entry'.buffptr]) = entry'.size + Len(call'[q].chunk)
                    /\ "alloc" \in Faults => entry'.size = 0
  BY DEF KeptInv, NoLostPartial
<1>0. /\ memory = "ok" /\ pc \in [Procs -> Labels] /\ entry \in Stored
      /\ entry.buffptr = NULL => entry.size = 0
      /\ entry.buffptr # NULL => PartialKept
      /\ \A q \in Procs : pc[q] = "write_copy" =>
           Len(heap[entry.buffptr]) = entry.size + Len(call[q].chunk)
      /\ "alloc" \in Faults => entry.size = 0
  BY DEF KeptInv, BaseInv, LockInv, ControlInv, DeviceTyped
<1>1. CASE aesd_init_module \/ aesd_cleanup_module
  <2>1. entry' = NoEntry /\ UNCHANGED <<memory, pc>> /\ \A q \in Procs : pc[q] = "user"
    BY <1>1, NobodyInside DEF BaseInv, aesd_init_module, aesd_cleanup_module, ZeroDevice
  <2> QED
    BY <1>0, <2>1, DeviceAssumption
<1>2. ASSUME NEW p \in Procs, aesd_write_alloc(p) PROVE KeptInv'
  <2>1. /\ UNCHANGED <<memory, call>> /\ RoomMade(p) /\ ProcessStep(p)
        /\ pc[p] = "write_alloc"
    BY <1>2, AllocStep DEF aesd_write_alloc, ProcessStep, KernelStep
  <2>2. /\ entry'.size = entry.size
        /\ entry'.buffptr = NULL => entry.size = 0
    <3>1. CASE write_alloc_succeeds(p)
      BY <1>0, <3>1, DeviceAssumption DEF write_alloc_succeeds, Stored, FreeBlocks
    <3>2. CASE "alloc" \in Faults /\ entry' = [entry EXCEPT !.buffptr = NULL]
      BY <1>0, <3>2 DEF Stored
    <3> QED
      BY <1>2, <3>1, <3>2 DEF aesd_write_alloc
  <2>3. ASSUME NEW q \in Procs, pc'[q] = "write_copy" PROVE q = p /\ entry'.buffptr # NULL
    BY <2>1, <2>3, OnlyWriter DEF CriticalSection, StoreInv, PartialInv
  <2> QED
    BY <1>0, <2>1, <2>2, <2>3 DEF RoomMade, KeptInv
<1>3. ASSUME NEW p \in Procs, aesd_write_copy(p) PROVE KeptInv'
  <2>1. /\ pc[p] = "write_copy" /\ UNCHANGED <<entry, call>> /\ ProcessStep(p)
        /\ entry.buffptr \in DOMAIN heap /\ entry.buffptr # NULL
    BY <1>3 DEF aesd_write_copy, BadAccess, device, ProcessStep, KernelStep, StoreInv, HeapInv,
                PartialInv
  <2>2. InBlock(entry.buffptr, entry.size, Len(call[p].chunk))
    <3>1. Len(call[p].chunk) \in Nat /\ entry.size \in Nat
      BY <1>0, <2>1, ChunkOfWrite DEF BaseInv, CallInv, Stored
    <3> QED
      BY <1>0, <2>1, <3>1 DEF InBlock
  <2>3. UNCHANGED memory /\ pc'[p] \in {"write_commit", "unlock"}
    BY <1>0, <1>3, <2>2 DEF aesd_write_copy, Result, Goto
  <2>4. \A q \in Procs : pc'[q] # "write_copy"
    BY <2>1, <2>3, OnlyWriter DEF CriticalSection
  <2>5. PartialKept'
    BY <1>0, <2>1, <2>3, <2>4 DEF StoreInv, PartialInv
  <2> QED
    BY <1>0, <2>1, <2>3, <2>4, <2>5 DEF KeptInv
<1>4. ASSUME NEW p \in Procs, aesd_write_commit(p) PROVE KeptInv'
  <2>1. /\ pc[p] = "write_commit" /\ UNCHANGED <<memory, call>> /\ ProcessStep(p) /\ pc'[p] = "unlock"
        /\ entry.buffptr # NULL
    BY <1>0, <1>4, CommitFreesItsOwn
    DEF Commits, Result, Goto, ProcessStep, KernelStep, StoreInv, PartialInv
  <2>2. \A q \in Procs : pc'[q] # "write_copy"
    BY <2>1, OnlyWriter DEF CriticalSection
  <2>3. entry'.buffptr # NULL => PartialKept'
    BY <1>0, <2>1, <2>2 DEF StoreInv, PartialInv
  <2>4. entry'.buffptr = NULL => entry'.size = 0
    <3>1. \/ entry' = NoEntry
          \/ entry' = [entry EXCEPT !.size = @ + Len(call[p].chunk)]
      BY <1>4, CommitFreesItsOwn DEF Commits, commit_entry
    <3> QED
      BY <1>0, <2>1, <3>1, DeviceAssumption DEF Stored
  <2>5. "alloc" \in Faults => entry'.size = 0
    <3>1. "alloc" \in Faults => entry' = NoEntry
      BY <1>4, <2>1, LineCompletes DEF NoLostPartial, BaseInv, CallInv
    <3> QED
      BY <3>1, DeviceAssumption
  <2> QED
    BY <1>0, <2>1, <2>2, <2>3, <2>4, <2>5 DEF KeptInv
<1>5. CASE UNCHANGED <<entry, heap, memory>> /\ \A q \in Procs : pc'[q] = "write_copy" => pc[q] = "write_copy" /\ call'[q] = call[q]
  BY <1>0, <1>5 DEF PartialKept
<1>6. ASSUME NEW p \in Procs, ProcessStep(p),
             ~aesd_write_alloc(p) /\ ~aesd_write_copy(p) /\ ~aesd_write_commit(p)
      PROVE  KeptInv'
  <2>1. UNCHANGED <<entry, heap, memory>>
    BY <1>6, QuietProcess
  <2>2. OthersWait(p) /\ pc'[p] # "write_copy"
    BY <1>6, OneMoves, LabelsReached DEF BaseInv
  <2> QED
    BY <1>5, <2>1, <2>2 DEF OthersWait, KeptInv
<1>7. CASE UNCHANGED vars \/ \E f \in Files : aesd_open(f) \/ aesd_release(f)
  BY <1>5, <1>7 DEF vars, aesd_open, aesd_release, device
<1> QED
  BY <1>1, <1>2, <1>3, <1>4, <1>6, <1>7 DEF Next, ProcessStep, KeptInv

\* While allocation succeeds, a block is allocated only to become the
\* unfinished command and is freed when its command is overwritten.
LEMMA LeakStep ==
  ASSUME BaseInv, StoreInv, LeakInv, [Next]_vars
  PROVE  LeakInv'
<1> SUFFICES ASSUME "alloc" \notin Faults
             PROVE  /\ loads' \in Nat
                    /\ loads' = 0 => module' = "out" /\ DOMAIN heap' = {}
                    /\ NothingLeaked'
  BY DEF LeakInv
<1>0. /\ loads \in Nat
      /\ loads = 0 => module = "out" /\ DOMAIN heap = {}
      /\ NothingLeaked /\ entry \in Stored
  BY DEF LeakInv, BaseInv, DeviceTyped
<1>1. CASE aesd_init_module
  BY <1>0, <1>1 DEF aesd_init_module, NothingLeaked
<1>2. CASE aesd_cleanup_module
  BY <1>0, <1>2 DEF aesd_cleanup_module, NothingLeaked
<1>3. ASSUME NEW p \in Procs, pc[p] \in CriticalSection
      PROVE  module = "in" /\ loads # 0
  BY <1>0, <1>3 DEF BaseInv, LockInv, UsageInv, CriticalSection
<1>4. ASSUME NEW p \in Procs, aesd_write_alloc(p) PROVE LeakInv'
  <2>1. module = "in" /\ loads # 0 /\ UNCHANGED <<module, loads>> /\ Committed' = Committed
    BY <1>3, <1>4 DEF aesd_write_alloc, CriticalSection, life, Committed
  <2>2. DOMAIN heap \subseteq Blocks /\ NULL \notin Blocks
    BY DeviceAssumption DEF StoreInv, HeapInv
  <2>3. loads <= 1 => DOMAIN heap' \subseteq Committed' \cup {entry'.buffptr}
    <3>1. write_alloc_succeeds(p)
      BY <1>4 DEF aesd_write_alloc
    <3>2. CASE entry.buffptr # NULL
      BY <1>0, <2>1, <3>1, <3>2 DEF write_alloc_succeeds, NothingLeaked
    <3>3. CASE entry.buffptr = NULL
      <4>1. PICK a \in FreeBlocks : kmalloc(a, Len(call[p].chunk)) /\ entry' = [entry EXCEPT !.buffptr = a]
        BY <3>1, <3>3 DEF write_alloc_succeeds
      <4>2. DOMAIN heap' = DOMAIN heap \cup {a} /\ entry'.buffptr = a
        BY <1>0, <4>1 DEF kmalloc, Stored
      <4> QED
        BY <1>0, <2>1, <2>2, <3>3, <4>2 DEF NothingLeaked
    <3> QED
      BY <3>2, <3>3
  <2> QED
    BY <1>0, <2>1, <2>3 DEF LeakInv, NothingLeaked
<1>5. ASSUME NEW p \in Procs, aesd_write_copy(p) PROVE LeakInv'
  <2>1. /\ module = "in" /\ loads # 0 /\ UNCHANGED <<module, loads, entry>>
        /\ Committed' = Committed
    BY <1>3, <1>5 DEF aesd_write_copy, BadAccess, CriticalSection, life, device, Committed
  <2>2. DOMAIN heap' = DOMAIN heap
    BY <1>5 DEF aesd_write_copy, BadAccess
  <2> QED
    BY <1>0, <2>1, <2>2 DEF LeakInv, NothingLeaked
<1>6. ASSUME NEW p \in Procs, aesd_write_commit(p) PROVE LeakInv'
  <2> DEFINE e == [entry EXCEPT !.size = @ + Len(call[p].chunk)]
  <2>1. module = "in" /\ loads # 0 /\ UNCHANGED <<module, loads>>
    BY <1>3, <1>6, CommitFreesItsOwn DEF Commits, CriticalSection, life
  <2>2. e.buffptr = entry.buffptr
    BY <1>0 DEF Stored
  <2>3. commit_entry(e) \/ (entry' = e /\ UNCHANGED <<buffer, heap>>)
    BY <1>6, CommitFreesItsOwn DEF Commits
  <2> HIDE DEF e
  <2>4. CASE entry' = e /\ UNCHANGED <<buffer, heap>>
    BY <1>0, <2>1, <2>2, <2>4 DEF LeakInv, NothingLeaked, Committed
  <2>5. CASE commit_entry(e)
    <3> DEFINE k == buffer.in_offs
    <3>1. /\ DOMAIN heap' = DOMAIN heap \ {buffer.entry[k].buffptr}
          /\ buffer'.entry = [buffer.entry EXCEPT ![k] = e]
          /\ k \in Slots /\ buffer.entry \in [Slots -> Stored]
      BY <2>5 DEF commit_entry, aesd_circular_buffer_add_entry, BaseInv, DeviceTyped, BufferInv,
                  BufferOf
    <3>2. entry.buffptr # NULL
      BY <1>6 DEF aesd_write_commit, StoreInv, PartialInv
    <3>3. ASSUME NEW c \in Committed \cup {entry.buffptr}, c # buffer.entry[k].buffptr
          PROVE  c \in Committed'
      <4>1. CASE c = entry.buffptr
        BY <2>2, <3>1, <3>2, <4>1 DEF Committed
      <4>2. CASE c \in Committed
        <5>1. PICK i \in Slots : buffer.entry[i].buffptr = c /\ c # NULL
          BY <4>2 DEF Committed
        <5>2. i # k /\ buffer'.entry[i].buffptr = c
          BY <3>1, <3>3, <5>1
        <5> QED
          BY <5>1, <5>2 DEF Committed
      <4> QED
        BY <3>3, <4>1, <4>2
    <3>4. loads <= 1 => DOMAIN heap' \subseteq Committed'
      BY <1>0, <2>1, <3>1, <3>3 DEF NothingLeaked
    <3> QED
      BY <1>0, <2>1, <3>4 DEF LeakInv, NothingLeaked
  <2> QED
    BY <2>3, <2>4, <2>5
<1>7. CASE UNCHANGED <<buffer, entry, heap, module, loads>>
  BY <1>0, <1>7 DEF NothingLeaked, Committed
<1>8. ASSUME NEW p \in Procs, ProcessStep(p),
             ~aesd_write_alloc(p) /\ ~aesd_write_copy(p) /\ ~aesd_write_commit(p)
      PROVE  LeakInv'
  <2>1. UNCHANGED <<buffer, entry, heap>>
    BY <1>8, QuietProcess
  <2>2. UNCHANGED <<module, loads>>
    <3>1. CASE \/ \E c \in Requests : Syscall(p, c)
               \/ mutex_lock_interruptible(p) \/ Interrupted(p) \/ QueueWaiter(p)
               \/ mutex_unlock(p) \/ Return(p)
      BY <3>1 DEF Syscall, mutex_lock_interruptible, Interrupted, QueueWaiter, mutex_unlock, Return,
                  life
    <3>2. CASE \/ aesd_read_find(p) \/ aesd_read_copy(p) \/ aesd_llseek(p)
               \/ aesd_llseek_target(p) \/ aesd_ioctl(p) \/ aesd_ioctl_seek(p)
      BY <3>2 DEF aesd_read_find, aesd_read_copy, BadAccess, aesd_llseek, aesd_llseek_target,
                  aesd_ioctl, aesd_ioctl_seek, life
    <3> QED
      BY <1>8, <3>1, <3>2 DEF ProcessStep, KernelStep
  <2> QED
    BY <1>7, <2>1, <2>2 DEF LeakInv
<1>9. CASE UNCHANGED vars \/ \E f \in Files : aesd_open(f) \/ aesd_release(f)
  BY <1>7, <1>9 DEF vars, aesd_open, aesd_release, device, life
<1> QED
  BY <1>1, <1>2, <1>4, <1>5, <1>6, <1>8, <1>9 DEF Next, ProcessStep, LeakInv

-----------------------------------------------------------------------------
(* The theorems about the store                                            *)

DeviceInv == BaseInv /\ StoreInv /\ HungInv /\ KeptInv /\ LeakInv

\* All of it holds initially.
LEMMA DeviceInvInit ==
  ASSUME Init PROVE DeviceInv
<1>1. NoEntry \in Stored /\ NoEntry.buffptr = NULL /\ NoEntry.size = 0
  BY DeviceAssumption DEF Stored
<1>2. LockInv /\ CallInv /\ ReadInv
  BY DEF Init, LockInv, ControlInv, UsageInv, HolderInv, CriticalSection, Labels, CallInv, ReadInv
<1>3. DeviceTyped
  BY <1>1, EmptyBufferInv DEF Init, DeviceTyped
<1>4. PositionInv
  <2>1. LocalsOK(NoLocals)
    BY DEF LocalsOK, NoLocals, NotFound
  <2> QED
    BY <2>1 DEF Init, PositionInv
<1>5. StoreInv
  <2>1. SlotsInv
    BY <1>1 DEF Init, SlotsInv, EmptyBuffer
  <2>2. DOMAIN heap = {} /\ heap \in [DOMAIN heap -> Seq(Byte)]
    BY DEF Init
  <2>3. HeapInv /\ PartialInv
    BY <1>1, <2>2 DEF Init, HeapInv, PartialInv
  <2>4. BytesAccounted
    BY EmptyBufferBytes DEF Init, BytesAccounted
  <2> QED
    BY <2>1, <2>3, <2>4 DEF StoreInv
<1>6. HungInv
  BY DEF Init, HungInv, LockIsReleased
<1>7. KeptInv
  BY <1>1 DEF Init, KeptInv
<1>8. LeakInv
  BY DEF Init, LeakInv, NothingLeaked
<1> QED
  BY <1>2, <1>3, <1>4, <1>5, <1>6, <1>7, <1>8 DEF DeviceInv, BaseInv

\* Every step keeps all of it.
LEMMA DeviceInvStep ==
  ASSUME DocumentedRequests, DeviceInv, [Next]_vars PROVE DeviceInv'
<1>1. BaseInv'
  BY LockInvStep, CallInvStep, DeviceTypedStep, PositionStep, ReadStep DEF DeviceInv, BaseInv
<1>2. StoreInv'
  BY StoreStep DEF DeviceInv
<1>3. HungInv'
  BY HungStep DEF DeviceInv
<1>4. KeptInv'
  BY <1>2, KeptStep DEF DeviceInv
<1>5. LeakInv'
  BY LeakStep DEF DeviceInv
<1> QED
  BY <1>1, <1>2, <1>3, <1>4, <1>5 DEF DeviceInv

\* DeviceInv is an invariant of the driver within its documented interface.
LEMMA DeviceInvariance ==
  ASSUME DocumentedRequests PROVE Spec => []DeviceInv
<1>1. Init => DeviceInv
  BY DeviceInvInit
<1>2. DeviceInv /\ [Next]_vars => DeviceInv'
  BY DeviceInvStep
<1> QED
  BY <1>1, <1>2, PTL DEF Spec

\* A written character is never the content of uninitialized memory.
LEMMA GarbageNotWritten == Garbage \notin Written
  BY DeviceAssumption DEF Written

(***************************************************************************)
(* Whatever allocation, user copies and signals fail, and however the      *)
(* processes interleave: every stored command keeps a block of its own     *)
(* that is allocated, as long as its entry says, fully written and ends a  *)
(* line, and the unfinished command shares none of them.                   *)
(***************************************************************************)
THEOREM StoredCommandsIntact == DocumentedRequests => (Spec => []CommandsIntact)
<1> SUFFICES ASSUME DocumentedRequests PROVE Spec => []CommandsIntact
  OBVIOUS
<1>1. DeviceInv => CommandsIntact
  <2> SUFFICES ASSUME DeviceInv PROVE CommandsIntact
    OBVIOUS
  <2>1. ASSUME NEW t \in Seq(Written) PROVE ~Contains(t, Garbage)
    BY GarbageNotWritten, ElementOfSeq DEF Contains
  <2>2. SlotsInv /\ HeapInv
    BY DEF DeviceInv, StoreInv
  <2>3. entry.buffptr \notin Committed
    BY <2>2 DEF HeapInv, Committed
  <2> QED
    BY <2>1, <2>2, <2>3 DEF SlotsInv, CommandsIntact
<1> QED
  BY <1>1, DeviceInvariance, PTL

(***************************************************************************)
(* total_bytes, which llseek counts SEEK_END from, is the number of bytes  *)
(* stored in the circular buffer, after every write and every overwrite.   *)
(***************************************************************************)
THEOREM BytesAreAccounted == DocumentedRequests => (Spec => []BytesAccounted)
<1> SUFFICES ASSUME DocumentedRequests PROVE Spec => []BytesAccounted
  OBVIOUS
<1>1. DeviceInv => BytesAccounted
  BY DEF DeviceInv, StoreInv
<1> QED
  BY <1>1, DeviceInvariance, PTL

(***************************************************************************)
(* The driver reads, writes and frees only memory it has allocated, unless *)
(* krealloc fails on a command that is unfinished.                         *)
(***************************************************************************)
THEOREM DriverStaysInMemory == DocumentedRequests /\ NoLostPartial => (Spec => []MemorySafe)
<1> SUFFICES ASSUME DocumentedRequests, NoLostPartial PROVE Spec => []MemorySafe
  OBVIOUS
<1>1. DeviceInv => MemorySafe
  BY DEF DeviceInv, KeptInv, MemorySafe
<1> QED
  BY <1>1, DeviceInvariance, PTL

(***************************************************************************)
(* Under the same conditions the lock is owned only by a process that is   *)
(* between lock and unlock: no error path of read, write, llseek or ioctl  *)
(* returns with the lock held.                                             *)
(***************************************************************************)
THEOREM LockGetsReleased == DocumentedRequests /\ NoLostPartial => (Spec => []LockIsReleased)
<1> SUFFICES ASSUME DocumentedRequests, NoLostPartial PROVE Spec => []LockIsReleased
  OBVIOUS
<1>1. DeviceInv => LockIsReleased
  BY DEF DeviceInv, KeptInv, HungInv
<1> QED
  BY <1>1, DeviceInvariance, PTL

(***************************************************************************)
(* While allocations succeed and until the module is unloaded, every block *)
(* the driver has allocated is a stored command or the unfinished one.     *)
(***************************************************************************)
THEOREM NoBlockLeaks ==
  DocumentedRequests /\ "alloc" \notin Faults => (Spec => []NothingLeaked)
<1> SUFFICES ASSUME DocumentedRequests, "alloc" \notin Faults PROVE Spec => []NothingLeaked
  OBVIOUS
<1>1. DeviceInv => NothingLeaked
  BY DEF DeviceInv, LeakInv
<1> QED
  BY <1>1, DeviceInvariance, PTL

-----------------------------------------------------------------------------
(* The driver implements CommandLog                                        *)

\* The abstract state in these terms.
LEMMA HeldBytes ==
  ASSUME DeviceTyped
  PROVE  /\ EntryBytes(entry) = BytesIn(heap, entry)
         /\ CommandsHeld = [k \in 1..EntryCount |-> BytesIn(heap, BufferLog[k])]
         /\ LogFacts(Stored)
<1>1. \A d \in Stored : EntryBytes(d) = BytesIn(heap, d)
  BY DEF Stored, EntryBytes, BytesIn, Slice
<1>2. LogFacts(Stored)
  BY LogElements DEF DeviceTyped
<1>3. \A k \in 1..EntryCount : BufferLog[k] \in Stored
  BY <1>2, ElementOfSeq DEF LogFacts
<1> QED
  BY <1>1, <1>2, <1>3 DEF DeviceTyped, CommandsHeld

\* The same after a step.
LEMMA HeldBytesNext ==
  ASSUME DeviceTyped'
  PROVE  /\ EntryBytes(entry)' = BytesIn(heap', entry')
         /\ CommandsHeld' = [k \in 1..EntryCount' |-> BytesIn(heap', BufferLog'[k])]
         /\ LogFacts(Stored)'
<1>1. \A d \in Stored : (IF d.buffptr = NULL THEN << >> ELSE SubSeq(heap'[d.buffptr], 0 + 1, 0 + d.size))
                        = BytesIn(heap', d)
  BY DEF Stored, BytesIn
<1>2. LogFacts(Stored)'
  BY LogElementsNext DEF DeviceTyped
<1>3. \A k \in 1..EntryCount' : BufferLog'[k] \in Stored
  BY <1>2, ElementOfSeq DEF LogFacts
<1> QED
  BY <1>1, <1>2, <1>3 DEF DeviceTyped, CommandsHeld, EntryBytes, Slice

\* The slot of the k-th oldest entry.
LEMMA LogSlot ==
  ASSUME DeviceTyped, NEW k \in 1..EntryCount
  PROVE  \E i \in Slots :
           /\ BufferLog[k] = buffer.entry[i]
           /\ i = buffer.in_offs => buffer.full /\ k = 1
<1> DEFINE N == MaxWriteOps
           o == buffer.out_offs
           a == o + (k - 1)
           i == IF a < N THEN a ELSE a - N
<1>1. /\ BufferInv(Stored) /\ LogFacts(Stored) /\ N \in 1..255 /\ o \in Slots
      /\ buffer.in_offs \in Slots /\ buffer.full \in BOOLEAN
  BY HeldBytes, BufferAssumption DEF DeviceTyped, BufferInv, BufferOf
<1>2. k \in 1..N /\ k <= EntryCount
  BY <1>1 DEF LogFacts
<1>3. a \in 0..(2 * N - 1) /\ i \in Slots
  BY <1>1, <1>2 DEF Slots
<1>4. a % N = i
  <2> HIDE DEF a
  <2> QED
    BY <1>3, ModWrap
<1>5. BufferLog[k] = buffer.entry[i]
  BY <1>1, <1>4 DEF LogFacts
<1>6. i = buffer.in_offs => buffer.full /\ k = 1
  <2>1. CASE buffer.full
    BY <1>1, <1>2, <2>1 DEF BufferInv, WindowShape, Slots
  <2>2. CASE ~buffer.full
    <3>1. o = 0 /\ EntryCount = buffer.in_offs
      BY <1>1, <2>2 DEF BufferInv, WindowShape, EntryCount
    <3> QED
      BY <1>1, <1>2, <3>1 DEF Slots
  <2> QED
    BY <2>1, <2>2
<1> HIDE DEF i
<1> QED
  BY <1>3, <1>5, <1>6

\* The stored commands, as sequences of written characters.
LEMMA HeldTyped ==
  ASSUME DeviceTyped, SlotsInv
  PROVE  CommandsHeld \in Seq(Seq(Written)) /\ Len(CommandsHeld) = EntryCount
<1>1. /\ CommandsHeld = [k \in 1..EntryCount |-> BytesIn(heap, BufferLog[k])]
      /\ EntryCount \in Nat
  BY HeldBytes, BufferAssumption DEF LogFacts
<1>2. ASSUME NEW k \in 1..EntryCount PROVE BytesIn(heap, BufferLog[k]) \in Seq(Written)
  <2>1. PICK i \in Slots : BufferLog[k] = buffer.entry[i]
    BY LogSlot
  <2>2. CASE buffer.entry[i].buffptr = NULL
    BY <2>1, <2>2, EmptySeq DEF BytesIn
  <2>3. CASE buffer.entry[i].buffptr # NULL
    <3> DEFINE h == heap[buffer.entry[i].buffptr]
    <3>1. h \in Seq(Written) /\ Len(h) = buffer.entry[i].size
      BY <2>3 DEF SlotsInv
    <3>2. SubSeq(h, 1, Len(h)) = h
      BY <3>1, SubSeqFull
    <3> QED
      BY <2>1, <2>3, <3>1, <3>2 DEF BytesIn
  <2> QED
    BY <2>2, <2>3
<1> QED
  BY <1>1, <1>2

\* The stored commands stay while the buffer and their blocks do.
LEMMA HeldKept ==
  ASSUME DeviceTyped, DeviceTyped', UNCHANGED buffer, \A c \in Committed : heap'[c] = heap[c]
  PROVE  CommandsHeld' = CommandsHeld
<1>1. EntryCount' = EntryCount /\ BufferLog' = BufferLog
  BY DEF EntryCount, BufferLog
<1>2. ASSUME NEW k \in 1..EntryCount PROVE BytesIn(heap', BufferLog[k]) = BytesIn(heap, BufferLog[k])
  <2>1. PICK i \in Slots : BufferLog[k] = buffer.entry[i]
    BY LogSlot
  <2> QED
    BY <2>1 DEF BytesIn, Committed
<1> QED
  BY <1>1, <1>2, HeldBytes, HeldBytesNext

\* The unfinished command stays while its block keeps its bytes.
LEMMA PartialBytesKept ==
  ASSUME DeviceTyped, DeviceTyped', BytesIn(heap', entry') = BytesIn(heap, entry)
  PROVE  EntryBytes(entry)' = EntryBytes(entry)
  BY HeldBytes, HeldBytesNext

\* The mapped state and steps.
AbstractState == <<CommandsHeld, EntryBytes(entry)>>

\* Allocating and copying change nothing a program could tell.
LEMMA WriteInvisible ==
  ASSUME NoLostPartial, DeviceInv, DeviceInv', NEW p \in Procs,
         aesd_write_alloc(p) \/ aesd_write_copy(p)
  PROVE  UNCHANGED AbstractState
<1>1. /\ DeviceTyped /\ DeviceTyped' /\ BaseInv /\ StoreInv /\ HungInv /\ KeptInv /\ KeptInv'
      /\ entry \in Stored /\ HeapInv /\ SlotsInv
  BY DEF DeviceInv, BaseInv, DeviceTyped, StoreInv
<1>2. Committed \subseteq DOMAIN heap /\ NULL \notin Committed
  BY <1>1 DEF SlotsInv, Committed
<1>3. UNCHANGED buffer
  BY DEF aesd_write_alloc, aesd_write_copy, BadAccess, device
<1>4. CASE aesd_write_alloc(p)
  <2>1. RoomMade(p)
    BY <1>1, <1>4, AllocStep
  <2>2. \A c \in Committed : heap'[c] = heap[c]
    <3>1. CASE entry.buffptr # NULL /\ \E t : heap' = [heap EXCEPT ![entry.buffptr] = t]
      BY <1>1, <1>2, <3>1 DEF HeapInv
    <3>2. CASE \E a \in FreeBlocks : kmalloc(a, Len(call[p].chunk))
      BY <1>2, <3>2 DEF kmalloc, FreeBlocks
    <3>3. CASE UNCHANGED heap
      BY <3>3
    <3> QED
      BY <1>4, <3>1, <3>2, <3>3 DEF aesd_write_alloc, write_alloc_succeeds
  <2>3. BytesIn(heap', entry') = BytesIn(heap, entry)
    <3>1. CASE entry'.buffptr # NULL
      BY <1>1, <2>1, <3>1 DEF RoomMade, KeptInv
    <3>2. CASE entry'.buffptr = NULL
      <4>1. entry.size = 0
        <5>1. CASE write_alloc_succeeds(p)
          BY <1>1, <3>2, <5>1, DeviceAssumption DEF write_alloc_succeeds, Stored, FreeBlocks
        <5>2. CASE "alloc" \in Faults
          BY <1>1, <5>2 DEF KeptInv
        <5> QED
          BY <1>4, <5>1, <5>2 DEF aesd_write_alloc
      <4> QED
        BY <3>2, <4>1, SubSeqEmpty DEF BytesIn
    <3> QED
      BY <3>1, <3>2
  <2> QED
    BY <1>1, <1>3, <2>2, <2>3, HeldKept, PartialBytesKept DEF AbstractState
<1>5. CASE aesd_write_copy(p)
  <2> DEFINE b == entry.buffptr
             pre == SubSeq(heap[b], 1, entry.size)
  <2>1. /\ pc[p] = "write_copy" /\ b # NULL /\ b \in DOMAIN heap /\ b \notin Committed
        /\ UNCHANGED entry
    BY <1>1, <1>5 DEF aesd_write_copy, BadAccess, device, StoreInv, HeapInv, PartialInv
  <2>2. PartialKept
    BY <1>1, <2>1 DEF KeptInv
  <2>3. pre \in Seq(Written) /\ Len(pre) = entry.size /\ entry.size \in Nat
    BY <1>1, <2>1, <2>2, PartialPrefix
  <2>4. Slice(b, 0, entry.size) = pre
    BY <2>3, SliceIsPrefix
  <2>5. CASE UNCHANGED heap
    BY <1>1, <1>3, <2>1, <2>5, HeldKept, PartialBytesKept DEF AbstractState
  <2>6. CASE heap' = [heap EXCEPT ![b] = Slice(b, 0, entry.size) \o call[p].chunk]
    <3>1. call[p].chunk \in Seq(Written)
      BY <1>1, <2>1, ChunkOfWrite DEF BaseInv, CallInv
    <3>2. heap'[b] = pre \o call[p].chunk
      BY <2>1, <2>4, <2>6
    <3> HIDE DEF pre
    <3>3. SubSeq(heap'[b], 1, entry.size) = pre
      BY <2>3, <3>1, <3>2, PrefixOfConcat
    <3>4. BytesIn(heap', entry') = BytesIn(heap, entry)
      BY <2>1, <3>3 DEF BytesIn, pre
    <3>5. \A c \in Committed : heap'[c] = heap[c]
      BY <1>2, <2>1, <2>6
    <3> QED
      BY <1>1, <1>3, <3>4, <3>5, HeldKept, PartialBytesKept DEF AbstractState
  <2> QED
    BY <1>5, <2>5, <2>6 DEF aesd_write_copy, BadAccess
<1> QED
  BY <1>4, <1>5

\* HeldTyped after a step.
LEMMA HeldTypedNext ==
  (DeviceTyped /\ SlotsInv =>
     CommandsHeld \in Seq(Seq(Written)) /\ Len(CommandsHeld) = EntryCount)'
<1>1. DeviceTyped /\ SlotsInv =>
        CommandsHeld \in Seq(Seq(Written)) /\ Len(CommandsHeld) = EntryCount
  BY HeldTyped
<1> QED
  BY <1>1, PTL

\* The last step of a write is the whole write as a program sees it.
LEMMA CommitIsWrite ==
  ASSUME DeviceInv, DeviceInv', NEW p \in Procs, aesd_write_commit(p)
  PROVE  Device!Write(call[p].chunk)
<1> DEFINE n == Len(call[p].chunk)
           b == entry.buffptr
           pre == SubSeq(heap[b], 1, entry.size)
           e == [entry EXCEPT !.size = @ + n]
           line == heap[b]
<1>1. /\ DeviceTyped /\ DeviceTyped' /\ BaseInv /\ StoreInv /\ SlotsInv /\ SlotsInv' /\ HeapInv
      /\ entry \in Stored /\ BufferInv(Stored)
  BY DEF DeviceInv, BaseInv, DeviceTyped, StoreInv
<1>2. /\ pc[p] = "write_commit" /\ b # NULL /\ b \in DOMAIN heap /\ b \notin Committed
      /\ PartialKept /\ line = pre \o call[p].chunk
  BY <1>1, CommitFreesItsOwn DEF Commits, StoreInv, HeapInv, PartialInv
<1>3. call[p].chunk \in Seq(Written) /\ n \in Nat
  BY <1>1, <1>2, ChunkOfWrite DEF BaseInv, CallInv
<1>4. pre \in Seq(Written) /\ Len(pre) = entry.size /\ entry.size \in Nat
  BY <1>1, <1>2, PartialPrefix
<1>5. EntryBytes(entry) \o call[p].chunk = line
  BY <1>1, <1>2, HeldBytes DEF BytesIn
<1> HIDE DEF pre
<1>6. line \in Seq(Written) /\ Len(line) = entry.size + n
  <2>1. /\ pre \o call[p].chunk \in Seq(Written)
        /\ Len(pre \o call[p].chunk) = Len(pre) + Len(call[p].chunk)
    BY <1>3, <1>4, ConcatProperties
  <2>2. line \in Seq(Written) /\ Len(line) = Len(pre) + Len(call[p].chunk)
    BY <1>2, <2>1, Zenon
  <2> QED
    BY <1>4, <2>2
<1>7. e.buffptr = b /\ e.size = entry.size + n /\ e \in Stored
  BY <1>1, <1>3, <1>4 DEF Stored
<1> HIDE DEF e
<1>8. SubSeq(line, 1, e.size) = line /\ Slice(e.buffptr, 0, e.size) = line
  <2>1. SubSeq(line, 1, Len(line)) = line
    BY <1>6, SubSeqFull
  <2>2. Slice(b, 0, e.size) = SubSeq(line, 1, e.size)
    BY <1>3, <1>4, <1>7, SliceIsPrefix, SMTT(60)
  <2> QED
    BY <1>6, <1>7, <2>1, <2>2
<1>9. CASE ~Contains(line, NL)
  <2>1. entry' = e /\ UNCHANGED <<buffer, heap>>
    BY <1>1, <1>8, <1>9, CommitFreesItsOwn DEF Commits, e
  <2>2. CommandsHeld' = CommandsHeld
    BY <1>1, <2>1, HeldKept
  <2>3. EntryBytes(entry)' = line
    BY <1>1, <1>2, <1>7, <1>8, <2>1, HeldBytesNext DEF BytesIn
  <2> QED
    BY <1>5, <1>9, <2>2, <2>3 DEF Device!Write, Device!Contains, Contains
<1>10. CASE Contains(line, NL)
  <2>1. commit_entry(e)
    BY <1>1, <1>8, <1>10, CommitFreesItsOwn DEF Commits, e
  <2> DEFINE k == buffer.in_offs
             old == buffer.entry[k]
  <2>2. /\ heap' = [c \in DOMAIN heap \ {old.buffptr} |-> heap[c]]
        /\ aesd_circular_buffer_add_entry(e) /\ entry' = NoEntry
        /\ k \in Slots /\ buffer.entry \in [Slots -> Stored] /\ buffer.full \in BOOLEAN
    BY <1>1, <2>1 DEF commit_entry, BufferInv, BufferOf
  <2>3. EntryBytes(entry)' = << >>
    BY <1>1, <2>2, HeldBytesNext, DeviceAssumption DEF BytesIn
  <2>4. ASSUME NEW j \in 1..EntryCount, buffer.full => j # 1
        PROVE  BytesIn(heap', BufferLog[j]) = CommandsHeld[j]
    <3>1. PICK i \in Slots : BufferLog[j] = buffer.entry[i] /\ i # k
      BY <1>1, <2>4, LogSlot, SMTT(60)
    <3>2. buffer.entry[i].buffptr # NULL =>
            buffer.entry[i].buffptr \in DOMAIN heap \ {old.buffptr}
      BY <1>1, <2>2, <3>1 DEF SlotsInv
    <3>3. BytesIn(heap', BufferLog[j]) = BytesIn(heap, BufferLog[j])
      BY <2>2, <3>1, <3>2 DEF BytesIn
    <3> QED
      BY <1>1, <3>3, HeldBytes
  <2>5. BytesIn(heap', e) = line
    <3>1. b # old.buffptr
      BY <1>2, <2>2 DEF Committed
    <3> QED
      BY <1>2, <1>7, <1>8, <2>2, <3>1 DEF BytesIn
  <2>6. /\ CommandsHeld \in Seq(Seq(Written)) /\ Len(CommandsHeld) = EntryCount
        /\ CommandsHeld' \in Seq(Seq(Written)) /\ Len(CommandsHeld') = EntryCount'
    BY <1>1, HeldTyped, HeldTypedNext
  <2>7. /\ BufferLog \in Seq(Stored) /\ Len(BufferLog) = EntryCount
        /\ EntryCount \in 0..MaxWriteOps /\ (EntryCount = MaxWriteOps <=> buffer.full)
        /\ Len(BufferLog') = EntryCount'
        /\ \A j \in 1..EntryCount' : CommandsHeld'[j] = BytesIn(heap', BufferLog'[j])
    BY <1>1, HeldBytes, HeldBytesNext DEF LogFacts
  <2> DEFINE kept == IF Len(CommandsHeld) = MaxWriteOps THEN Tail(CommandsHeld) ELSE CommandsHeld
  <2>8. CommandsHeld' = Append(kept, line)
    <3>1. CASE ~buffer.full
      <4>1. BufferLog' = Append(BufferLog, e) /\ kept = CommandsHeld
        BY <1>1, <1>7, <2>2, <2>6, <2>7, <3>1, AddToFreeSlot
      <4>2. /\ EntryCount' = EntryCount + 1 /\ BufferLog'[EntryCount + 1] = e
            /\ \A j \in 1..EntryCount : BufferLog'[j] = BufferLog[j]
        BY <1>7, <2>7, <4>1, AppendProperties
      <4>3. /\ Append(kept, line) \in Seq(Seq(Written)) /\ Len(Append(kept, line)) = EntryCount + 1
            /\ \A j \in 1..EntryCount : Append(kept, line)[j] = CommandsHeld[j]
            /\ Append(kept, line)[EntryCount + 1] = line
        <5> HIDE DEF kept, line
        <5>1. kept \in Seq(Seq(Written)) /\ Len(kept) = EntryCount
          BY <2>6, <4>1
        <5> QED
          BY <1>6, <4>1, <5>1, AppendProperties
      <4>4. ASSUME NEW j \in 1..(EntryCount + 1) PROVE CommandsHeld'[j] = Append(kept, line)[j]
        <5> HIDE DEF kept, line
        <5>1. CASE j = EntryCount + 1
          BY <2>5, <2>7, <4>2, <4>3, <5>1
        <5>2. CASE j \in 1..EntryCount
          <6>1. j \in 1..EntryCount'
            BY <2>7, <4>2, <5>2
          <6>2. BytesIn(heap', BufferLog[j]) = CommandsHeld[j]
            BY <2>4, <3>1, <5>2
          <6>3. CommandsHeld'[j] = BytesIn(heap', BufferLog'[j]) /\ BufferLog'[j] = BufferLog[j]
            BY <2>7, <4>2, <5>2, <6>1
          <6>4. Append(kept, line)[j] = CommandsHeld[j]
            BY <4>3, <5>2
          <6> QED
            BY <6>2, <6>3, <6>4
        <5>3. EntryCount \in Nat
          BY <2>7, BufferAssumption
        <5>4. j = EntryCount + 1 \/ j \in 1..EntryCount
          BY <5>3
        <5> QED
          BY <5>1, <5>2, <5>4
      <4> HIDE DEF kept, line
      <4> QED
        BY <2>6, <4>2, <4>3, <4>4, SeqEqual
    <3>2. CASE buffer.full
      <4> DEFINE N == MaxWriteOps
      <4>1. BufferLog' = Append(Tail(BufferLog), e) /\ kept = Tail(CommandsHeld)
            /\ N \in Nat /\ N > 0 /\ EntryCount = N
        BY <1>1, <1>7, <2>2, <2>6, <2>7, <3>2, AddOverOldest, BufferAssumption
      <4>2. /\ Tail(BufferLog) \in Seq(Stored) /\ Len(Tail(BufferLog)) = N - 1
            /\ \A j \in 1..(N - 1) : Tail(BufferLog)[j] = BufferLog[j + 1]
        BY <2>7, <4>1
      <4>3. /\ EntryCount' = N /\ BufferLog'[N] = e
            /\ \A j \in 1..(N - 1) : BufferLog'[j] = BufferLog[j + 1]
        BY <1>7, <2>7, <4>1, <4>2, AppendProperties
      <4>4. /\ kept \in Seq(Seq(Written)) /\ Len(kept) = N - 1
            /\ \A j \in 1..(N - 1) : kept[j] = CommandsHeld[j + 1]
        BY <2>6, <4>1
      <4>5. /\ Append(kept, line) \in Seq(Seq(Written)) /\ Len(Append(kept, line)) = N
            /\ \A j \in 1..(N - 1) : Append(kept, line)[j] = CommandsHeld[j + 1]
            /\ Append(kept, line)[N] = line
        <5> HIDE DEF kept, line
        <5> QED
          BY <1>6, <4>1, <4>4, AppendProperties
      <4>6. ASSUME NEW j \in 1..N PROVE CommandsHeld'[j] = Append(kept, line)[j]
        <5> HIDE DEF kept, line
        <5>1. CASE j = N
          BY <2>5, <2>7, <4>3, <4>5, <5>1
        <5>2. CASE j # N
          <6>1. j \in 1..(N - 1) /\ j + 1 \in 1..EntryCount /\ j + 1 # 1 /\ j \in 1..EntryCount'
            BY <4>1, <4>3, <5>2
          <6> QED
            BY <2>4, <2>7, <4>3, <4>5, <6>1
        <5> QED
          BY <5>1, <5>2
      <4> HIDE DEF kept, line
      <4> QED
        BY <2>6, <4>3, <4>5, <4>6, SeqEqual
    <3> QED
      BY <3>1, <3>2
  <2> QED
    BY <1>5, <1>10, <2>3, <2>8 DEF Device!Write, Device!Contains, Contains
<1> QED
  BY <1>9, <1>10

(***************************************************************************)
(* The driver implements CommandLog: whatever the processes, the user      *)
(* copies and the signals do, the stored entries are the latest complete   *)
(* lines, byte for byte and in order, and the unfinished command is what   *)
(* has been written since, unless krealloc fails on an unfinished command. *)
(***************************************************************************)
THEOREM DriverImplementsCommandLog ==
  DocumentedRequests /\ NoLostPartial => (Spec => RemembersCommands)
<1> SUFFICES ASSUME DocumentedRequests, NoLostPartial PROVE Spec => RemembersCommands
  OBVIOUS
<1>1. Init => Device!Init
  <2> SUFFICES ASSUME Init PROVE Device!Init
    OBVIOUS
  <2>1. DeviceTyped
    BY DeviceInvInit DEF DeviceInv, BaseInv
  <2>2. EntryCount = 0 /\ entry.buffptr = NULL
    BY DeviceAssumption DEF Init, EntryCount, EmptyBuffer
  <2> QED
    BY <2>1, <2>2, HeldBytes DEF Device!Init, BytesIn
<1>2. DeviceInv /\ DeviceInv' /\ [Next]_vars => [Device!Next]_AbstractState
  <2> SUFFICES ASSUME DeviceInv, DeviceInv', [Next]_vars PROVE [Device!Next]_AbstractState
    OBVIOUS
  <2>0. DeviceTyped /\ DeviceTyped' /\ BaseInv /\ StoreInv
    BY DEF DeviceInv, BaseInv
  <2>1. CASE aesd_init_module \/ aesd_cleanup_module
    <3>1. buffer' = EmptyBuffer /\ entry' = NoEntry
      BY <2>1 DEF aesd_init_module, aesd_cleanup_module, ZeroDevice
    <3>2. EntryCount' = 0 /\ entry'.buffptr = NULL
      BY <3>1, DeviceAssumption DEF EntryCount, EmptyBuffer
    <3> QED
      BY <2>0, <3>2, HeldBytesNext DEF Device!Next, Device!Reset, BytesIn
  <2>2. ASSUME NEW p \in Procs, aesd_write_alloc(p) \/ aesd_write_copy(p)
        PROVE  UNCHANGED AbstractState
    BY <2>2, WriteInvisible
  <2>3. ASSUME NEW p \in Procs, aesd_write_commit(p)
        PROVE  Device!Next
    <3>1. call[p] \in Requests /\ call[p].op = "write"
      BY <2>0, <2>3 DEF BaseInv, CallInv, aesd_write_commit
    <3> QED
      BY <2>3, <3>1, CommitIsWrite DEF Device!Next
  <2>4. CASE UNCHANGED <<buffer, entry, heap>>
    BY <2>0, <2>4, HeldKept, PartialBytesKept DEF AbstractState
  <2>5. ASSUME NEW p \in Procs, ProcessStep(p),
               ~aesd_write_alloc(p) /\ ~aesd_write_copy(p) /\ ~aesd_write_commit(p)
        PROVE  UNCHANGED <<buffer, entry, heap>>
    BY <2>0, <2>5, QuietProcess
  <2>6. CASE UNCHANGED vars \/ \E f \in Files : aesd_open(f) \/ aesd_release(f)
    BY <2>4, <2>6 DEF vars, aesd_open, aesd_release, device
  <2> QED
    BY <2>1, <2>2, <2>3, <2>4, <2>5, <2>6 DEF Next, ProcessStep
<1> QED
  BY <1>1, <1>2, DeviceInvariance, PTL DEF Spec, RemembersCommands, Device!Spec, AbstractState

-----------------------------------------------------------------------------
(* Bounds                                                                  *)

\* A write on its way whose bytes are not yet in dev->entry.
Uncommitted == {"lock", "write_alloc", "write_copy", "write_commit"}

\* The bytes each process is about to add to the unfinished command.
BytesAhead ==
  [p \in Procs |->
     IF pc[p] \in Uncommitted /\ call[p].op = "write" THEN Len(call[p].chunk) ELSE 0]

\* The bytes of the write each process is in: what Syscall's bound counts.
BytesInCalls ==
  [p \in Procs |-> IF call[p].op = "write" THEN Len(call[p].chunk) ELSE 0]

(***************************************************************************)
(* The unfinished command, with all that the writes under way will add to  *)
(* it, stays within MaxPending, and so does every stored command; a module *)
(* that is not loaded may still be loaded once more.                       *)
(***************************************************************************)
RoomInv ==
  /\ entry.size + Total(BytesAhead) <= MaxPending
  /\ \A i \in Slots : buffer.entry[i].size <= MaxPending
  /\ loads \in 0..MaxLoads /\ (module = "out" => loads < MaxLoads)
  /\ opened \subseteq Files /\ module \in {"out", "in"}

\* The bytes counted are numbers of bytes.
LEMMA BytesCounted ==
  LockInv => /\ BytesAhead \in [Procs -> Nat] /\ BytesInCalls \in [Procs -> Nat]
             /\ \A p \in Procs : BytesAhead[p] <= BytesInCalls[p]
<1> SUFFICES ASSUME LockInv
             PROVE  /\ BytesAhead \in [Procs -> Nat] /\ BytesInCalls \in [Procs -> Nat]
                    /\ \A p \in Procs : BytesAhead[p] <= BytesInCalls[p]
  OBVIOUS
<1>1. ASSUME NEW p \in Procs, call[p].op = "write" PROVE Len(call[p].chunk) \in Nat
  <2>1. call[p] \in Requests
    BY <1>1 DEF LockInv, ControlInv, NoCall
  <2> QED
    BY <1>1, <2>1, ChunkOfWrite
<1> QED
  BY <1>1 DEF BytesAhead, BytesInCalls

\* The same after a step.
LEMMA BytesCountedNext ==
  (LockInv => BytesAhead \in [Procs -> Nat])'
<1>1. LockInv => BytesAhead \in [Procs -> Nat]
  BY BytesCounted
<1> QED
  BY <1>1, PTL

\* A process gets bytes ahead of it only by making a system call, and a commit
\* takes them.
LEMMA AheadOfProcess ==
  ASSUME LockInv, CallInv, PositionInv, NEW p \in Procs, ProcessStep(p)
  PROVE  /\ \A q \in Procs : q # p => BytesAhead'[q] = BytesAhead[q]
         /\ (\E c \in Requests : Syscall(p, c)) \/ BytesAhead'[p] = BytesAhead[p] \/ BytesAhead'[p] = 0
         /\ aesd_write_commit(p) => BytesAhead[p] = Len(call[p].chunk) /\ BytesAhead'[p] = 0
<1>0. pc \in [Procs -> Labels] /\ call \in [Procs -> Requests \cup {NoCall}]
  BY DEF LockInv, ControlInv
<1>1. ASSUME NEW q \in Procs, q # p PROVE BytesAhead'[q] = BytesAhead[q]
  BY <1>1, OneMoves DEF OthersWait, BytesAhead
<1>2. ASSUME ~\E c \in Requests : Syscall(p, c)
      PROVE  BytesAhead'[p] = BytesAhead[p] \/ BytesAhead'[p] = 0
  <2> SUFFICES ASSUME pc'[p] \in Uncommitted, call'[p].op = "write"
               PROVE  pc[p] \in Uncommitted /\ call'[p] = call[p]
    BY DEF BytesAhead
  <2>1. CASE mutex_lock_interruptible(p)
    BY <2>1 DEF mutex_lock_interruptible, Uncommitted
  <2>2. CASE Interrupted(p) \/ QueueWaiter(p) \/ mutex_unlock(p) \/ Return(p)
    BY <1>0, <2>2 DEF Interrupted, QueueWaiter, mutex_unlock, Return, Result, Goto, Uncommitted
  <2>3. CASE aesd_read_find(p)
    BY <1>0, <2>3 DEF aesd_read_find, Result, Goto, Uncommitted
  <2>4. CASE aesd_read_copy(p)
    BY <1>0, <2>4 DEF aesd_read_copy, BadAccess, Result, Goto, Uncommitted
  <2>5. CASE aesd_write_alloc(p)
    BY <1>0, <2>5 DEF aesd_write_alloc, Uncommitted
  <2>6. CASE aesd_write_copy(p)
    BY <1>0, <2>6 DEF aesd_write_copy, BadAccess, Uncommitted
  <2>7. CASE aesd_write_commit(p)
    BY <1>0, <2>7 DEF aesd_write_commit, BadAccess, Uncommitted
  <2>8. CASE aesd_llseek(p)
    BY <1>0, <2>8 DEF aesd_llseek, Result, Goto, Uncommitted
  <2>11. CASE aesd_llseek_target(p)
    BY <1>0, <2>11 DEF aesd_llseek_target, Goto, Uncommitted
  <2>9. CASE aesd_ioctl(p)
    <3>1. call[p].op = "ioctl" /\ UNCHANGED call
      BY <2>9 DEF aesd_ioctl, LockInv, ControlInv
    <3> QED
      BY <3>1
  <2>10. CASE aesd_ioctl_seek(p)
    BY <1>0, <2>10 DEF aesd_ioctl_seek, Result, Goto, Uncommitted
  <2> QED
    BY <1>2, <2>1, <2>2, <2>3, <2>4, <2>5, <2>6, <2>7, <2>8, <2>9, <2>10, <2>11
    DEF ProcessStep, KernelStep
<1>3. ASSUME aesd_write_commit(p)
      PROVE  BytesAhead[p] = Len(call[p].chunk) /\ BytesAhead'[p] = 0
  <2>1. pc[p] = "write_commit" /\ pc'[p] \in {"unlock", "oopsed"} /\ call[p].op = "write"
    BY <1>0, <1>3 DEF aesd_write_commit, BadAccess, Result, Goto, CallInv
  <2> QED
    BY <2>1 DEF BytesAhead, Uncommitted
<1> QED
  BY <1>1, <1>2, <1>3

\* A step of a process keeps the module loaded and its files open.
LEMMA LifeKept ==
  ASSUME NEW p \in Procs, ProcessStep(p)
  PROVE  UNCHANGED <<module, loads, opened>>
<1>1. CASE \/ \E c \in Requests : Syscall(p, c)
           \/ mutex_lock_interruptible(p) \/ Interrupted(p) \/ QueueWaiter(p)
           \/ mutex_unlock(p) \/ Return(p)
  BY <1>1 DEF Syscall, mutex_lock_interruptible, Interrupted, QueueWaiter, mutex_unlock, Return, life
<1>2. CASE \/ aesd_read_find(p) \/ aesd_read_copy(p) \/ aesd_write_alloc(p) \/ aesd_write_copy(p)
           \/ aesd_write_commit(p)
  BY <1>2 DEF aesd_read_find, aesd_read_copy, aesd_write_alloc, aesd_write_copy, aesd_write_commit,
              BadAccess, life
<1>3. CASE aesd_llseek(p) \/ aesd_llseek_target(p) \/ aesd_ioctl(p) \/ aesd_ioctl_seek(p)
  BY <1>3 DEF aesd_llseek, aesd_llseek_target, aesd_ioctl, aesd_ioctl_seek, life
<1> QED
  BY <1>1, <1>2, <1>3 DEF ProcessStep, KernelStep

\* A write is admitted only if all that is under way fits with it.
LEMMA CallFits ==
  ASSUME BaseInv, BaseInv', RoomInv, NEW p \in Procs, NEW c \in Requests, Syscall(p, c)
  PROVE  entry.size + Total(BytesAhead') <= MaxPending
<1>0. LockInv /\ LockInv' /\ CallInv /\ PositionInv /\ entry.size \in Nat /\ IsFiniteSet(Procs)
  BY DeviceAssumption DEF BaseInv, DeviceTyped, Stored
<1>1. /\ BytesAhead \in [Procs -> Nat] /\ BytesAhead' \in [Procs -> Nat]
      /\ BytesInCalls \in [Procs -> Nat] /\ \A q \in Procs : BytesAhead[q] <= BytesInCalls[q]
  BY <1>0, BytesCounted, BytesCountedNext
<1>2. \A q \in Procs : q # p => BytesAhead'[q] = BytesAhead[q]
  BY <1>0, AheadOfProcess DEF ProcessStep
<1>3. BytesAhead[p] = 0
  BY DEF Syscall, BytesAhead, Uncommitted
<1>4. call'[p] = c
  BY <1>0 DEF Syscall, LockInv, ControlInv
<1>5. Total(BytesAhead) \in Nat /\ Total(BytesInCalls) \in Nat /\ Total(BytesAhead) <= Total(BytesInCalls)
  BY <1>0, <1>1, TotalGrows
<1>6. /\ Total(BytesAhead') \in Nat
      /\ Total(BytesAhead') + BytesAhead[p] = Total(BytesAhead) + BytesAhead'[p]
  BY <1>0, <1>1, <1>2, TotalUpdate
<1>7. CASE c.op = "write"
  <2>1. BytesAhead'[p] <= Len(c.chunk) /\ Len(c.chunk) \in Nat
    BY <1>4, <1>7, ChunkOfWrite DEF BytesAhead
  <2>2. entry.size + Total(BytesInCalls) + Len(c.chunk) <= MaxPending
    BY <1>7 DEF Syscall, PendingBytes, Total, BytesInCalls
  <2> DEFINE a == Total(BytesAhead)
             b == Total(BytesAhead')
             i == Total(BytesInCalls)
             n == Len(c.chunk)
             x == BytesAhead'[p]
             e == entry.size
  <2>3. /\ a \in Nat /\ b \in Nat /\ i \in Nat /\ n \in Nat /\ x \in Nat /\ e \in Nat
        /\ a <= i /\ b + 0 = a + x /\ x <= n /\ e + i + n <= MaxPending /\ MaxPending \in Nat
    BY <1>0, <1>1, <1>3, <1>5, <1>6, <2>1, <2>2, DeviceAssumption
  <2> HIDE DEF a, b, i, n, x, e
  <2>4. e + b <= MaxPending
    BY <2>3
  <2> QED
    BY <2>4 DEF e, b
<1>8. CASE c.op # "write"
  <2>1. BytesAhead'[p] = 0
    BY <1>4, <1>8 DEF BytesAhead
  <2>2. Total(BytesAhead') = Total(BytesAhead)
    BY <1>3, <1>5, <1>6, <2>1
  <2> QED
    BY <2>2 DEF RoomInv
<1> QED
  BY <1>7, <1>8

\* A commit moves the bytes of its write from those ahead into the command.
LEMMA CommitFits ==
  ASSUME BaseInv, BaseInv', RoomInv, NEW p \in Procs, aesd_write_commit(p)
  PROVE  /\ entry'.size + Total(BytesAhead') <= MaxPending
         /\ \A i \in Slots : buffer'.entry[i].size <= MaxPending
<1>0. LockInv /\ LockInv' /\ CallInv /\ PositionInv /\ entry \in Stored /\ IsFiniteSet(Procs)
  BY DeviceAssumption DEF BaseInv, DeviceTyped
<1>1. BytesAhead \in [Procs -> Nat] /\ BytesAhead' \in [Procs -> Nat]
  BY <1>0, BytesCounted, BytesCountedNext
<1>2. ProcessStep(p)
  BY DEF ProcessStep, KernelStep
<1>3. /\ \A q \in Procs : q # p => BytesAhead'[q] = BytesAhead[q]
      /\ BytesAhead[p] = Len(call[p].chunk) /\ BytesAhead'[p] = 0
  BY <1>0, <1>2, AheadOfProcess
<1>4. /\ Total(BytesAhead) \in Nat /\ Total(BytesAhead') \in Nat /\ BytesAhead[p] <= Total(BytesAhead)
      /\ Total(BytesAhead') + BytesAhead[p] = Total(BytesAhead) + BytesAhead'[p]
  BY <1>0, <1>1, <1>3, TotalUpdate
<1> DEFINE e == [entry EXCEPT !.size = @ + Len(call[p].chunk)]
           a == Total(BytesAhead)
           b == Total(BytesAhead')
           n == Len(call[p].chunk)
           k == entry.size
<1>5. /\ a \in Nat /\ b \in Nat /\ n \in Nat /\ k \in Nat /\ MaxPending \in Nat
      /\ b + n = a + 0 /\ k + a <= MaxPending
  BY <1>0, <1>1, <1>3, <1>4, DeviceAssumption DEF Stored, RoomInv
<1>6. e.size = k + n
  BY <1>0 DEF Stored
<1>7. \/ commit_entry(e)
      \/ entry' = e /\ UNCHANGED buffer
      \/ entry' = entry /\ UNCHANGED buffer
  BY DEF aesd_write_commit, BadAccess, device
<1> HIDE DEF e, a, b, n, k
<1>8. /\ (k + n) + b <= MaxPending /\ k + n <= MaxPending /\ 0 + b <= MaxPending
      /\ k + b <= MaxPending
  BY <1>5
<1>9. CASE commit_entry(e)
  <2>1. entry'.size = 0 /\ buffer'.entry = [buffer.entry EXCEPT ![buffer.in_offs] = e]
    BY <1>9, DeviceAssumption DEF commit_entry, aesd_circular_buffer_add_entry
  <2>2. buffer.entry \in [Slots -> Stored] /\ buffer.in_offs \in Slots
    BY DEF BaseInv, DeviceTyped, BufferInv, BufferOf
  <2>3. \A i \in Slots : buffer'.entry[i] = buffer.entry[i] \/ buffer'.entry[i] = e
    BY <2>1, <2>2
  <2>4. e.size <= MaxPending
    BY <1>6, <1>8
  <2>5. \A i \in Slots : buffer'.entry[i].size <= MaxPending
    BY <2>3, <2>4 DEF RoomInv
  <2>6. entry'.size + b <= MaxPending
    BY <1>8, <2>1
  <2> QED
    BY <2>5, <2>6 DEF b
<1>10. CASE entry' = e /\ UNCHANGED buffer
  <2>1. entry'.size + b <= MaxPending
    BY <1>6, <1>8, <1>10
  <2> QED
    BY <1>10, <2>1 DEF b, RoomInv
<1>11. CASE entry' = entry /\ UNCHANGED buffer
  BY <1>8, <1>11 DEF b, k, RoomInv
<1> QED
  BY <1>7, <1>9, <1>10, <1>11

\* Every step leaves room.
LEMMA RoomStep ==
  ASSUME BaseInv, BaseInv', RoomInv, [Next]_vars
  PROVE  RoomInv'
<1>0. /\ LockInv /\ LockInv' /\ CallInv /\ PositionInv /\ entry \in Stored /\ IsFiniteSet(Procs)
      /\ MaxPending \in Nat /\ NoEntry.size = 0
  BY DeviceAssumption DEF BaseInv, DeviceTyped
<1>1. BytesAhead \in [Procs -> Nat] /\ BytesAhead' \in [Procs -> Nat]
  BY <1>0, BytesCounted, BytesCountedNext
<1>2. ASSUME \A q \in Procs : BytesAhead'[q] <= BytesAhead[q], entry'.size = entry.size \/ entry'.size = 0
      PROVE  entry'.size + Total(BytesAhead') <= MaxPending
  <2> DEFINE a == Total(BytesAhead)
             b == Total(BytesAhead')
             k == entry.size
  <2>1. a \in Nat /\ b \in Nat /\ b <= a
    BY <1>0, <1>1, <1>2, TotalGrows
  <2>2. k \in Nat /\ k + a <= MaxPending /\ MaxPending \in Nat
    BY <1>0 DEF Stored, RoomInv
  <2> HIDE DEF a, b, k
  <2>3. k + b <= MaxPending /\ 0 + b <= MaxPending
    BY <2>1, <2>2
  <2> QED
    BY <1>2, <2>3 DEF b, k
<1>3. CASE aesd_init_module \/ aesd_cleanup_module
  <2>1. \A q \in Procs : BytesAhead'[q] <= BytesAhead[q]
    <3>1. UNCHANGED <<pc, call>>
      BY <1>3 DEF aesd_init_module, aesd_cleanup_module
    <3>2. BytesAhead' = BytesAhead
      BY <3>1 DEF BytesAhead
    <3> QED
      BY <1>1, <3>2
  <2>2. entry' = NoEntry /\ buffer' = EmptyBuffer
    BY <1>3 DEF aesd_init_module, aesd_cleanup_module, ZeroDevice
  <2>3. entry'.size + Total(BytesAhead') <= MaxPending
    BY <1>0, <1>2, <2>1, <2>2
  <2>4. \A i \in Slots : buffer'.entry[i].size <= MaxPending
    BY <1>0, <2>2 DEF EmptyBuffer
  <2>5. /\ loads' \in 0..MaxLoads /\ (module' = "out" => loads' < MaxLoads)
        /\ opened' \subseteq Files /\ module' \in {"out", "in"}
    BY <1>3, DeviceAssumption DEF aesd_init_module, aesd_cleanup_module, RoomInv
  <2> QED
    BY <2>3, <2>4, <2>5 DEF RoomInv
<1>4. CASE UNCHANGED <<device, pc, call, module, loads>> /\ opened' \subseteq Files
  <2>1. BytesAhead' = BytesAhead
    BY <1>4 DEF BytesAhead
  <2>2. entry'.size + Total(BytesAhead') <= MaxPending
    BY <1>4, <2>1 DEF RoomInv, device
  <2> QED
    BY <1>4, <2>2 DEF RoomInv, device
<1>5. ASSUME NEW p \in Procs, ProcessStep(p) PROVE RoomInv'
  <2> SUFFICES /\ entry'.size + Total(BytesAhead') <= MaxPending
               /\ \A i \in Slots : buffer'.entry[i].size <= MaxPending
    BY <1>5, LifeKept DEF RoomInv
  <2>1. CASE aesd_write_commit(p)
    BY <2>1, CommitFits
  <2>2. ASSUME NEW c \in Requests, Syscall(p, c)
        PROVE  /\ entry'.size + Total(BytesAhead') <= MaxPending
               /\ \A i \in Slots : buffer'.entry[i].size <= MaxPending
    <3>1. UNCHANGED <<buffer, entry>>
      BY <2>2 DEF Syscall, device
    <3> QED
      BY <2>2, <3>1, CallFits DEF RoomInv
  <2>3. CASE ~aesd_write_commit(p) /\ ~\E c \in Requests : Syscall(p, c)
    <3>1. \A q \in Procs : BytesAhead'[q] <= BytesAhead[q]
      <4>1. /\ \A q \in Procs : q # p => BytesAhead'[q] = BytesAhead[q]
            /\ BytesAhead'[p] = BytesAhead[p] \/ BytesAhead'[p] = 0
        BY <1>0, <1>5, <2>3, AheadOfProcess
      <4> QED
        BY <1>1, <4>1
    <3>2. UNCHANGED buffer /\ entry'.size = entry.size
      <4>1. aesd_write_alloc(p) \/ UNCHANGED device
        BY <1>5, <2>3, ProcessLeavesDevice
      <4>2. CASE UNCHANGED device
        BY <4>2 DEF device
      <4>3. CASE aesd_write_alloc(p)
        <5>1. UNCHANGED buffer /\ (entry' = entry \/ \E b : entry' = [entry EXCEPT !.buffptr = b])
          BY <4>3 DEF aesd_write_alloc, write_alloc_succeeds
        <5> QED
          BY <1>0, <5>1 DEF Stored
      <4> QED
        BY <4>1, <4>2, <4>3
    <3> QED
      BY <1>2, <3>1, <3>2 DEF RoomInv
  <2> QED
    BY <2>1, <2>2, <2>3
<1>6. CASE \E f \in Files : aesd_open(f) \/ aesd_release(f)
  BY <1>4, <1>6 DEF aesd_open, aesd_release, RoomInv
<1>7. CASE UNCHANGED vars
  BY <1>4, <1>7 DEF vars, life, RoomInv
<1> QED
  BY <1>3, <1>5, <1>6, <1>7 DEF Next, ProcessStep

\* The bounds hold throughout.
LEMMA RoomInvariance ==
  ASSUME DocumentedRequests PROVE Spec => []RoomInv
<1>1. Init => RoomInv
  <2> SUFFICES ASSUME Init PROVE RoomInv
    OBVIOUS
  <2>1. /\ BytesAhead = [p \in Procs |-> 0] /\ entry = NoEntry /\ NoEntry.size = 0
        /\ buffer = EmptyBuffer /\ MaxPending \in Nat /\ IsFiniteSet(Procs)
    BY DeviceAssumption DEF Init, BytesAhead, NoCall
  <2>2. Total(BytesAhead) = 0
    <3> DEFINE z == [p \in Procs |-> 0]
    <3>1. z \in [Procs -> Nat] /\ \A p \in Procs : z[p] = 0
      OBVIOUS
    <3> HIDE DEF z
    <3>2. Total(z) = 0
      BY <2>1, <3>1, TotalZero
    <3> QED
      BY <2>1, <3>2 DEF z
  <2>3. entry.size + Total(BytesAhead) <= MaxPending
    BY <2>1, <2>2
  <2>4. \A i \in Slots : buffer.entry[i].size <= MaxPending
    BY <2>1 DEF EmptyBuffer
  <2> QED
    BY <2>3, <2>4, DeviceAssumption DEF Init, RoomInv
<1>2. BaseInv /\ BaseInv' /\ RoomInv /\ [Next]_vars => RoomInv'
  BY RoomStep
<1>3. DeviceInv => BaseInv
  BY DEF DeviceInv
<1> QED
  BY <1>1, <1>2, <1>3, DeviceInvariance, PTL DEF Spec

-----------------------------------------------------------------------------
(* Reads and seeks                                                         *)

\* Offsets are signed and as wide as size_t.
SeekOffsetsFit ==
  \A c \in Requests : c.op = "llseek" => -SizeMod <= 2 * c.off /\ 2 * c.off < SizeMod

\* A number of bytes that a file position can hold.
Near(x) == x >= 0 /\ 2 * x < SizeMod

\* The bytes stored can be counted by a file position.
BytesFit == Near(TotalBytesWritten)

\* A call has no result before it has one.
ResultInv ==
  \A p \in Procs : pc[p] \in {"user", "ioctl", "lock", "ioctl_seek"} => local[p].ret = 0

\* The search from p's position finds what p has found.
FoundAt(p) ==
  /\ local[p].found = find_entry_offset_for_fpos(size_t(local[p].pos))
  /\ local[p].found # NotFound

\* Between its search and its use, what a process has found stays what its
\* position names, and the position a seek has searched stays its target, unless
\* it is relative to a shared file position.
PlaceInv ==
  /\ \A p \in Procs : pc[p] \in {"read_copy", "llseek_target"} => FoundAt(p)
  /\ \A p \in Procs : pc[p] = "llseek_target" /\ (call[p].whence # 1 \/ Alone(p)) =>
       local[p].pos = SeekTarget(p)

\* The k-th oldest command is the content of the k-th slot the search visits,
\* and begins where the sizes of the ones before it add up to.
LEMMA HeldLayout ==
  ASSUME DeviceTyped, SlotsInv
  PROVE  /\ CommandsHeld \in Seq(Seq(Written)) /\ Len(CommandsHeld) = EntryCount
         /\ EntryCount \in 0..MaxWriteOps /\ MaxWriteOps \in Nat
         /\ \A k \in 0..(EntryCount - 1) :
              /\ CommandsHeld[k + 1] = BytesIn(heap, buffer.entry[SearchSlot(k)])
              /\ Len(CommandsHeld[k + 1]) = buffer.entry[SearchSlot(k)].size
              /\ SearchSlot(k) \in Slots /\ buffer.entry[SearchSlot(k)] \in Stored
         /\ \A k \in 0..EntryCount :
              Len(Upto(CommandsHeld, k)) = BytesSearched(k) /\ BytesSearched(k) \in Nat
         /\ Len(FlattenSeq(CommandsHeld)) = TotalBytesWritten
         /\ TotalBytesWritten \in Nat
<1>0. BufferInv(Stored) /\ \A d \in Stored : d.size \in Nat
  BY DEF DeviceTyped, Stored
<1>1. CommandsHeld \in Seq(Seq(Written)) /\ Len(CommandsHeld) = EntryCount
  BY HeldTyped
<1>2. EntryCount \in 0..MaxWriteOps /\ MaxWriteOps \in Nat
  BY HeldBytes, BufferAssumption DEF LogFacts
<1>3. ASSUME NEW k \in 0..(EntryCount - 1)
      PROVE  /\ CommandsHeld[k + 1] = BytesIn(heap, buffer.entry[SearchSlot(k)])
             /\ Len(CommandsHeld[k + 1]) = buffer.entry[SearchSlot(k)].size
             /\ SearchSlot(k) \in Slots /\ buffer.entry[SearchSlot(k)] \in Stored
  <2> DEFINE e == buffer.entry[SearchSlot(k)]
  <2>1. k \in Nat /\ k + 1 \in 1..EntryCount /\ (k + 1) - 1 = k
    BY <1>2
  <2>2. SearchSlot(k) \in Slots /\ e \in Stored
    <3>1. SearchSlot(k) \in Slots
      BY <1>0, <2>1, SearchSlotInArray
    <3> QED
      BY <3>1, <1>0 DEF BufferInv, BufferOf
  <2>3. BufferLog[k + 1] = e
    <3>1. BufferLog[k + 1] = buffer.entry[(buffer.out_offs + ((k + 1) - 1)) % MaxWriteOps]
      BY <2>1, HeldBytes DEF LogFacts
    <3> QED
      BY <2>1, <3>1 DEF SearchSlot
  <2>4. CommandsHeld[k + 1] = BytesIn(heap, e)
    <3>1. CommandsHeld = [j \in 1..EntryCount |-> BytesIn(heap, BufferLog[j])]
      BY HeldBytes
    <3> QED
      BY <2>1, <2>3, <3>1
  <2>5. Len(BytesIn(heap, e)) = e.size
    <3>1. CASE e.buffptr = NULL
      <4>1. e.size = 0
        BY <2>2, <3>1 DEF SlotsInv
      <4> QED
        BY <3>1, <4>1, EmptySeq DEF BytesIn
    <3>2. CASE e.buffptr # NULL
      <4> DEFINE h == heap[e.buffptr]
      <4>1. h \in Seq(Written) /\ Len(h) = e.size
        BY <2>2, <3>2 DEF SlotsInv
      <4>2. SubSeq(h, 1, Len(h)) = h
        BY <4>1, SubSeqFull
      <4> QED
        BY <3>2, <4>1, <4>2 DEF BytesIn
    <3> QED
      BY <3>1, <3>2
  <2> QED
    BY <2>2, <2>4, <2>5
<1>4. \A k \in 0..EntryCount : BytesSearched(k) \in Nat
  BY <1>0, <1>2, BytesSearchedStep
<1> DEFINE S == {k \in Nat : k <= EntryCount => Len(Upto(CommandsHeld, k)) = BytesSearched(k)}
<1>5. 0 \in S
  <2>1. Upto(CommandsHeld, 0) = << >>
    BY <1>1, UptoStep
  <2>2. BytesSearched(0) = 0
    BY <1>0, BytesSearchedStep
  <2> QED
    BY <2>1, <2>2, EmptySeq
<1>6. ASSUME NEW k \in Nat, k \in S PROVE k + 1 \in S
  <2> SUFFICES ASSUME k + 1 <= EntryCount
               PROVE  Len(Upto(CommandsHeld, k + 1)) = BytesSearched(k + 1)
    OBVIOUS
  <2>1. k \in 0..(EntryCount - 1) /\ k \in 0..(MaxWriteOps - 1) /\ k <= EntryCount
    BY <1>2
  <2>2. Len(Upto(CommandsHeld, k + 1)) = Len(Upto(CommandsHeld, k)) + Len(CommandsHeld[k + 1])
    BY <1>1, <2>1, FlattenElements
  <2>3. BytesSearched(k + 1) = BytesSearched(k) + buffer.entry[SearchSlot(k)].size
    BY <1>0, <2>1, BytesSearchedStep
  <2>4. Len(CommandsHeld[k + 1]) = buffer.entry[SearchSlot(k)].size
    BY <1>3, <2>1
  <2>5. Len(Upto(CommandsHeld, k)) = BytesSearched(k)
    BY <1>6, <2>1
  <2> QED
    BY <2>2, <2>3, <2>4, <2>5
<1> HIDE DEF S
<1>7. Nat \subseteq S
  BY <1>5, <1>6, SetInduction
<1>8. \A k \in 0..EntryCount : Len(Upto(CommandsHeld, k)) = BytesSearched(k)
  BY <1>2, <1>7 DEF S
<1>9. TotalBytesWritten = BytesSearched(EntryCount)
  BY <1>0, AllBytesSearched
<1>10. Upto(CommandsHeld, EntryCount) = FlattenSeq(CommandsHeld)
  BY <1>1, UptoStep
<1>11. EntryCount \in 0..EntryCount
  BY <1>2
<1> QED
  BY <1>1, <1>2, <1>3, <1>4, <1>8, <1>9, <1>10, <1>11

\* The bytes that aesd_read copies out of an entry are the bytes at its position
\* in the stored commands laid end to end.
LEMMA ReadIsPiece ==
  ASSUME DeviceTyped, SlotsInv, NEW off \in Nat, NEW at, at = find_entry_offset_for_fpos(off),
         at # NotFound, NEW n \in Nat, at.offset + n <= buffer.entry[at.slot].size
  PROVE  /\ off + n <= TotalBytesWritten
         /\ Slice(buffer.entry[at.slot].buffptr, at.offset, n)
              = SubSeq(FlattenSeq(CommandsHeld), off + 1, off + n)
         /\ at.offset + n = buffer.entry[at.slot].size =>
              off + n \in {Len(Upto(CommandsHeld, k)) : k \in 1..EntryCount}
<1> DEFINE all == FlattenSeq(CommandsHeld)
<1>0. BufferInv(Stored) /\ \A d \in Stored : d.size \in Nat
  BY DEF DeviceTyped, Stored
<1>1. /\ CommandsHeld \in Seq(Seq(Written)) /\ Len(CommandsHeld) = EntryCount
      /\ EntryCount \in 0..MaxWriteOps /\ MaxWriteOps \in Nat
      /\ Len(all) = TotalBytesWritten /\ TotalBytesWritten \in Nat
  BY HeldLayout
<1>2. off < TotalBytesWritten
  BY <1>0, <1>1, SearchResult
<1>3. PICK k \in 0..(EntryCount - 1) :
        /\ BytesSearched(k) <= off /\ off < BytesSearched(k + 1)
        /\ at = [slot |-> SearchSlot(k), offset |-> off - BytesSearched(k)]
  BY <1>0, <1>2, SearchResult
<1> DEFINE e == buffer.entry[SearchSlot(k)]
           o == off - BytesSearched(k)
           c == CommandsHeld[k + 1]
<1>4. at.slot = SearchSlot(k) /\ at.offset = o
  BY <1>3
<1>5. k \in 0..EntryCount /\ k + 1 \in 1..EntryCount /\ k + 1 \in 0..EntryCount
  BY <1>1
<1>6. /\ c = BytesIn(heap, e) /\ Len(c) = e.size /\ SearchSlot(k) \in Slots /\ e \in Stored
      /\ BytesSearched(k) \in Nat /\ Len(Upto(CommandsHeld, k)) = BytesSearched(k)
      /\ BytesSearched(k + 1) \in Nat /\ Len(Upto(CommandsHeld, k + 1)) = BytesSearched(k + 1)
  BY <1>5, HeldLayout
<1>7. /\ BytesSearched(k + 1) = BytesSearched(k) + e.size
      /\ BytesSearched(k + 1) <= Len(all)
      /\ \A i \in 1..e.size : all[BytesSearched(k) + i] = c[i]
  <2>1. /\ Len(Upto(CommandsHeld, k + 1)) = Len(Upto(CommandsHeld, k)) + Len(c)
        /\ Len(Upto(CommandsHeld, k + 1)) <= Len(all)
        /\ \A i \in 1..Len(c) : all[Len(Upto(CommandsHeld, k)) + i] = c[i]
    BY <1>1, FlattenElements
  <2> HIDE DEF all, c, e
  <2> QED
    BY <1>6, <2>1
<1>8. o \in Nat /\ o < e.size /\ e.size \in Nat /\ o + n <= e.size /\ off = BytesSearched(k) + o
  BY <1>0, <1>3, <1>4, <1>6, <1>7, SMTT(60)
<1> HIDE DEF all, o, c
<1>9. off + n <= TotalBytesWritten
  <2> DEFINE size == e.size
  <2>1. /\ BytesSearched(k) \in Nat /\ BytesSearched(k + 1) = BytesSearched(k) + size
        /\ BytesSearched(k + 1) <= TotalBytesWritten /\ TotalBytesWritten \in Nat
    BY <1>1, <1>6, <1>7
  <2>2. size \in Nat /\ o \in Nat /\ o + n <= size /\ off = BytesSearched(k) + o
    BY <1>8
  <2> HIDE DEF size
  <2> QED
    BY <2>1, <2>2
<1>10. e.buffptr # NULL /\ heap[e.buffptr] \in Seq(Written) /\ Len(heap[e.buffptr]) = e.size
  <2>1. e.size # 0
    BY <1>8
  <2>2. SearchSlot(k) \in Slots
    BY <1>6
  <2> QED
    BY <2>1, <2>2 DEF SlotsInv
<1> DEFINE h == heap[e.buffptr]
<1>11. c = h
  <2>1. SubSeq(h, 1, Len(h)) = h
    BY <1>10, SubSeqFull
  <2> QED
    BY <1>6, <1>10, <2>1 DEF BytesIn
<1>12. all \in Seq(Written)
  BY <1>1, FlattenTyped DEF all
<1>13. Slice(e.buffptr, o, n) = SubSeq(h, o + 1, o + n)
  BY DEF Slice
<1>14. SubSeq(h, o + 1, o + n) = SubSeq(all, off + 1, off + n)
  <2> HIDE DEF h, e
  <2>1. \A i \in 1..n : o + i \in 1..e.size /\ off + i \in 1..Len(all)
                        /\ BytesSearched(k) + (o + i) = off + i
    <3> DEFINE size == e.size
    <3>1. size \in Nat /\ o \in Nat /\ o + n <= size /\ off = BytesSearched(k) + o
          /\ BytesSearched(k) \in Nat
      BY <1>6, <1>8
    <3>2. off + n <= Len(all) /\ Len(all) \in Nat
      BY <1>1, <1>9
    <3> HIDE DEF size
    <3>3. \A i \in 1..n : o + i \in 1..size /\ BytesSearched(k) + (o + i) = off + i
      BY <3>1
    <3>4. \A i \in 1..n : off + i \in 1..Len(all)
      BY <3>2
    <3> QED
      BY <3>3, <3>4 DEF size
  <2>2. \A i \in 1..n : h[o + i] = all[off + i]
    BY <1>7, <1>11, <2>1
  <2>3. \A i \in (o + 1)..(o + n) : h[i] \in Written
    <3>1. \A i \in 1..Len(h) : h[i] \in Written
      BY <1>10, ElementOfSeq DEF h
    <3>2. \A i \in (o + 1)..(o + n) : i \in 1..e.size
      BY <1>8
    <3> QED
      BY <1>10, <3>1, <3>2 DEF h
  <2>4. \A i \in (off + 1)..(off + n) : all[i] \in Written
    <3>1. \A i \in (off + 1)..(off + n) : i \in 1..Len(all)
      BY <1>1, <1>9
    <3> QED
      BY <1>12, <3>1, ElementOfSeq
  <2>5. /\ SubSeq(h, o + 1, o + n) \in Seq(Written)
        /\ Len(SubSeq(h, o + 1, o + n)) = n
        /\ \A i \in 1..n : SubSeq(h, o + 1, o + n)[i] = h[o + i]
    <3>1. o + 1 \in Int /\ o + n \in Int
      BY <1>8
    <3>2. /\ SubSeq(h, o + 1, o + n) \in Seq(Written)
          /\ Len(SubSeq(h, o + 1, o + n)) = IF o + 1 <= o + n THEN (o + n) - (o + 1) + 1 ELSE 0
          /\ \A i \in 1..((o + n) - (o + 1) + 1) : SubSeq(h, o + 1, o + n)[i] = h[(o + 1) + i - 1]
      BY <2>3, <3>1, SubSeqProperties
    <3> HIDE DEF h
    <3>3. (o + n) - (o + 1) + 1 = n /\ \A i \in 1..n : (o + 1) + i - 1 = o + i
      BY <1>8
    <3>4. (o + 1 <= o + n) => n = n
      OBVIOUS
    <3>5. ~(o + 1 <= o + n) => n = 0
      BY <1>8
    <3> QED
      BY <3>2, <3>3, <3>5
  <2>6. /\ SubSeq(all, off + 1, off + n) \in Seq(Written)
        /\ Len(SubSeq(all, off + 1, off + n)) = n
        /\ \A i \in 1..n : SubSeq(all, off + 1, off + n)[i] = all[off + i]
    <3>1. off + 1 \in Int /\ off + n \in Int
      OBVIOUS
    <3>2. /\ SubSeq(all, off + 1, off + n) \in Seq(Written)
          /\ Len(SubSeq(all, off + 1, off + n))
               = IF off + 1 <= off + n THEN (off + n) - (off + 1) + 1 ELSE 0
          /\ \A i \in 1..((off + n) - (off + 1) + 1) :
               SubSeq(all, off + 1, off + n)[i] = all[(off + 1) + i - 1]
      BY <2>4, <3>1, SubSeqProperties
    <3>3. (off + n) - (off + 1) + 1 = n /\ \A i \in 1..n : (off + 1) + i - 1 = off + i
      OBVIOUS
    <3>4. ~(off + 1 <= off + n) => n = 0
      OBVIOUS
    <3> QED
      BY <3>2, <3>3, <3>4
  <2> DEFINE a == SubSeq(h, o + 1, o + n)
             b == SubSeq(all, off + 1, off + n)
  <2>7. a \in Seq(Written) /\ b \in Seq(Written) /\ Len(a) = Len(b) /\ \A i \in 1..Len(a) : a[i] = b[i]
    BY <2>2, <2>5, <2>6
  <2> HIDE DEF a, b
  <2>8. a = b
    BY <2>7, SeqEqual
  <2> QED
    BY <2>8 DEF a, b
<1>15. o + n = e.size => off + n = Len(Upto(CommandsHeld, k + 1))
  BY <1>6, <1>7, <1>8, SMTT(60)
<1>16. e = buffer.entry[at.slot]
  BY <1>4
<1> HIDE DEF e, h
<1>17. Slice(buffer.entry[at.slot].buffptr, at.offset, n)
         = SubSeq(FlattenSeq(CommandsHeld), off + 1, off + n)
  BY <1>4, <1>13, <1>14, <1>16 DEF all
<1>18. ASSUME at.offset + n = buffer.entry[at.slot].size
       PROVE  off + n \in {Len(Upto(CommandsHeld, j)) : j \in 1..EntryCount}
  <2>1. off + n = Len(Upto(CommandsHeld, k + 1))
    BY <1>4, <1>15, <1>16, <1>18
  <2> QED
    BY <1>5, <2>1
<1> QED
  BY <1>9, <1>17, <1>18


\* A position that fits is not changed by the conversion to size_t, and a
\* negative one becomes one that does not fit.
LEMMA SizeOfNear ==
  ASSUME NEW x \in Int, -SizeMod <= 2 * x, x < SizeMod
  PROVE  size_t(x) = IF x >= 0 THEN x ELSE x + SizeMod
  BY SizeModPositive DEF size_t

\* The byte that AESDCHAR_IOCSEEKTO accepts is a stored one.
LEMMA SlotInLog ==
  ASSUME DeviceTyped, NEW cmd \in Nat, cmd < MaxWriteOps, NEW off \in Nat,
         off < buffer.entry[cmd].size
  PROVE  SlotPosition(cmd) \in Nat /\ SlotPosition(cmd) + off < TotalBytesWritten
<1> DEFINE f == [i \in Slots |-> buffer.entry[i].size]
           N == MaxWriteOps
<1>1. /\ N \in Nat /\ cmd \in 0..N /\ cmd \in 0..(N - 1) /\ cmd + 1 \in 0..N
      /\ \A i \in 0..(N - 1) : f[i] = buffer.entry[i].size /\ f[i] \in Nat
  BY BufferAssumption DEF Slots, DeviceTyped, BufferInv, BufferOf, Stored
<1>2. SlotPosition(cmd) = SumUpTo(f, cmd) /\ TotalBytesWritten = SumUpTo(f, N)
  BY DEF SlotPosition, TotalBytesWritten
<1>3. f[cmd] = buffer.entry[cmd].size /\ f[cmd] \in Nat
  BY <1>1
<1> HIDE DEF f, N
<1>4. SumUpTo(f, cmd) \in Nat /\ SumUpTo(f, cmd + 1) \in Nat /\ SumUpTo(f, N) \in Nat
  <2>1. \A n \in 0..N : SumUpTo(f, n) \in Nat
    BY <1>1, SumUpToNat
  <2> QED
    BY <1>1, <2>1
<1>5. SumUpTo(f, cmd + 1) = SumUpTo(f, cmd) + f[cmd]
  BY SumUpToStep
<1>6. SumUpTo(f, cmd + 1) <= SumUpTo(f, N)
  BY <1>1, SumUpToGrows
<1> QED
  BY <1>2, <1>3, <1>4, <1>5, <1>6

\* The position that aesd_llseek has searched is that of a stored byte; SEEK_SET
\* and SEEK_END search the one asked for: the conversion of a negative position
\* to size_t is past the end.
LEMMA SeekLands ==
  ASSUME DocumentedRequests, SeekOffsetsFit, DeviceInv, BytesFit, NEW p \in Procs,
         pc[p] = "llseek_target", FoundAt(p),
         call[p].whence # 1 => local[p].pos = SeekTarget(p)
  PROVE  /\ size_t(local[p].pos) \in 0..(TotalBytesWritten - 1)
         /\ call[p].whence = 0 => /\ local[p].pos = call[p].off
                                  /\ local[p].pos \in 0..(TotalBytesWritten - 1)
         /\ call[p].whence = 2 => /\ local[p].pos = TotalBytesWritten + call[p].off
                                  /\ local[p].pos \in 0..(TotalBytesWritten - 1)
<1> DEFINE T == TotalBytesWritten
           x == local[p].pos
           d == call[p].off
           w == call[p].whence
<1>1. DeviceTyped /\ SlotsInv /\ CallInv /\ PositionInv /\ total_bytes = T
  BY DEF DeviceInv, BaseInv, StoreInv, BytesAccounted
<1>2. d \in Int /\ w \in 0..2 /\ -SizeMod <= 2 * d /\ 2 * d < SizeMod
  BY <1>1, DeviceAssumption DEF CallInv, DocumentedRequests, SeekOffsetsFit
<1>3. T \in Nat /\ Near(T) /\ SizeMod \in Nat
  BY <1>1, HeldLayout, DeviceAssumption DEF BytesFit
<1>4. /\ w = 0 => x = d
      /\ w = 2 => x = size_t(T + d)
  BY <1>1, <1>2 DEF SeekTarget
<1>5. x \in Int /\ size_t(x) \in Nat
  BY <1>1, SizeIsNat DEF PositionInv, LocalsOK
<1>6. size_t(x) < T
  <2>1. BufferInv(Stored) /\ \A e \in Stored : e.size \in Nat
    BY <1>1 DEF DeviceTyped, Stored
  <2>2. size_t(x) >= T => find_entry_offset_for_fpos(size_t(x)) = NotFound
    BY <1>5, <2>1, SearchResult
  <2> QED
    BY <1>3, <1>5, <2>2 DEF FoundAt
<1> SUFFICES /\ w = 0 => x = d /\ x \in 0..(T - 1)
             /\ w = 2 => x = T + d /\ x \in 0..(T - 1)
  BY <1>3, <1>5, <1>6
<1> HIDE DEF T, x, d, w
<1>7. ASSUME NEW y \in Int, -SizeMod <= 2 * y, y < SizeMod, size_t(y) < T
      PROVE  y >= 0 /\ y < T
  <2>1. size_t(y) = IF y >= 0 THEN y ELSE y + SizeMod
    BY <1>7, SizeOfNear
  <2> QED
    BY <1>3, <1>7, <2>1 DEF Near
<1>8. CASE w = 0
  BY <1>2, <1>3, <1>4, <1>6, <1>7, <1>8
<1>9. CASE w = 2
  <2>1. -SizeMod <= 2 * (T + d) /\ T + d < SizeMod /\ T + d \in Int
    BY <1>2, <1>3 DEF Near
  <2>2. x = size_t(T + d)
    BY <1>4, <1>9
  <2>3. x = IF T + d >= 0 THEN T + d ELSE T + d + SizeMod
    BY <2>1, <2>2, SizeOfNear
  <2>4. x >= 0 /\ x < SizeMod /\ -SizeMod <= 2 * x
    BY <1>3, <2>1, <2>3
  <2>5. x < T
    BY <1>5, <1>6, <1>7, <2>4
  <2>6. T + d >= 0
    BY <1>2, <1>3, <2>1, <2>3, <2>5 DEF Near
  <2> QED
    BY <1>3, <1>9, <2>3, <2>4, <2>5, <2>6
<1> QED
  BY <1>8, <1>9


\* A process whose label changes has taken the step.
LEMMA StepTaken ==
  ASSUME LockInv, PositionInv, [Next]_vars, NEW p \in Procs, pc'[p] # pc[p]
  PROVE  ProcessStep(p)
<1>1. CASE aesd_init_module \/ aesd_cleanup_module \/ \E f \in Files : aesd_open(f) \/ aesd_release(f)
  BY <1>1 DEF aesd_init_module, aesd_cleanup_module, aesd_open, aesd_release
<1>2. CASE UNCHANGED vars
  BY <1>2 DEF vars
<1>3. ASSUME NEW q \in Procs, ProcessStep(q) PROVE ProcessStep(p)
  <2>1. CASE q = p
    BY <1>3, <2>1
  <2>2. CASE q # p
    BY <1>3, <2>2, OneMoves DEF OthersWait
  <2> QED
    BY <2>1, <2>2
<1> QED
  BY <1>1, <1>2, <1>3 DEF Next, ProcessStep

\* Inside the critical section the label says which step is next.
LEMMA StepAt ==
  ASSUME NEW p \in Procs, ProcessStep(p)
  PROVE  /\ pc[p] = "read_find" => aesd_read_find(p)
         /\ pc[p] = "read_copy" => aesd_read_copy(p)
         /\ pc[p] = "llseek" => aesd_llseek(p)
         /\ pc[p] = "llseek_target" => aesd_llseek_target(p)
         /\ pc[p] = "ioctl_seek" => aesd_ioctl_seek(p)
<1>1. CASE \/ \E c \in Requests : Syscall(p, c)
           \/ mutex_lock_interruptible(p) \/ Interrupted(p) \/ QueueWaiter(p)
           \/ mutex_unlock(p) \/ Return(p)
  BY <1>1 DEF Syscall, mutex_lock_interruptible, Interrupted, QueueWaiter, mutex_unlock, Return
<1>2. CASE \/ aesd_write_alloc(p) \/ aesd_write_copy(p) \/ aesd_write_commit(p) \/ aesd_ioctl(p)
  BY <1>2 DEF aesd_write_alloc, aesd_write_copy, aesd_write_commit, aesd_ioctl
<1>3. CASE \/ aesd_read_find(p) \/ aesd_read_copy(p) \/ aesd_llseek(p) \/ aesd_llseek_target(p)
           \/ aesd_ioctl_seek(p)
  BY <1>3, SMTT(60)
  DEF aesd_read_find, aesd_read_copy, aesd_llseek, aesd_llseek_target, aesd_ioctl_seek
<1> QED
  BY <1>1, <1>2, <1>3 DEF ProcessStep, KernelStep

\* What aesd_read has found is a place in the stored bytes.
LEMMA FoundIsPlace ==
  ASSUME DeviceInv, PlaceInv, NEW p \in Procs, pc[p] = "read_copy"
  PROVE  LET n == BytesToRead(p)
             at == local[p].found
             pos == size_t(local[p].pos)
         IN /\ n \in Nat /\ pos \in Nat /\ pos + n <= TotalBytesWritten
            /\ Slice(buffer.entry[at.slot].buffptr, at.offset, n)
                 = SubSeq(FlattenSeq(CommandsHeld), pos + 1, pos + n)
            /\ n = call[p].count \/ pos + n \in {Len(Upto(CommandsHeld, k)) : k \in 1..EntryCount}
<1> DEFINE n == BytesToRead(p)
           at == local[p].found
           pos == size_t(local[p].pos)
           size == buffer.entry[at.slot].size
<1>1. DeviceTyped /\ SlotsInv /\ CallInv /\ PositionInv /\ ReadInv
  BY DEF DeviceInv, BaseInv, StoreInv
<1>2. local[p].pos \in Int
  BY <1>1 DEF PositionInv, LocalsOK
<1>3. pos \in Nat
  BY <1>2, SizeIsNat
<1>4. at = find_entry_offset_for_fpos(pos) /\ at # NotFound
  BY DEF PlaceInv, FoundAt
<1>5. n \in Nat /\ at.offset + n <= size
  BY <1>1, BytesToReadBounds
<1>6. n # call[p].count => at.offset + n = size
  <2>1. size \in Int /\ at.offset \in Int
    <3>1. at.slot \in Slots /\ at.offset \in Nat
      BY <1>1 DEF ReadInv
    <3>2. buffer.entry[at.slot] \in Stored
      BY <1>1, <3>1 DEF DeviceTyped, BufferInv, BufferOf
    <3> QED
      BY <3>1, <3>2 DEF Stored
  <2>2. n = IF size - at.offset > call[p].count THEN call[p].count ELSE size - at.offset
    BY DEF BytesToRead
  <2> HIDE DEF n, size, at
  <2> QED
    BY <2>1, <2>2
<1> HIDE DEF n, at, pos
<1>8. /\ pos + n <= TotalBytesWritten
      /\ Slice(buffer.entry[at.slot].buffptr, at.offset, n)
           = SubSeq(FlattenSeq(CommandsHeld), pos + 1, pos + n)
      /\ at.offset + n = size => pos + n \in {Len(Upto(CommandsHeld, k)) : k \in 1..EntryCount}
  BY <1>1, <1>3, <1>4, <1>5, ReadIsPiece
<1> HIDE DEF size
<1>9. n = call[p].count \/ pos + n \in {Len(Upto(CommandsHeld, k)) : k \in 1..EntryCount}
  BY <1>6, <1>8
<1> QED
  BY <1>3, <1>5, <1>8, <1>9 DEF n, at, pos

\* What a step of aesd_read leaves in the process's variables.
LEMMA ReadGives ==
  ASSUME DeviceInv, NEW p \in Procs, aesd_read_copy(p)
  PROVE  LET l == local[p]
             n == BytesToRead(p)
             z == Slice(buffer.entry[l.found.slot].buffptr, l.found.offset, n)
         IN \/ LocalsBecome(p, [pos |-> l.pos + n, found |-> l.found, ret |-> n, buf |-> z])
            \/ /\ "copy" \in Faults
               /\ LocalsBecome(p, [pos |-> l.pos, found |-> l.found, ret |-> -EFAULT, buf |-> l.buf])
<1> DEFINE l == local[p]
           n == BytesToRead(p)
           z == Slice(buffer.entry[l.found.slot].buffptr, l.found.offset, n)
<1>1. PositionInv /\ ~BadAccess(p)
  BY ReadInBlock DEF DeviceInv, BaseInv
<1>2. \/ local' = [local EXCEPT ![p].pos = @ + n, ![p].ret = n, ![p].buf = z]
      \/ "copy" \in Faults /\ local' = [local EXCEPT ![p].ret = -EFAULT]
  BY <1>1 DEF aesd_read_copy, Result
<1> HIDE DEF n, z
<1>3. CASE local' = [local EXCEPT ![p].pos = @ + n, ![p].ret = n, ![p].buf = z]
  <2>1. LocalsBecome(p, [pos |-> l.pos + n, found |-> l.found, ret |-> n, buf |-> z])
    BY <1>1, <1>3, LocalAssignments
  <2> QED
    BY <2>1 DEF n, z
<1>4. CASE "copy" \in Faults /\ local' = [local EXCEPT ![p].ret = -EFAULT]
  BY <1>1, <1>4, LocalAssignments
<1> QED
  BY <1>2, <1>3, <1>4

\* A process moves no file position but its own file's.
LEMMA OwnPositionMoves ==
  ASSUME PositionInv, NEW p \in Procs, ProcessStep(p), NEW g \in Files, g # FileOf[p]
  PROVE  f_pos'[g] = f_pos[g]
<1>1. CASE Return(p) \/ aesd_ioctl_seek(p)
  BY <1>1 DEF Return, aesd_ioctl_seek, PositionInv
<1>2. CASE \/ \E c \in Requests : Syscall(p, c)
           \/ mutex_lock_interruptible(p) \/ Interrupted(p) \/ QueueWaiter(p) \/ mutex_unlock(p)
           \/ aesd_read_find(p) \/ aesd_read_copy(p)
           \/ aesd_write_alloc(p) \/ aesd_write_copy(p) \/ aesd_write_commit(p)
           \/ aesd_llseek(p) \/ aesd_llseek_target(p) \/ aesd_ioctl(p)
  BY <1>2 DEF Syscall, mutex_lock_interruptible, Interrupted, QueueWaiter, mutex_unlock,
              aesd_read_find, aesd_read_copy, BadAccess, aesd_write_alloc, aesd_write_copy,
              aesd_write_commit, aesd_llseek, aesd_llseek_target, aesd_ioctl
<1> QED
  BY <1>1, <1>2 DEF ProcessStep, KernelStep

\* The search gives the same result while the buffer stays.
LEMMA SearchKept ==
  ASSUME UNCHANGED buffer, NEW q \in Procs, NEW x, local'[q].pos = x
  PROVE  find_entry_offset_for_fpos(size_t(local[q].pos))'
           = find_entry_offset_for_fpos(size_t(x))
<1>1. TotalBytesWritten' = TotalBytesWritten
  BY DEF TotalBytesWritten
<1>2. \A k : SearchSlot(k)' = SearchSlot(k)
  BY DEF SearchSlot
<1>3. \A k : SearchReaches(k)' = SearchReaches(k)
  BY DEF SearchReaches, SearchWrapped, SearchSlot
<1>4. \A k : BytesSearched(k)' = BytesSearched(k)
  BY DEF BytesSearched, SearchSlot
<1>5. \A y, k : HitAt(y, k)' = HitAt(y, k)
  BY <1>3, <1>4 DEF HitAt
<1> QED
  BY <1>1, <1>2, <1>4, <1>5 DEF find_entry_offset_for_fpos, size_t

\* What the search of a seek assigns.
LEMMA SearchOfSeek ==
  ASSUME LockInv, PositionInv, NEW p \in Procs, aesd_llseek(p), pc'[p] = "llseek_target"
  PROVE  LET at == find_entry_offset_for_fpos(size_t(SeekTarget(p)))
         IN /\ at # NotFound /\ UNCHANGED <<device, f_pos, call>>
            /\ local'[p].pos = SeekTarget(p) /\ local'[p].found = at
<1> DEFINE x == SeekTarget(p)
           at == find_entry_offset_for_fpos(size_t(x))
           l == local[p]
<1>1. /\ at # NotFound /\ UNCHANGED <<device, f_pos, call>>
      /\ local' = [local EXCEPT ![p].pos = x, ![p].found = at]
  BY DEF aesd_llseek, Result, Goto, LockInv, ControlInv
<1> HIDE DEF x, at
<1>2. LocalsBecome(p, [pos |-> x, found |-> at, ret |-> l.ret, buf |-> l.buf])
  BY <1>1, LocalAssignments
<1>3. local'[p].pos = x /\ local'[p].found = at
  BY <1>2 DEF LocalsBecome
<1> QED
  BY <1>1, <1>3 DEF x, at

\* The device waits while a process is in the critical section and another moves.
LEMMA DeviceWaits ==
  ASSUME LockInv, NEW p \in Procs, ProcessStep(p), NEW q \in Procs \ {p},
         pc[q] \in CriticalSection
  PROVE  UNCHANGED device
<1>1. pc[p] \notin CriticalSection
  BY OnlyOneInside
<1>2. ~aesd_write_alloc(p) /\ ~aesd_write_commit(p)
  BY <1>1 DEF aesd_write_alloc, aesd_write_commit, CriticalSection
<1> QED
  BY <1>2, ProcessLeavesDevice

\* The place a process has found is still that of its position when it uses it.
LEMMA FoundStep ==
  ASSUME DeviceInv, PlaceInv, [Next]_vars, NEW q \in Procs,
         pc'[q] \in {"read_copy", "llseek_target"}
  PROVE  FoundAt(q)'
<1>0. LockInv /\ PositionInv
  BY DEF DeviceInv, BaseInv
<1>1. ASSUME pc[q] \in {"read_copy", "llseek_target"}, local'[q] = local[q], UNCHANGED buffer
      PROVE  FoundAt(q)'
  <2>1. FoundAt(q)
    BY <1>1 DEF PlaceInv
  <2>2. find_entry_offset_for_fpos(size_t(local[q].pos))'
          = find_entry_offset_for_fpos(size_t(local[q].pos))
    BY <1>1, SearchKept
  <2> QED
    BY <1>1, <2>1, <2>2 DEF FoundAt
<1>2. CASE aesd_init_module \/ aesd_cleanup_module
  BY <1>0, <1>2, NobodyInside DEF aesd_init_module, aesd_cleanup_module
<1>3. ASSUME NEW p \in Procs, ProcessStep(p)
      PROVE  FoundAt(q)'
  <2>1. CASE q = p /\ pc'[p] = "read_copy"
    <3>1. aesd_read_find(p)
      BY <1>0, <1>3, <2>1, LabelsReached
    <3> DEFINE at == find_entry_offset_for_fpos(size_t(local[p].pos))
               l == local[p]
    <3>2. pc'[p] # "unlock"
      BY <2>1
    <3>3. at # NotFound /\ local' = [local EXCEPT ![p].found = at] /\ UNCHANGED buffer
      BY <1>0, <3>1, <3>2 DEF aesd_read_find, Result, Goto, device, LockInv, ControlInv
    <3>4. local'[p].found = at /\ local'[p].pos = local[p].pos
      <4> HIDE DEF at
      <4>1. LocalsBecome(p, [pos |-> l.pos, found |-> at, ret |-> l.ret, buf |-> l.buf])
        BY <1>0, <3>3, LocalAssignments
      <4> QED
        BY <4>1 DEF LocalsBecome
    <3>5. find_entry_offset_for_fpos(size_t(local[p].pos))' = at
      BY <3>3, <3>4, SearchKept
    <3> QED
      BY <2>1, <3>3, <3>4, <3>5 DEF FoundAt
  <2>2. CASE q = p /\ pc'[p] = "llseek_target"
    <3>1. aesd_llseek(p)
      BY <1>0, <1>3, <2>2, LabelsReached
    <3> DEFINE x == SeekTarget(p)
               at == find_entry_offset_for_fpos(size_t(x))
    <3>2. at # NotFound /\ UNCHANGED buffer /\ local'[p].pos = x /\ local'[p].found = at
      BY <1>0, <2>2, <3>1, SearchOfSeek DEF device
    <3> HIDE DEF x
    <3>3. find_entry_offset_for_fpos(size_t(local[p].pos))' = at
      BY <3>2, SearchKept
    <3> QED
      BY <2>2, <3>2, <3>3 DEF FoundAt
  <2>3. CASE q # p
    <3>1. pc[q] \in {"read_copy", "llseek_target"} /\ local'[q] = local[q]
      BY <1>0, <1>3, <2>3, OneMoves DEF OthersWait
    <3>2. UNCHANGED buffer
      BY <1>0, <1>3, <2>3, <3>1, DeviceWaits DEF CriticalSection, device
    <3> QED
      BY <1>1, <3>1, <3>2
  <2> QED
    BY <2>1, <2>2, <2>3
<1>4. CASE \E f \in Files : aesd_open(f) \/ aesd_release(f)
  BY <1>1, <1>4 DEF aesd_open, aesd_release, device
<1>5. CASE UNCHANGED vars
  BY <1>1, <1>5 DEF vars, device
<1> QED
  BY <1>2, <1>3, <1>4, <1>5 DEF Next, ProcessStep

\* The position a seek has searched stays its target, unless it is relative to a
\* position that others move.
LEMMA SoughtStep ==
  ASSUME DeviceInv, PlaceInv, [Next]_vars, NEW q \in Procs,
         pc'[q] = "llseek_target", call'[q].whence # 1 \/ Alone(q)
  PROVE  local'[q].pos = SeekTarget(q)'
<1>0. LockInv /\ PositionInv /\ FileOf[q] \in Files
  BY DeviceAssumption DEF DeviceInv, BaseInv
<1>1. ASSUME pc[q] = "llseek_target", local'[q] = local[q], call'[q] = call[q],
             UNCHANGED total_bytes,
             call[q].whence = 1 => f_pos'[FileOf[q]] = f_pos[FileOf[q]]
      PROVE  local'[q].pos = SeekTarget(q)'
  <2>1. local[q].pos = SeekTarget(q)
    BY <1>1 DEF PlaceInv
  <2>2. SeekTarget(q)' = SeekTarget(q)
    <3>1. CASE call[q].whence = 1
      BY <1>1, <3>1 DEF SeekTarget, size_t
    <3>2. CASE call[q].whence # 1
      BY <1>1, <3>2 DEF SeekTarget, size_t
    <3> QED
      BY <3>1, <3>2
  <2> QED
    BY <1>1, <2>1, <2>2
<1>2. CASE aesd_init_module \/ aesd_cleanup_module
  BY <1>0, <1>2, NobodyInside DEF aesd_init_module, aesd_cleanup_module
<1>3. ASSUME NEW p \in Procs, ProcessStep(p)
      PROVE  local'[q].pos = SeekTarget(q)'
  <2>1. CASE q = p
    <3>1. aesd_llseek(p)
      BY <1>0, <1>3, <2>1, LabelsReached
    <3>2. UNCHANGED <<total_bytes, f_pos, call>> /\ local'[q].pos = SeekTarget(q)
      BY <1>0, <2>1, <3>1, SearchOfSeek DEF device
    <3>3. SeekTarget(q)' = SeekTarget(q)
      BY <3>2 DEF SeekTarget, size_t
    <3> QED
      BY <3>2, <3>3
  <2>2. CASE q # p
    <3>1. pc[q] = "llseek_target" /\ local'[q] = local[q] /\ call'[q] = call[q]
      BY <1>0, <1>3, <2>2, OneMoves DEF OthersWait
    <3>2. UNCHANGED total_bytes
      BY <1>0, <1>3, <2>2, <3>1, DeviceWaits DEF CriticalSection, device
    <3>3. call[q].whence = 1 => f_pos'[FileOf[q]] = f_pos[FileOf[q]]
      <4> SUFFICES ASSUME call[q].whence = 1 PROVE f_pos'[FileOf[q]] = f_pos[FileOf[q]]
        OBVIOUS
      <4>1. FileOf[p] # FileOf[q]
        BY <2>2, <3>1 DEF Alone
      <4> QED
        BY <1>0, <1>3, <4>1, OwnPositionMoves
    <3> QED
      BY <1>1, <3>1, <3>2, <3>3
  <2> QED
    BY <2>1, <2>2
<1>4. ASSUME NEW f \in Files, aesd_open(f) \/ aesd_release(f)
      PROVE  local'[q].pos = SeekTarget(q)'
  <2>1. UNCHANGED <<pc, call, local, total_bytes>>
    BY <1>4 DEF aesd_open, aesd_release, device
  <2>2. pc[q] # "user" /\ FileOf[q] \in opened
    BY <1>0, <2>1 DEF LockInv, UsageInv
  <2>3. f # FileOf[q]
    BY <1>4, <2>2 DEF aesd_open, aesd_release
  <2>4. f_pos'[FileOf[q]] = f_pos[FileOf[q]]
    BY <1>0, <1>4, <2>3 DEF aesd_open, aesd_release, PositionInv
  <2> QED
    BY <1>1, <2>1, <2>4
<1>5. CASE UNCHANGED vars
  BY <1>1, <1>5 DEF vars, device
<1> QED
  BY <1>2, <1>3, <1>4, <1>5 DEF Next, ProcessStep

\* The bounds on commands keep the stored bytes countable.
LEMMA StoredBytesFit ==
  ASSUME BaseInv, RoomInv
  PROVE  BytesFit
<1> DEFINE f == [i \in Slots |-> buffer.entry[i].size]
<1>1. \A i \in 0..(MaxWriteOps - 1) : f[i] \in Nat /\ f[i] <= MaxPending
  BY DEF RoomInv, BaseInv, DeviceTyped, BufferInv, BufferOf, Stored, Slots
<1>2. MaxWriteOps \in Nat /\ MaxPending \in Nat
  BY BufferAssumption, DeviceAssumption
<1> HIDE DEF f
<1>3. SumUpTo(f, MaxWriteOps) <= MaxWriteOps * MaxPending
  BY <1>1, <1>2, SumUpToBounded
<1>4. MaxWriteOps \in 0..MaxWriteOps
  BY <1>2
<1>5. SumUpTo(f, MaxWriteOps) \in Nat
  BY <1>1, <1>2, <1>4, SumUpToNat
<1>6. TotalBytesWritten = SumUpTo(f, MaxWriteOps)
  BY DEF TotalBytesWritten, f
<1> DEFINE t == TotalBytesWritten
           m == MaxWriteOps * MaxPending
<1>7. t \in Nat /\ m \in Nat /\ t <= m /\ SizeMod \in Nat /\ SizeMod > 2 * m
  BY <1>2, <1>3, <1>5, <1>6, DeviceAssumption
<1> HIDE DEF t, m
<1>8. t >= 0 /\ 2 * t < SizeMod
  BY <1>7
<1> QED
  BY <1>8 DEF BytesFit, Near, t

\* What has been found stays true until it is used.
LEMMA PlaceInvariance ==
  ASSUME DocumentedRequests
  PROVE  Spec => []PlaceInv
<1>1. Init => PlaceInv
  BY DEF Init, PlaceInv
<1>2. DeviceInv /\ PlaceInv /\ [Next]_vars => PlaceInv'
  <2> SUFFICES ASSUME DeviceInv, PlaceInv, [Next]_vars PROVE PlaceInv'
    OBVIOUS
  <2>1. \A p \in Procs : pc'[p] \in {"read_copy", "llseek_target"} => FoundAt(p)'
    BY FoundStep
  <2>2. \A p \in Procs :
          pc'[p] = "llseek_target" /\ (call'[p].whence # 1 \/ Alone(p)) =>
            local'[p].pos = SeekTarget(p)'
    BY SoughtStep
  <2>3. \A p \in Procs : Alone(p)' <=> Alone(p)
    BY DEF Alone
  <2> QED
    BY <2>1, <2>2, <2>3 DEF PlaceInv
<1> QED
  BY <1>1, <1>2, DeviceInvariance, PTL DEF Spec

\* The stored bytes can be counted at any time.
LEMMA BytesFitInvariance ==
  ASSUME DocumentedRequests
  PROVE  Spec => []BytesFit
<1>1. DeviceInv /\ RoomInv => BytesFit
  BY StoredBytesFit DEF DeviceInv
<1> QED
  BY <1>1, DeviceInvariance, RoomInvariance, PTL

(***************************************************************************)
(* For any processes, files, requests within the documented interface and  *)
(* failures, aesd_read returns the bytes at its position of the stored     *)
(* commands laid end to end, stops early only at the end of a command, and *)
(* fails only past the end or on a bad address: what it found when it      *)
(* searched is still right when it copies, wherever seeks on a shared file *)
(* have left its position.                                                 *)
(***************************************************************************)
THEOREM ReadsReturnTheLog == DocumentedRequests => (Spec => ReadsTheLog)
<1> SUFFICES ASSUME DocumentedRequests PROVE Spec => ReadsTheLog
  OBVIOUS
<1> DEFINE all == FlattenSeq(CommandsHeld)
           ends == {Len(FlattenSeq(SubSeq(CommandsHeld, 1, k))) : k \in 1..EntryCount}
           Right(p) ==
             LET pos == size_t(local[p].pos)
                 n == local'[p].ret
             IN IF n >= 0
                THEN /\ pos + n <= Len(all) /\ local'[p].buf = SubSeq(all, pos + 1, pos + n)
                     /\ local'[p].pos = local[p].pos + n
                     /\ n = call[p].count \/ pos + n \in ends
                ELSE n = -EFAULT /\ (pos >= Len(all) \/ "copy" \in Faults)
<1>1. ASSUME DeviceInv, PlaceInv, [Next]_vars, NEW p \in Procs,
             pc[p] \in {"read_find", "read_copy"}, pc'[p] = "unlock"
      PROVE  Right(p)
  <2>0. LockInv /\ PositionInv /\ DeviceTyped /\ SlotsInv /\ BufferInv(Stored)
    BY <1>1 DEF DeviceInv, BaseInv, StoreInv, DeviceTyped
  <2>1. ProcessStep(p)
    BY <1>1, <2>0, StepTaken
  <2>2. Len(all) = TotalBytesWritten /\ TotalBytesWritten \in Nat
    BY <2>0, HeldLayout
  <2>3. -EFAULT \in Int /\ -EFAULT < 0
    BY DEF EFAULT
  <2> DEFINE l == local[p]
             n == BytesToRead(p)
             z == Slice(buffer.entry[l.found.slot].buffptr, l.found.offset, n)
  <2>4. CASE pc[p] = "read_find"
    <3> DEFINE at == find_entry_offset_for_fpos(size_t(l.pos))
    <3>1. aesd_read_find(p)
      BY <2>1, <2>4, StepAt
    <3>2. at = NotFound /\ local' = [local EXCEPT ![p].ret = -EFAULT]
      BY <1>1, <2>0, <3>1 DEF aesd_read_find, Result, Goto, LockInv, ControlInv
    <3>3. local'[p].ret = -EFAULT
      <4>1. LocalsBecome(p, [pos |-> l.pos, found |-> l.found, ret |-> -EFAULT, buf |-> l.buf])
        BY <2>0, <3>2, LocalAssignments
      <4> QED
        BY <4>1 DEF LocalsBecome
    <3>4. size_t(l.pos) \in Nat
      BY <2>0, SizeIsNat DEF PositionInv, LocalsOK
    <3> DEFINE pos == size_t(l.pos)
    <3>5. pos >= TotalBytesWritten
      <4>0. pos \in Nat /\ find_entry_offset_for_fpos(pos) = NotFound
        BY <3>2, <3>4
      <4>1. \A e \in Stored : e.size \in Nat
        BY DEF Stored
      <4> HIDE DEF pos
      <4> SUFFICES ASSUME pos < TotalBytesWritten PROVE FALSE
        BY <2>2, <4>0
      <4>2. PICK k \in 0..(EntryCount - 1) :
              find_entry_offset_for_fpos(pos) =
                [slot |-> SearchSlot(k), offset |-> pos - BytesSearched(k)]
        BY <2>0, <4>0, <4>1, SearchResult
      <4>3. SearchSlot(k) \in Slots
        <5>1. k \in Nat
          BY <2>0, HeldLayout
        <5> QED
          BY <2>0, <5>1, SearchSlotInArray
      <4>4. SearchSlot(k) # -1
        BY <4>3, BufferAssumption DEF Slots
      <4> QED
        BY <4>0, <4>2, <4>4 DEF NotFound
    <3> QED
      BY <2>2, <2>3, <3>3, <3>5
  <2>5. CASE pc[p] = "read_copy"
    <3>1. aesd_read_copy(p)
      BY <2>1, <2>5, StepAt
    <3>2. \/ LocalsBecome(p, [pos |-> l.pos + n, found |-> l.found, ret |-> n, buf |-> z])
          \/ /\ "copy" \in Faults
             /\ LocalsBecome(p, [pos |-> l.pos, found |-> l.found, ret |-> -EFAULT, buf |-> l.buf])
      BY <1>1, <3>1, ReadGives
    <3> DEFINE pos == size_t(l.pos)
    <3>3. /\ n \in Nat /\ pos \in Nat /\ pos + n <= TotalBytesWritten
          /\ z = SubSeq(all, pos + 1, pos + n)
          /\ n = call[p].count \/ pos + n \in ends
      BY <1>1, <2>5, FoundIsPlace DEF Upto
    <3> HIDE DEF n, z, all, ends
    <3>4. CASE LocalsBecome(p, [pos |-> l.pos + n, found |-> l.found, ret |-> n, buf |-> z])
      <4>1. local'[p].ret = n /\ local'[p].pos = l.pos + n /\ local'[p].buf = z
        BY <3>4 DEF LocalsBecome
      <4>2. n >= 0 /\ pos + n <= Len(all)
        BY <2>2, <3>3
      <4> QED
        BY <3>3, <4>1, <4>2
    <3>5. CASE /\ "copy" \in Faults
               /\ LocalsBecome(p, [pos |-> l.pos, found |-> l.found, ret |-> -EFAULT, buf |-> l.buf])
      <4>1. local'[p].ret = -EFAULT
        BY <3>5 DEF LocalsBecome
      <4> QED
        BY <2>3, <3>5, <4>1
    <3> QED
      BY <3>2, <3>4, <3>5
  <2> QED
    BY <1>1, <2>4, <2>5
<1>2. DeviceInv /\ PlaceInv /\ [Next]_vars =>
        [\A p \in Procs : pc[p] \in {"read_find", "read_copy"} /\ pc'[p] = "unlock" => Right(p)]_vars
  BY <1>1
<1> QED
  BY <1>2, DeviceInvariance, PlaceInvariance, PTL DEF Spec, ReadsTheLog


\* What a step of SEEKTO does.
LEMMA SeektoStep ==
  ASSUME DeviceInv, NEW p \in Procs, aesd_ioctl_seek(p)
  PROVE  LET cmd == call[p].write_cmd
             off == call[p].write_cmd_offset
         IN /\ cmd \in Nat /\ off \in Nat
            /\ \/ /\ MaxWriteOps <= cmd \/ buffer.entry[cmd].size <= off
                  /\ local'[p].ret = -EINVAL /\ UNCHANGED f_pos
               \/ /\ cmd < MaxWriteOps /\ off < buffer.entry[cmd].size
                  /\ local' = local /\ f_pos'[FileOf[p]] = SlotPosition(cmd) + off
<1> DEFINE cmd == call[p].write_cmd
           off == call[p].write_cmd_offset
           l == local[p]
<1>1. /\ CallInv /\ PositionInv /\ DeviceTyped /\ f_pos \in [Files -> Int] /\ FileOf[p] \in Files
      /\ MaxWriteOps \in Nat
  BY DeviceAssumption, BufferAssumption DEF DeviceInv, BaseInv, PositionInv
<1>2. cmd \in Nat /\ off \in Nat
  BY <1>1, DeviceAssumption DEF aesd_ioctl_seek, CallInv
<1>3. CASE MaxWriteOps <= cmd \/ buffer.entry[cmd].size <= off
  <2>1. local' = [local EXCEPT ![p].ret = -EINVAL] /\ UNCHANGED f_pos
    BY <1>3 DEF aesd_ioctl_seek, Result
  <2>2. LocalsBecome(p, [pos |-> l.pos, found |-> l.found, ret |-> -EINVAL, buf |-> l.buf])
    BY <1>1, <2>1, LocalAssignments
  <2>3. local'[p].ret = -EINVAL
    BY <2>2 DEF LocalsBecome
  <2> QED
    BY <1>2, <1>3, <2>1, <2>3
<1>4. CASE ~(MaxWriteOps <= cmd \/ buffer.entry[cmd].size <= off)
  <2>1. /\ f_pos' = [f_pos EXCEPT ![FileOf[p]] = SlotPosition(cmd) + off]
        /\ local' = local
    BY <1>4 DEF aesd_ioctl_seek
  <2>2. cmd < MaxWriteOps /\ cmd \in Slots
    BY <1>1, <1>2, <1>4 DEF Slots
  <2>3. buffer.entry[cmd].size \in Nat
    BY <1>1, <2>2 DEF DeviceTyped, BufferInv, BufferOf, Stored
  <2>4. off < buffer.entry[cmd].size
    BY <1>2, <1>4, <2>3
  <2>5. f_pos'[FileOf[p]] = SlotPosition(cmd) + off
    BY <1>1, <2>1
  <2> QED
    BY <1>2, <2>1, <2>2, <2>4, <2>5
<1> QED
  BY <1>3, <1>4

(***************************************************************************)
(* For any processes, files and failures, every llseek that succeeds has   *)
(* searched a position where a byte is stored at that moment.  SEEK_SET    *)
(* and SEEK_END go to the byte asked for, SEEK_CUR to the one searched if  *)
(* no other process uses the file; with a shared file it may go elsewhere, *)
(* as it loads the position once more.  AESDCHAR_IOCSEEKTO goes to a       *)
(* stored byte too.                                                        *)
(***************************************************************************)
THEOREM SeeksStayInTheLog ==
  DocumentedRequests /\ SeekOffsetsFit => (Spec => SeeksIntoTheLog)
<1> SUFFICES ASSUME DocumentedRequests, SeekOffsetsFit
             PROVE  Spec => SeeksIntoTheLog
  OBVIOUS
<1> DEFINE all == Len(FlattenSeq(CommandsHeld))
           Lands(p) ==
             LET ret == local'[p].ret
                 searched == local[p].pos IN
             /\ SeekSucceeds(p) =>
                  /\ size_t(searched) \in 0..(all - 1)
                  /\ call[p].whence # 1 \/ Alone(p) => ret = searched
                  /\ call[p].whence = 0 => ret = call[p].off /\ ret \in 0..(all - 1)
                  /\ call[p].whence = 2 => ret = all + call[p].off /\ ret \in 0..(all - 1)
             /\ pc[p] = "ioctl_seek" /\ pc'[p] = "unlock" /\ ret = 0 =>
                  f_pos'[FileOf[p]] \in 0..(all - 1)
<1>1. ASSUME DeviceInv, PlaceInv, BytesFit, [Next]_vars, NEW p \in Procs
      PROVE  Lands(p)
  <2>0. LockInv /\ PositionInv /\ DeviceTyped /\ SlotsInv
    BY <1>1 DEF DeviceInv, BaseInv, StoreInv
  <2>1. all = TotalBytesWritten /\ TotalBytesWritten \in Nat
    BY <2>0, HeldLayout
  <2>2. ASSUME SeekSucceeds(p)
        PROVE  /\ size_t(local[p].pos) \in 0..(all - 1)
               /\ call[p].whence # 1 \/ Alone(p) => local'[p].ret = local[p].pos
               /\ call[p].whence = 0 =>
                    local'[p].ret = call[p].off /\ local'[p].ret \in 0..(all - 1)
               /\ call[p].whence = 2 =>
                    local'[p].ret = all + call[p].off /\ local'[p].ret \in 0..(all - 1)
    <3> DEFINE x == SeekTarget(p)
               l == local[p]
    <3>0. pc[p] = "llseek_target" /\ pc'[p] = "unlock"
      BY <2>2 DEF SeekSucceeds
    <3>1. aesd_llseek_target(p)
      BY <1>1, <2>0, <3>0, StepTaken, StepAt
    <3>2. local' = [local EXCEPT ![p].pos = x, ![p].ret = x]
      BY <3>1 DEF aesd_llseek_target
    <3>3. FoundAt(p) /\ (call[p].whence # 1 \/ Alone(p) => l.pos = x)
      BY <1>1, <3>0 DEF PlaceInv
    <3>4. /\ size_t(l.pos) \in 0..(TotalBytesWritten - 1)
          /\ call[p].whence = 0 => l.pos = call[p].off /\ l.pos \in 0..(TotalBytesWritten - 1)
          /\ call[p].whence = 2 => /\ l.pos = TotalBytesWritten + call[p].off
                                   /\ l.pos \in 0..(TotalBytesWritten - 1)
      BY <1>1, <3>0, <3>3, SeekLands
    <3> HIDE DEF x
    <3>5. local'[p].ret = x
      <4>1. LocalsBecome(p, [pos |-> x, found |-> l.found, ret |-> x, buf |-> l.buf])
        BY <2>0, <3>2, LocalAssignments
      <4> QED
        BY <4>1 DEF LocalsBecome
    <3> HIDE DEF all
    <3>6. call[p].whence = 0 => call[p].whence # 1
      OBVIOUS
    <3>7. call[p].whence = 2 => call[p].whence # 1
      OBVIOUS
    <3> QED
      BY <2>1, <3>3, <3>4, <3>5, <3>6, <3>7
  <2>3. ASSUME pc[p] = "ioctl_seek", pc'[p] = "unlock", local'[p].ret = 0
        PROVE  f_pos'[FileOf[p]] \in 0..(all - 1)
    <3> DEFINE cmd == call[p].write_cmd
               off == call[p].write_cmd_offset
    <3>1. aesd_ioctl_seek(p)
      BY <1>1, <2>0, <2>3, StepTaken, StepAt
    <3>2. 0 # -EINVAL
      BY DEF EINVAL
    <3>3. /\ cmd \in Nat /\ off \in Nat
          /\ cmd < MaxWriteOps /\ off < buffer.entry[cmd].size
          /\ f_pos'[FileOf[p]] = SlotPosition(cmd) + off
      BY <1>1, <2>3, <3>1, <3>2, SeektoStep
    <3> HIDE DEF cmd, off, all
    <3>4. SlotPosition(cmd) \in Nat /\ SlotPosition(cmd) + off < TotalBytesWritten
      BY <2>0, <3>3, SlotInLog
    <3> QED
      BY <2>1, <3>3, <3>4
  <2> QED
    BY <2>2, <2>3
<1>2. DeviceInv /\ PlaceInv /\ BytesFit /\ [Next]_vars => [\A p \in Procs : Lands(p)]_vars
  BY <1>1
<1> QED
  BY <1>2, DeviceInvariance, PlaceInvariance, BytesFitInvariance, PTL DEF Spec, SeeksIntoTheLog


\* A call has no result until it is inside the critical section.
LEMMA ResultStep ==
  ASSUME LockInv, PositionInv, ResultInv, [Next]_vars
  PROVE  ResultInv'
<1> DEFINE Early == {"user", "ioctl", "lock", "ioctl_seek"}
<1>0. pc \in [Procs -> Labels] /\ \A q \in Procs : pc[q] \in Early => local[q].ret = 0
  BY DEF LockInv, ControlInv, ResultInv
<1>1. CASE UNCHANGED <<pc, local>>
  BY <1>1 DEF ResultInv
<1>2. ASSUME NEW p \in Procs, ProcessStep(p), pc'[p] \in Early => local'[p].ret = 0
      PROVE  ResultInv'
  <2>1. ASSUME NEW q \in Procs, pc'[q] \in Early PROVE local'[q].ret = 0
    <3>1. CASE q = p
      BY <1>2, <2>1, <3>1
    <3>2. CASE q # p
      BY <1>0, <1>2, <2>1, <3>2, OneMoves DEF OthersWait
    <3> QED
      BY <3>1, <3>2
  <2> QED
    BY <2>1 DEF ResultInv
<1>3. ASSUME NEW p \in Procs, NEW c \in Requests, Syscall(p, c)
      PROVE  ResultInv'
  <2>1. LocalsBecome(p, [pos |-> f_pos[FileOf[p]], found |-> local[p].found,
                         ret |-> local[p].ret, buf |-> local[p].buf])
    BY <1>3, LocalAssignments DEF Syscall
  <2>2. local'[p].ret = 0
    BY <1>0, <1>3, <2>1, ZenonT(60) DEF Syscall, LocalsBecome
  <2> QED
    BY <1>2, <1>3, <2>2 DEF ProcessStep
<1>4. ASSUME NEW p \in Procs, Return(p)
      PROVE  ResultInv'
  <2>1. LocalsBecome(p, NoLocals)
    BY <1>4, LocalAssignments DEF Return
  <2>2. local'[p].ret = 0
    BY <2>1 DEF LocalsBecome, NoLocals
  <2> QED
    BY <1>2, <1>4, <2>2 DEF ProcessStep, KernelStep
<1>5. ASSUME NEW p \in Procs, mutex_lock_interruptible(p)
      PROVE  ResultInv'
  <2>1. local'[p].ret = 0
    BY <1>0, <1>5 DEF mutex_lock_interruptible
  <2> QED
    BY <1>2, <1>5, <2>1 DEF ProcessStep
<1>6. ASSUME NEW p \in Procs, aesd_ioctl(p)
      PROVE  ResultInv'
  <2>1. pc'[p] \in Early => local'[p].ret = 0
    BY <1>0, <1>6 DEF aesd_ioctl, Result, Goto
  <2> QED
    BY <1>2, <1>6, <2>1 DEF ProcessStep, KernelStep
<1>7. ASSUME NEW p \in Procs,
             \/ Interrupted(p) \/ QueueWaiter(p) \/ mutex_unlock(p)
             \/ aesd_read_find(p) \/ aesd_read_copy(p)
             \/ aesd_write_alloc(p) \/ aesd_write_copy(p) \/ aesd_write_commit(p)
             \/ aesd_llseek(p) \/ aesd_llseek_target(p) \/ aesd_ioctl_seek(p)
      PROVE  ResultInv'
  <2>1. \E l \in {"return", "oopsed", "unlock", "read_copy", "write_copy", "write_commit",
                 "llseek_target"} : Goto(p, l)
    <3>1. CASE Interrupted(p) \/ QueueWaiter(p) \/ mutex_unlock(p)
      BY <3>1 DEF Interrupted, QueueWaiter, mutex_unlock, Result
    <3>2. CASE aesd_read_find(p) \/ aesd_llseek(p) \/ aesd_llseek_target(p) \/ aesd_ioctl_seek(p)
      BY <3>2 DEF aesd_read_find, aesd_llseek, aesd_llseek_target, aesd_ioctl_seek, Result
    <3>3. CASE aesd_read_copy(p) \/ aesd_write_copy(p)
      BY <3>3 DEF aesd_read_copy, aesd_write_copy, BadAccess, Result
    <3>4. CASE aesd_write_alloc(p) \/ aesd_write_commit(p)
      BY <3>4 DEF aesd_write_alloc, aesd_write_commit, BadAccess, Result
    <3> QED
      BY <1>7, <3>1, <3>2, <3>3, <3>4
  <2>2. pc'[p] \notin Early
    BY <1>0, <2>1 DEF Goto
  <2> QED
    BY <1>2, <1>7, <2>2 DEF ProcessStep, KernelStep
<1>8. CASE \/ aesd_init_module \/ aesd_cleanup_module \/ UNCHANGED vars
           \/ \E f \in Files : aesd_open(f) \/ aesd_release(f)
  BY <1>1, <1>8 DEF aesd_init_module, aesd_cleanup_module, aesd_open, aesd_release, vars
<1> QED
  BY <1>3, <1>4, <1>5, <1>6, <1>7, <1>8 DEF Next, KernelStep

\* Until the first overwrite the slots are in the order of the commands.
LEMMA SlotsInOrder ==
  ASSUME DeviceTyped, SlotsInv, buffer.out_offs = 0, NEW cmd \in Nat, cmd < MaxWriteOps
  PROVE  /\ cmd < EntryCount => /\ Len(CommandsHeld[cmd + 1]) = buffer.entry[cmd].size
                                /\ Len(Upto(CommandsHeld, cmd)) = SlotPosition(cmd)
         /\ ~(cmd < EntryCount) => buffer.entry[cmd].size = 0
<1> DEFINE N == MaxWriteOps
           f == [i \in Slots |-> buffer.entry[i].size]
           g == [j \in SearchSteps |-> buffer.entry[SearchSlot(j)].size]
<1>0. BufferInv(Stored) /\ EntryCount \in 0..N /\ N \in Nat
  BY HeldLayout DEF DeviceTyped
<1>1. \A k \in 0..(N - 1) : SearchSlot(k) = k
  BY <1>0, SearchSlotValue
<1>2. ASSUME cmd < EntryCount
      PROVE  Len(CommandsHeld[cmd + 1]) = buffer.entry[cmd].size
  <2>1. cmd \in 0..(EntryCount - 1) /\ cmd \in 0..(N - 1)
    BY <1>0, <1>2
  <2> QED
    BY <1>1, <2>1, HeldLayout
<1>3. SlotPosition(cmd) = BytesSearched(cmd)
  <2>1. \A i \in 0..(N - 1) : i \in Slots /\ i \in SearchSteps
    BY <1>0 DEF Slots, SearchSteps
  <2>2. \A i \in 0..(N - 1) : g[i] = f[i] /\ f[i] \in Nat
    BY <1>1, <2>1 DEF DeviceTyped, BufferInv, BufferOf, Stored
  <2>3. SlotPosition(cmd) = SumUpTo(f, cmd) /\ BytesSearched(cmd) = SumUpTo(g, cmd)
    BY DEF SlotPosition, BytesSearched
  <2> HIDE DEF f, g
  <2>4. CASE cmd = 0
    BY <2>3, <2>4, SumUpToStep
  <2>5. CASE cmd # 0
    <3>1. 0 \in 0..(cmd - 1) /\ \A i \in 0..(cmd - 1) : i \in 0..(N - 1) /\ 0 + i < cmd /\ 0 + i = i
      BY <1>0, <2>5
    <3>2. /\ \A i \in 0..(cmd - 1) : f[i] \in Nat
          /\ \A j \in 0..(cmd - 1) : g[j] = IF 0 + j < cmd THEN f[0 + j] ELSE f[0 + j - cmd]
      BY <2>2, <3>1
    <3>3. SumUpTo(g, cmd) = SumUpTo(f, cmd)
      BY <3>1, <3>2, SumUpToRotated, SMTT(60)
    <3> QED
      BY <2>3, <3>3
  <2> QED
    BY <2>4, <2>5
<1>4. ASSUME cmd < EntryCount
      PROVE  Len(Upto(CommandsHeld, cmd)) = SlotPosition(cmd)
  <2>1. cmd \in 0..EntryCount
    BY <1>0, <1>4
  <2> QED
    BY <1>3, <2>1, HeldLayout
<1>5. ASSUME ~(cmd < EntryCount) PROVE buffer.entry[cmd].size = 0
  <2>1. ~buffer.full /\ cmd \in buffer.in_offs..(N - 1)
    BY <1>0, <1>5 DEF EntryCount, BufferInv, BufferOf, Slots
  <2>2. buffer.entry[cmd] = NoEntry
    BY <1>0, <2>1 DEF BufferInv, WindowShape
  <2> QED
    BY <2>2, BufferAssumption
<1> QED
  BY <1>2, <1>4, <1>5

(***************************************************************************)
(* Until the first overwrite, AESDCHAR_IOCSEEKTO does what aesd_ioctl.h    *)
(* says of it, for any processes and failures: it succeeds exactly if the  *)
(* command and the byte exist, and then the file is there.                 *)
(***************************************************************************)
THEOREM SeektoMeetsHeader == DocumentedRequests => (Spec => SeektoBeforeWrap)
<1> SUFFICES ASSUME DocumentedRequests PROVE Spec => SeektoBeforeWrap
  OBVIOUS
<1>1. Init => ResultInv
  BY DEF Init, ResultInv, NoLocals
<1>2. DeviceInv /\ ResultInv /\ [Next]_vars => ResultInv'
  BY ResultStep DEF DeviceInv, BaseInv
<1>3. ASSUME DeviceInv, ResultInv, [Next]_vars, NEW p \in Procs,
             pc[p] = "ioctl_seek", pc'[p] = "unlock", buffer.out_offs = 0
      PROVE  SeektoMeets(p)
  <2> DEFINE cmd == call[p].write_cmd
             off == call[p].write_cmd_offset
             size == buffer.entry[cmd].size
             exists == cmd < EntryCount /\ off < Len(CommandsHeld[cmd + 1])
  <2>0. LockInv /\ PositionInv /\ DeviceTyped /\ SlotsInv /\ local[p].ret = 0
    BY <1>3 DEF DeviceInv, BaseInv, StoreInv, ResultInv
  <2>1. aesd_ioctl_seek(p)
    BY <1>3, <2>0, StepTaken, StepAt
  <2>2. /\ cmd \in Nat /\ off \in Nat
        /\ \/ /\ MaxWriteOps <= cmd \/ size <= off
              /\ local'[p].ret = -EINVAL /\ UNCHANGED f_pos
           \/ /\ cmd < MaxWriteOps /\ off < size
              /\ local' = local /\ f_pos'[FileOf[p]] = SlotPosition(cmd) + off
    BY <1>3, <2>1, SeektoStep
  <2>3. MaxWriteOps \in Nat /\ EntryCount \in 0..MaxWriteOps
    BY <2>0, HeldLayout
  <2>4. cmd < MaxWriteOps => size \in Nat
    <3> SUFFICES ASSUME cmd < MaxWriteOps PROVE size \in Nat
      OBVIOUS
    <3>1. cmd \in Slots
      BY <2>2, <2>3 DEF Slots
    <3> QED
      BY <2>0, <3>1 DEF DeviceTyped, BufferInv, BufferOf, Stored
  <2> HIDE DEF cmd, off
  <2>5. cmd < MaxWriteOps =>
          /\ cmd < EntryCount => /\ Len(CommandsHeld[cmd + 1]) = size
                                 /\ Len(Upto(CommandsHeld, cmd)) = SlotPosition(cmd)
          /\ ~(cmd < EntryCount) => size = 0
    BY <1>3, <2>0, <2>2, SlotsInOrder
  <2> HIDE DEF size
  <2>6. ASSUME MaxWriteOps <= cmd \/ size <= off, local'[p].ret = -EINVAL, UNCHANGED f_pos
        PROVE  ~exists /\ local'[p].ret = -EINVAL /\ UNCHANGED f_pos
    BY <2>2, <2>3, <2>4, <2>5, <2>6
  <2>7. ASSUME cmd < MaxWriteOps, off < size, local' = local,
               f_pos'[FileOf[p]] = SlotPosition(cmd) + off
        PROVE  /\ exists /\ local'[p].ret = 0
               /\ f_pos'[FileOf[p]] = Len(Upto(CommandsHeld, cmd)) + off
    <3>1. cmd < EntryCount
      BY <2>2, <2>4, <2>5, <2>7
    <3>2. Len(CommandsHeld[cmd + 1]) = size /\ Len(Upto(CommandsHeld, cmd)) = SlotPosition(cmd)
      BY <2>5, <2>7, <3>1
    <3> QED
      BY <2>0, <2>7, <3>1, <3>2
  <2>8. \/ ~exists /\ local'[p].ret = -EINVAL /\ UNCHANGED f_pos
        \/ /\ exists /\ local'[p].ret = 0
           /\ f_pos'[FileOf[p]] = Len(Upto(CommandsHeld, cmd)) + off
    BY <2>2, <2>6, <2>7
  <2> QED
    BY <2>8 DEF SeektoMeets, CommandPosition, Upto, cmd, off
<1>4. DeviceInv /\ ResultInv /\ [Next]_vars =>
        [\A p \in Procs : pc[p] = "ioctl_seek" /\ pc'[p] = "unlock" /\ buffer.out_offs = 0 =>
                            SeektoMeets(p)]_vars
  BY <1>3
<1> QED
  BY <1>1, <1>2, <1>4, DeviceInvariance, PTL DEF Spec, SeektoBeforeWrap

-----------------------------------------------------------------------------
(* Type correctness, and the storage invariant as a whole                  *)

(***************************************************************************)
(* Every variable of the driver keeps its type and its bound: the indices  *)
(* stay in the array, the entries within MaxPending bytes however many     *)
(* writes are under way at once, and control at the labels of the code.    *)
(***************************************************************************)
THEOREM DriverTypeCorrect == DocumentedRequests => (Spec => []TypeOK)
<1> SUFFICES ASSUME DocumentedRequests PROVE Spec => []TypeOK
  OBVIOUS
<1>1. DeviceInv /\ RoomInv => TypeOK
  <2> SUFFICES ASSUME DeviceInv, RoomInv PROVE TypeOK
    OBVIOUS
  <2>0. BaseInv /\ StoreInv /\ HungInv /\ LockInv /\ PositionInv /\ entry \in Stored
    BY DEF DeviceInv, BaseInv, DeviceTyped
  <2>1. BufferTypeOK
    <3>1. /\ buffer \in [entry : [Slots -> Stored], in_offs : Slots, out_offs : Slots, full : BOOLEAN]
          /\ MaxPending \in Nat
          /\ Entries = [buffptr : Blocks, size : 0..MaxPending] /\ NoEntry = [buffptr |-> NULL, size |-> 0]
      BY <2>0, DeviceAssumption DEF BaseInv, DeviceTyped, BufferInv, BufferOf
    <3>2. ASSUME NEW i \in Slots PROVE buffer.entry[i] \in Entries \cup {NoEntry}
      <4> DEFINE d == buffer.entry[i]
      <4>1. d \in Stored /\ d.size <= MaxPending
        BY <3>1 DEF RoomInv
      <4>2. d.buffptr = NULL => d.size = 0
        BY <2>0 DEF StoreInv, SlotsInv
      <4>3. d = [buffptr |-> d.buffptr, size |-> d.size]
        BY <4>1 DEF Stored
      <4> HIDE DEF d
      <4>4. CASE d.buffptr = NULL
        BY <3>1, <4>2, <4>3, <4>4 DEF d
      <4>5. CASE d.buffptr # NULL
        <5>1. d.buffptr \in Blocks /\ d.size \in 0..MaxPending
          BY <3>1, <4>1, <4>5 DEF Stored
        <5>2. d \in [buffptr : Blocks, size : 0..MaxPending]
          BY <4>3, <5>1
        <5> QED
          BY <3>1, <5>2 DEF d
      <4> QED
        BY <4>4, <4>5
    <3> QED
      BY <3>1, <3>2 DEF BufferTypeOK
  <2>2. entry \in [buffptr : Blocks \cup {NULL}, size : 0..MaxPending]
    <3>1. Total(BytesAhead) \in Nat
      <4>1. BytesAhead \in [Procs -> Nat] /\ IsFiniteSet(Procs) /\ \A p \in Procs : BytesAhead[p] <= BytesAhead[p]
        BY <2>0, BytesCounted, DeviceAssumption
      <4> QED
        BY <4>1, TotalGrows
    <3>2. entry.size \in 0..MaxPending
      BY <2>0, <3>1, DeviceAssumption DEF RoomInv, Stored
    <3> QED
      BY <2>0, <3>2 DEF Stored
  <2>3. total_bytes \in Nat
    <3>1. BytesFit /\ total_bytes \in Int /\ total_bytes = TotalBytesWritten
      BY <2>0, StoredBytesFit DEF StoreInv, BytesAccounted, BaseInv, DeviceTyped
    <3> QED
      BY <3>1 DEF BytesFit, Near
  <2>4. f_pos \in [Files -> Int]
    BY <2>0 DEF PositionInv
  <2>5. /\ owner \in Procs \cup {Nobody} /\ DOMAIN heap \subseteq Blocks /\ memory \in {"ok", "invalid"}
        /\ module \in {"out", "in"} /\ loads \in 0..MaxLoads /\ opened \subseteq Files
    BY <2>0 DEF HungInv, StoreInv, HeapInv, RoomInv
  <2>6. /\ pc \in [Procs -> Labels] /\ call \in [Procs -> Requests \cup {NoCall}]
        /\ DOMAIN local = Procs
    BY <2>0 DEF LockInv, ControlInv, PositionInv
  <2> QED
    BY <2>1, <2>2, <2>3, <2>4, <2>5, <2>6 DEF TypeOK
<1> QED
  BY <1>1, DeviceInvariance, RoomInvariance, PTL

(***************************************************************************)
(* The storage invariant, for any number of processes, files, slots and    *)
(* bytes: within the documented interface and while allocations succeed,   *)
(* signals, lost wake-ups and bad user addresses included, every block the *)
(* driver has allocated is accounted for, holds what its entry says, is    *)
(* counted, and is left by no access.                                      *)
(***************************************************************************)
THEOREM StorageInvariance ==
  DocumentedRequests /\ "alloc" \notin Faults => (Spec => []StorageInv)
<1> SUFFICES ASSUME DocumentedRequests, "alloc" \notin Faults
             PROVE  Spec => []StorageInv
  OBVIOUS
<1>1. NoLostPartial
  BY DEF NoLostPartial
<1>2. /\ (Spec => []TypeOK) /\ (Spec => []MemorySafe) /\ (Spec => []BytesAccounted)
      /\ (Spec => []CommandsIntact) /\ (Spec => []NothingLeaked)
  BY <1>1, DriverTypeCorrect, DriverStaysInMemory, BytesAreAccounted, StoredCommandsIntact,
     NoBlockLeaks
<1> QED
  BY <1>2, PTL DEF StorageInv

=============================================================================
