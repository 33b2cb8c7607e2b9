-------------------------- MODULE QueueListsProofs --------------------------
(***************************************************************************)
(* Proofs about the list macros for any heads and any elements: whatever   *)
(* macros a program applies, in whatever order, its lists are the ones it  *)
(* asked for, and a FOREACH_SAFE loop visits all of its list.              *)
(***************************************************************************)
EXTENDS QueueLists, ListLemmas

-----------------------------------------------------------------------------
(* The inductive invariant                                                 *)

\* The kinds whose elements point back, and those whose heads know the last.
TwoWay == {"LIST", "TAILQ", "CIRCLEQ"}
WithLast == {"STAILQ", "TAILQ", "CIRCLEQ"}

Pointers == Nodes \cup {NULL, Garbage}
Memory(mem) == mem \in [next : [Nodes -> Pointers], prev : [Nodes -> Pointers]]

\* The stops on the way through list s of head h: the head, the elements, the end.
EndOf(kd, h) == IF kd = "CIRCLEQ" THEN h ELSE NULL
Stop(kd, s, h, k) == IF k = 0 THEN h ELSE IF k <= Len(s) THEN s[k] ELSE EndOf(kd, h)

\* The pointers of list s of head h.
Links(kd, mem, s, h) ==
  /\ \A k \in 0..Len(s) : mem.next[Stop(kd, s, h, k)] = Stop(kd, s, h, k + 1)
  /\ kd \in TwoWay => \A k \in 1..Len(s) : mem.prev[s[k]] = Stop(kd, s, h, k - 1)
  /\ kd \in WithLast => mem.prev[h] = Stop(kd, s, h, Len(s))

\* No element is in two lists, or twice in one.
Distinct(s) == \A j, k \in 1..Len(s) : s[j] = s[k] => j = k
In(x, s) == \E k \in 1..Len(s) : s[k] = x
Apart(ls) ==
  /\ ls \in [Heads -> Seq(Elems)]
  /\ \A h \in Heads : Distinct(ls[h])
  /\ \A g, h \in Heads : \A x \in Elems : In(x, ls[g]) /\ In(x, ls[h]) => g = h

LinkInv(kd, mem, ls) ==
  kd \in Kinds /\ Memory(mem) /\ Apart(ls) /\ \A h \in Heads : Links(kd, mem, ls[h], h)

\* What mem2 differs from mem when e is put between a and b, in a list of head
\* h, and what was there before has gone.
Joined(kd, mem, mem2, h, a, b, e, gone) ==
  /\ Memory(mem2)
  /\ \A x \in Nodes \ gone :
       mem2.next[x] = IF x = e THEN b ELSE IF x = a THEN e ELSE mem.next[x]
  /\ kd \in TwoWay => \A x \in Elems \ gone :
       mem2.prev[x] = IF x = e THEN a ELSE IF x = b THEN e ELSE mem.prev[x]
  /\ kd \in WithLast => \A x \in Heads :
       mem2.prev[x] = IF x = h /\ b \notin Elems THEN e ELSE mem.prev[x]

\* The same when nothing is put there.
Closed(kd, mem, mem2, h, a, b, gone) ==
  /\ Memory(mem2)
  /\ \A x \in Nodes \ gone : mem2.next[x] = IF x = a THEN b ELSE mem.next[x]
  /\ kd \in TwoWay => \A x \in Elems \ gone : mem2.prev[x] = IF x = b THEN a ELSE mem.prev[x]
  /\ kd \in WithLast => \A x \in Heads :
       mem2.prev[x] = IF x = h /\ b \notin Elems THEN a ELSE mem.prev[x]

\* The list s2 is s with e in the place of the elements from p to q, or without
\* them; what has gone were such elements.
Replaced(s, s2, p, q, e) ==
  /\ s2 \in Seq(Elems) /\ Len(s2) = Len(s) + p - q
  /\ \A k \in 1..Len(s2) : s2[k] = IF k < p THEN s[k] ELSE IF k = p THEN e ELSE s[k + q - p]
Within(gone, s, p, q) == \A x : x \in gone => \E k \in p..q : x = s[k]
Removed(s, s2, p, q) ==
  /\ s2 \in Seq(Elems) /\ Len(s2) = Len(s) - (q - p + 1)
  /\ \A k \in 1..Len(s2) : s2[k] = IF k < p THEN s[k] ELSE s[k + (q - p + 1)]

-----------------------------------------------------------------------------
(* Lists without and with their pointers                                   *)

\* Heads, elements and the other values of pointers are told apart.
LEMMA NodesApart ==
  /\ Nodes = Heads \cup Elems /\ NULL \notin Nodes /\ Garbage \notin Nodes /\ NULL # Garbage
  /\ \A h \in Heads : h \notin Elems /\ h \in Nodes
  /\ \A h \in Heads : \A kd : EndOf(kd, h) \notin Elems
  BY ListAssumption DEF Nodes, EndOf

\* A list without repetition has different stops, up to its end.
LEMMA StopsApart ==
  ASSUME NEW kd, NEW h \in Heads, NEW s \in Seq(Elems), Distinct(s)
  PROVE  /\ \A k \in 0..Len(s) : Stop(kd, s, h, k) \in Nodes
         /\ \A j, k \in 0..Len(s) : Stop(kd, s, h, j) = Stop(kd, s, h, k) => j = k
         /\ \A k \in 1..Len(s) : Stop(kd, s, h, k) = s[k] /\ s[k] \in Elems
         /\ Stop(kd, s, h, 0) = h /\ Stop(kd, s, h, Len(s) + 1) = EndOf(kd, h)
<1>1. Len(s) \in Nat /\ \A k \in 1..Len(s) : s[k] \in Elems
  OBVIOUS
<1>2. \A k \in 1..Len(s) : Stop(kd, s, h, k) = s[k]
  BY <1>1 DEF Stop
<1>3. Stop(kd, s, h, 0) = h /\ Stop(kd, s, h, Len(s) + 1) = EndOf(kd, h)
  BY <1>1 DEF Stop
<1>4. \A k \in 0..Len(s) : k = 0 \/ k \in 1..Len(s)
  BY <1>1
<1>5. \A k \in 0..Len(s) : Stop(kd, s, h, k) \in Nodes
  BY <1>1, <1>2, <1>3, <1>4, NodesApart, Zenon
<1>6. ASSUME NEW j \in 0..Len(s), NEW k \in 0..Len(s), Stop(kd, s, h, j) = Stop(kd, s, h, k) PROVE j = k
  <2>1. CASE j = 0 /\ k = 0
    BY <2>1
  <2>2. CASE j = 0 /\ k \in 1..Len(s)
    BY <1>1, <1>2, <1>3, <1>6, <2>2, NodesApart, Zenon
  <2>3. CASE j \in 1..Len(s) /\ k = 0
    BY <1>1, <1>2, <1>3, <1>6, <2>3, NodesApart, Zenon
  <2>4. CASE j \in 1..Len(s) /\ k \in 1..Len(s)
    BY <1>2, <1>6, <2>4, Zenon DEF Distinct
  <2> QED
    BY <1>4, <2>1, <2>2, <2>3, <2>4, Zenon
<1> QED
  BY <1>1, <1>2, <1>3, <1>5, <1>6

\* Putting e in the place of the elements from p to q keeps a list's pointers.
LEMMA JoinedLinks ==
  ASSUME NEW kd, NEW mem, NEW mem2, NEW h \in Heads, NEW s \in Seq(Elems), Distinct(s),
         NEW e \in Elems, ~In(e, s), Links(kd, mem, s, h),
         NEW p \in 1..(Len(s) + 1), NEW q \in (p - 1)..Len(s), NEW gone,
         Within(gone, s, p, q),
         Joined(kd, mem, mem2, h, Stop(kd, s, h, p - 1), Stop(kd, s, h, q + 1), e, gone),
         NEW s2, Replaced(s, s2, p, q, e)
  PROVE  Links(kd, mem2, s2, h) /\ Distinct(s2) /\ \A x : In(x, s2) => x = e \/ In(x, s)
<1> DEFINE n == Len(s)
           n2 == Len(s2)
           S(k) == Stop(kd, s, h, k)
           Z(k) == Stop(kd, s2, h, k)
<1>1. n \in Nat /\ n2 \in Nat /\ p \in Nat /\ q \in Int /\ n2 = n + p - q /\ p <= n + 1 /\ q <= n /\ q >= p - 1 /\ p >= 1
  BY DEF Replaced
<1>a. \A k \in 1..n2 : s2[k] = IF k < p THEN s[k] ELSE IF k = p THEN e ELSE s[k + q - p]
  BY DEF Replaced
<1>2. ASSUME NEW k \in 0..(n2 + 1)
      PROVE  Z(k) = IF k < p THEN S(k) ELSE IF k = p THEN e ELSE S(k + q - p)
  <2>1. CASE k = 0
    BY <1>1, <2>1 DEF Stop
  <2>2. CASE k \in 1..n2
    <3>1. Z(k) = s2[k]
      BY <1>1, <2>2 DEF Stop
    <3>2. CASE k < p
      BY <1>1, <1>a, <2>2, <3>1, <3>2 DEF Stop
    <3>3. CASE k = p
      BY <1>1, <1>a, <2>2, <3>1, <3>3 DEF Stop
    <3>4. CASE k > p
      BY <1>1, <1>a, <2>2, <3>1, <3>4 DEF Stop
    <3> QED
      BY <1>1, <3>2, <3>3, <3>4
  <2>3. CASE k = n2 + 1
    BY <1>1, <2>3, SMTT(60) DEF Stop
  <2>4. k = 0 \/ k \in 1..n2 \/ k = n2 + 1
    <3>1. PICK z \in Nat : z = n2
      BY <1>1
    <3>2. k \in 0..(z + 1)
      BY <3>1, Zenon
    <3>3. k = 0 \/ k \in 1..z \/ k = z + 1
      BY <3>2
    <3> QED
      BY <3>1, <3>3, Zenon
  <2> QED
    BY <2>1, <2>2, <2>3, <2>4, Zenon
<1>3. /\ \A k \in 0..n : S(k) \in Nodes
      /\ \A j, k \in 0..n : S(j) = S(k) => j = k
      /\ \A k \in 1..n : S(k) = s[k] /\ s[k] \in Elems
      /\ S(0) = h /\ S(n + 1) = EndOf(kd, h)
  BY StopsApart
<1>4. /\ \A k \in 0..n : S(k) # e
      /\ h # e /\ h \notin Elems /\ EndOf(kd, h) \notin Elems /\ e \in Nodes
  <2>1. \A k \in 0..n : k = 0 \/ k \in 1..n
    BY <1>1
  <2>2. \A k \in 1..n : s[k] # e
    BY DEF In
  <2>3. h # e /\ h \notin Elems /\ EndOf(kd, h) \notin Elems /\ e \in Nodes
    BY NodesApart
  <2> QED
    BY <1>3, <2>1, <2>2, <2>3, Zenon
<1>5. \A k \in 0..n : ~(k \in p..q) => S(k) \notin gone
  BY <1>1, <1>3 DEF Within
<1>6. e \notin gone
  BY <1>1, <1>3, <1>4 DEF Within
<1> HIDE DEF S, Z, n, n2
<1>7. ASSUME NEW k \in 0..n2 PROVE mem2.next[Z(k)] = Z(k + 1)
  <2>1. CASE k < p - 1
    <3>1. k \in 0..n /\ k + 1 \in 0..(n2 + 1) /\ k \in 0..(n2 + 1) /\ ~(k \in p..q) /\ k # p - 1 /\ p - 1 \in 0..n
      BY <1>1, <2>1
    <3>2. S(k) # S(p - 1) /\ S(k) # e /\ S(k) \in Nodes \ gone
      BY <1>3, <1>4, <1>5, <3>1
    <3>3. mem2.next[S(k)] = mem.next[S(k)]
      BY <3>2 DEF Joined, S
    <3>4. mem.next[S(k)] = S(k + 1)
      BY <3>1 DEF Links, S, n
    <3> QED
      BY <1>1, <1>2, <2>1, <3>1, <3>3, <3>4
  <2>2. CASE k = p - 1
    <3>1. k \in 0..n /\ k + 1 \in 0..(n2 + 1) /\ k \in 0..(n2 + 1) /\ ~(k \in p..q) /\ k + 1 = p
      BY <1>1, <2>2
    <3>2. S(k) # e /\ S(k) \in Nodes \ gone
      BY <1>3, <1>4, <1>5, <3>1
    <3>3. mem2.next[S(k)] = e
      BY <2>2, <3>2 DEF Joined, S
    <3> QED
      BY <1>1, <1>2, <2>2, <3>1, <3>3
  <2>3. CASE k = p
    <3>1. k \in 0..(n2 + 1) /\ k + 1 \in 0..(n2 + 1) /\ k + 1 + q - p = q + 1 /\ ~(k + 1 < p) /\ k + 1 # p
      BY <1>1, <2>3
    <3>2. mem2.next[e] = S(q + 1)
      BY <1>4, <1>6 DEF Joined, S
    <3>3. Z(k) = e /\ Z(k + 1) = S(k + 1 + q - p)
      BY <1>1, <1>2, <2>3, <3>1
    <3> QED
      BY <3>1, <3>2, <3>3
  <2>4. CASE k > p
    <3> DEFINE j == k + q - p
    <3>1. j \in 0..n /\ k + 1 \in 0..(n2 + 1) /\ k \in 0..(n2 + 1) /\ ~(j \in p..q) /\ j # p - 1 /\ p - 1 \in 0..n
          /\ j + 1 = k + 1 + q - p /\ ~(k + 1 < p) /\ k + 1 # p /\ ~(k < p) /\ k # p
      BY <1>1, <2>4
    <3>2. S(j) # S(p - 1) /\ S(j) # e /\ S(j) \in Nodes \ gone
      BY <1>3, <1>4, <1>5, <3>1
    <3>3. mem2.next[S(j)] = mem.next[S(j)]
      BY <3>2 DEF Joined, S
    <3>4. mem.next[S(j)] = S(j + 1)
      BY <3>1 DEF Links, S, n
    <3>5. Z(k) = S(j) /\ Z(k + 1) = S(j + 1)
      BY <1>2, <3>1
    <3> QED
      BY <3>3, <3>4, <3>5
  <2> QED
    BY <1>1, <2>1, <2>2, <2>3, <2>4
<1>8. ASSUME kd \in TwoWay, NEW k \in 1..n2 PROVE mem2.prev[s2[k]] = Z(k - 1)
  <2>0. s2[k] = Z(k) /\ k \in 0..(n2 + 1) /\ k - 1 \in 0..(n2 + 1) /\ k \in Nat
    BY <1>1, SMTT(60) DEF Z, Stop, n2
  <2>1. CASE k < p
    <3>1. k \in 1..n /\ k \in 0..n /\ ~(k \in p..q) /\ k - 1 < p
      BY <1>1, <2>1
    <3>2. S(k) # S(q + 1)
      <4>1. CASE q + 1 \in 0..n
        BY <1>1, <1>3, <2>1, <3>1, <4>1
      <4>2. CASE q = n
        BY <1>3, <1>4, <3>1, <4>2
      <4> QED
        BY <1>1, <4>1, <4>2
    <3>3. S(k) # e /\ S(k) \in Elems \ gone /\ S(k) = s[k]
      BY <1>3, <1>4, <1>5, <3>1
    <3>4. mem2.prev[S(k)] = mem.prev[S(k)]
      BY <1>8, <3>2, <3>3 DEF Joined, S
    <3>5. mem.prev[s[k]] = S(k - 1)
      BY <1>8, <3>1 DEF Links, S, n
    <3>6. Z(k) = S(k) /\ Z(k - 1) = S(k - 1)
      BY <1>2, <2>0, <2>1, <3>1
    <3> QED
      BY <2>0, <3>3, <3>4, <3>5, <3>6
  <2>2. CASE k = p
    <3>1. mem2.prev[e] = S(p - 1)
      BY <1>6, <1>8 DEF Joined, S
    <3>2. Z(k) = e /\ Z(k - 1) = S(p - 1)
      BY <1>1, <1>2, <2>0, <2>2
    <3> QED
      BY <2>0, <3>1, <3>2
  <2>3. CASE k = p + 1
    <3>1. ~(k < p) /\ k # p /\ k + q - p = q + 1 /\ k - 1 = p /\ q + 1 \in 1..n /\ q + 1 \in 0..n /\ ~(q + 1 \in p..q)
      BY <1>1, <2>3
    <3>2. Z(k) = S(q + 1) /\ Z(k - 1) = e
      BY <1>1, <1>2, <2>0, <3>1
    <3>3. S(q + 1) \in Elems \ gone /\ S(q + 1) # e
      BY <1>3, <1>4, <1>5, <3>1
    <3>4. mem2.prev[S(q + 1)] = e
      BY <1>8, <3>3 DEF Joined, S
    <3> QED
      BY <2>0, <3>2, <3>4
  <2>4. CASE k > p + 1
    <3>0. PICK j : j = k + q - p
      OBVIOUS
    <3>1. /\ j \in 1..n /\ j \in 0..n /\ ~(j \in p..q) /\ ~(k < p) /\ k # p /\ ~(k - 1 < p) /\ k - 1 # p
          /\ (k - 1) + q - p = j - 1 /\ q + 1 \in 0..n /\ j # q + 1
      BY <1>1, <2>0, <2>4, <3>0
    <3>2. S(j) # S(q + 1) /\ S(j) # e /\ S(j) \in Elems \ gone /\ S(j) = s[j]
      BY <1>3, <1>4, <1>5, <3>1
    <3>3. mem2.prev[S(j)] = mem.prev[S(j)]
      BY <1>8, <3>2 DEF Joined, S
    <3>4. mem.prev[s[j]] = S(j - 1)
      BY <1>8, <3>1 DEF Links, S, n
    <3>5. Z(k) = S(j) /\ Z(k - 1) = S(j - 1)
      BY <1>2, <2>0, <3>0, <3>1
    <3> QED
      BY <2>0, <3>2, <3>3, <3>4, <3>5
  <2>5. k < p \/ k = p \/ k = p + 1 \/ k > p + 1
    BY <1>1, <2>0
  <2> QED
    BY <2>1, <2>2, <2>3, <2>4, <2>5, Zenon
<1>9. ASSUME kd \in WithLast PROVE mem2.prev[h] = Z(n2)
  <2>1. mem2.prev[h] = IF S(q + 1) \notin Elems THEN e ELSE mem.prev[h]
    BY <1>9 DEF Joined, S
  <2>2. mem.prev[h] = S(n)
    BY <1>9 DEF Links, S, n
  <2>3. CASE q = n
    <3>1. n2 = p /\ n2 \in 0..(n2 + 1)
      BY <1>1, <2>3
    <3>2. Z(n2) = e
      BY <1>1, <1>2, <3>1
    <3> QED
      BY <1>3, <1>4, <2>1, <2>3, <3>2
  <2>4. CASE q < n
    <3>1. n2 \in 0..(n2 + 1) /\ ~(n2 < p) /\ n2 # p /\ n2 + q - p = n /\ q + 1 \in 1..n
      BY <1>1, <2>4
    <3>2. Z(n2) = S(n)
      BY <1>2, <3>1
    <3> QED
      BY <1>3, <2>1, <2>2, <3>1, <3>2
  <2> QED
    BY <1>1, <2>3, <2>4
<1>10. Distinct(s2)
  <2> SUFFICES ASSUME NEW j \in 1..n2, NEW k \in 1..n2, s2[j] = s2[k] PROVE j = k
    BY DEF Distinct, n2
  <2>1. s2[j] = Z(j) /\ s2[k] = Z(k) /\ j \in 0..(n2 + 1) /\ k \in 0..(n2 + 1) /\ j \in Nat /\ k \in Nat
    BY <1>1 DEF Z, Stop, n2
  <2>2. ASSUME NEW i \in 1..n2, i # p
        PROVE  \E u \in 0..n : Z(i) = S(u) /\ (i < p => u = i) /\ (i > p => u = i + q - p)
    <3>1. PICK u : u = IF i < p THEN i ELSE i + q - p
      OBVIOUS
    <3>2. u \in 0..n /\ i \in 0..(n2 + 1) /\ i \in Nat
      BY <1>1, <2>2, <3>1
    <3>3. Z(i) = S(u)
      BY <1>2, <2>2, <3>1, <3>2
    <3> QED
      BY <1>1, <3>1, <3>2, <3>3
  <2>3. ASSUME NEW i \in 1..n2, i = p PROVE Z(i) = e
    <3>1. i \in 0..(n2 + 1) /\ ~(i < p)
      BY <1>1, <2>3
    <3> QED
      BY <1>2, <2>3, <3>1
  <2>4. CASE j = p \/ k = p
    BY <1>4, <2>1, <2>2, <2>3, <2>4, Zenon
  <2>5. CASE j # p /\ k # p
    <3>1. PICK u \in 0..n : Z(j) = S(u) /\ (j < p => u = j) /\ (j > p => u = j + q - p)
      BY <2>2, <2>5
    <3>2. PICK v \in 0..n : Z(k) = S(v) /\ (k < p => v = k) /\ (k > p => v = k + q - p)
      BY <2>2, <2>5
    <3>3. S(u) = S(v)
      BY <2>1, <3>1, <3>2, Zenon
    <3>4. u = v
      BY <1>3, <3>3
    <3>5. j \in Nat /\ k \in Nat
      BY <2>1
    <3>6. /\ j < p => u = j
          /\ j > p => u = j + q - p
          /\ k < p => u = k
          /\ k > p => u = k + q - p
      BY <3>1, <3>2, <3>4
    <3> QED
      BY <1>1, <2>5, <3>5, <3>6
  <2> QED
    BY <2>4, <2>5
<1>11. ASSUME NEW x, In(x, s2) PROVE x = e \/ In(x, s)
  <2>1. PICK k \in 1..n2 : s2[k] = x
    BY <1>11 DEF In, n2
  <2>2. (k < p => k \in 1..n) /\ (k > p => k + q - p \in 1..n)
    BY <1>1
  <2>3. s2[k] = IF k < p THEN s[k] ELSE IF k = p THEN e ELSE s[k + q - p]
    BY <1>a
  <2>4. CASE k < p
    <3>1. k \in 1..n /\ s[k] = x
      BY <2>1, <2>2, <2>3, <2>4, Zenon
    <3> QED
      BY <3>1, Zenon DEF In, n
  <2>5. CASE k > p
    <3>1. PICK j \in 1..n : j = k + q - p
      BY <2>2, <2>5
    <3>2. ~(k < p) /\ k # p
      BY <1>1, <2>5
    <3>3. s[j] = x
      BY <2>1, <2>3, <3>1, <3>2, Zenon
    <3> QED
      BY <3>3, Zenon DEF In, n
  <2>6. k < p \/ k = p \/ k > p
    BY <1>1
  <2> QED
    BY <1>1, <2>1, <2>3, <2>4, <2>5, <2>6
<1> QED
  BY <1>7, <1>8, <1>9, <1>10, <1>11 DEF Links, Z, n2

\* Taking the elements from p to q out of a list keeps its pointers.
LEMMA ClosedLinks ==
  ASSUME NEW kd, NEW mem, NEW mem2, NEW h \in Heads, NEW s \in Seq(Elems), Distinct(s), Links(kd, mem, s, h),
         NEW p \in 1..Len(s), NEW q \in p..Len(s), NEW gone,
         Within(gone, s, p, q),
         Closed(kd, mem, mem2, h, Stop(kd, s, h, p - 1), Stop(kd, s, h, q + 1), gone),
         NEW s2, Removed(s, s2, p, q)
  PROVE  Links(kd, mem2, s2, h) /\ Distinct(s2) /\ \A x : In(x, s2) => In(x, s)
<1> DEFINE n == Len(s)
           n2 == Len(s2)
           S(k) == Stop(kd, s, h, k)
           Z(k) == Stop(kd, s2, h, k)
<1>0. PICK d : d = q - p + 1
  OBVIOUS
<1>1. n \in Nat /\ n2 \in Nat /\ p \in Nat /\ q \in Nat /\ d \in Nat /\ p >= 1 /\ d >= 1 /\ q = p - 1 + d /\ q <= n /\ n = n2 + d
  <2>1. s2 \in Seq(Elems) /\ Len(s2) = Len(s) - d
    BY <1>0, Zenon DEF Removed
  <2>2. PICK i, j : i = Len(s) /\ j = Len(s2)
    OBVIOUS
  <2>3. i \in Nat /\ j \in Nat
    BY <2>1, <2>2
  <2>4. p \in 1..i /\ q \in p..i /\ j = i - d
    BY <2>1, <2>2, Zenon
  <2>5. p \in Nat /\ q \in Nat /\ d \in Nat /\ p >= 1 /\ d >= 1 /\ q = p - 1 + d /\ q <= i /\ i = j + d
    BY <1>0, <2>3, <2>4
  <2> QED
    BY <2>2, <2>3, <2>5, Zenon
<1>a. \A k \in 1..n2 : s2[k] = IF k < p THEN s[k] ELSE s[k + d]
  BY <1>0, Zenon DEF Removed
<1>2. ASSUME NEW k \in 0..(n2 + 1)
      PROVE  Z(k) = IF k < p THEN S(k) ELSE S(k + d)
  <2>1. CASE k = 0
    BY <1>1, <2>1 DEF Stop
  <2>2. CASE k \in 1..n2
    <3>1. Z(k) = s2[k]
      BY <1>1, <2>2 DEF Stop
    <3>2. CASE k < p
      BY <1>1, <1>a, <2>2, <3>1, <3>2 DEF Stop
    <3>3. CASE k >= p
      BY <1>1, <1>a, <2>2, <3>1, <3>3 DEF Stop
    <3> QED
      BY <1>1, <3>2, <3>3
  <2>3. CASE k = n2 + 1
    <3>1. ~(k <= n2) /\ ~(k + d <= n) /\ k # 0 /\ k + d # 0 /\ ~(k < p)
      BY <1>1, <2>3
    <3>2. Z(k) = EndOf(kd, h) /\ S(k + d) = EndOf(kd, h)
      BY <3>1, Zenon DEF Stop
    <3> QED
      BY <3>1, <3>2, Zenon
  <2>4. k = 0 \/ k \in 1..n2 \/ k = n2 + 1
    <3>1. PICK z \in Nat : z = n2
      BY <1>1
    <3>2. k \in 0..(z + 1)
      BY <3>1, Zenon
    <3>3. k = 0 \/ k \in 1..z \/ k = z + 1
      BY <3>2
    <3> QED
      BY <3>1, <3>3, Zenon
  <2> QED
    BY <2>1, <2>2, <2>3, <2>4, Zenon
<1>3. /\ \A k \in 0..n : S(k) \in Nodes
      /\ \A j, k \in 0..n : S(j) = S(k) => j = k
      /\ \A k \in 1..n : S(k) = s[k] /\ s[k] \in Elems
      /\ S(0) = h /\ S(n + 1) = EndOf(kd, h)
  BY StopsApart
<1>4. h \notin Elems /\ EndOf(kd, h) \notin Elems
  BY NodesApart
<1>5. \A k \in 0..n : ~(k \in p..q) => S(k) \notin gone
  BY <1>1, <1>3 DEF Within
<1> HIDE DEF S, Z, n, n2
<1>7. ASSUME NEW k \in 0..n2 PROVE mem2.next[Z(k)] = Z(k + 1)
  <2>1. CASE k < p - 1
    <3>1. k \in 0..n /\ k + 1 \in 0..(n2 + 1) /\ k \in 0..(n2 + 1) /\ ~(k \in p..q) /\ k # p - 1 /\ p - 1 \in 0..n
      BY <1>1, <2>1
    <3>2. S(k) # S(p - 1) /\ S(k) \in Nodes \ gone
      BY <1>3, <1>5, <3>1
    <3>3. mem2.next[S(k)] = mem.next[S(k)]
      BY <3>2 DEF Closed, S
    <3>4. mem.next[S(k)] = S(k + 1)
      BY <3>1 DEF Links, S, n
    <3> QED
      BY <1>1, <1>2, <2>1, <3>1, <3>3, <3>4
  <2>2. CASE k = p - 1
    <3>1. k \in 0..n /\ k + 1 \in 0..(n2 + 1) /\ k \in 0..(n2 + 1) /\ ~(k \in p..q) /\ k + 1 + d = q + 1 /\ k < p /\ ~(k + 1 < p)
      BY <1>1, <2>2
    <3>2. S(k) \in Nodes \ gone
      BY <1>3, <1>5, <3>1
    <3>3. mem2.next[S(k)] = S(q + 1)
      BY <2>2, <3>2 DEF Closed, S
    <3>4. Z(k) = S(k) /\ Z(k + 1) = S(k + 1 + d)
      BY <1>2, <3>1
    <3> QED
      BY <3>1, <3>3, <3>4
  <2>4. CASE k > p - 1
    <3>0. PICK j : j = k + d
      OBVIOUS
    <3>1. /\ j \in 0..n /\ k + 1 \in 0..(n2 + 1) /\ k \in 0..(n2 + 1) /\ ~(j \in p..q) /\ j # p - 1 /\ p - 1 \in 0..n
          /\ j + 1 = k + 1 + d /\ ~(k + 1 < p) /\ ~(k < p)
      BY <1>1, <2>4, <3>0
    <3>2. S(j) # S(p - 1) /\ S(j) \in Nodes \ gone
      BY <1>3, <1>5, <3>1
    <3>3. mem2.next[S(j)] = mem.next[S(j)]
      BY <3>2 DEF Closed, S
    <3>4. mem.next[S(j)] = S(j + 1)
      BY <3>1 DEF Links, S, n
    <3>5. Z(k) = S(j) /\ Z(k + 1) = S(j + 1)
      BY <1>2, <3>0, <3>1
    <3> QED
      BY <3>3, <3>4, <3>5
  <2> QED
    BY <1>1, <2>1, <2>2, <2>4, SMTT(60)
<1>8. ASSUME kd \in TwoWay, NEW k \in 1..n2 PROVE mem2.prev[s2[k]] = Z(k - 1)
  <2>0. s2[k] = Z(k) /\ k \in 0..(n2 + 1) /\ k - 1 \in 0..(n2 + 1) /\ k \in Nat
    BY <1>1 DEF Z, Stop, n2
  <2>1. CASE k < p
    <3>1. k \in 1..n /\ k \in 0..n /\ ~(k \in p..q) /\ k - 1 < p
      BY <1>1, <2>1
    <3>2. S(k) # S(q + 1)
      <4>1. CASE q + 1 \in 0..n
        BY <1>1, <1>3, <2>1, <3>1, <4>1
      <4>2. CASE q = n
        BY <1>3, <1>4, <3>1, <4>2
      <4> QED
        BY <1>1, <4>1, <4>2
    <3>3. S(k) \in Elems \ gone /\ S(k) = s[k]
      BY <1>3, <1>5, <3>1
    <3>4. mem2.prev[S(k)] = mem.prev[S(k)]
      BY <1>8, <3>2, <3>3 DEF Closed, S
    <3>5. mem.prev[s[k]] = S(k - 1)
      BY <1>8, <3>1 DEF Links, S, n
    <3>6. Z(k) = S(k) /\ Z(k - 1) = S(k - 1)
      BY <1>2, <2>0, <2>1, <3>1
    <3> QED
      BY <2>0, <3>3, <3>4, <3>5, <3>6
  <2>3. CASE k = p
    <3>1. ~(k < p) /\ k + d = q + 1 /\ k - 1 < p /\ k - 1 = p - 1 /\ q + 1 \in 1..n /\ q + 1 \in 0..n /\ ~(q + 1 \in p..q)
      BY <1>1, <2>3
    <3>2. Z(k) = S(q + 1) /\ Z(k - 1) = S(p - 1)
      BY <1>2, <2>0, <3>1
    <3>3. S(q + 1) \in Elems \ gone
      BY <1>3, <1>5, <3>1
    <3>4. mem2.prev[S(q + 1)] = S(p - 1)
      BY <1>8, <3>3 DEF Closed, S
    <3> QED
      BY <2>0, <3>2, <3>4
  <2>4. CASE k > p
    <3>0. PICK j : j = k + d
      OBVIOUS
    <3>1. /\ j \in 1..n /\ j \in 0..n /\ ~(j \in p..q) /\ ~(k < p) /\ ~(k - 1 < p)
          /\ (k - 1) + d = j - 1 /\ q + 1 \in 0..n /\ j # q + 1
      BY <1>1, <2>0, <2>4, <3>0
    <3>2. S(j) # S(q + 1) /\ S(j) \in Elems \ gone /\ S(j) = s[j]
      BY <1>3, <1>5, <3>1
    <3>3. mem2.prev[S(j)] = mem.prev[S(j)]
      BY <1>8, <3>2 DEF Closed, S
    <3>4. mem.prev[s[j]] = S(j - 1)
      BY <1>8, <3>1 DEF Links, S, n
    <3>5. Z(k) = S(j) /\ Z(k - 1) = S(j - 1)
      BY <1>2, <2>0, <3>0, <3>1
    <3> QED
      BY <2>0, <3>2, <3>3, <3>4, <3>5
  <2>5. k < p \/ k = p \/ k > p
    BY <1>1, <2>0
  <2> QED
    BY <2>1, <2>3, <2>4, <2>5, Zenon
<1>9. ASSUME kd \in WithLast PROVE mem2.prev[h] = Z(n2)
  <2>1. mem2.prev[h] = IF S(q + 1) \notin Elems THEN S(p - 1) ELSE mem.prev[h]
    BY <1>9 DEF Closed, S
  <2>2. mem.prev[h] = S(n)
    BY <1>9 DEF Links, S, n
  <2>3. CASE q = n
    <3>1. n2 = p - 1 /\ n2 \in 0..(n2 + 1) /\ n2 < p
      BY <1>1, <2>3
    <3>2. Z(n2) = S(p - 1)
      BY <1>2, <3>1
    <3> QED
      BY <1>3, <1>4, <2>1, <2>3, <3>2
  <2>4. CASE q < n
    <3>1. n2 \in 0..(n2 + 1) /\ ~(n2 < p) /\ n2 + d = n /\ q + 1 \in 1..n
      BY <1>1, <2>4
    <3>2. Z(n2) = S(n)
      BY <1>2, <3>1
    <3> QED
      BY <1>3, <2>1, <2>2, <3>1, <3>2
  <2> QED
    BY <1>1, <2>3, <2>4
<1>10. Distinct(s2)
  <2> SUFFICES ASSUME NEW j \in 1..n2, NEW k \in 1..n2, s2[j] = s2[k] PROVE j = k
    BY DEF Distinct, n2
  <2>1. s2[j] = Z(j) /\ s2[k] = Z(k) /\ j \in Nat /\ k \in Nat
    BY <1>1 DEF Z, Stop, n2
  <2>2. ASSUME NEW i \in 1..n2
        PROVE  \E u \in 0..n : Z(i) = S(u) /\ (i < p => u = i) /\ (i >= p => u = i + d)
    <3>1. PICK u : u = IF i < p THEN i ELSE i + d
      OBVIOUS
    <3>2. u \in 0..n /\ i \in 0..(n2 + 1) /\ i \in Nat
      BY <1>1, <2>2, <3>1
    <3>3. Z(i) = S(u)
      BY <1>2, <2>2, <3>1, <3>2
    <3> QED
      BY <1>1, <3>1, <3>2, <3>3
  <2>3. PICK u \in 0..n : Z(j) = S(u) /\ (j < p => u = j) /\ (j >= p => u = j + d)
    BY <2>2
  <2>4. PICK v \in 0..n : Z(k) = S(v) /\ (k < p => v = k) /\ (k >= p => v = k + d)
    BY <2>2
  <2>5. S(u) = S(v)
    BY <2>1, <2>3, <2>4, Zenon
  <2>6. u = v
    BY <1>3, <2>5
  <2>7. j \in Nat /\ k \in Nat
    BY <2>1
  <2>8. /\ j < p => u = j
        /\ j >= p => u = j + d
        /\ k < p => u = k
        /\ k >= p => u = k + d
    BY <2>3, <2>4, <2>6
  <2> QED
    BY <1>1, <2>7, <2>8
<1>11. ASSUME NEW x, In(x, s2) PROVE In(x, s)
  <2>1. PICK k \in 1..n2 : s2[k] = x
    BY <1>11 DEF In, n2
  <2>2. PICK j : j = IF k < p THEN k ELSE k + d
    OBVIOUS
  <2>3. j \in 1..n
    BY <1>1, <2>2
  <2>4. s2[k] = s[j]
    BY <1>a, <2>2, Zenon
  <2> QED
    BY <2>1, <2>3, <2>4, Zenon DEF In, n
<1> QED
  BY <1>7, <1>8, <1>9, <1>10, <1>11 DEF Links, Z, n2

-----------------------------------------------------------------------------
(* One list changes, the others stay                                       *)

\* The elements that are in no list.
Unlisted(ls, x) == x \in Elems /\ \A g \in Heads : ~In(x, ls[g])

\* A list whose nodes keep their pointers keeps its links.
LEMMA LinksKept ==
  ASSUME NEW kd, NEW mem, NEW mem2, NEW h \in Heads, NEW s \in Seq(Elems), Distinct(s), Links(kd, mem, s, h),
         \A x \in Nodes : x = h \/ In(x, s) => mem2.next[x] = mem.next[x],
         kd \in TwoWay => \A x \in Elems : In(x, s) => mem2.prev[x] = mem.prev[x],
         kd \in WithLast => mem2.prev[h] = mem.prev[h]
  PROVE  Links(kd, mem2, s, h)
<1>1. ASSUME NEW k \in 0..Len(s) PROVE mem2.next[Stop(kd, s, h, k)] = mem.next[Stop(kd, s, h, k)]
  <2>1. Stop(kd, s, h, k) \in Nodes
    BY StopsApart
  <2>2. CASE k = 0
    BY <2>1, <2>2, StopsApart, ZenonT(60)
  <2>3. CASE k \in 1..Len(s)
    <3>1. Stop(kd, s, h, k) = s[k]
      <4>1. k # 0 /\ k <= Len(s)
        BY <2>3
      <4> QED
        BY <4>1, Zenon DEF Stop
    <3>2. In(s[k], s)
      BY <2>3, Zenon DEF In
    <3> QED
      BY <2>1, <3>1, <3>2, Zenon
  <2> QED
    BY <2>2, <2>3
<1>2. ASSUME kd \in TwoWay, NEW k \in 1..Len(s) PROVE mem2.prev[s[k]] = mem.prev[s[k]]
  <2>1. s[k] \in Elems /\ In(s[k], s)
    BY DEF In
  <2> QED
    BY <1>2, <2>1, Zenon
<1> QED
  BY <1>1, <1>2 DEF Links

\* Memory is the same outside the list of h, and s2 has elements of it and new ones.
OthersSame(kd, mem, mem2, ls, h) ==
  \A x \in Nodes : x # h /\ ~In(x, ls[h]) /\ ~Unlisted(ls, x) =>
    /\ mem2.next[x] = mem.next[x]
    /\ x \in Elems /\ kd \in TwoWay => mem2.prev[x] = mem.prev[x]
    /\ x \in Heads /\ kd \in WithLast => mem2.prev[x] = mem.prev[x]
DrawnFrom(ls, h, s2) == \A x \in Elems : In(x, s2) => In(x, ls[h]) \/ Unlisted(ls, x)

\* One list after an insertion or a removal.
LEMMA OneChanged ==
  ASSUME NEW kd, NEW mem, NEW ls, LinkInv(kd, mem, ls), NEW h \in Heads, NEW s2 \in Seq(Elems),
         NEW mem2, Memory(mem2), Links(kd, mem2, s2, h), Distinct(s2),
         DrawnFrom(ls, h, s2), OthersSame(kd, mem, mem2, ls, h)
  PROVE  LinkInv(kd, mem2, [ls EXCEPT ![h] = s2])
<1> DEFINE ls2 == [ls EXCEPT ![h] = s2]
<1>1. ls \in [Heads -> Seq(Elems)] /\ kd \in Kinds
  BY DEF LinkInv, Apart
<1>2. ls2 \in [Heads -> Seq(Elems)] /\ ls2[h] = s2 /\ \A g \in Heads : g # h => ls2[g] = ls[g]
  BY <1>1
<1> HIDE DEF ls2
<1>3. ASSUME NEW g \in Heads PROVE Distinct(ls2[g]) /\ Links(kd, mem2, ls2[g], g)
  <2>1. CASE g = h
    BY <1>2, <2>1, Zenon
  <2>2. CASE g # h
    <3>1. Distinct(ls[g]) /\ Links(kd, mem, ls[g], g) /\ ls[g] \in Seq(Elems)
      BY <1>1 DEF LinkInv, Apart
    <3>2. ASSUME NEW x \in Nodes, x = g \/ In(x, ls[g])
          PROVE  x # h /\ ~In(x, ls[h]) /\ ~Unlisted(ls, x)
      <4>1. CASE x = g
        <5>1. x \notin Elems
          BY <4>1, NodesApart
        <5>2. ASSUME NEW t \in Seq(Elems), In(x, t) PROVE FALSE
          BY <5>1, <5>2 DEF In
        <5>3. ~In(x, ls[h])
          BY <1>1, <5>2
        <5> QED
          BY <2>2, <4>1, <5>1, <5>3 DEF Unlisted
      <4>2. CASE In(x, ls[g])
        <5>1. x \in Elems
          BY <3>1, <4>2 DEF In
        <5>2. x # h
          BY <5>1, NodesApart
        <5>3. ~In(x, ls[h])
          BY <2>2, <4>2, <5>1, Zenon DEF LinkInv, Apart
        <5> QED
          BY <4>2, <5>2, <5>3, Zenon DEF Unlisted
      <4> QED
        BY <3>2, <4>1, <4>2
    <3>3. g \in Nodes /\ Elems \subseteq Nodes
      BY NodesApart
    <3>4. Links(kd, mem2, ls[g], g)
      <4>1. \A x \in Nodes : x = g \/ In(x, ls[g]) => mem2.next[x] = mem.next[x]
        BY <3>2 DEF OthersSame
      <4>2. kd \in TwoWay => \A x \in Elems : In(x, ls[g]) => mem2.prev[x] = mem.prev[x]
        BY <3>2, <3>3 DEF OthersSame
      <4>3. kd \in WithLast => mem2.prev[g] = mem.prev[g]
        BY <3>2, <3>3 DEF OthersSame
      <4> QED
        BY <3>1, <4>1, <4>2, <4>3, LinksKept
    <3> QED
      BY <1>2, <2>2, <3>1, <3>4, Zenon
  <2> QED
    BY <2>1, <2>2
<1>4. ASSUME NEW f \in Heads, NEW g \in Heads, NEW x \in Elems, In(x, ls2[f]), In(x, ls2[g]) PROVE f = g
  <2>1. \A a, b \in Heads : In(x, ls[a]) /\ In(x, ls[b]) => a = b
    BY DEF LinkInv, Apart
  <2> QED
    BY <1>2, <1>4, <2>1, Zenon DEF DrawnFrom, Unlisted
<1> QED
  BY <1>1, <1>2, <1>3, <1>4, Zenon DEF LinkInv, Apart, ls2
-----------------------------------------------------------------------------
(* What the macros do to memory                                            *)

\* a and b are next to each other in a list of head h.
Between(kd, mem, h, a, b) ==
  /\ a \in Elems \cup {h} /\ b \in Elems \cup {EndOf(kd, h)} /\ mem.next[a] = b
  /\ kd \in TwoWay /\ b \in Elems => mem.prev[b] = a
  /\ kd \in WithLast /\ b \notin Elems => mem.prev[h] = a
  /\ kd \in WithLast /\ b \in Elems => mem.prev[h] \in Elems
  /\ a \in Elems => mem.next[h] \in Elems

\* Each stop on the way through a list is next to the following one.
LEMMA StopsBetween ==
  ASSUME NEW kd, NEW mem, NEW h \in Heads, NEW s \in Seq(Elems), Distinct(s), Links(kd, mem, s, h),
         NEW k \in 0..Len(s)
  PROVE  Between(kd, mem, h, Stop(kd, s, h, k), Stop(kd, s, h, k + 1))
<1> DEFINE S(i) == Stop(kd, s, h, i)
<1>0. PICK n \in Nat : n = Len(s)
  OBVIOUS
<1>1. /\ \A i \in 1..n : S(i) = s[i] /\ s[i] \in Elems
      /\ S(0) = h /\ S(n + 1) = EndOf(kd, h)
  <2>1. /\ \A i \in 1..Len(s) : S(i) = s[i] /\ s[i] \in Elems
        /\ S(0) = h /\ S(Len(s) + 1) = EndOf(kd, h)
    BY StopsApart, SMTT(60)
  <2> QED
    BY <1>0, <2>1, Zenon
<1>2. /\ \A i \in 0..n : mem.next[S(i)] = S(i + 1)
      /\ kd \in TwoWay => \A i \in 1..n : mem.prev[s[i]] = S(i - 1)
      /\ kd \in WithLast => mem.prev[h] = S(n)
  BY <1>0, Zenon DEF Links
<1>3. EndOf(kd, h) \notin Elems /\ h \notin Elems
  BY NodesApart
<1>4. k \in 0..n
  BY <1>0, Zenon
<1> HIDE DEF S
<1>5. S(k) \in Elems \cup {h} /\ S(k + 1) \in Elems \cup {EndOf(kd, h)} /\ mem.next[S(k)] = S(k + 1)
  BY <1>1, <1>2, <1>4
<1>6. kd \in TwoWay /\ S(k + 1) \in Elems => mem.prev[S(k + 1)] = S(k)
  <2>1. CASE k + 1 \in 1..n
    <3>1. PICK j : j = k + 1
      OBVIOUS
    <3>2. j \in 1..n /\ j - 1 = k
      BY <1>4, <2>1, <3>1
    <3> QED
      BY <1>1, <1>2, <3>1, <3>2, Zenon
  <2>2. CASE k = n
    BY <1>1, <1>3, <2>2
  <2> QED
    BY <1>4, <2>1, <2>2
<1>7. kd \in WithLast /\ S(k + 1) \notin Elems => mem.prev[h] = S(k)
  <2>1. CASE k + 1 \in 1..n
    BY <1>1, <2>1
  <2>2. CASE k = n
    BY <1>2, <2>2
  <2> QED
    BY <1>4, <2>1, <2>2
<1>8. kd \in WithLast /\ S(k + 1) \in Elems => mem.prev[h] \in Elems
  <2>1. CASE k + 1 \in 1..n
    BY <1>1, <1>2, <1>4, <2>1, SMTT(60)
  <2>2. CASE k = n
    BY <1>1, <1>3, <2>2
  <2> QED
    BY <1>4, <2>1, <2>2
<1>9. S(k) \in Elems => mem.next[h] \in Elems
  <2>1. CASE k = 0
    BY <1>1, <1>3, <2>1
  <2>2. CASE k # 0
    <3>1. 1 \in 1..n /\ 0 \in 0..n /\ 0 + 1 = 1
      BY <1>4, <2>2
    <3> QED
      BY <1>1, <1>2, <3>1
  <2> QED
    BY <2>1, <2>2
<1> QED
  BY <1>5, <1>6, <1>7, <1>8, <1>9 DEF Between, S

\* Setting a pointer changes that pointer and nothing else.
LEMMA SetOne ==
  ASSUME NEW mem, Memory(mem), NEW x \in Nodes, NEW v \in Pointers
  PROVE  /\ Memory(SetNext(mem, x, v)) /\ Memory(SetPrev(mem, x, v))
         /\ SetNext(mem, x, v).prev = mem.prev /\ SetPrev(mem, x, v).next = mem.next
         /\ \A y \in Nodes : SetNext(mem, x, v).next[y] = IF y = x THEN v ELSE mem.next[y]
         /\ \A y \in Nodes : SetPrev(mem, x, v).prev[y] = IF y = x THEN v ELSE mem.prev[y]
  BY DEF Memory, SetNext, SetPrev

\* The macros that insert put e between the nodes they should.
LEMMA SlistInserts ==
  ASSUME NEW mem, Memory(mem), NEW h \in Heads, NEW a, NEW b, NEW e \in Elems, e # a, e # b,
         Between("SLIST", mem, h, a, b)
  PROVE  /\ a = h => Joined("SLIST", mem, SLIST_INSERT_HEAD(mem, h, e), h, a, b, e, {})
         /\ Joined("SLIST", mem, SLIST_INSERT_AFTER(mem, a, e), h, a, b, e, {})
  BY NodesApart DEF Between, Joined, SLIST_INSERT_HEAD, SLIST_INSERT_AFTER, SetNext, SetPrev, Memory, Pointers,
                    TwoWay, WithLast, EndOf

\* The LIST insertions put e between the nodes a and b.
LEMMA ListInserts ==
  ASSUME NEW mem, Memory(mem), NEW h \in Heads, NEW a, NEW b, NEW e \in Elems, e # a, e # b,
         Between("LIST", mem, h, a, b)
  PROVE  /\ a = h => Joined("LIST", mem, LIST_INSERT_HEAD(mem, h, e), h, a, b, e, {})
         /\ Joined("LIST", mem, LIST_INSERT_AFTER(mem, a, e), h, a, b, e, {})
         /\ b \in Elems => Joined("LIST", mem, LIST_INSERT_BEFORE(mem, b, e), h, a, b, e, {})
<1> USE NodesApart DEF Between, Joined, SetNext, SetPrev, Memory, Pointers, TwoWay, WithLast, EndOf
<1>1. a = h => Joined("LIST", mem, LIST_INSERT_HEAD(mem, h, e), h, a, b, e, {})
  BY DEF LIST_INSERT_HEAD
<1>2. Joined("LIST", mem, LIST_INSERT_AFTER(mem, a, e), h, a, b, e, {})
  BY ZenonT(60) DEF LIST_INSERT_AFTER
<1>3. b \in Elems => Joined("LIST", mem, LIST_INSERT_BEFORE(mem, b, e), h, a, b, e, {})
  BY DEF LIST_INSERT_BEFORE
<1> QED
  BY <1>1, <1>2, <1>3, Zenon

\* The STAILQ insertions put e between the nodes a and b.
LEMMA StailqInserts ==
  ASSUME NEW mem, Memory(mem), NEW h \in Heads, NEW a, NEW b, NEW e \in Elems, e # a, e # b,
         Between("STAILQ", mem, h, a, b)
  PROVE  /\ a = h => Joined("STAILQ", mem, STAILQ_INSERT_HEAD(mem, h, e), h, a, b, e, {})
         /\ Joined("STAILQ", mem, STAILQ_INSERT_AFTER(mem, h, a, e), h, a, b, e, {})
         /\ b \notin Elems => Joined("STAILQ", mem, STAILQ_INSERT_TAIL(mem, h, e), h, a, b, e, {})
<1> USE NodesApart DEF Between, Joined, SetNext, SetPrev, Memory, Pointers, TwoWay, WithLast, EndOf
<1>1. a = h => Joined("STAILQ", mem, STAILQ_INSERT_HEAD(mem, h, e), h, a, b, e, {})
  BY DEF STAILQ_INSERT_HEAD, LastIfEnd
<1>2. Joined("STAILQ", mem, STAILQ_INSERT_AFTER(mem, h, a, e), h, a, b, e, {})
  BY DEF STAILQ_INSERT_AFTER, LastIfEnd
<1>3. b \notin Elems => Joined("STAILQ", mem, STAILQ_INSERT_TAIL(mem, h, e), h, a, b, e, {})
  BY DEF STAILQ_INSERT_TAIL
<1> QED
  BY <1>1, <1>2, <1>3, Zenon

\* The TAILQ insertions put e between the nodes a and b.
LEMMA TailqInserts ==
  ASSUME NEW mem, Memory(mem), NEW h \in Heads, NEW a, NEW b, NEW e \in Elems, e # a, e # b,
         Between("TAILQ", mem, h, a, b)
  PROVE  /\ a = h => Joined("TAILQ", mem, TAILQ_INSERT_HEAD(mem, h, e), h, a, b, e, {})
         /\ Joined("TAILQ", mem, TAILQ_INSERT_AFTER(mem, h, a, e), h, a, b, e, {})
         /\ b \in Elems => Joined("TAILQ", mem, TAILQ_INSERT_BEFORE(mem, b, e), h, a, b, e, {})
         /\ b \notin Elems => Joined("TAILQ", mem, TAILQ_INSERT_TAIL(mem, h, e), h, a, b, e, {})
<1> USE NodesApart DEF Between, Joined, SetNext, SetPrev, Memory, Pointers, TwoWay, WithLast, EndOf
<1>1. a = h => Joined("TAILQ", mem, TAILQ_INSERT_HEAD(mem, h, e), h, a, b, e, {})
  BY ZenonT(60) DEF TAILQ_INSERT_HEAD, Close
<1>2. Joined("TAILQ", mem, TAILQ_INSERT_AFTER(mem, h, a, e), h, a, b, e, {})
  BY ZenonT(60) DEF TAILQ_INSERT_AFTER, Close
<1>3. b \in Elems => Joined("TAILQ", mem, TAILQ_INSERT_BEFORE(mem, b, e), h, a, b, e, {})
  BY ZenonT(60) DEF TAILQ_INSERT_BEFORE
<1>4. b \notin Elems => Joined("TAILQ", mem, TAILQ_INSERT_TAIL(mem, h, e), h, a, b, e, {})
  BY ZenonT(60) DEF TAILQ_INSERT_TAIL
<1> QED
  BY <1>1, <1>2, <1>3, <1>4, Zenon

\* The CIRCLEQ insertions put e between the nodes a and b.
LEMMA CircleqInserts ==
  ASSUME NEW mem, Memory(mem), NEW h \in Heads, NEW a, NEW b, NEW e \in Elems, e # a, e # b,
         Between("CIRCLEQ", mem, h, a, b)
  PROVE  /\ a = h => Joined("CIRCLEQ", mem, CIRCLEQ_INSERT_HEAD(mem, h, e), h, a, b, e, {})
         /\ Joined("CIRCLEQ", mem, CIRCLEQ_INSERT_AFTER(mem, h, a, e), h, a, b, e, {})
         /\ b \in Elems => Joined("CIRCLEQ", mem, CIRCLEQ_INSERT_BEFORE(mem, h, b, e), h, a, b, e, {})
         /\ b \notin Elems => Joined("CIRCLEQ", mem, CIRCLEQ_INSERT_TAIL(mem, h, e), h, a, b, e, {})
<1> USE NodesApart DEF Between, Joined, SetNext, SetPrev, Memory, Pointers, TwoWay, WithLast, EndOf
<1>1. a = h => Joined("CIRCLEQ", mem, CIRCLEQ_INSERT_HEAD(mem, h, e), h, a, b, e, {})
  <2>1. CASE b = h
    BY <2>1, ZenonT(60) DEF CIRCLEQ_INSERT_HEAD
  <2>2. CASE b \in Elems
    BY <2>2, ZenonT(60) DEF CIRCLEQ_INSERT_HEAD
  <2> QED
    BY <2>1, <2>2
<1>2. Joined("CIRCLEQ", mem, CIRCLEQ_INSERT_AFTER(mem, h, a, e), h, a, b, e, {})
  <2>1. CASE b = h
    BY <2>1, ZenonT(60) DEF CIRCLEQ_INSERT_AFTER
  <2>2. CASE b \in Elems
    BY <2>2, ZenonT(60) DEF CIRCLEQ_INSERT_AFTER
  <2> QED
    BY <2>1, <2>2
<1>3. b \in Elems => Joined("CIRCLEQ", mem, CIRCLEQ_INSERT_BEFORE(mem, h, b, e), h, a, b, e, {})
  BY ZenonT(60) DEF CIRCLEQ_INSERT_BEFORE
<1>4. b \notin Elems => Joined("CIRCLEQ", mem, CIRCLEQ_INSERT_TAIL(mem, h, e), h, a, b, e, {})
  BY ZenonT(60) DEF CIRCLEQ_INSERT_TAIL
<1> QED
  BY <1>1, <1>2, <1>3, <1>4, Zenon

\* The macros that remove join the nodes before and after the element.
LEMMA Removes ==
  ASSUME NEW kd, NEW mem, Memory(mem), NEW h \in Heads, NEW a, NEW b, NEW e \in Elems, e # a, e # b,
         Between(kd, mem, h, a, e), Between(kd, mem, h, e, b)
  PROVE  /\ kd = "SLIST" /\ a = h => Closed(kd, mem, SLIST_REMOVE_HEAD(mem, h), h, a, b, {})
         /\ kd = "SLIST" => Closed(kd, mem, SLIST_REMOVE_AFTER(mem, a), h, a, b, {})
         /\ kd = "LIST" => Closed(kd, mem, LIST_REMOVE(mem, e), h, a, b, {})
         /\ kd = "STAILQ" /\ a = h => Closed(kd, mem, STAILQ_REMOVE_HEAD(mem, h), h, a, b, {})
         /\ kd = "STAILQ" => Closed(kd, mem, STAILQ_REMOVE_AFTER(mem, h, a), h, a, b, {})
         /\ kd = "TAILQ" => Closed(kd, mem, TAILQ_REMOVE(mem, h, e), h, a, b, {})
         /\ kd = "CIRCLEQ" => Closed(kd, mem, CIRCLEQ_REMOVE(mem, h, e), h, a, b, {})
<1> USE NodesApart DEF Between, Closed, SetNext, SetPrev, Memory, Pointers, TwoWay, WithLast, EndOf
<1>1. kd = "SLIST" /\ a = h => Closed(kd, mem, SLIST_REMOVE_HEAD(mem, h), h, a, b, {})
  BY DEF SLIST_REMOVE_HEAD
<1>2. kd = "SLIST" => Closed(kd, mem, SLIST_REMOVE_AFTER(mem, a), h, a, b, {})
  BY DEF SLIST_REMOVE_AFTER
<1>3. kd = "LIST" => Closed(kd, mem, LIST_REMOVE(mem, e), h, a, b, {})
  BY DEF LIST_REMOVE
<1>4. kd = "STAILQ" /\ a = h => Closed(kd, mem, STAILQ_REMOVE_HEAD(mem, h), h, a, b, {})
  BY DEF STAILQ_REMOVE_HEAD, LastIfEnd
<1>5. kd = "STAILQ" => Closed(kd, mem, STAILQ_REMOVE_AFTER(mem, h, a), h, a, b, {})
  BY DEF STAILQ_REMOVE_AFTER, LastIfEnd
<1>6. kd = "TAILQ" => Closed(kd, mem, TAILQ_REMOVE(mem, h, e), h, a, b, {})
  BY ZenonT(60) DEF TAILQ_REMOVE
<1>7. kd = "CIRCLEQ" => Closed(kd, mem, CIRCLEQ_REMOVE(mem, h, e), h, a, b, {})
  BY ZenonT(60) DEF CIRCLEQ_REMOVE
<1> QED
  BY <1>1, <1>2, <1>3, <1>4, <1>5, <1>6, <1>7, Zenon

\* STAILQ_REMOVE_HEAD_UNTIL joins the head and the node after the element.
LEMMA RemovesUntil ==
  ASSUME NEW mem, Memory(mem), NEW h \in Heads, NEW b, NEW e \in Elems, Between("STAILQ", mem, h, e, b)
  PROVE  Closed("STAILQ", mem, STAILQ_REMOVE_HEAD_UNTIL(mem, h, e), h, h, b, {})
  BY NodesApart DEF Between, Closed, SetNext, SetPrev, Memory, Pointers, TwoWay, WithLast, EndOf,
                    STAILQ_REMOVE_HEAD_UNTIL, LastIfEnd

\* The REPLACE macros put e2 between the nodes before and after the element.
LEMMA Replaces ==
  ASSUME NEW kd, NEW mem, Memory(mem), NEW h \in Heads, NEW a, NEW b, NEW e \in Elems, e # a, e # b,
         NEW e2 \in Elems, e2 # a, e2 # b, e2 # e,
         Between(kd, mem, h, a, e), Between(kd, mem, h, e, b)
  PROVE  /\ kd = "LIST" => Joined(kd, mem, LIST_REPLACE(mem, e, e2), h, a, b, e2, {})
         /\ kd = "TAILQ" => Joined(kd, mem, TAILQ_REPLACE(mem, h, e, e2), h, a, b, e2, {})
<1> USE NodesApart DEF Between, Joined, SetNext, SetPrev, Memory, Pointers, TwoWay, WithLast, EndOf
<1>1. kd = "LIST" => Joined(kd, mem, LIST_REPLACE(mem, e, e2), h, a, b, e2, {})
  BY ZenonT(60) DEF LIST_REPLACE
<1>2. kd = "TAILQ" => Joined(kd, mem, TAILQ_REPLACE(mem, h, e, e2), h, a, b, e2, {})
  BY ZenonT(60) DEF TAILQ_REPLACE, Close
<1> QED
  BY <1>1, <1>2, Zenon

\* Freeing elements changes their pointers only.
LEMMA FreesOnly ==
  ASSUME NEW kd, NEW mem, NEW mem2, NEW h \in Heads, NEW a, NEW b, NEW e, NEW gone \in SUBSET Elems
  PROVE  /\ Closed(kd, mem, mem2, h, a, b, {}) => Closed(kd, mem, Freed(mem2, gone), h, a, b, gone)
         /\ Joined(kd, mem, mem2, h, a, b, e, {}) => Joined(kd, mem, Freed(mem2, gone), h, a, b, e, gone)
<1> DEFINE mem3 == Freed(mem2, gone)
<1>1. ASSUME Memory(mem2)
      PROVE  /\ Memory(mem3)
             /\ \A x \in Nodes \ gone : mem3.next[x] = mem2.next[x] /\ mem3.prev[x] = mem2.prev[x]
  BY <1>1 DEF Freed, Memory, Pointers
<1>2. Elems \subseteq Nodes /\ \A x \in Heads : x \in Nodes \ gone
  BY NodesApart
<1> HIDE DEF mem3
<1> QED
  BY <1>1, <1>2, Zenon DEF Closed, Joined, mem3

-----------------------------------------------------------------------------
(* Two lists change: SWAP and CONCAT                                       *)

\* Memory is the same outside two lists; two lists have only elements of two others.
SameBeyond(kd, mem, mem2, s1, s2, h1, h2) ==
  \A x \in Nodes : x # h1 /\ x # h2 /\ ~In(x, s1) /\ ~In(x, s2) =>
    /\ mem2.next[x] = mem.next[x]
    /\ x \in Elems /\ kd \in TwoWay => mem2.prev[x] = mem.prev[x]
    /\ x \in Heads /\ kd \in WithLast => mem2.prev[x] = mem.prev[x]
Moved(s1, s2, t1, t2) ==
  /\ \A x \in Elems : ~(In(x, t1) /\ In(x, t2))
  /\ \A x \in Elems : In(x, t1) \/ In(x, t2) => In(x, s1) \/ In(x, s2)

\* Two lists after elements have moved between them.
LEMMA TwoChanged ==
  ASSUME NEW kd, NEW mem, NEW ls, LinkInv(kd, mem, ls), NEW h1 \in Heads, NEW h2 \in Heads, h1 # h2,
         NEW t1 \in Seq(Elems), NEW t2 \in Seq(Elems), NEW mem2, Memory(mem2),
         Links(kd, mem2, t1, h1), Distinct(t1), Links(kd, mem2, t2, h2), Distinct(t2),
         Moved(ls[h1], ls[h2], t1, t2), SameBeyond(kd, mem, mem2, ls[h1], ls[h2], h1, h2)
  PROVE  LinkInv(kd, mem2, [ls EXCEPT ![h1] = t1, ![h2] = t2])
<1> DEFINE ls2 == [ls EXCEPT ![h1] = t1, ![h2] = t2]
<1>1. ls \in [Heads -> Seq(Elems)] /\ kd \in Kinds
  BY DEF LinkInv, Apart
<1>2. /\ ls2 \in [Heads -> Seq(Elems)] /\ ls2[h1] = t1 /\ ls2[h2] = t2
      /\ \A g \in Heads : g # h1 /\ g # h2 => ls2[g] = ls[g]
  BY <1>1
<1> HIDE DEF ls2
<1>3. ASSUME NEW g \in Heads PROVE Distinct(ls2[g]) /\ Links(kd, mem2, ls2[g], g)
  <2>1. CASE g = h1 \/ g = h2
    BY <1>2, <2>1, Zenon
  <2>2. CASE g # h1 /\ g # h2
    <3>1. Distinct(ls[g]) /\ Links(kd, mem, ls[g], g) /\ ls[g] \in Seq(Elems)
      BY <1>1 DEF LinkInv, Apart
    <3>2. ASSUME NEW x \in Nodes, x = g \/ In(x, ls[g])
          PROVE  x # h1 /\ x # h2 /\ ~In(x, ls[h1]) /\ ~In(x, ls[h2])
      <4>1. CASE x = g
        <5>1. x \notin Elems
          BY <4>1, NodesApart
        <5>2. ASSUME NEW t \in Seq(Elems), In(x, t) PROVE FALSE
          BY <5>1, <5>2 DEF In
        <5>3. ~In(x, ls[h1]) /\ ~In(x, ls[h2])
          BY <1>1, <5>2
        <5> QED
          BY <2>2, <4>1, <5>3
      <4>2. CASE In(x, ls[g])
        <5>1. x \in Elems
          BY <3>1, <4>2 DEF In
        <5>2. x # h1 /\ x # h2
          BY <5>1, NodesApart
        <5>3. ~In(x, ls[h1]) /\ ~In(x, ls[h2])
          BY <2>2, <4>2, <5>1, Zenon DEF LinkInv, Apart
        <5> QED
          BY <5>2, <5>3
      <4> QED
        BY <3>2, <4>1, <4>2
    <3>3. g \in Nodes /\ Elems \subseteq Nodes
      BY NodesApart
    <3>4. Links(kd, mem2, ls[g], g)
      <4>1. \A x \in Nodes : x = g \/ In(x, ls[g]) => mem2.next[x] = mem.next[x]
        BY <3>2 DEF SameBeyond
      <4>2. kd \in TwoWay => \A x \in Elems : In(x, ls[g]) => mem2.prev[x] = mem.prev[x]
        BY <3>2, <3>3 DEF SameBeyond
      <4>3. kd \in WithLast => mem2.prev[g] = mem.prev[g]
        BY <3>2, <3>3 DEF SameBeyond
      <4> QED
        BY <3>1, <4>1, <4>2, <4>3, LinksKept
    <3> QED
      BY <1>2, <2>2, <3>1, <3>4, Zenon
  <2> QED
    BY <2>1, <2>2
<1>4. ASSUME NEW f \in Heads, NEW g \in Heads, NEW x \in Elems, In(x, ls2[f]), In(x, ls2[g]) PROVE f = g
  <2>1. \A a, b \in Heads : In(x, ls[a]) /\ In(x, ls[b]) => a = b
    BY DEF LinkInv, Apart
  <2> QED
    BY <1>2, <1>4, <2>1, Zenon DEF Moved
<1> QED
  BY <1>1, <1>2, <1>3, <1>4, Zenon DEF LinkInv, Apart, ls2

\* List s is handed from head g to head h.
HandedOver(kd, mem, mem2, s, g, h) ==
  /\ mem2.next[h] = mem.next[g]
  /\ \A x \in Elems : In(x, s) => mem2.next[x] = mem.next[x]
  /\ kd \in TwoWay => \A x \in Elems : In(x, s) =>
       mem2.prev[x] = IF x = mem.next[g] THEN h ELSE mem.prev[x]
  /\ kd \in WithLast => mem2.prev[h] = IF mem.next[g] = NULL THEN h ELSE mem.prev[g]

\* Then it is a list of h.
LEMMA ListMoved ==
  ASSUME NEW kd, kd # "CIRCLEQ", NEW mem, NEW mem2, NEW g \in Heads, NEW h \in Heads,
         NEW s \in Seq(Elems), Distinct(s), Links(kd, mem, s, g), HandedOver(kd, mem, mem2, s, g, h)
  PROVE  Links(kd, mem2, s, h)
<1> DEFINE S(i) == Stop(kd, s, g, i)
           Z(i) == Stop(kd, s, h, i)
<1>0. PICK n \in Nat : n = Len(s)
  OBVIOUS
<1>1. /\ \A i \in 1..n : S(i) = s[i] /\ s[i] \in Elems /\ Z(i) = s[i] /\ In(s[i], s)
      /\ S(0) = g /\ S(n + 1) = NULL /\ Z(0) = h /\ Z(n + 1) = NULL
  <2>1. \A i \in 1..Len(s) : S(i) = s[i] /\ s[i] \in Elems /\ Z(i) = s[i] /\ In(s[i], s)
    BY DEF Stop, In
  <2>2. S(0) = g /\ S(Len(s) + 1) = NULL /\ Z(0) = h /\ Z(Len(s) + 1) = NULL
    BY DEF Stop, EndOf
  <2> QED
    BY <1>0, <2>1, <2>2, Zenon
<1>2. /\ \A i \in 0..n : mem.next[S(i)] = S(i + 1)
      /\ kd \in TwoWay => \A i \in 1..n : mem.prev[s[i]] = S(i - 1)
      /\ kd \in WithLast => mem.prev[g] = S(n)
  BY <1>0, Zenon DEF Links
<1>3. \A j, k \in 1..n : s[j] = s[k] => j = k
  BY <1>0, Zenon DEF Distinct
<1>4. NULL \notin Elems
  BY NodesApart
<1>h. /\ mem2.next[h] = mem.next[g]
      /\ \A x \in Elems : In(x, s) => mem2.next[x] = mem.next[x]
      /\ kd \in TwoWay => \A x \in Elems : In(x, s) =>
           mem2.prev[x] = IF x = mem.next[g] THEN h ELSE mem.prev[x]
      /\ kd \in WithLast => mem2.prev[h] = IF mem.next[g] = NULL THEN h ELSE mem.prev[g]
  BY Zenon DEF HandedOver
<1> HIDE DEF S, Z
<1>5. \A i \in 0..n : S(i + 1) = Z(i + 1)
  BY <1>1
<1>6. mem.next[g] = S(1) /\ S(1) = Z(1)
  BY <1>1, <1>2, <1>5
<1>7. ASSUME NEW k \in 0..n PROVE mem2.next[Z(k)] = Z(k + 1)
  <2>1. CASE k = 0
    BY <1>h, <1>1, <1>6, <2>1
  <2>2. CASE k \in 1..n
    BY <1>h, <1>1, <1>2, <1>5, <2>2
  <2> QED
    BY <2>1, <2>2
<1>8. ASSUME kd \in TwoWay, NEW k \in 1..n PROVE mem2.prev[s[k]] = Z(k - 1)
  <2>1. CASE k = 1
    BY <1>h, <1>1, <1>6, <1>8, <2>1
  <2>2. CASE k # 1
    <3>1. k - 1 \in 1..n /\ 1 \in 1..n
      BY <2>2
    <3>2. s[k] # S(1)
      BY <1>1, <1>3, <2>2, <3>1
    <3>3. mem2.prev[s[k]] = mem.prev[s[k]]
      BY <1>h, <1>1, <1>6, <1>8, <3>2, Zenon
    <3> QED
      <4>1. PICK j \in 1..n : j = k - 1
        BY <3>1
      <4>2. mem.prev[s[k]] = S(j)
        BY <1>2, <1>8, <4>1, Zenon
      <4>3. Z(j) = S(j)
        BY <1>1, Zenon
      <4> QED
        BY <3>3, <4>1, <4>2, <4>3, Zenon
  <2> QED
    BY <2>1, <2>2
<1>9. ASSUME kd \in WithLast PROVE mem2.prev[h] = Z(n)
  <2>1. CASE n = 0
    BY <1>h, <1>1, <1>6, <1>9, <2>1
  <2>2. CASE n # 0
    <3>1. n \in 1..n /\ 1 \in 1..n
      BY <2>2
    <3>2. S(1) # NULL /\ S(n) = Z(n)
      BY <1>1, <1>4, <3>1
    <3> QED
      BY <1>h, <1>2, <1>6, <1>9, <3>2
  <2> QED
    BY <2>1, <2>2
<1> QED
  BY <1>0, <1>7, <1>8, <1>9, Zenon DEF Links, Z

\* Setting one pointer, as SetOne has it.
NextIsSet(mem, mem2, node, v) ==
  /\ Memory(mem2) /\ mem2.prev = mem.prev
  /\ \A x \in Nodes : mem2.next[x] = IF x = node THEN v ELSE mem.next[x]
PrevIsSet(mem, mem2, node, v) ==
  /\ Memory(mem2) /\ mem2.next = mem.next
  /\ \A x \in Nodes : mem2.prev[x] = IF x = node THEN v ELSE mem.prev[x]

\* SetNext and SetPrev do that.
LEMMA SetsOne ==
  ASSUME NEW mem, Memory(mem), NEW node \in Nodes, NEW v \in Pointers
  PROVE  NextIsSet(mem, SetNext(mem, node, v), node, v) /\ PrevIsSet(mem, SetPrev(mem, node, v), node, v)
  BY SetOne DEF NextIsSet, PrevIsSet

\* The SWAP macro of a kind, and what it does.
SwapOf(kd, mem, h1, h2) ==
  CASE kd = "SLIST"  -> SLIST_SWAP(mem, h1, h2)
    [] kd = "LIST"   -> LIST_SWAP(mem, h1, h2)
    [] kd = "STAILQ" -> STAILQ_SWAP(mem, h1, h2)
    [] kd = "TAILQ"  -> TAILQ_SWAP(mem, h1, h2)
Swapped(kd, mem, mem2, h1, h2, f1, f2) ==
  /\ Memory(mem2)
  /\ \A x \in Nodes : mem2.next[x] = IF x = h1 THEN f2 ELSE IF x = h2 THEN f1 ELSE mem.next[x]
  /\ kd \in TwoWay => \A x \in Elems :
       mem2.prev[x] = IF x = f1 THEN h2 ELSE IF x = f2 THEN h1 ELSE mem.prev[x]
  /\ kd \in WithLast => \A x \in Heads :
       mem2.prev[x] = IF x = h1 THEN IF f2 = NULL THEN h1 ELSE mem.prev[h2]
                      ELSE IF x = h2 THEN IF f1 = NULL THEN h2 ELSE mem.prev[h1]
                      ELSE mem.prev[x]

\* The SWAP macros hand each list to the other head.
LEMMA Swaps ==
  ASSUME NEW kd \in Kinds, kd # "CIRCLEQ", NEW mem, Memory(mem),
         NEW h1 \in Heads, NEW h2 \in Heads, h1 # h2,
         NEW f1 \in Elems \cup {NULL}, NEW f2 \in Elems \cup {NULL}, f1 = f2 => f1 = NULL,
         f1 = mem.next[h1], f2 = mem.next[h2], NEW mem2, mem2 = SwapOf(kd, mem, h1, h2)
  PROVE  Swapped(kd, mem, mem2, h1, h2, f1, f2)
<1> DEFINE m1 == SLIST_SWAP(mem, h1, h2)
<1>f. f1 = mem.next[h1] /\ f2 = mem.next[h2]
  OBVIOUS
<1>g. f1 \in Elems \cup {NULL} /\ f2 \in Elems \cup {NULL} /\ (f1 = f2 => f1 = NULL)
  BY <1>f
<1>0. /\ Memory(m1) /\ m1.prev = mem.prev /\ m1.next[h1] = f2 /\ m1.next[h2] = f1
      /\ \A x \in Nodes : m1.next[x] = IF x = h1 THEN f2 ELSE IF x = h2 THEN f1 ELSE mem.next[x]
  <2>1. h1 \in Nodes /\ h2 \in Nodes /\ f1 \in Pointers /\ f2 \in Pointers
    BY <1>g, NodesApart DEF Pointers
  <2> QED
    <3>1. PICK m0 : m0 = SetNext(mem, h1, f2)
      OBVIOUS
    <3>2. m1 = SetNext(m0, h2, f1)
      BY <1>f, <3>1 DEF SLIST_SWAP
    <3> HIDE DEF m1
    <3>3. /\ Memory(m0) /\ m0.prev = mem.prev
          /\ \A x \in Nodes : m0.next[x] = IF x = h1 THEN f2 ELSE mem.next[x]
      <4>a. NextIsSet(mem, SetNext(mem, h1, f2), h1, f2)
        BY <2>1, SetsOne, Zenon
      <4>b. NextIsSet(mem, m0, h1, f2)
        BY <3>1, <4>a, Zenon
      <4> QED
        BY <4>b, Zenon DEF NextIsSet
    <3>4. /\ Memory(m1) /\ m1.prev = m0.prev
          /\ \A x \in Nodes : m1.next[x] = IF x = h2 THEN f1 ELSE m0.next[x]
      <4>a. NextIsSet(m0, SetNext(m0, h2, f1), h2, f1)
        BY <2>1, <3>3, SetsOne, Zenon
      <4>b. NextIsSet(m0, m1, h2, f1)
        BY <3>2, <4>a, Zenon
      <4> QED
        BY <4>b, Zenon DEF NextIsSet
    <3> QED
      BY <2>1, <3>3, <3>4
<1>a. /\ h1 \in Nodes /\ h2 \in Nodes /\ Elems \subseteq Nodes /\ h1 \notin Elems /\ h2 \notin Elems
      /\ Heads \subseteq Nodes /\ \A h \in Heads : h \notin Elems
      /\ NULL \notin Nodes /\ Nodes \subseteq Pointers
  BY NodesApart DEF Pointers
<1>b. mem.prev \in [Nodes -> Pointers]
  BY DEF Memory
<1> HIDE DEF m1
<1>1. CASE kd = "SLIST"
  <2>1. mem2 = m1
    BY <1>1 DEF SwapOf, m1
  <2> QED
    BY <1>0, <1>f, <1>1, <2>1 DEF Swapped, TwoWay, WithLast
<1>2. CASE kd = "LIST"
  <2>1. PICK m2 : m2 = IF m1.next[h1] # NULL THEN SetPrev(m1, m1.next[h1], h1) ELSE m1
    OBVIOUS
  <2>2. mem2 = IF m2.next[h2] # NULL THEN SetPrev(m2, m2.next[h2], h2) ELSE m2
    BY <1>2, <2>1 DEF SwapOf, LIST_SWAP, m1
  <2>3. /\ Memory(m2) /\ m2.next = m1.next
        /\ \A x \in Elems : m2.prev[x] = IF x = f2 THEN h1 ELSE mem.prev[x]
    BY <1>0, <1>a, <1>g, <2>1 DEF SetPrev, Memory
  <2>4. /\ Memory(mem2) /\ mem2.next = m1.next
        /\ \A x \in Elems : mem2.prev[x] = IF x = f1 THEN h2 ELSE m2.prev[x]
    <3>1. m2.next[h2] = f1
      BY <1>0, <2>3
    <3>2. CASE f1 = NULL
      BY <1>a, <2>2, <2>3, <3>1, <3>2
    <3>3. CASE f1 # NULL
      <4>1. mem2 = SetPrev(m2, f1, h2)
        BY <2>2, <3>1, <3>3
      <4>2. /\ Memory(mem2) /\ mem2.next = m2.next
            /\ \A x \in Nodes : mem2.prev[x] = IF x = f1 THEN h2 ELSE m2.prev[x]
        <5>1. f1 \in Nodes /\ h2 \in Pointers
          BY <1>a, <1>g, <3>3
        <5>a. PrevIsSet(m2, SetPrev(m2, f1, h2), f1, h2)
          BY <2>3, <5>1, SetsOne, Zenon
        <5>b. PrevIsSet(m2, mem2, f1, h2)
          BY <4>1, <5>a, Zenon
        <5> QED
          BY <5>b, Zenon DEF PrevIsSet
      <4> QED
        BY <1>a, <2>3, <4>2
    <3> QED
      BY <3>2, <3>3
  <2> QED
    BY <1>0, <1>f, <1>2, <2>3, <2>4 DEF Swapped, TwoWay, WithLast
<1>3. CASE kd = "STAILQ" \/ kd = "TAILQ"
  <2>1. PICK m2 : m2 = SetPrev(m1, h1, mem.prev[h2])
    OBVIOUS
  <2>2. PICK m3 : m3 = SetPrev(m2, h2, mem.prev[h1])
    OBVIOUS
  <2>3. /\ Memory(m2) /\ m2.next = m1.next
        /\ \A x \in Nodes : m2.prev[x] = IF x = h1 THEN mem.prev[h2] ELSE mem.prev[x]
    BY <1>0, <1>a, <1>b, <2>1 DEF SetPrev, Memory
  <2>4. /\ Memory(m3) /\ m3.next = m1.next
        /\ \A x \in Nodes : m3.prev[x] = IF x = h2 THEN mem.prev[h1] ELSE m2.prev[x]
    BY <1>0, <1>a, <1>b, <2>2, <2>3 DEF SetPrev, Memory
  <2>5. CASE kd = "STAILQ"
    <3>1. PICK m4 : m4 = LastIfEnd(m3, h1, h1)
      OBVIOUS
    <3>2. mem2 = LastIfEnd(m4, h2, h2)
      BY <2>1, <2>2, <2>5, <3>1 DEF SwapOf, STAILQ_SWAP, m1
    <3>3. /\ Memory(m4) /\ m4.next = m1.next
          /\ \A x \in Nodes : m4.prev[x] = IF x = h1 /\ f2 = NULL THEN h1 ELSE m3.prev[x]
      BY <1>0, <1>a, <1>g, <2>4, <3>1 DEF SetPrev, Memory, LastIfEnd
    <3>4. /\ Memory(mem2) /\ mem2.next = m1.next
          /\ \A x \in Nodes : mem2.prev[x] = IF x = h2 /\ f1 = NULL THEN h2 ELSE m4.prev[x]
      <4>1. m4.next[h2] = f1
        BY <1>0, <3>3
      <4>2. CASE f1 # NULL
        BY <3>2, <3>3, <4>1, <4>2 DEF LastIfEnd
      <4>3. CASE f1 = NULL
        <5>1. mem2 = SetPrev(m4, h2, h2) /\ h2 # NULL
          BY <1>a, <3>2, <4>1, <4>3 DEF LastIfEnd
        <5>2. /\ Memory(mem2) /\ mem2.next = m4.next
              /\ \A x \in Nodes : mem2.prev[x] = IF x = h2 THEN h2 ELSE m4.prev[x]
          <6>1. h2 \in Nodes /\ h2 \in Pointers
            BY <1>a
          <6>a. PrevIsSet(m4, SetPrev(m4, h2, h2), h2, h2)
            BY <3>3, <6>1, SetsOne, Zenon
          <6>b. PrevIsSet(m4, mem2, h2, h2)
            BY <5>1, <6>a, Zenon
          <6> QED
            BY <6>b, Zenon DEF PrevIsSet
        <5> QED
          BY <3>3, <4>3, <5>2
      <4> QED
        BY <4>2, <4>3
    <3>5. \A x \in Heads : mem2.prev[x] = IF x = h1 THEN IF f2 = NULL THEN h1 ELSE mem.prev[h2]
                             ELSE IF x = h2 THEN IF f1 = NULL THEN h2 ELSE mem.prev[h1]
                             ELSE mem.prev[x]
      BY <1>a, <1>g, <2>3, <2>4, <3>3, <3>4
    <3> QED
      BY <1>0, <1>f, <2>5, <3>4, <3>5 DEF Swapped, TwoWay, WithLast
  <2>6. CASE kd = "TAILQ"
    <3>1. PICK m4 : m4 = Close(m3, h1, h1)
      OBVIOUS
    <3>2. mem2 = Close(m4, h2, h2)
      BY <2>1, <2>2, <2>6, <3>1 DEF SwapOf, TAILQ_SWAP, m1
    <3>3. /\ Memory(m4) /\ m4.next = m1.next
          /\ \A x \in Nodes : m4.prev[x] = IF x = (IF f2 = NULL THEN h1 ELSE f2) THEN h1 ELSE m3.prev[x]
      BY <1>0, <1>a, <1>g, <2>4, <3>1 DEF SetPrev, Memory, Close
    <3>4. /\ Memory(mem2) /\ mem2.next = m1.next
          /\ \A x \in Nodes : mem2.prev[x] = IF x = (IF f1 = NULL THEN h2 ELSE f1) THEN h2 ELSE m4.prev[x]
      <4>1. m4.next[h2] = f1
        BY <1>0, <3>3
      <4>2. PICK node : node = IF f1 = NULL THEN h2 ELSE f1
        OBVIOUS
      <4>3. mem2 = SetPrev(m4, node, h2) /\ node # NULL /\ node \in {h2, f1}
        BY <1>a, <3>2, <4>1, <4>2 DEF Close
      <4>4. /\ Memory(mem2) /\ mem2.next = m4.next
            /\ \A x \in Nodes : mem2.prev[x] = IF x = node THEN h2 ELSE m4.prev[x]
        <5>1. node \in Nodes /\ h2 \in Pointers
          BY <1>a, <1>g, <4>3
        <5> QED
          BY <3>3, <4>3, <5>1, SetsOne DEF PrevIsSet
      <4> QED
        BY <3>3, <4>2, <4>4
    <3>5. \A x \in Heads : mem2.prev[x] = IF x = h1 THEN IF f2 = NULL THEN h1 ELSE mem.prev[h2]
                             ELSE IF x = h2 THEN IF f1 = NULL THEN h2 ELSE mem.prev[h1]
                             ELSE mem.prev[x]
      BY <1>a, <1>g, <2>3, <2>4, <3>3, <3>4
    <3>6. \A x \in Elems : mem2.prev[x] = IF x = f1 THEN h2 ELSE IF x = f2 THEN h1 ELSE mem.prev[x]
      <4> TAKE x \in Elems
      <4>1. x \in Nodes /\ x # h1 /\ x # h2 /\ x # NULL
        BY <1>a
      <4>2. m3.prev[x] = mem.prev[x]
        BY <2>3, <2>4, <4>1
      <4>3. m4.prev[x] = IF x = f2 THEN h1 ELSE mem.prev[x]
        BY <3>3, <4>1, <4>2
      <4> QED
        BY <3>4, <4>1, <4>3
    <3> QED
      BY <1>0, <1>f, <2>6, <3>4, <3>5, <3>6 DEF Swapped, TwoWay, WithLast
  <2> QED
    BY <1>3, <2>5, <2>6
<1> QED
  BY <1>1, <1>2, <1>3, Zenon DEF Kinds

\* What is known of a list and its first and last pointers.
LEMMA ListEnds ==
  ASSUME NEW kd, kd # "CIRCLEQ", NEW mem, NEW h \in Heads, NEW s \in Seq(Elems), Links(kd, mem, s, h)
  PROVE  /\ mem.next[h] = IF s = << >> THEN NULL ELSE s[1]
         /\ s # << >> => mem.next[h] \in Elems /\ In(mem.next[h], s)
         /\ kd \in WithLast => mem.prev[h] = Stop(kd, s, h, Len(s))
<1>1. Len(s) \in Nat /\ \A k \in 1..Len(s) : s[k] \in Elems
  OBVIOUS
<1>2. mem.next[Stop(kd, s, h, 0)] = Stop(kd, s, h, 1)
  BY <1>1 DEF Links
<1>3. mem.next[h] = Stop(kd, s, h, 1)
  BY <1>2 DEF Stop
<1>4. CASE s = << >>
  BY <1>3, <1>4 DEF Stop, EndOf, Links
<1>5. CASE s # << >>
  <2>1. 1 \in 1..Len(s)
    BY <1>5
  <2>2. mem.next[h] = s[1]
    BY <1>1, <1>3, <2>1 DEF Stop
  <2> QED
    BY <1>1, <1>5, <2>1, <2>2 DEF In, Links
<1> QED
  BY <1>4, <1>5

\* What LinkInv says of two lists.
LEMMA TwoLists ==
  ASSUME NEW kd, NEW mem, NEW ls, LinkInv(kd, mem, ls), NEW h1 \in Heads, NEW h2 \in Heads, h1 # h2
  PROVE  /\ kd \in Kinds /\ Memory(mem) /\ ls[h1] \in Seq(Elems) /\ ls[h2] \in Seq(Elems)
         /\ Distinct(ls[h1]) /\ Distinct(ls[h2])
         /\ Links(kd, mem, ls[h1], h1) /\ Links(kd, mem, ls[h2], h2)
         /\ \A x \in Elems : ~(In(x, ls[h1]) /\ In(x, ls[h2]))
  BY DEF LinkInv, Apart

\* The SWAP macros swap two lists.
LEMMA SwapKeeps ==
  ASSUME NEW kd, kd # "CIRCLEQ", NEW mem, NEW ls, LinkInv(kd, mem, ls),
         NEW h1 \in Heads, NEW h2 \in Heads, h1 # h2, NEW mem2,
         mem2 = SwapOf(kd, mem, h1, h2)
  PROVE  LinkInv(kd, mem2, [ls EXCEPT ![h1] = ls[h2], ![h2] = ls[h1]])
<1>0. PICK s1, s2, f1, f2 : s1 = ls[h1] /\ s2 = ls[h2] /\ f1 = mem.next[h1] /\ f2 = mem.next[h2]
  OBVIOUS
<1>1. /\ kd \in Kinds /\ Memory(mem) /\ s1 \in Seq(Elems) /\ s2 \in Seq(Elems)
      /\ Distinct(s1) /\ Distinct(s2) /\ Links(kd, mem, s1, h1) /\ Links(kd, mem, s2, h2)
      /\ \A x \in Elems : ~(In(x, s1) /\ In(x, s2))
  BY <1>0, TwoLists, Zenon
<1>2. /\ f1 = IF s1 = << >> THEN NULL ELSE s1[1]
      /\ s1 # << >> => f1 \in Elems /\ In(f1, s1)
      /\ f2 = IF s2 = << >> THEN NULL ELSE s2[1]
      /\ s2 # << >> => f2 \in Elems /\ In(f2, s2)
  <2>1. /\ mem.next[h1] = IF s1 = << >> THEN NULL ELSE s1[1]
        /\ s1 # << >> => mem.next[h1] \in Elems /\ In(mem.next[h1], s1)
    BY <1>1, ListEnds, ZenonT(60)
  <2>2. /\ mem.next[h2] = IF s2 = << >> THEN NULL ELSE s2[1]
        /\ s2 # << >> => mem.next[h2] \in Elems /\ In(mem.next[h2], s2)
    BY <1>1, ListEnds
  <2> QED
    BY <1>0, <2>1, <2>2, Zenon
<1>3. f1 \in Elems \cup {NULL} /\ f2 \in Elems \cup {NULL} /\ (f1 = f2 => f1 = NULL)
  BY <1>1, <1>2
<1>s. Swapped(kd, mem, mem2, h1, h2, f1, f2)
  BY <1>0, <1>1, <1>3, Swaps, Zenon
<1>4. /\ Memory(mem2)
      /\ \A x \in Nodes : mem2.next[x] = IF x = h1 THEN f2 ELSE IF x = h2 THEN f1 ELSE mem.next[x]
      /\ kd \in TwoWay => \A x \in Elems :
           mem2.prev[x] = IF x = f1 THEN h2 ELSE IF x = f2 THEN h1 ELSE mem.prev[x]
      /\ kd \in WithLast => \A x \in Heads :
           mem2.prev[x] = IF x = h1 THEN IF f2 = NULL THEN h1 ELSE mem.prev[h2]
                          ELSE IF x = h2 THEN IF f1 = NULL THEN h2 ELSE mem.prev[h1]
                          ELSE mem.prev[x]
  BY <1>s, Zenon DEF Swapped
<1>5. h1 \in Nodes /\ h2 \in Nodes /\ Elems \subseteq Nodes /\ h1 \notin Elems /\ h2 \notin Elems /\ NULL \notin Elems
  BY NodesApart
<1>6. ASSUME NEW x \in Elems, In(x, s1) PROVE x # f2
  <2>1. CASE s2 = << >>
    BY <1>2, <1>5, <2>1, Zenon
  <2>2. CASE s2 # << >>
    BY <1>1, <1>2, <1>6, <2>2, Zenon
  <2> QED
    BY <2>1, <2>2
<1>7. ASSUME NEW x \in Elems, In(x, s2) PROVE x # f1
  <2>1. CASE s1 = << >>
    BY <1>2, <1>5, <2>1, Zenon
  <2>2. CASE s1 # << >>
    BY <1>1, <1>2, <1>7, <2>2, Zenon
  <2> QED
    BY <2>1, <2>2
<1>8. Links(kd, mem2, s1, h2)
  <2>1. mem2.next[h2] = mem.next[h1]
    BY <1>0, <1>4, <1>5
  <2>2. \A x \in Elems : In(x, s1) => mem2.next[x] = mem.next[x]
    BY <1>4, <1>5
  <2>3. kd \in TwoWay => \A x \in Elems : In(x, s1) =>
          mem2.prev[x] = IF x = mem.next[h1] THEN h2 ELSE mem.prev[x]
    BY <1>0, <1>4, <1>6
  <2>4. kd \in WithLast => mem2.prev[h2] = IF mem.next[h1] = NULL THEN h2 ELSE mem.prev[h1]
    BY <1>0, <1>4
  <2>5. HandedOver(kd, mem, mem2, s1, h1, h2)
    BY <2>1, <2>2, <2>3, <2>4, Zenon DEF HandedOver
  <2> QED
    BY <1>1, <2>5, ListMoved, Zenon
<1>9. Links(kd, mem2, s2, h1)
  <2>1. mem2.next[h1] = mem.next[h2]
    BY <1>0, <1>4, <1>5
  <2>2. \A x \in Elems : In(x, s2) => mem2.next[x] = mem.next[x]
    BY <1>4, <1>5
  <2>3. kd \in TwoWay => \A x \in Elems : In(x, s2) =>
          mem2.prev[x] = IF x = mem.next[h2] THEN h1 ELSE mem.prev[x]
    BY <1>0, <1>4, <1>7
  <2>4. kd \in WithLast => mem2.prev[h1] = IF mem.next[h2] = NULL THEN h1 ELSE mem.prev[h2]
    BY <1>0, <1>4
  <2>5. HandedOver(kd, mem, mem2, s2, h2, h1)
    BY <2>1, <2>2, <2>3, <2>4, Zenon DEF HandedOver
  <2> QED
    BY <1>1, <2>5, ListMoved, Zenon
<1>10. ASSUME NEW x \in Nodes, x # h1, x # h2, ~In(x, s1), ~In(x, s2)
       PROVE  /\ mem2.next[x] = mem.next[x]
              /\ x \in Elems /\ kd \in TwoWay => mem2.prev[x] = mem.prev[x]
              /\ x \in Heads /\ kd \in WithLast => mem2.prev[x] = mem.prev[x]
  <2>1. x \in Elems => x # f1 /\ x # f2
    BY <1>2, <1>5, <1>10, Zenon
  <2> QED
    BY <1>4, <1>10, <2>1
<1>11. LinkInv(kd, mem2, [ls EXCEPT ![h1] = s2, ![h2] = s1])
  <2>1. Moved(ls[h1], ls[h2], s2, s1)
    BY <1>0, <1>1, Zenon DEF Moved
  <2>2. SameBeyond(kd, mem, mem2, ls[h1], ls[h2], h1, h2)
    BY <1>0, <1>10, Zenon DEF SameBeyond
  <2> QED
    BY <1>1, <1>4, <1>8, <1>9, <2>1, <2>2, TwoChanged, Zenon
<1> QED
  BY <1>0, <1>11, Zenon

\* The CONCAT macro of a kind, and what it does: a is the last node of the first
\* list, and c and z are the first and last elements of the second.
ConcatOf(kd, mem, h1, h2) == IF kd = "STAILQ" THEN STAILQ_CONCAT(mem, h1, h2) ELSE TAILQ_CONCAT(mem, h1, h2)
Concatenated(kd, mem, mem2, h1, h2, a, c, z) ==
  /\ Memory(mem2)
  /\ \A x \in Nodes : mem2.next[x] = IF x = h2 THEN NULL ELSE IF x = a THEN c ELSE mem.next[x]
  /\ kd \in TwoWay => \A x \in Elems : mem2.prev[x] = IF x = c THEN a ELSE mem.prev[x]
  /\ kd \in WithLast => \A x \in Heads :
       mem2.prev[x] = IF x = h1 THEN z ELSE IF x = h2 THEN h2 ELSE mem.prev[x]

\* The CONCAT macros link the second list behind the first.
LEMMA Concats ==
  ASSUME NEW kd \in {"STAILQ", "TAILQ"}, NEW mem, Memory(mem), NEW h1 \in Heads, NEW h2 \in Heads, h1 # h2,
         NEW a \in Elems \cup {h1}, NEW c \in Elems, NEW z \in Elems,
         a = mem.prev[h1], c = mem.next[h2], z = mem.prev[h2],
         NEW mem2, mem2 = ConcatOf(kd, mem, h1, h2)
  PROVE  Concatenated(kd, mem, mem2, h1, h2, a, c, z)
<1>a. /\ h1 \in Nodes /\ h2 \in Nodes /\ a \in Nodes /\ c \in Nodes /\ z \in Nodes /\ Elems \subseteq Nodes
      /\ Heads \subseteq Nodes /\ c # h1 /\ c # h2 /\ a # h2 /\ c # NULL /\ NULL \in Pointers
      /\ Nodes \subseteq Pointers /\ \A x \in Elems : x # h1 /\ x # h2
      /\ \A x \in Heads : x # c
  BY NodesApart DEF Pointers
<1>0. PICK m1 : m1 = SetNext(mem, a, c)
  OBVIOUS
<1>1. NextIsSet(mem, m1, a, c)
  BY <1>0, <1>a, SetsOne
<1>2. ASSUME NEW m3, Memory(m3), NEW mem3, mem3 = SetPrev(SetNext(m3, h2, NULL), h2, h2)
      PROVE  /\ Memory(mem3) /\ \A x \in Nodes : mem3.next[x] = IF x = h2 THEN NULL ELSE m3.next[x]
             /\ \A x \in Nodes : mem3.prev[x] = IF x = h2 THEN h2 ELSE m3.prev[x]
  BY <1>2, <1>a DEF Memory, SetNext, SetPrev
<1>3. CASE kd = "STAILQ"
  <2>1. PICK m3 : m3 = SetPrev(m1, h1, z)
    OBVIOUS
  <2>2. mem2 = SetPrev(SetNext(m3, h2, NULL), h2, h2)
    BY <1>0, <1>3, <1>a, <2>1 DEF ConcatOf, STAILQ_CONCAT, STAILQ_INIT
  <2>3. PrevIsSet(m1, m3, h1, z)
    BY <1>1, <1>a, <2>1, SetsOne DEF NextIsSet
  <2>4. /\ Memory(mem2) /\ \A x \in Nodes : mem2.next[x] = IF x = h2 THEN NULL ELSE m3.next[x]
        /\ \A x \in Nodes : mem2.prev[x] = IF x = h2 THEN h2 ELSE m3.prev[x]
    BY <1>2, <2>2, <2>3 DEF PrevIsSet
  <2> QED
    BY <1>1, <1>3, <1>a, <2>3, <2>4 DEF NextIsSet, PrevIsSet, Concatenated, TwoWay, WithLast
<1>4. CASE kd = "TAILQ"
  <2>1. PICK m2 : m2 = SetPrev(m1, c, a)
    OBVIOUS
  <2>2. PICK m3 : m3 = SetPrev(m2, h1, m2.prev[h2])
    OBVIOUS
  <2>3. mem2 = SetPrev(SetNext(m3, h2, NULL), h2, h2)
    BY <1>0, <1>4, <1>a, <2>1, <2>2 DEF ConcatOf, TAILQ_CONCAT, TAILQ_INIT
  <2>4. PrevIsSet(m1, m2, c, a)
    BY <1>1, <1>a, <2>1, SetsOne DEF NextIsSet
  <2>5. m2.prev[h2] = z
    BY <1>1, <1>a, <2>4 DEF PrevIsSet, NextIsSet
  <2>6. PrevIsSet(m2, m3, h1, z)
    <3>1. m3 = SetPrev(m2, h1, z)
      BY <2>2, <2>5, Zenon
    <3>2. Memory(m2)
      BY <2>4 DEF PrevIsSet
    <3>3. z \in Pointers
      BY <1>a
    <3>4. PrevIsSet(m2, SetPrev(m2, h1, z), h1, z)
      BY <1>a, <3>2, <3>3, SetsOne, Zenon
    <3> QED
      BY <3>1, <3>4, Zenon
  <2>7. /\ Memory(mem2) /\ \A x \in Nodes : mem2.next[x] = IF x = h2 THEN NULL ELSE m3.next[x]
        /\ \A x \in Nodes : mem2.prev[x] = IF x = h2 THEN h2 ELSE m3.prev[x]
    BY <1>2, <2>3, <2>6 DEF PrevIsSet
  <2> QED
    BY <1>1, <1>4, <1>a, <2>4, <2>6, <2>7 DEF NextIsSet, PrevIsSet, Concatenated, TwoWay, WithLast
<1> QED
  BY <1>3, <1>4

\* The list s of head h1 was s1 and s2 of heads h1 and h2.
Behind(kd, mem, mem2, h1, h2, s1, s2, s) ==
  /\ s2 # << >> /\ s = s1 \o s2 /\ \A x \in Elems : ~(In(x, s1) /\ In(x, s2))
  /\ Concatenated(kd, mem, mem2, h1, h2, mem.prev[h1], mem.next[h2], mem.prev[h2])
OneList(kd, mem2, h1, h2, s1, s2, s) ==
  /\ Links(kd, mem2, s, h1) /\ Links(kd, mem2, << >>, h2) /\ Distinct(s)
  /\ \A x \in Elems : In(x, s) <=> In(x, s1) \/ In(x, s2)

\* A list behind another is one list, and the second head has none.
LEMMA ConcatLinks ==
  ASSUME NEW kd, kd \in WithLast, kd # "CIRCLEQ", NEW mem, NEW mem2, NEW h1 \in Heads, NEW h2 \in Heads, h1 # h2,
         NEW s1 \in Seq(Elems), NEW s2 \in Seq(Elems), Distinct(s1), Distinct(s2),
         Links(kd, mem, s1, h1), Links(kd, mem, s2, h2),
         NEW s \in Seq(Elems), Behind(kd, mem, mem2, h1, h2, s1, s2, s)
  PROVE  OneList(kd, mem2, h1, h2, s1, s2, s)
<1> DEFINE A(i) == Stop(kd, s1, h1, i)
           B(i) == Stop(kd, s2, h2, i)
           Z(i) == Stop(kd, s, h1, i)
<1>b. /\ s2 # << >> /\ s = s1 \o s2 /\ \A x \in Elems : ~(In(x, s1) /\ In(x, s2))
      /\ Concatenated(kd, mem, mem2, h1, h2, mem.prev[h1], mem.next[h2], mem.prev[h2])
  BY DEF Behind
<1>0. PICK n1 \in Nat, n2 \in Nat : n1 = Len(s1) /\ n2 = Len(s2)
  OBVIOUS
<1>n. PICK n \in Nat : n = Len(s)
  OBVIOUS
<1>1. /\ n2 # 0 /\ n = n1 + n2
      /\ \A k \in 1..n1 : s[k] = s1[k] /\ k \in 1..n
      /\ \A k \in 1..n2 : s[n1 + k] = s2[k] /\ n1 + k \in 1..n
      /\ \A k \in 1..n1 : s1[k] \in Elems
      /\ \A k \in 1..n2 : s2[k] \in Elems
      /\ \A k \in 1..n : k \in 1..n1 \/ \E j \in 1..n2 : k = n1 + j
  <2>1. Len(s2) # 0 /\ Len(s) = Len(s1) + Len(s2)
    BY <1>b
  <2>2. \A k \in 1..Len(s1) : s[k] = s1[k] /\ s1[k] \in Elems
    BY <1>b
  <2>3. \A k \in 1..Len(s2) : s[Len(s1) + k] = s2[k] /\ s2[k] \in Elems
    BY <1>b
  <2>4. n2 # 0 /\ n = n1 + n2
    BY <1>0, <1>n, <2>1
  <2>5. /\ \A k \in 1..n1 : s[k] = s1[k] /\ s1[k] \in Elems
        /\ \A k \in 1..n2 : s[n1 + k] = s2[k] /\ s2[k] \in Elems
    BY <1>0, <2>2, <2>3, Zenon
  <2>6. /\ \A k \in 1..n1 : k \in 1..n
        /\ \A k \in 1..n2 : n1 + k \in 1..n
    BY <2>4
  <2>7. ASSUME NEW k \in 1..n, ~(k \in 1..n1) PROVE \E j \in 1..n2 : k = n1 + j
    <3>1. k - n1 \in 1..n2 /\ k = n1 + (k - n1)
      BY <2>4, <2>7
    <3> QED
      BY <3>1
  <2> QED
    BY <2>4, <2>5, <2>6, <2>7, Zenon
<1>2. /\ \A i \in 1..n1 : A(i) = s1[i]
      /\ A(0) = h1 /\ A(n1 + 1) = NULL
  <2>1. \A i \in 1..Len(s1) : A(i) = s1[i]
    BY DEF Stop
  <2>2. A(0) = h1 /\ A(Len(s1) + 1) = NULL
    BY DEF Stop, EndOf
  <2> QED
    BY <1>0, <2>1, <2>2, Zenon
<1>3. /\ \A i \in 1..n2 : B(i) = s2[i]
      /\ B(0) = h2 /\ B(n2 + 1) = NULL
  <2>1. \A i \in 1..Len(s2) : B(i) = s2[i]
    BY DEF Stop
  <2>2. B(0) = h2 /\ B(Len(s2) + 1) = NULL
    BY DEF Stop, EndOf
  <2> QED
    BY <1>0, <2>1, <2>2, Zenon
<1>4. /\ \A i \in 1..n : Z(i) = s[i]
      /\ Z(0) = h1 /\ Z(n + 1) = NULL
  <2>1. \A i \in 1..Len(s) : Z(i) = s[i]
    BY DEF Stop
  <2>2. Z(0) = h1 /\ Z(Len(s) + 1) = NULL
    BY DEF Stop, EndOf
  <2> QED
    BY <1>n, <2>1, <2>2, Zenon
<1>5. /\ \A i \in 0..n1 : mem.next[A(i)] = A(i + 1)
      /\ kd \in TwoWay => \A i \in 1..n1 : mem.prev[s1[i]] = A(i - 1)
      /\ mem.prev[h1] = A(n1)
  BY <1>0, Zenon DEF Links
<1>6. /\ \A i \in 0..n2 : mem.next[B(i)] = B(i + 1)
      /\ kd \in TwoWay => \A i \in 1..n2 : mem.prev[s2[i]] = B(i - 1)
      /\ mem.prev[h2] = B(n2)
  BY <1>0, Zenon DEF Links
<1> HIDE DEF A, B, Z
<1>7. /\ \A i \in 0..n1 : Z(i) = A(i)
      /\ \A i \in 1..(n2 + 1) : Z(n1 + i) = B(i)
  <2>0. \A i \in 0..n1 : i = 0 \/ i \in 1..n1
    OBVIOUS
  <2>1. \A i \in 0..n1 : Z(i) = A(i)
    BY <1>1, <1>2, <1>4, <2>0, Zenon
  <2>2. \A i \in 1..n2 : Z(n1 + i) = B(i)
    BY <1>1, <1>3, <1>4
  <2>3. Z(n1 + (n2 + 1)) = B(n2 + 1)
    BY <1>1, <1>3, <1>4
  <2>4. \A i \in 1..(n2 + 1) : i \in 1..n2 \/ i = n2 + 1
    OBVIOUS
  <2> QED
    BY <2>1, <2>2, <2>3, <2>4, Zenon
<1>8. mem.next[h2] = B(1) /\ B(1) = s2[1] /\ 1 \in 1..n2 /\ B(1) \in Elems
  BY <1>1, <1>3, <1>6
<1>9. /\ \A j, k \in 1..n1 : s1[j] = s1[k] => j = k
      /\ \A j, k \in 1..n2 : s2[j] = s2[k] => j = k
  BY <1>0, Zenon DEF Distinct
<1>10. \A j \in 1..n1 : \A k \in 1..n2 : s1[j] # s2[k]
  <2>1. \A j \in 1..n1 : In(s1[j], s1)
    BY <1>0, Zenon DEF In
  <2>2. \A k \in 1..n2 : In(s2[k], s2)
    BY <1>0, Zenon DEF In
  <2> QED
    BY <1>b, <1>1, <2>1, <2>2, Zenon
<1>11. h1 \in Nodes /\ h2 \in Nodes /\ h1 \notin Elems /\ h2 \notin Elems /\ Elems \subseteq Nodes
  BY NodesApart
<1>12. /\ \A x \in Nodes : mem2.next[x] = IF x = h2 THEN NULL ELSE IF x = A(n1) THEN B(1) ELSE mem.next[x]
       /\ kd \in TwoWay => \A x \in Elems : mem2.prev[x] = IF x = B(1) THEN A(n1) ELSE mem.prev[x]
       /\ mem2.prev[h1] = B(n2) /\ mem2.prev[h2] = h2
  BY <1>b, <1>5, <1>6, <1>8 DEF Concatenated
<1>13. /\ \A i \in 0..n1 : A(i) \in Nodes /\ A(i) # h2
       /\ \A i \in 1..n2 : B(i) \in Nodes /\ B(i) # h2 /\ B(i) \in Elems
  <2>1. \A i \in 0..n1 : i = 0 \/ i \in 1..n1
    OBVIOUS
  <2>2. \A i \in 1..n1 : A(i) \in Elems
    BY <1>1, <1>2, Zenon
  <2>3. \A i \in 1..n2 : B(i) \in Elems
    BY <1>1, <1>3, Zenon
  <2>4. \A x \in Elems : x \in Nodes /\ x # h2
    BY <1>11
  <2> QED
    BY <1>2, <1>11, <2>1, <2>2, <2>3, <2>4, Zenon
<1>14. \A i \in 0..n1 : A(i) = A(n1) => i = n1
  BY <1>1, <1>2, <1>9, <1>11, SMTT(60)
<1>15. \A i \in 1..n2 : B(i) # A(n1)
  <2>1. CASE n1 = 0
    BY <1>2, <1>11, <1>13, <2>1
  <2>2. CASE n1 # 0
    <3>1. n1 \in 1..n1
      BY <2>2
    <3> QED
      BY <1>2, <1>3, <1>10, <3>1, Zenon
  <2> QED
    BY <2>1, <2>2
<1>16. ASSUME NEW k \in 0..n PROVE mem2.next[Z(k)] = Z(k + 1)
  <2>1. CASE k < n1
    <3>1. k \in 0..n1 /\ k + 1 \in 0..n1 /\ k # n1
      BY <2>1
    <3>2. Z(k) = A(k) /\ Z(k + 1) = A(k + 1)
      BY <1>7, <3>1, Zenon
    <3>3. mem2.next[A(k)] = mem.next[A(k)]
      BY <1>12, <1>13, <1>14, <3>1, Zenon
    <3> QED
      BY <1>5, <3>1, <3>2, <3>3, Zenon
  <2>2. CASE k = n1
    <3>1. k \in 0..n1 /\ n1 + 1 = k + 1 /\ 1 \in 1..(n2 + 1)
      BY <2>2
    <3>2. Z(k) = A(n1) /\ Z(k + 1) = B(1)
      BY <1>7, <2>2, <3>1
    <3> QED
      BY <1>12, <1>13, <2>2, <3>1, <3>2, Zenon
  <2>3. CASE k > n1
    <3>1. PICK i : i = k - n1
      OBVIOUS
    <3>2. i \in 1..n2 /\ i \in 0..n2 /\ i \in 1..(n2 + 1) /\ i + 1 \in 1..(n2 + 1) /\ n1 + i = k /\ n1 + (i + 1) = k + 1
      BY <1>1, <2>3, <3>1
    <3>3. Z(k) = B(i) /\ Z(k + 1) = B(i + 1)
      BY <1>7, <3>2
    <3>4. mem2.next[B(i)] = mem.next[B(i)]
      BY <1>12, <1>13, <1>15, <3>2, Zenon
    <3> QED
      BY <1>6, <3>2, <3>3, <3>4, Zenon
  <2> QED
    BY <2>1, <2>2, <2>3
<1>17. ASSUME kd \in TwoWay, NEW k \in 1..n PROVE mem2.prev[s[k]] = Z(k - 1)
  <2>1. CASE k <= n1
    <3>1. k \in 1..n1 /\ k \in 0..n1 /\ k - 1 \in 0..n1
      BY <2>1
    <3>2. s[k] = s1[k] /\ Z(k - 1) = A(k - 1) /\ s1[k] \in Elems
      BY <1>1, <1>7, <3>1, Zenon
    <3>3. s1[k] # B(1)
      BY <1>8, <1>10, <3>1, Zenon
    <3>4. mem2.prev[s1[k]] = mem.prev[s1[k]]
      BY <1>12, <1>17, <3>2, <3>3, Zenon
    <3>5. mem.prev[s1[k]] = A(k - 1)
      BY <1>5, <1>17, <3>1, Zenon
    <3> QED
      BY <3>2, <3>4, <3>5, Zenon
  <2>2. CASE k = n1 + 1
    <3>1. 1 \in 1..n2 /\ k - 1 = n1 /\ n1 \in 0..n1
      BY <1>8, <2>2
    <3>2. s[k] = B(1) /\ Z(k - 1) = A(n1)
      BY <1>1, <1>7, <1>8, <2>2, <3>1, Zenon
    <3> QED
      BY <1>8, <1>12, <1>17, <3>2, Zenon
  <2>3. CASE k > n1 + 1
    <3>1. PICK i : i = k - n1
      OBVIOUS
    <3>2. PICK j : j = i - 1
      OBVIOUS
    <3>3. i \in 1..n2 /\ j \in 1..n2 /\ j \in 1..(n2 + 1) /\ n1 + i = k /\ n1 + j = k - 1 /\ i # 1
      BY <1>1, <2>3, <3>1, <3>2
    <3>4. s[k] = s2[i] /\ Z(k - 1) = B(j) /\ s2[i] \in Elems
      BY <1>1, <1>7, <3>3
    <3>5. s2[i] # B(1)
      BY <1>8, <1>9, <3>3
    <3>6. mem2.prev[s2[i]] = mem.prev[s2[i]]
      BY <1>12, <1>17, <3>4, <3>5, Zenon
    <3>7. mem.prev[s2[i]] = B(j)
      BY <1>6, <1>17, <3>2, <3>3, Zenon
    <3> QED
      BY <3>4, <3>6, <3>7, Zenon
  <2>4. k <= n1 \/ k = n1 + 1 \/ k > n1 + 1
    OBVIOUS
  <2> QED
    BY <2>1, <2>2, <2>3, <2>4, Zenon
<1>18. mem2.prev[h1] = Z(n)
  <2>1. n2 \in 1..(n2 + 1) /\ n1 + n2 = n
    BY <1>1
  <2> QED
    BY <1>7, <1>12, <2>1, Zenon
<1>19. Links(kd, mem2, s, h1)
  BY <1>n, <1>16, <1>17, <1>18, Zenon DEF Links, Z
<1>20. Links(kd, mem2, << >>, h2)
  BY <1>11, <1>12 DEF Links, Stop, EndOf
<1>21. Distinct(s)
  <2> SUFFICES ASSUME NEW j \in 1..n, NEW k \in 1..n, s[j] = s[k] PROVE j = k
    BY <1>n, Zenon DEF Distinct
  <2>1. j \in 1..n1 \/ \E i \in 1..n2 : j = n1 + i
    BY <1>1, Zenon
  <2>2. k \in 1..n1 \/ \E i \in 1..n2 : k = n1 + i
    BY <1>1, Zenon
  <2>3. CASE j \in 1..n1 /\ k \in 1..n1
    BY <1>1, <1>9, <2>3, Zenon
  <2>4. ASSUME NEW i \in 1..n1, NEW l \in 1..n2, s[i] = s[n1 + l] PROVE FALSE
    BY <1>1, <1>10, <2>4, ZenonT(60)
  <2>5. ASSUME NEW i \in 1..n2, NEW l \in 1..n2, s[n1 + i] = s[n1 + l] PROVE i = l
    <3>1. s2[i] = s2[l]
      BY <1>1, <2>5
    <3> QED
      BY <1>9, <3>1, Zenon
  <2> QED
    BY <2>1, <2>2, <2>3, <2>4, <2>5, Zenon
<1>22. ASSUME NEW x \in Elems PROVE In(x, s) <=> In(x, s1) \/ In(x, s2)
  <2>1. /\ In(x, s) <=> \E k \in 1..n : s[k] = x
        /\ In(x, s1) <=> \E k \in 1..n1 : s1[k] = x
        /\ In(x, s2) <=> \E k \in 1..n2 : s2[k] = x
    BY <1>0, <1>n, Zenon DEF In
  <2>2. ASSUME In(x, s1) PROVE In(x, s)
    BY <1>1, <2>1, <2>2, Zenon
  <2>3. ASSUME In(x, s2) PROVE In(x, s)
    BY <1>1, <2>1, <2>3, Zenon
  <2>4. ASSUME In(x, s) PROVE In(x, s1) \/ In(x, s2)
    <3>1. PICK k \in 1..n : s[k] = x
      BY <2>1, <2>4
    <3>2. CASE k \in 1..n1
      BY <1>1, <2>1, <3>1, <3>2, Zenon
    <3>3. ASSUME NEW j \in 1..n2, k = n1 + j PROVE In(x, s2)
      BY <1>1, <2>1, <3>1, <3>3, Zenon
    <3> QED
      BY <1>1, <3>2, <3>3, Zenon
  <2> QED
    BY <2>2, <2>3, <2>4
<1> QED
  BY <1>19, <1>20, <1>21, <1>22 DEF OneList

\* The CONCAT macros append the second list to the first.
LEMMA ConcatKeeps ==
  ASSUME NEW kd \in {"STAILQ", "TAILQ"}, NEW mem, NEW ls, LinkInv(kd, mem, ls),
         NEW h1 \in Heads, NEW h2 \in Heads, h1 # h2, NEW mem2, mem2 = ConcatOf(kd, mem, h1, h2)
  PROVE  LinkInv(kd, mem2, [ls EXCEPT ![h1] = ls[h1] \o ls[h2], ![h2] = << >>])
<1>0. PICK s1, s2, s, a, c, z : /\ s1 = ls[h1] /\ s2 = ls[h2] /\ s = s1 \o s2
                                /\ a = mem.prev[h1] /\ c = mem.next[h2] /\ z = mem.prev[h2]
  OBVIOUS
<1>1. /\ kd \in Kinds /\ Memory(mem) /\ s1 \in Seq(Elems) /\ s2 \in Seq(Elems)
      /\ Distinct(s1) /\ Distinct(s2) /\ Links(kd, mem, s1, h1) /\ Links(kd, mem, s2, h2)
      /\ \A x \in Elems : ~(In(x, s1) /\ In(x, s2))
  BY <1>0, TwoLists, Zenon
<1>2. kd # "CIRCLEQ" /\ kd \in WithLast
  BY DEF WithLast
<1>3. s \in Seq(Elems)
  BY <1>0, <1>1
<1>4. /\ c = IF s2 = << >> THEN NULL ELSE s2[1]
      /\ s2 # << >> => c \in Elems /\ In(c, s2)
      /\ z = Stop(kd, s2, h2, Len(s2)) /\ a = Stop(kd, s1, h1, Len(s1))
  <2>1. /\ mem.next[h2] = IF s2 = << >> THEN NULL ELSE s2[1]
        /\ s2 # << >> => mem.next[h2] \in Elems /\ In(mem.next[h2], s2)
        /\ mem.prev[h2] = Stop(kd, s2, h2, Len(s2))
    BY <1>1, <1>2, ListEnds
  <2>2. mem.prev[h1] = Stop(kd, s1, h1, Len(s1))
    BY <1>1, <1>2, ListEnds
  <2> QED
    BY <1>0, <2>1, <2>2, Zenon
<1>5. CASE s2 = << >>
  <2>1. mem2 = mem
    BY <1>0, <1>4, <1>5 DEF ConcatOf, STAILQ_CONCAT, TAILQ_CONCAT
  <2>2. s = s1
    BY <1>0, <1>1, <1>5
  <2>3. ls \in [Heads -> Seq(Elems)]
    BY DEF LinkInv, Apart
  <2>4. [ls EXCEPT ![h1] = s, ![h2] = << >>] = ls
    BY <1>0, <1>5, <2>2, <2>3
  <2> QED
    BY <1>0, <2>1, <2>4, Zenon
<1>6. CASE s2 # << >>
  <2>1. z \in Elems /\ In(z, s2)
    <3>1. Len(s2) \in 1..Len(s2)
      BY <1>1, <1>6
    <3>2. z = s2[Len(s2)]
      BY <1>1, <1>4, <3>1 DEF Stop
    <3> QED
      BY <1>1, <3>1, <3>2 DEF In
  <2>2. a \in Elems \cup {h1} /\ (a = h1 \/ In(a, s1))
    BY <1>1, <1>4 DEF Stop, In
  <2>3. Concatenated(kd, mem, mem2, h1, h2, a, c, z)
    <3>1. c \in Elems
      BY <1>4, <1>6
    <3> QED
      BY <1>0, <1>1, <2>1, <2>2, <3>1, Concats, Zenon
  <2>4. Concatenated(kd, mem, mem2, h1, h2, mem.prev[h1], mem.next[h2], mem.prev[h2])
    BY <1>0, <2>3, Zenon
  <2>5. /\ Links(kd, mem2, s, h1) /\ Links(kd, mem2, << >>, h2) /\ Distinct(s)
        /\ \A x \in Elems : In(x, s) <=> In(x, s1) \/ In(x, s2)
    <3>1. Behind(kd, mem, mem2, h1, h2, s1, s2, s)
      BY <1>0, <1>1, <1>6, <2>4, Zenon DEF Behind
    <3>2. OneList(kd, mem2, h1, h2, s1, s2, s)
      BY <1>1, <1>2, <1>3, <3>1, ConcatLinks, Zenon
    <3> QED
      BY <3>2, Zenon DEF OneList
  <2>6. Memory(mem2)
    BY <2>3, Zenon DEF Concatenated
  <2>7. << >> \in Seq(Elems) /\ Distinct(<< >>) /\ \A x : ~In(x, << >>)
    BY DEF Distinct, In
  <2>8. Moved(ls[h1], ls[h2], s, << >>)
    BY <1>0, <2>5, <2>7, Zenon DEF Moved
  <2>9. ASSUME NEW x \in Nodes, x # h1, x # h2, ~In(x, s1), ~In(x, s2)
        PROVE  /\ mem2.next[x] = mem.next[x]
               /\ x \in Elems /\ kd \in TwoWay => mem2.prev[x] = mem.prev[x]
               /\ x \in Heads /\ kd \in WithLast => mem2.prev[x] = mem.prev[x]
    <3>1. x # a /\ x # c
      BY <1>4, <1>6, <2>2, <2>9, Zenon
    <3> QED
      BY <2>3, <2>9, <3>1, Zenon DEF Concatenated
  <2>10. SameBeyond(kd, mem, mem2, ls[h1], ls[h2], h1, h2)
    BY <1>0, <2>9, Zenon DEF SameBeyond
  <2>11. LinkInv(kd, mem2, [ls EXCEPT ![h1] = s, ![h2] = << >>])
    BY <1>3, <2>5, <2>6, <2>7, <2>8, <2>10, TwoChanged, Zenon
  <2> QED
    BY <1>0, <2>11, Zenon
<1> QED
  BY <1>5, <1>6

-----------------------------------------------------------------------------
(* Insertions and removals keep the invariant                              *)

\* The nodes on either side of a place are in the list or at its end.
LEMMA StopsInside ==
  ASSUME NEW kd, NEW ls, Apart(ls), NEW h \in Heads, NEW k \in 0..(Len(ls[h]) + 1), NEW x \in Nodes,
         x = Stop(kd, ls[h], h, k)
  PROVE  x = h \/ In(x, ls[h])
<1>0. PICK s \in Seq(Elems) : s = ls[h]
  BY DEF Apart
<1>1. k \in 0..(Len(s) + 1) /\ x = Stop(kd, s, h, k)
  BY <1>0, Zenon
<1>2. CASE k = 0
  BY <1>1, <1>2 DEF Stop
<1>3. CASE k \in 1..Len(s)
  <2>1. x = s[k]
    BY <1>1, <1>3 DEF Stop
  <2> QED
    BY <1>0, <1>3, <2>1, Zenon DEF In
<1>4. CASE k = Len(s) + 1
  <2>1. x = EndOf(kd, h)
    BY <1>1, <1>4 DEF Stop
  <2> QED
    BY <2>1, NodesApart DEF EndOf
<1> QED
  BY <1>1, <1>2, <1>3, <1>4

\* What is in a list is no head, and what has gone was in it.
LEMMA GoneInside ==
  ASSUME NEW ls, Apart(ls), NEW h \in Heads, NEW p \in 1..(Len(ls[h]) + 1), NEW q \in (p - 1)..Len(ls[h]), NEW gone,
         Within(gone, ls[h], p, q)
  PROVE  \A x \in gone : x \in Elems /\ In(x, ls[h])
<1>0. PICK s \in Seq(Elems) : s = ls[h]
  BY DEF Apart
<1>1. p \in 1..(Len(s) + 1) /\ q \in (p - 1)..Len(s) /\ Within(gone, s, p, q)
  BY <1>0, Zenon
<1>2. \A k \in p..q : k \in 1..Len(s)
  BY <1>1
<1>3. \A k \in 1..Len(s) : s[k] \in Elems
  OBVIOUS
<1>4. ASSUME NEW x \in gone PROVE x \in Elems /\ In(x, s)
  <2>1. PICK k \in p..q : x = s[k]
    BY <1>1 DEF Within
  <2> QED
    BY <1>2, <1>3, <2>1, Zenon DEF In
<1> QED
  BY <1>0, <1>4, Zenon

\* A list in which e takes the place of the elements from p to q.
LEMMA JoinedKeeps ==
  ASSUME NEW kd, NEW mem, NEW ls, LinkInv(kd, mem, ls), NEW h \in Heads, NEW e, Unlisted(ls, e),
         NEW p \in 1..(Len(ls[h]) + 1), NEW q \in (p - 1)..Len(ls[h]), NEW gone, Within(gone, ls[h], p, q), NEW mem2,
         Joined(kd, mem, mem2, h, Stop(kd, ls[h], h, p - 1), Stop(kd, ls[h], h, q + 1), e, gone),
         NEW s2, Replaced(ls[h], s2, p, q, e)
  PROVE  LinkInv(kd, mem2, [ls EXCEPT ![h] = s2])
<1>0. PICK s, a, b : s = ls[h] /\ a = Stop(kd, s, h, p - 1) /\ b = Stop(kd, s, h, q + 1)
  OBVIOUS
<1>1. Apart(ls) /\ s \in Seq(Elems) /\ Distinct(s) /\ Links(kd, mem, s, h) /\ e \in Elems /\ ~In(e, s)
  BY <1>0, Zenon DEF LinkInv, Apart, Unlisted
<1>2. /\ p \in 1..(Len(s) + 1) /\ q \in (p - 1)..Len(s) /\ Within(gone, s, p, q)
      /\ Joined(kd, mem, mem2, h, Stop(kd, s, h, p - 1), Stop(kd, s, h, q + 1), e, gone)
      /\ Replaced(s, s2, p, q, e)
  BY <1>0, Zenon
<1>3. Links(kd, mem2, s2, h) /\ Distinct(s2) /\ \A x : In(x, s2) => x = e \/ In(x, s)
  BY <1>1, <1>2, JoinedLinks, Zenon
<1>4. s2 \in Seq(Elems) /\ Memory(mem2)
  BY <1>2 DEF Replaced, Joined
<1>5. DrawnFrom(ls, h, s2)
  BY <1>0, <1>3, Zenon DEF DrawnFrom
<1>6. OthersSame(kd, mem, mem2, ls, h)
  <2> SUFFICES ASSUME NEW x \in Nodes, x # h, ~In(x, ls[h]), ~Unlisted(ls, x)
               PROVE  /\ mem2.next[x] = mem.next[x]
                      /\ x \in Elems /\ kd \in TwoWay => mem2.prev[x] = mem.prev[x]
                      /\ x \in Heads /\ kd \in WithLast => mem2.prev[x] = mem.prev[x]
    BY DEF OthersSame
  <2>1. x # e /\ x \notin gone
    BY <1>1, GoneInside, Zenon
  <2>2. p - 1 \in 0..(Len(s) + 1) /\ q + 1 \in 0..(Len(s) + 1)
    BY <1>1, <1>2
  <2>3. p - 1 \in 0..(Len(ls[h]) + 1) /\ q + 1 \in 0..(Len(ls[h]) + 1)
    BY <1>0, <2>2, Zenon
  <2>4. x # Stop(kd, ls[h], h, p - 1) /\ x # Stop(kd, ls[h], h, q + 1)
    BY <1>1, <2>3, StopsInside, Zenon
  <2> QED
    BY <2>1, <2>4 DEF Joined
<1> QED
  BY <1>3, <1>4, <1>5, <1>6, OneChanged, Zenon

\* A list without the elements from p to q.
LEMMA ClosedKeeps ==
  ASSUME NEW kd, NEW mem, NEW ls, LinkInv(kd, mem, ls), NEW h \in Heads,
         NEW p \in 1..Len(ls[h]), NEW q \in p..Len(ls[h]), NEW gone, Within(gone, ls[h], p, q), NEW mem2,
         Closed(kd, mem, mem2, h, Stop(kd, ls[h], h, p - 1), Stop(kd, ls[h], h, q + 1), gone),
         NEW s2, Removed(ls[h], s2, p, q)
  PROVE  LinkInv(kd, mem2, [ls EXCEPT ![h] = s2])
<1>0. PICK s, a, b : s = ls[h] /\ a = Stop(kd, s, h, p - 1) /\ b = Stop(kd, s, h, q + 1)
  OBVIOUS
<1>1. Apart(ls) /\ s \in Seq(Elems) /\ Distinct(s) /\ Links(kd, mem, s, h)
  BY <1>0, Zenon DEF LinkInv, Apart
<1>2. /\ p \in 1..Len(s) /\ q \in p..Len(s) /\ Within(gone, s, p, q)
      /\ Closed(kd, mem, mem2, h, Stop(kd, s, h, p - 1), Stop(kd, s, h, q + 1), gone)
      /\ Removed(s, s2, p, q)
  BY <1>0, Zenon
<1>3. Links(kd, mem2, s2, h) /\ Distinct(s2) /\ \A x : In(x, s2) => In(x, s)
  BY <1>1, <1>2, ClosedLinks, Zenon
<1>4. s2 \in Seq(Elems) /\ Memory(mem2)
  BY <1>2 DEF Removed, Closed
<1>5. DrawnFrom(ls, h, s2)
  BY <1>0, <1>3, Zenon DEF DrawnFrom
<1>6. OthersSame(kd, mem, mem2, ls, h)
  <2> SUFFICES ASSUME NEW x \in Nodes, x # h, ~In(x, ls[h]), ~Unlisted(ls, x)
               PROVE  /\ mem2.next[x] = mem.next[x]
                      /\ x \in Elems /\ kd \in TwoWay => mem2.prev[x] = mem.prev[x]
                      /\ x \in Heads /\ kd \in WithLast => mem2.prev[x] = mem.prev[x]
    BY DEF OthersSame
  <2>a. p \in 1..(Len(s) + 1) /\ q \in (p - 1)..Len(s)
    BY <1>1, <1>2
  <2>1. x \notin gone
    <3>1. p \in 1..(Len(ls[h]) + 1) /\ q \in (p - 1)..Len(ls[h])
      BY <1>0, <2>a, Zenon
    <3> QED
      BY <1>1, <3>1, GoneInside, Zenon
  <2>2. p - 1 \in 0..(Len(s) + 1) /\ q + 1 \in 0..(Len(s) + 1)
    BY <1>1, <1>2
  <2>3. p - 1 \in 0..(Len(ls[h]) + 1) /\ q + 1 \in 0..(Len(ls[h]) + 1)
    BY <1>0, <2>2, Zenon
  <2>4. x # Stop(kd, ls[h], h, p - 1) /\ x # Stop(kd, ls[h], h, q + 1)
    BY <1>1, <2>3, StopsInside, Zenon
  <2> QED
    BY <2>1, <2>4 DEF Closed
<1> QED
  BY <1>3, <1>4, <1>5, <1>6, OneChanged, Zenon

-----------------------------------------------------------------------------
(* The lists the program means                                             *)

\* The elements of a sequence with another in the middle.
LEMMA Between3 ==
  ASSUME NEW u \in Seq(Elems), NEW w \in Seq(Elems), NEW e \in Elems, NEW t, t = (u \o <<e>>) \o w
  PROVE  /\ t \in Seq(Elems) /\ Len(t) = Len(u) + 1 + Len(w)
         /\ \A k \in 1..Len(t) :
              t[k] = IF k <= Len(u) THEN u[k] ELSE IF k = Len(u) + 1 THEN e ELSE w[k - (Len(u) + 1)]
  OBVIOUS

\* An element that is inserted takes no other's place.
LEMMA InsertShapes ==
  ASSUME NEW s \in Seq(Elems), NEW e \in Elems
  PROVE  /\ \A i \in 1..(Len(s) + 1) : Replaced(s, InsertAt(s, i, e), i, i - 1, e)
         /\ Replaced(s, <<e>> \o s, 1, 0, e)
         /\ Replaced(s, Append(s, e), Len(s) + 1, Len(s), e)
         /\ \A i \in 1..Len(s) : Replaced(s, [s EXCEPT ![i] = e], i, i, e)
<1>1. ASSUME NEW i \in 1..(Len(s) + 1) PROVE Replaced(s, InsertAt(s, i, e), i, i - 1, e)
  <2>1. PICK u : u = SubSeq(s, 1, i - 1)
    OBVIOUS
  <2>2. PICK w : w = SubSeq(s, i, Len(s))
    OBVIOUS
  <2>3. u \in Seq(Elems) /\ Len(u) = i - 1 /\ \A k \in 1..(i - 1) : u[k] = s[k]
    BY <2>1
  <2>4. w \in Seq(Elems) /\ Len(w) = Len(s) - i + 1 /\ \A k \in 1..(Len(s) - i + 1) : w[k] = s[k + i - 1]
    BY <2>2
  <2>5. InsertAt(s, i, e) = (u \o <<e>>) \o w
    BY <2>1, <2>2 DEF InsertAt
  <2>6. PICK t : t = (u \o <<e>>) \o w
    OBVIOUS
  <2>7. /\ t \in Seq(Elems) /\ Len(t) = Len(u) + 1 + Len(w)
        /\ \A k \in 1..Len(t) :
             t[k] = IF k <= Len(u) THEN u[k] ELSE IF k = Len(u) + 1 THEN e ELSE w[k - (Len(u) + 1)]
    <3>1. u \in Seq(Elems) /\ w \in Seq(Elems)
      BY <2>3, <2>4, Zenon
    <3> QED
      BY <2>6, <3>1, Between3
  <2>8. PICK n \in Nat : n = Len(s)
    OBVIOUS
  <2>9. i \in 1..(n + 1) /\ Len(t) = n + 1
    <3>1. i \in 1..(n + 1) /\ Len(t) = (i - 1) + 1 + (n - i + 1)
      BY <2>3, <2>4, <2>7, <2>8, Zenon
    <3> QED
      BY <3>1
  <2>10. \A k \in 1..(n + 1) : t[k] = IF k <= i - 1 THEN u[k] ELSE IF k = (i - 1) + 1 THEN e ELSE w[k - ((i - 1) + 1)]
    BY <2>3, <2>7, <2>9, Zenon
  <2>11. /\ \A k \in 1..(i - 1) : u[k] = s[k]
         /\ \A k \in 1..(n - i + 1) : w[k] = s[k + i - 1]
    BY <2>3, <2>4, <2>8, Zenon
  <2>12. ASSUME NEW k \in 1..(n + 1) PROVE t[k] = IF k < i THEN s[k] ELSE IF k = i THEN e ELSE s[k + (i - 1) - i]
    <3>1. CASE k < i
      <4>1. k \in 1..(i - 1) /\ k <= i - 1
        BY <2>9, <3>1
      <4> QED
        BY <2>10, <2>11, <3>1, <4>1, Zenon
    <3>2. CASE k = i
      <4>1. ~(k <= i - 1) /\ k = (i - 1) + 1 /\ ~(k < i)
        BY <2>9, <3>2
      <4> QED
        BY <2>10, <3>2, <4>1, Zenon
    <3>3. CASE k > i
      <4>1. PICK j : j = k - ((i - 1) + 1)
        OBVIOUS
      <4>2. ~(k <= i - 1) /\ k # (i - 1) + 1 /\ ~(k < i) /\ k # i /\ j \in 1..(n - i + 1) /\ j + i - 1 = k + (i - 1) - i
        BY <2>9, <3>3, <4>1
      <4>3. t[k] = w[j]
        BY <2>10, <4>1, <4>2, Zenon
      <4>4. w[j] = s[j + i - 1]
        BY <2>11, <4>2, Zenon
      <4> QED
        BY <4>2, <4>3, <4>4, Zenon
    <3>4. k < i \/ k = i \/ k > i
      BY <2>9
    <3> QED
      BY <3>1, <3>2, <3>3, <3>4, Zenon
  <2>13. n + 1 = n + i - (i - 1)
    BY <2>9
  <2>14. Replaced(s, t, i, i - 1, e)
    BY <2>7, <2>8, <2>9, <2>12, <2>13, Zenon DEF Replaced
  <2> QED
    BY <2>5, <2>6, <2>14, Zenon
<1>2. Replaced(s, <<e>> \o s, 1, 0, e)
  BY DEF Replaced
<1>3. Replaced(s, Append(s, e), Len(s) + 1, Len(s), e)
  BY DEF Replaced
<1>4. ASSUME NEW i \in 1..Len(s) PROVE Replaced(s, [s EXCEPT ![i] = e], i, i, e)
  BY DEF Replaced
<1> QED
  BY <1>1, <1>2, <1>3, <1>4

\* The elements that are removed leave the others in their order.
LEMMA RemoveShapes ==
  ASSUME NEW s \in Seq(Elems)
  PROVE  /\ \A i \in 1..Len(s) : Removed(s, RemoveAt(s, i), i, i)
         /\ s # << >> => Removed(s, Tail(s), 1, 1)
         /\ \A i \in 1..Len(s) : Removed(s, SubSeq(s, i + 1, Len(s)), 1, i)
<1>1. ASSUME NEW i \in 1..Len(s) PROVE Removed(s, RemoveAt(s, i), i, i)
  <2>1. PICK u : u = SubSeq(s, 1, i - 1)
    OBVIOUS
  <2>2. PICK w : w = SubSeq(s, i + 1, Len(s))
    OBVIOUS
  <2>3. u \in Seq(Elems) /\ Len(u) = i - 1 /\ \A k \in 1..(i - 1) : u[k] = s[k]
    BY <2>1
  <2>4. w \in Seq(Elems) /\ Len(w) = Len(s) - i /\ \A k \in 1..(Len(s) - i) : w[k] = s[k + i]
    BY <2>2
  <2>5. PICK t : t = u \o w
    OBVIOUS
  <2>6. t \in Seq(Elems) /\ Len(t) = Len(s) - 1
    BY <2>3, <2>4, <2>5, SMTT(60)
  <2>7. ASSUME NEW k \in 1..Len(t) PROVE t[k] = IF k < i THEN s[k] ELSE s[k + 1]
    <3>1. CASE k < i
      <4>1. k \in 1..(i - 1) /\ k \in 1..Len(u)
        BY <2>3, <3>1
      <4>2. t[k] = u[k]
        BY <2>3, <2>4, <2>5, <4>1
      <4> QED
        BY <2>3, <3>1, <4>1, <4>2, Zenon
    <3>2. CASE ~(k < i)
      <4>1. PICK j \in 1..(Len(s) - i) : k = i - 1 + j
        BY <2>6, <3>2
      <4>2. t[k] = w[j]
        BY <2>3, <2>4, <2>5, <4>1
      <4>3. j + i = k + 1
        BY <4>1
      <4> QED
        BY <2>4, <3>2, <4>2, <4>3, Zenon
    <3> QED
      BY <3>1, <3>2
  <2>8. RemoveAt(s, i) = t
    BY <2>1, <2>2, <2>5 DEF RemoveAt
  <2> QED
    BY <2>6, <2>7, <2>8 DEF Removed
<1>2. ASSUME s # << >> PROVE Removed(s, Tail(s), 1, 1)
  BY <1>2 DEF Removed
<1>3. ASSUME NEW i \in 1..Len(s) PROVE Removed(s, SubSeq(s, i + 1, Len(s)), 1, i)
  BY DEF Removed
<1> QED
  BY <1>1, <1>2, <1>3

-----------------------------------------------------------------------------
(* What the loops visit                                                    *)

\* f is the walk of a loop: see Visits.
Walk(first, step, n, f) ==
  f = [k \in 0..n |-> IF k = 0 THEN first ELSE IF f[k-1] \in Elems THEN step[f[k-1]] ELSE f[k-1]]

\* The pointers lead from first through s to end.
Leads(s, first, step, end) ==
  /\ first = IF Len(s) = 0 THEN end ELSE s[1]
  /\ \A k \in 1..Len(s) : step[s[k]] = IF k = Len(s) THEN end ELSE s[k + 1]

\* A list without repetition is no longer than there are elements.
LEMMA ListFits ==
  ASSUME NEW s \in Seq(Elems), Distinct(s)
  PROVE  Cardinality(Elems) \in Nat /\ Len(s) <= Cardinality(Elems)
<1>1. IsFiniteSet(Elems)
  BY ListAssumption
<1>2. PICK n \in Nat : n = Len(s)
  OBVIOUS
<1>3. s \in [1..n -> Elems]
  BY <1>2
<1>4. \A j, k \in 1..n : s[j] = s[k] => j = k
  BY <1>2, Zenon DEF Distinct
<1>5. s \in Injection(1..n, Elems)
  BY <1>3, <1>4, Zenon DEF Injection, IsInjective
<1>6. Cardinality(1..n) <= Cardinality(Elems)
  BY <1>1, <1>5, FS_Injection, Zenon
<1>7. Cardinality(1..n) = n
  BY FS_Interval
<1>8. Cardinality(Elems) \in Nat
  BY <1>1, FS_CardinalityType
<1> QED
  BY <1>2, <1>6, <1>7, <1>8

\* A walk along the pointers of a list is at its elements one after the other.
LEMMA WalkIs ==
  ASSUME NEW s \in Seq(Elems), NEW first, NEW step, NEW end, end \notin Elems, Leads(s, first, step, end),
         NEW n \in Nat, NEW f, Walk(first, step, n, f), NEW k \in 0..n
  PROVE  f[k] = IF k < Len(s) THEN s[k + 1] ELSE end
<1>0. PICK l \in Nat : l = Len(s)
  OBVIOUS
<1>1. /\ first = IF l = 0 THEN end ELSE s[1]
      /\ \A i \in 1..l : step[s[i]] = IF i = l THEN end ELSE s[i + 1]
  BY <1>0, Zenon DEF Leads
<1>2. \A i \in 0..n : f[i] = IF i = 0 THEN first ELSE IF f[i-1] \in Elems THEN step[f[i-1]] ELSE f[i-1]
  BY DEF Walk
<1>3. \A i \in 1..l : s[i] \in Elems
  BY <1>0
<1> DEFINE S == {i \in Nat : i <= n => f[i] = IF i < l THEN s[i + 1] ELSE end}
<1>4. 0 \in S
  <2>1. f[0] = first
    BY <1>2
  <2> QED
    BY <1>1, <2>1
<1>5. ASSUME NEW i \in Nat, i \in S PROVE i + 1 \in S
  <2> SUFFICES ASSUME i + 1 <= n PROVE f[i + 1] = IF i + 1 < l THEN s[(i + 1) + 1] ELSE end
    OBVIOUS
  <2>1. f[i] = IF i < l THEN s[i + 1] ELSE end
    BY <1>5
  <2>2. f[i + 1] = IF f[i] \in Elems THEN step[f[i]] ELSE f[i]
    BY <1>2
  <2>3. CASE i < l
    <3>1. PICK j : j = i + 1
      OBVIOUS
    <3>2. j \in 1..l /\ (i + 1 < l <=> j # l)
      BY <2>3, <3>1
    <3>3. f[j] = step[s[j]]
      BY <1>3, <2>1, <2>2, <2>3, <3>1, <3>2, Zenon
    <3>4. step[s[j]] = IF j = l THEN end ELSE s[j + 1]
      BY <1>1, <3>2, Zenon
    <3> QED
      BY <3>1, <3>2, <3>3, <3>4, Zenon
  <2>4. CASE ~(i < l)
    <3>1. ~(i + 1 < l)
      BY <2>4
    <3> QED
      BY <2>1, <2>2, <2>4, <3>1, Zenon
  <2> QED
    BY <2>3, <2>4
<1> HIDE DEF S
<1>6. Nat \subseteq S
  BY <1>4, <1>5, SetInduction
<1>7. k \in S /\ k <= n
  BY <1>6
<1> QED
  BY <1>0, <1>7, Zenon DEF S

\* A loop along the pointers of a list visits just its elements.
LEMMA VisitsIs ==
  ASSUME NEW s \in Seq(Elems), Distinct(s), NEW first, NEW step, NEW end, end \notin Elems,
         Leads(s, first, step, end)
  PROVE  Visits(first, step, end) = s
<1>0. PICK l \in Nat : l = Len(s)
  OBVIOUS
<1>1. PICK n \in Nat : n = Cardinality(Elems) + 1
  BY ListFits
<1>2. l < n
  BY <1>0, <1>1, ListFits
<1>3. \A i \in 1..l : s[i] \in Elems
  BY <1>0
<1>4. /\ first = IF l = 0 THEN end ELSE s[1]
      /\ \A i \in 1..l : step[s[i]] = IF i = l THEN end ELSE s[i + 1]
  BY <1>0, Zenon DEF Leads
<1>5. \E f : Walk(first, step, n, f)
  <2> DEFINE w == [k \in 0..n |-> IF k < l THEN s[k + 1] ELSE end]
  <2>1. ASSUME NEW k \in 0..n
        PROVE  w[k] = IF k = 0 THEN first ELSE IF w[k-1] \in Elems THEN step[w[k-1]] ELSE w[k-1]
    <3>1. CASE k = 0
      BY <1>4, <3>1
    <3>2. CASE k # 0
      <4>1. PICK j : j = k - 1
        OBVIOUS
      <4>2. j \in 0..n /\ k = j + 1 /\ (j < l => k \in 1..l) /\ (k < l <=> j < l /\ k # l)
        BY <3>2, <4>1
      <4>3. w[k] = (IF k < l THEN s[k + 1] ELSE end) /\ w[j] = (IF j < l THEN s[j + 1] ELSE end)
        BY <4>2
      <4> HIDE DEF w
      <4>4. CASE j < l
        <5>1. w[j] = s[k] /\ s[k] \in Elems /\ step[s[k]] = IF k = l THEN end ELSE s[k + 1]
          BY <1>3, <1>4, <4>2, <4>3, <4>4, Zenon
        <5> QED
          BY <3>2, <4>1, <4>2, <4>3, <4>4, <5>1, Zenon
      <4>5. CASE ~(j < l)
        BY <3>2, <4>1, <4>2, <4>3, <4>5, Zenon
      <4> QED
        BY <4>4, <4>5
    <3> QED
      BY <3>1, <3>2
  <2>2. w = [k \in 0..n |-> IF k = 0 THEN first ELSE IF w[k-1] \in Elems THEN step[w[k-1]] ELSE w[k-1]]
    BY <2>1, Zenon
  <2> HIDE DEF w
  <2> QED
    BY <2>2 DEF Walk
<1> DEFINE at == CHOOSE f : Walk(first, step, n, f)
<1>6. Walk(first, step, n, at)
  BY <1>5, Zenon
<1>7. Visits(first, step, end) =
        [k \in 1..Cardinality({k \in DOMAIN at : \A j \in 0..k : at[j] # end}) |-> at[k-1]]
  BY <1>1 DEF Visits, Walk
<1> HIDE DEF at
<1>8. DOMAIN at = 0..n /\ \A k \in 0..n : at[k] = IF k < l THEN s[k + 1] ELSE end
  <2>1. DOMAIN at = 0..n
    BY <1>6 DEF Walk
  <2>2. \A k \in 0..n : at[k] = IF k < Len(s) THEN s[k + 1] ELSE end
    BY <1>6, WalkIs
  <2> QED
    BY <1>0, <2>1, <2>2, Zenon
<1>9. {k \in DOMAIN at : \A j \in 0..k : at[j] # end} = 0..(l - 1)
  <2>1. ASSUME NEW k \in 0..n, k < l PROVE \A j \in 0..k : at[j] # end
    <3> TAKE j \in 0..k
    <3>1. j \in 0..n /\ j < l /\ j + 1 \in 1..l
      BY <2>1
    <3> QED
      BY <1>3, <1>8, <3>1, Zenon
  <2>2. ASSUME NEW k \in 0..n, \A j \in 0..k : at[j] # end PROVE k < l
    <3>1. k \in 0..k
      OBVIOUS
    <3> QED
      BY <1>8, <2>2, <3>1, Zenon
  <2>3. \A k : k \in 0..(l - 1) <=> k \in 0..n /\ k < l
    BY <1>2
  <2> QED
    BY <1>8, <2>1, <2>2, <2>3, Zenon
<1>10. Cardinality(0..(l - 1)) = l
  BY FS_Interval
<1>11. Visits(first, step, end) = [k \in 1..l |-> at[k - 1]]
  BY <1>7, <1>9, <1>10, Zenon
<1>12. \A k \in 1..l : at[k - 1] = s[k]
  <2> TAKE k \in 1..l
  <2>1. PICK j : j = k - 1
    OBVIOUS
  <2>2. j \in 0..n /\ j < l /\ j + 1 = k
    BY <1>2, <2>1
  <2> QED
    BY <1>8, <2>1, <2>2, Zenon
<1>13. s = [k \in 1..l |-> s[k]]
  BY <1>0
<1> QED
  BY <1>11, <1>12, <1>13, Zenon

\* The pointers of a list lead through it.
LEMMA LinksLead ==
  ASSUME NEW kd, NEW mem, NEW h \in Heads, NEW s \in Seq(Elems), Distinct(s), Links(kd, mem, s, h)
  PROVE  /\ Leads(s, mem.next[h], mem.next, EndOf(kd, h))
         /\ Visits(mem.next[h], mem.next, EndOf(kd, h)) = s
<1> DEFINE S(i) == Stop(kd, s, h, i)
<1>0. PICK n \in Nat : n = Len(s)
  OBVIOUS
<1>1. /\ \A i \in 1..n : S(i) = s[i]
      /\ S(0) = h /\ S(n + 1) = EndOf(kd, h)
  <2>1. /\ \A i \in 1..Len(s) : S(i) = s[i]
        /\ S(0) = h /\ S(Len(s) + 1) = EndOf(kd, h)
    BY StopsApart
  <2> QED
    BY <1>0, <2>1, Zenon
<1>2. \A i \in 0..n : mem.next[S(i)] = S(i + 1)
  BY <1>0, Zenon DEF Links
<1> HIDE DEF S
<1>3. mem.next[h] = IF n = 0 THEN EndOf(kd, h) ELSE s[1]
  BY <1>1, <1>2
<1>4. ASSUME NEW k \in 1..n PROVE mem.next[s[k]] = IF k = n THEN EndOf(kd, h) ELSE s[k + 1]
  <2>1. mem.next[s[k]] = S(k + 1)
    BY <1>1, <1>2, SMTT(60)
  <2>2. CASE k = n
    BY <1>1, <2>1, <2>2, Zenon
  <2>3. CASE k # n
    <3>1. k + 1 \in 1..n
      BY <2>3
    <3> QED
      BY <1>1, <2>1, <2>3, <3>1, Zenon
  <2> QED
    BY <2>2, <2>3
<1>5. Leads(s, mem.next[h], mem.next, EndOf(kd, h))
  BY <1>0, <1>3, <1>4, Zenon DEF Leads
<1>6. EndOf(kd, h) \notin Elems
  BY NodesApart
<1> QED
  BY <1>5, <1>6, VisitsIs, Zenon

\* The loop of the REMOVE macros stops at the element before the one to remove.
LEMMA CurElmIs ==
  ASSUME NEW kd, kd # "CIRCLEQ", NEW mem, NEW h \in Heads, NEW s \in Seq(Elems), Distinct(s), Links(kd, mem, s, h),
         NEW i \in 1..Len(s), i # 1
  PROVE  CurElm(mem, h, s[i]) = s[i - 1]
<1>0. PICK n \in Nat, j \in Int : n = Len(s) /\ j = i - 1
  OBVIOUS
<1>1. i \in 1..n /\ j \in 1..n /\ j # n /\ j + 1 = i
  BY <1>0
<1>2. SLIST_FOREACH(mem, h) = s
  BY LinksLead DEF SLIST_FOREACH, EndOf
<1>3. \A k \in 1..n : mem.next[s[k]] = IF k = n THEN NULL ELSE s[k + 1]
  <2>1. Leads(s, mem.next[h], mem.next, NULL)
    BY LinksLead DEF EndOf
  <2> QED
    BY <1>0, <2>1, Zenon DEF Leads
<1>4. ToSet(s) = {s[k] : k \in 1..n}
  BY <1>0 DEF ToSet
<1>5. s[j] \in ToSet(s) /\ mem.next[s[j]] = s[i]
  BY <1>1, <1>3, <1>4, Zenon
<1>6. ASSUME NEW c \in ToSet(s), mem.next[c] = s[i] PROVE c = s[j]
  <2>1. PICK k \in 1..n : c = s[k]
    BY <1>4
  <2>2. k # n
    <3>1. s[i] # NULL
      BY <1>0, NodesApart
    <3> QED
      BY <1>3, <1>6, <2>1, <3>1, Zenon
  <2>3. k + 1 \in 1..n /\ s[k + 1] = s[i]
    <3>1. k + 1 \in 1..n
      BY <2>2
    <3> QED
      BY <1>3, <1>6, <2>1, <2>2, <3>1, Zenon
  <2>4. k + 1 = i
    BY <1>0, <1>1, <2>3, Zenon DEF Distinct
  <2>5. k = j
    BY <1>1, <2>4
  <2> QED
    BY <2>1, <2>5
<1>7. (CHOOSE c \in ToSet(s) : mem.next[c] = s[i]) = s[j]
  BY <1>5, <1>6
<1> QED
  BY <1>0, <1>2, <1>7, Zenon DEF CurElm

\* The REMOVE macro of a kind.
RemoveOf(kd, mem, h, e) ==
  CASE kd = "SLIST"   -> SLIST_REMOVE(mem, h, e)
    [] kd = "LIST"    -> LIST_REMOVE(mem, e)
    [] kd = "STAILQ"  -> STAILQ_REMOVE(mem, h, e)
    [] kd = "TAILQ"   -> TAILQ_REMOVE(mem, h, e)
    [] kd = "CIRCLEQ" -> CIRCLEQ_REMOVE(mem, h, e)

\* Element e is at place i, between a and b.
At(kd, mem, s, h, i, a, b, e) ==
  /\ Memory(mem) /\ kd \in Kinds /\ Between(kd, mem, h, a, e) /\ Between(kd, mem, h, e, b)
  /\ e \in Elems /\ e # a /\ e # b /\ In(e, s)
  /\ (i = 1 => a = h) /\ (i # 1 => a = s[i - 1])
  /\ (mem.next[h] = e <=> i = 1)

\* What is known of the element at place i.
LEMMA ElementAt ==
  ASSUME NEW kd, NEW mem, NEW ls, LinkInv(kd, mem, ls), NEW h \in Heads, NEW i \in 1..Len(ls[h])
  PROVE  At(kd, mem, ls[h], h, i, Stop(kd, ls[h], h, i - 1), Stop(kd, ls[h], h, i + 1), ls[h][i])
<1>p. PICK a, b, e : a = Stop(kd, ls[h], h, i - 1) /\ b = Stop(kd, ls[h], h, i + 1) /\ e = ls[h][i]
  OBVIOUS
<1>0. PICK s : s = ls[h]
  OBVIOUS
<1>1. Memory(mem) /\ kd \in Kinds /\ s \in Seq(Elems) /\ Distinct(s) /\ Links(kd, mem, s, h)
  BY <1>0, Zenon DEF LinkInv, Apart
<1>2. PICK n \in Nat : n = Len(s)
  BY <1>1
<1> DEFINE S(k) == Stop(kd, s, h, k)
<1>3. i \in 1..n /\ a = S(i - 1) /\ b = S(i + 1) /\ e = s[i]
  BY <1>p, <1>0, <1>2, Zenon
<1>4. /\ \A j, k \in 0..n : S(j) = S(k) => j = k
      /\ \A k \in 1..n : S(k) = s[k] /\ s[k] \in Elems
      /\ S(0) = h /\ S(n + 1) = EndOf(kd, h)
  <2>1. /\ \A j, k \in 0..Len(s) : S(j) = S(k) => j = k
        /\ \A k \in 1..Len(s) : S(k) = s[k] /\ s[k] \in Elems
        /\ S(0) = h /\ S(Len(s) + 1) = EndOf(kd, h)
    BY <1>1, StopsApart
  <2> QED
    BY <1>2, <2>1, Zenon
<1>5. PICK j : j = i - 1
  OBVIOUS
<1>6. j \in 0..n /\ j + 1 = i /\ i \in 0..n /\ j # i /\ (i = 1 <=> j = 0) /\ 0 \in 0..n /\ 0 + 1 \in 0..n /\ 0 + 1 = 1
  BY <1>3, <1>5
<1>7. Between(kd, mem, h, S(j), S(j + 1)) /\ Between(kd, mem, h, S(i), S(i + 1))
  <2>1. j \in 0..Len(s) /\ i \in 0..Len(s)
    BY <1>2, <1>6, Zenon
  <2> QED
    BY <1>1, <2>1, StopsBetween, Zenon
<1>8. e = S(i) /\ e \in Elems
  BY <1>3, <1>4, Zenon
<1>9. mem.next[S(0)] = S(0 + 1)
  <2>1. 0 \in 0..Len(s)
    BY <1>2, <1>6, Zenon
  <2> QED
    BY <1>1, <2>1, Zenon DEF Links
<1> HIDE DEF S
<1>10. e # a
  BY <1>3, <1>4, <1>5, <1>6, <1>8, Zenon
<1>11. e # b
  <2>1. CASE i = n
    <3>1. b = EndOf(kd, h)
      BY <1>3, <1>4, <2>1, Zenon
    <3> QED
      BY <1>8, <3>1, NodesApart
  <2>2. CASE i # n
    <3>1. i + 1 \in 0..n /\ i + 1 # i
      BY <1>3, <2>2
    <3> QED
      BY <1>3, <1>4, <1>6, <1>8, <3>1, Zenon
  <2> QED
    BY <2>1, <2>2
<1>12. In(e, s)
  BY <1>2, <1>3, Zenon DEF In
<1>13. (i = 1 => a = h) /\ (i # 1 => a = s[i - 1])
  <2>1. CASE i = 1
    BY <1>3, <1>4, <1>5, <1>6, <2>1, Zenon
  <2>2. CASE i # 1
    <3>1. j \in 1..n
      BY <1>6, <2>2
    <3> QED
      BY <1>3, <1>4, <1>5, <2>2, <3>1, Zenon
  <2> QED
    BY <2>1, <2>2
<1>14. mem.next[h] = e <=> i = 1
  BY <1>4, <1>6, <1>8, <1>9
<1>15. At(kd, mem, s, h, i, a, b, e)
  BY <1>1, <1>3, <1>5, <1>6, <1>7, <1>8, <1>10, <1>11, <1>12, <1>13, <1>14, Zenon DEF At
<1> QED
  BY <1>p, <1>0, <1>15, Zenon

\* The REMOVE macros join the nodes on either side of the element at place i.
LEMMA RemoveCloses ==
  ASSUME NEW kd, NEW mem, NEW ls, LinkInv(kd, mem, ls), NEW h \in Heads, NEW i \in 1..Len(ls[h])
  PROVE  Closed(kd, mem, RemoveOf(kd, mem, h, ls[h][i]), h,
                Stop(kd, ls[h], h, i - 1), Stop(kd, ls[h], h, i + 1), {})
<1>0. PICK a, b, e : a = Stop(kd, ls[h], h, i - 1) /\ b = Stop(kd, ls[h], h, i + 1) /\ e = ls[h][i]
  OBVIOUS
<1>1. /\ Memory(mem) /\ kd \in Kinds /\ Between(kd, mem, h, a, e) /\ Between(kd, mem, h, e, b)
      /\ e \in Elems /\ e # a /\ e # b
      /\ (i = 1 => a = h) /\ (i # 1 => a = ls[h][i - 1])
      /\ (mem.next[h] = e <=> i = 1)
  <2>1. At(kd, mem, ls[h], h, i, Stop(kd, ls[h], h, i - 1), Stop(kd, ls[h], h, i + 1), ls[h][i])
    BY ElementAt, Zenon
  <2>2. At(kd, mem, ls[h], h, i, a, b, e)
    BY <1>0, <2>1, Zenon
  <2> QED
    BY <2>2, Zenon DEF At
<1>2. /\ kd = "SLIST" /\ a = h => Closed(kd, mem, SLIST_REMOVE_HEAD(mem, h), h, a, b, {})
      /\ kd = "SLIST" => Closed(kd, mem, SLIST_REMOVE_AFTER(mem, a), h, a, b, {})
      /\ kd = "LIST" => Closed(kd, mem, LIST_REMOVE(mem, e), h, a, b, {})
      /\ kd = "STAILQ" /\ a = h => Closed(kd, mem, STAILQ_REMOVE_HEAD(mem, h), h, a, b, {})
      /\ kd = "STAILQ" => Closed(kd, mem, STAILQ_REMOVE_AFTER(mem, h, a), h, a, b, {})
      /\ kd = "TAILQ" => Closed(kd, mem, TAILQ_REMOVE(mem, h, e), h, a, b, {})
      /\ kd = "CIRCLEQ" => Closed(kd, mem, CIRCLEQ_REMOVE(mem, h, e), h, a, b, {})
  BY <1>1, Removes
<1>3. kd # "CIRCLEQ" /\ i # 1 => CurElm(mem, h, e) = a
  <2> SUFFICES ASSUME kd # "CIRCLEQ", i # 1 PROVE CurElm(mem, h, e) = a
    OBVIOUS
  <2>1. ls[h] \in Seq(Elems) /\ Distinct(ls[h]) /\ Links(kd, mem, ls[h], h)
    BY Zenon DEF LinkInv, Apart
  <2>2. CurElm(mem, h, ls[h][i]) = ls[h][i - 1]
    BY <2>1, CurElmIs, Zenon
  <2> QED
    BY <1>0, <1>1, <2>2, Zenon
<1>4. Closed(kd, mem, RemoveOf(kd, mem, h, e), h, a, b, {})
  <2>1. CASE kd = "SLIST"
    <3>1. RemoveOf(kd, mem, h, e) = IF i = 1 THEN SLIST_REMOVE_HEAD(mem, h) ELSE SLIST_REMOVE_AFTER(mem, a)
      BY <1>1, <1>3, <2>1 DEF RemoveOf, SLIST_REMOVE
    <3> QED
      BY <1>1, <1>2, <2>1, <3>1, Zenon
  <2>2. CASE kd = "LIST"
    <3>1. RemoveOf(kd, mem, h, e) = LIST_REMOVE(mem, e)
      BY <2>2 DEF RemoveOf
    <3> QED
      BY <1>2, <2>2, <3>1, Zenon
  <2>3. CASE kd = "STAILQ"
    <3>1. RemoveOf(kd, mem, h, e) = IF i = 1 THEN STAILQ_REMOVE_HEAD(mem, h) ELSE STAILQ_REMOVE_AFTER(mem, h, a)
      BY <1>1, <1>3, <2>3 DEF RemoveOf, STAILQ_REMOVE
    <3> QED
      BY <1>1, <1>2, <2>3, <3>1, Zenon
  <2>4. CASE kd = "TAILQ"
    <3>1. RemoveOf(kd, mem, h, e) = TAILQ_REMOVE(mem, h, e)
      BY <2>4 DEF RemoveOf
    <3> QED
      BY <1>2, <2>4, <3>1, Zenon
  <2>5. CASE kd = "CIRCLEQ"
    <3>1. RemoveOf(kd, mem, h, e) = CIRCLEQ_REMOVE(mem, h, e)
      BY <2>5 DEF RemoveOf
    <3> QED
      BY <1>2, <2>5, <3>1, Zenon
  <2> QED
    BY <1>1, <2>1, <2>2, <2>3, <2>4, <2>5, Zenon DEF Kinds
<1> QED
  BY <1>0, <1>4, Zenon

\* Removing and freeing the elements from p to q keeps the invariant.
LEMMA FreedKeeps ==
  ASSUME NEW kd, NEW mem, NEW ls, LinkInv(kd, mem, ls), NEW h \in Heads,
         NEW p \in 1..Len(ls[h]), NEW q \in p..Len(ls[h]), NEW gone, Within(gone, ls[h], p, q), NEW mem2,
         Closed(kd, mem, mem2, h, Stop(kd, ls[h], h, p - 1), Stop(kd, ls[h], h, q + 1), {}),
         NEW s2, Removed(ls[h], s2, p, q)
  PROVE  LinkInv(kd, Freed(mem2, gone), [ls EXCEPT ![h] = s2])
<1>0. PICK s : s = ls[h]
  OBVIOUS
<1>1. s \in Seq(Elems) /\ Apart(ls)
  BY <1>0, Zenon DEF LinkInv, Apart
<1>2. p \in 1..Len(s) /\ q \in p..Len(s)
  BY <1>0, Zenon
<1>3. p \in 1..(Len(s) + 1) /\ q \in (p - 1)..Len(s)
  BY <1>1, <1>2
<1>4. p \in 1..(Len(ls[h]) + 1) /\ q \in (p - 1)..Len(ls[h])
  BY <1>0, <1>3, Zenon
<1>5. \A x \in gone : x \in Elems
  BY <1>1, <1>4, GoneInside, Zenon
<1>6. gone \in SUBSET Elems
  BY <1>5
<1>7. Closed(kd, mem, Freed(mem2, gone), h, Stop(kd, ls[h], h, p - 1), Stop(kd, ls[h], h, q + 1), gone)
  BY <1>6, FreesOnly, Zenon
<1> QED
  BY <1>7, ClosedKeeps, Zenon

\* REMOVE, and freeing the element.
LEMMA RemoveKeeps ==
  ASSUME NEW kd, NEW mem, NEW ls, LinkInv(kd, mem, ls), NEW h \in Heads, NEW i \in 1..Len(ls[h])
  PROVE  LinkInv(kd, Freed(RemoveOf(kd, mem, h, ls[h][i]), {ls[h][i]}), [ls EXCEPT ![h] = RemoveAt(ls[h], i)])
<1>1. Closed(kd, mem, RemoveOf(kd, mem, h, ls[h][i]), h, Stop(kd, ls[h], h, i - 1), Stop(kd, ls[h], h, i + 1), {})
  BY RemoveCloses, Zenon
<1>2. ls[h] \in Seq(Elems)
  BY Zenon DEF LinkInv, Apart
<1>3. Removed(ls[h], RemoveAt(ls[h], i), i, i)
  BY <1>2, RemoveShapes, Zenon
<1>4. i \in i..i /\ i \in i..Len(ls[h])
  BY <1>2
<1>5. Within({ls[h][i]}, ls[h], i, i)
  BY <1>4, Zenon DEF Within
<1> QED
  BY <1>1, <1>3, <1>4, <1>5, FreedKeeps, Zenon

\* The other macros that remove.
LEMMA RemoveOthersKeep ==
  ASSUME NEW kd, NEW mem, NEW ls, LinkInv(kd, mem, ls), NEW h \in Heads
  PROVE  /\ kd = "SLIST" /\ ls[h] # << >> =>
              LinkInv(kd, Freed(SLIST_REMOVE_HEAD(mem, h), {Head(ls[h])}), [ls EXCEPT ![h] = Tail(ls[h])])
         /\ kd = "STAILQ" /\ ls[h] # << >> =>
              LinkInv(kd, Freed(STAILQ_REMOVE_HEAD(mem, h), {Head(ls[h])}), [ls EXCEPT ![h] = Tail(ls[h])])
         /\ kd = "SLIST" => \A i \in 1..Len(ls[h]) : i < Len(ls[h]) =>
              LinkInv(kd, Freed(SLIST_REMOVE_AFTER(mem, ls[h][i]), {ls[h][i + 1]}),
                      [ls EXCEPT ![h] = RemoveAt(ls[h], i + 1)])
         /\ kd = "STAILQ" => \A i \in 1..Len(ls[h]) : i < Len(ls[h]) =>
              LinkInv(kd, Freed(STAILQ_REMOVE_AFTER(mem, h, ls[h][i]), {ls[h][i + 1]}),
                      [ls EXCEPT ![h] = RemoveAt(ls[h], i + 1)])
         /\ kd = "STAILQ" => \A i \in 1..Len(ls[h]) :
              LinkInv(kd, Freed(STAILQ_REMOVE_HEAD_UNTIL(mem, h, ls[h][i]), ToSet(SubSeq(ls[h], 1, i))),
                      [ls EXCEPT ![h] = SubSeq(ls[h], i + 1, Len(ls[h]))])
<1>0. PICK s : s = ls[h]
  OBVIOUS
<1>1. Memory(mem) /\ kd \in Kinds /\ s \in Seq(Elems) /\ Distinct(s) /\ Links(kd, mem, s, h)
  BY <1>0, Zenon DEF LinkInv, Apart
<1>2. ASSUME NEW i \in 1..Len(s)
      PROVE  /\ Within({s[i]}, s, i, i) /\ i \in i..Len(s) /\ Removed(s, RemoveAt(s, i), i, i)
             /\ i = 1 => s[i] = Head(s) /\ Removed(s, Tail(s), 1, 1)
  <2>1. i \in i..i /\ i \in i..Len(s)
    BY <1>1
  <2>2. Within({s[i]}, s, i, i)
    BY <2>1, Zenon DEF Within
  <2>3. i = 1 => s[i] = Head(s) /\ s # << >>
    BY <1>1
  <2> QED
    BY <1>1, <2>1, <2>2, <2>3, RemoveShapes, Zenon
<1>3. ASSUME NEW i \in 1..Len(s), NEW a, a = Stop(kd, s, h, i - 1)
      PROVE  /\ i = 1 => a = h
             /\ i # 1 => a = s[i - 1]
             /\ kd = "SLIST" /\ i = 1 => Closed(kd, mem, SLIST_REMOVE_HEAD(mem, h), h, a, Stop(kd, s, h, i + 1), {})
             /\ kd = "SLIST" => Closed(kd, mem, SLIST_REMOVE_AFTER(mem, a), h, a, Stop(kd, s, h, i + 1), {})
             /\ kd = "STAILQ" /\ i = 1 => Closed(kd, mem, STAILQ_REMOVE_HEAD(mem, h), h, a, Stop(kd, s, h, i + 1), {})
             /\ kd = "STAILQ" => Closed(kd, mem, STAILQ_REMOVE_AFTER(mem, h, a), h, a, Stop(kd, s, h, i + 1), {})
  <2>0. PICK b, e : b = Stop(kd, s, h, i + 1) /\ e = s[i]
    OBVIOUS
  <2>1. i \in 1..Len(ls[h]) /\ a = Stop(kd, ls[h], h, i - 1) /\ b = Stop(kd, ls[h], h, i + 1) /\ e = ls[h][i]
    BY <1>0, <1>3, <2>0, Zenon
  <2>2. /\ Between(kd, mem, h, a, e) /\ Between(kd, mem, h, e, b)
        /\ e \in Elems /\ e # a /\ e # b
        /\ (i = 1 => a = h) /\ (i # 1 => a = ls[h][i - 1])
    <3>1. At(kd, mem, ls[h], h, i, Stop(kd, ls[h], h, i - 1), Stop(kd, ls[h], h, i + 1), ls[h][i])
      BY <2>1, ElementAt, Zenon
    <3>2. At(kd, mem, ls[h], h, i, a, b, e)
      BY <2>1, <3>1, Zenon
    <3> QED
      BY <3>2, Zenon DEF At
  <2>3. /\ kd = "SLIST" /\ a = h => Closed(kd, mem, SLIST_REMOVE_HEAD(mem, h), h, a, b, {})
        /\ kd = "SLIST" => Closed(kd, mem, SLIST_REMOVE_AFTER(mem, a), h, a, b, {})
        /\ kd = "STAILQ" /\ a = h => Closed(kd, mem, STAILQ_REMOVE_HEAD(mem, h), h, a, b, {})
        /\ kd = "STAILQ" => Closed(kd, mem, STAILQ_REMOVE_AFTER(mem, h, a), h, a, b, {})
    BY <1>1, <2>2, Removes
  <2> QED
    BY <1>0, <2>0, <2>2, <2>3, Zenon
<1>4. ASSUME NEW p \in 1..Len(s), NEW q \in p..Len(s), NEW gone, Within(gone, s, p, q), NEW mem2,
             Closed(kd, mem, mem2, h, Stop(kd, s, h, p - 1), Stop(kd, s, h, q + 1), {}),
             NEW s2, Removed(s, s2, p, q)
      PROVE  LinkInv(kd, Freed(mem2, gone), [ls EXCEPT ![h] = s2])
  <2>1. /\ p \in 1..Len(ls[h]) /\ q \in p..Len(ls[h]) /\ Within(gone, ls[h], p, q) /\ Removed(ls[h], s2, p, q)
        /\ Closed(kd, mem, mem2, h, Stop(kd, ls[h], h, p - 1), Stop(kd, ls[h], h, q + 1), {})
    BY <1>0, <1>4, Zenon
  <2> QED
    BY <2>1, FreedKeeps, Zenon
<1>5. ASSUME s # << >>, NEW mem2, Closed(kd, mem, mem2, h, Stop(kd, s, h, 0), Stop(kd, s, h, 2), {})
      PROVE  LinkInv(kd, Freed(mem2, {Head(s)}), [ls EXCEPT ![h] = Tail(s)])
  <2>1. 1 \in 1..Len(s) /\ 1 - 1 = 0 /\ 1 + 1 = 2
    BY <1>1, <1>5
  <2>2. Within({Head(s)}, s, 1, 1) /\ 1 \in 1..Len(s) /\ Removed(s, Tail(s), 1, 1)
    BY <1>2, <2>1, Zenon
  <2>3. Closed(kd, mem, mem2, h, Stop(kd, s, h, 1 - 1), Stop(kd, s, h, 1 + 1), {})
    BY <1>5, <2>1, Zenon
  <2> QED
    BY <1>4, <2>1, <2>2, <2>3, Zenon
<1>6. ASSUME s # << >>, NEW a, a = Stop(kd, s, h, 0)
      PROVE  /\ kd = "SLIST" => LinkInv(kd, Freed(SLIST_REMOVE_HEAD(mem, h), {Head(s)}), [ls EXCEPT ![h] = Tail(s)])
             /\ kd = "STAILQ" => LinkInv(kd, Freed(STAILQ_REMOVE_HEAD(mem, h), {Head(s)}), [ls EXCEPT ![h] = Tail(s)])
  <2>1. 1 \in 1..Len(s) /\ 1 - 1 = 0 /\ 1 + 1 = 2
    BY <1>1, <1>6
  <2>2. a = Stop(kd, s, h, 1 - 1)
    BY <1>6, <2>1, Zenon
  <2>3. /\ kd = "SLIST" => Closed(kd, mem, SLIST_REMOVE_HEAD(mem, h), h, a, Stop(kd, s, h, 1 + 1), {})
        /\ kd = "STAILQ" => Closed(kd, mem, STAILQ_REMOVE_HEAD(mem, h), h, a, Stop(kd, s, h, 1 + 1), {})
    BY <1>3, <2>1, <2>2, Zenon
  <2> QED
    BY <1>5, <1>6, <2>1, <2>3, Zenon
<1>7. ASSUME NEW i \in 1..Len(s), i < Len(s)
      PROVE  /\ kd = "SLIST" => LinkInv(kd, Freed(SLIST_REMOVE_AFTER(mem, s[i]), {s[i + 1]}),
                                        [ls EXCEPT ![h] = RemoveAt(s, i + 1)])
             /\ kd = "STAILQ" => LinkInv(kd, Freed(STAILQ_REMOVE_AFTER(mem, h, s[i]), {s[i + 1]}),
                                         [ls EXCEPT ![h] = RemoveAt(s, i + 1)])
  <2>0. PICK j, a : j = i + 1 /\ a = Stop(kd, s, h, j - 1)
    OBVIOUS
  <2>1. j \in 1..Len(s) /\ j # 1 /\ j - 1 = i
    BY <1>1, <1>7, <2>0
  <2>2. /\ a = s[i]
        /\ kd = "SLIST" => Closed(kd, mem, SLIST_REMOVE_AFTER(mem, a), h, a, Stop(kd, s, h, j + 1), {})
        /\ kd = "STAILQ" => Closed(kd, mem, STAILQ_REMOVE_AFTER(mem, h, a), h, a, Stop(kd, s, h, j + 1), {})
    BY <1>3, <2>0, <2>1, Zenon
  <2>3. Within({s[j]}, s, j, j) /\ j \in j..Len(s) /\ Removed(s, RemoveAt(s, j), j, j)
    BY <1>2, <2>1, Zenon
  <2> QED
    BY <1>4, <2>0, <2>1, <2>2, <2>3, Zenon
<1>8. ASSUME kd = "STAILQ", NEW i \in 1..Len(s)
      PROVE  LinkInv(kd, Freed(STAILQ_REMOVE_HEAD_UNTIL(mem, h, s[i]), ToSet(SubSeq(s, 1, i))),
                     [ls EXCEPT ![h] = SubSeq(s, i + 1, Len(s))])
  <2>0. PICK a, b, e : a = Stop(kd, ls[h], h, i - 1) /\ b = Stop(kd, ls[h], h, i + 1) /\ e = ls[h][i]
    OBVIOUS
  <2>1. i \in 1..Len(ls[h])
    BY <1>0, Zenon
  <2>2. e \in Elems /\ Between(kd, mem, h, e, b)
    <3>1. At(kd, mem, ls[h], h, i, Stop(kd, ls[h], h, i - 1), Stop(kd, ls[h], h, i + 1), ls[h][i])
      BY <2>1, ElementAt, Zenon
    <3>2. At(kd, mem, ls[h], h, i, a, b, e)
      BY <2>0, <3>1, Zenon
    <3> QED
      BY <3>2, Zenon DEF At
  <2>3. Closed(kd, mem, STAILQ_REMOVE_HEAD_UNTIL(mem, h, e), h, h, b, {})
    BY <1>1, <1>8, <2>2, RemovesUntil, Zenon
  <2>4. 1 \in 1..Len(s) /\ 1 - 1 = 0 /\ i \in 1..Len(s)
    BY <1>1
  <2>5. Stop(kd, s, h, 1 - 1) = h
    BY <2>4 DEF Stop
  <2>6. Closed(kd, mem, STAILQ_REMOVE_HEAD_UNTIL(mem, h, s[i]), h, Stop(kd, s, h, 1 - 1), Stop(kd, s, h, i + 1), {})
    BY <1>0, <2>0, <2>3, <2>5, Zenon
  <2>7. Removed(s, SubSeq(s, i + 1, Len(s)), 1, i)
    BY <1>1, RemoveShapes, Zenon
  <2>8. Within(ToSet(SubSeq(s, 1, i)), s, 1, i)
    <3>1. PICK u : u = SubSeq(s, 1, i)
      OBVIOUS
    <3>2. DOMAIN u = 1..i /\ \A k \in 1..i : u[k] = s[k]
      BY <1>1, <3>1
    <3>3. ToSet(u) = {s[k] : k \in 1..i}
      BY <3>2 DEF ToSet
    <3>4. Within(ToSet(u), s, 1, i)
      BY <3>3 DEF Within
    <3> QED
      BY <3>1, <3>4, Zenon
  <2> QED
    BY <1>4, <2>4, <2>6, <2>7, <2>8, Zenon
<1> QED
  BY <1>0, <1>6, <1>7, <1>8, Zenon

\* The insertion macros of a kind.
InsertHeadOf(kd, mem, h, e) ==
  CASE kd = "SLIST"   -> SLIST_INSERT_HEAD(mem, h, e)
    [] kd = "LIST"    -> LIST_INSERT_HEAD(mem, h, e)
    [] kd = "STAILQ"  -> STAILQ_INSERT_HEAD(mem, h, e)
    [] kd = "TAILQ"   -> TAILQ_INSERT_HEAD(mem, h, e)
    [] kd = "CIRCLEQ" -> CIRCLEQ_INSERT_HEAD(mem, h, e)
InsertAfterOf(kd, mem, h, l, e) ==
  CASE kd = "SLIST"   -> SLIST_INSERT_AFTER(mem, l, e)
    [] kd = "LIST"    -> LIST_INSERT_AFTER(mem, l, e)
    [] kd = "STAILQ"  -> STAILQ_INSERT_AFTER(mem, h, l, e)
    [] kd = "TAILQ"   -> TAILQ_INSERT_AFTER(mem, h, l, e)
    [] kd = "CIRCLEQ" -> CIRCLEQ_INSERT_AFTER(mem, h, l, e)
InsertBeforeOf(kd, mem, h, l, e) ==
  CASE kd = "LIST"    -> LIST_INSERT_BEFORE(mem, l, e)
    [] kd = "TAILQ"   -> TAILQ_INSERT_BEFORE(mem, l, e)
    [] kd = "CIRCLEQ" -> CIRCLEQ_INSERT_BEFORE(mem, h, l, e)
InsertTailOf(kd, mem, h, e) ==
  CASE kd = "STAILQ"  -> STAILQ_INSERT_TAIL(mem, h, e)
    [] kd = "TAILQ"   -> TAILQ_INSERT_TAIL(mem, h, e)
    [] kd = "CIRCLEQ" -> CIRCLEQ_INSERT_TAIL(mem, h, e)

\* What each of them does to memory.
LEMMA InsertJoins ==
  ASSUME NEW kd \in Kinds, NEW mem, Memory(mem), NEW h \in Heads, NEW a, NEW b, NEW e \in Elems, e # a, e # b,
         Between(kd, mem, h, a, b)
  PROVE  /\ a = h => Joined(kd, mem, InsertHeadOf(kd, mem, h, e), h, a, b, e, {})
         /\ Joined(kd, mem, InsertAfterOf(kd, mem, h, a, e), h, a, b, e, {})
         /\ kd \in TwoWay /\ b \in Elems => Joined(kd, mem, InsertBeforeOf(kd, mem, h, b, e), h, a, b, e, {})
         /\ kd \in WithLast /\ b \notin Elems => Joined(kd, mem, InsertTailOf(kd, mem, h, e), h, a, b, e, {})
<1>1. CASE kd = "SLIST"
  <2>1. /\ InsertHeadOf(kd, mem, h, e) = SLIST_INSERT_HEAD(mem, h, e)
        /\ InsertAfterOf(kd, mem, h, a, e) = SLIST_INSERT_AFTER(mem, a, e)
        /\ kd \notin TwoWay /\ kd \notin WithLast
    BY <1>1 DEF InsertHeadOf, InsertAfterOf, TwoWay, WithLast
  <2>2. Between("SLIST", mem, h, a, b)
    BY <1>1
  <2>3. /\ a = h => Joined("SLIST", mem, SLIST_INSERT_HEAD(mem, h, e), h, a, b, e, {})
        /\ Joined("SLIST", mem, SLIST_INSERT_AFTER(mem, a, e), h, a, b, e, {})
    BY <2>2, SlistInserts
  <2> QED
    BY <1>1, <2>1, <2>3, Zenon
<1>2. CASE kd = "LIST"
  <2>1. /\ InsertHeadOf(kd, mem, h, e) = LIST_INSERT_HEAD(mem, h, e)
        /\ InsertAfterOf(kd, mem, h, a, e) = LIST_INSERT_AFTER(mem, a, e)
        /\ InsertBeforeOf(kd, mem, h, b, e) = LIST_INSERT_BEFORE(mem, b, e)
        /\ kd \notin WithLast
    BY <1>2 DEF InsertHeadOf, InsertAfterOf, InsertBeforeOf, WithLast
  <2>2. Between("LIST", mem, h, a, b)
    BY <1>2
  <2>3. /\ a = h => Joined("LIST", mem, LIST_INSERT_HEAD(mem, h, e), h, a, b, e, {})
        /\ Joined("LIST", mem, LIST_INSERT_AFTER(mem, a, e), h, a, b, e, {})
        /\ b \in Elems => Joined("LIST", mem, LIST_INSERT_BEFORE(mem, b, e), h, a, b, e, {})
    BY <2>2, ListInserts
  <2> QED
    BY <1>2, <2>1, <2>3, Zenon
<1>3. CASE kd = "STAILQ"
  <2>1. /\ InsertHeadOf(kd, mem, h, e) = STAILQ_INSERT_HEAD(mem, h, e)
        /\ InsertAfterOf(kd, mem, h, a, e) = STAILQ_INSERT_AFTER(mem, h, a, e)
        /\ InsertTailOf(kd, mem, h, e) = STAILQ_INSERT_TAIL(mem, h, e)
        /\ kd \notin TwoWay
    BY <1>3 DEF InsertHeadOf, InsertAfterOf, InsertTailOf, TwoWay
  <2>2. Between("STAILQ", mem, h, a, b)
    BY <1>3
  <2>3. /\ a = h => Joined("STAILQ", mem, STAILQ_INSERT_HEAD(mem, h, e), h, a, b, e, {})
        /\ Joined("STAILQ", mem, STAILQ_INSERT_AFTER(mem, h, a, e), h, a, b, e, {})
        /\ b \notin Elems => Joined("STAILQ", mem, STAILQ_INSERT_TAIL(mem, h, e), h, a, b, e, {})
    BY <2>2, StailqInserts
  <2> QED
    BY <1>3, <2>1, <2>3, Zenon
<1>4. CASE kd = "TAILQ"
  <2>1. /\ InsertHeadOf(kd, mem, h, e) = TAILQ_INSERT_HEAD(mem, h, e)
        /\ InsertAfterOf(kd, mem, h, a, e) = TAILQ_INSERT_AFTER(mem, h, a, e)
        /\ InsertBeforeOf(kd, mem, h, b, e) = TAILQ_INSERT_BEFORE(mem, b, e)
        /\ InsertTailOf(kd, mem, h, e) = TAILQ_INSERT_TAIL(mem, h, e)
    BY <1>4 DEF InsertHeadOf, InsertAfterOf, InsertBeforeOf, InsertTailOf
  <2>2. Between("TAILQ", mem, h, a, b)
    BY <1>4
  <2>3. /\ a = h => Joined("TAILQ", mem, TAILQ_INSERT_HEAD(mem, h, e), h, a, b, e, {})
        /\ Joined("TAILQ", mem, TAILQ_INSERT_AFTER(mem, h, a, e), h, a, b, e, {})
        /\ b \in Elems => Joined("TAILQ", mem, TAILQ_INSERT_BEFORE(mem, b, e), h, a, b, e, {})
        /\ b \notin Elems => Joined("TAILQ", mem, TAILQ_INSERT_TAIL(mem, h, e), h, a, b, e, {})
    BY <2>2, TailqInserts
  <2> QED
    BY <1>4, <2>1, <2>3, Zenon
<1>5. CASE kd = "CIRCLEQ"
  <2>1. /\ InsertHeadOf(kd, mem, h, e) = CIRCLEQ_INSERT_HEAD(mem, h, e)
        /\ InsertAfterOf(kd, mem, h, a, e) = CIRCLEQ_INSERT_AFTER(mem, h, a, e)
        /\ InsertBeforeOf(kd, mem, h, b, e) = CIRCLEQ_INSERT_BEFORE(mem, h, b, e)
        /\ InsertTailOf(kd, mem, h, e) = CIRCLEQ_INSERT_TAIL(mem, h, e)
    BY <1>5 DEF InsertHeadOf, InsertAfterOf, InsertBeforeOf, InsertTailOf
  <2>2. Between("CIRCLEQ", mem, h, a, b)
    BY <1>5
  <2>3. /\ a = h => Joined("CIRCLEQ", mem, CIRCLEQ_INSERT_HEAD(mem, h, e), h, a, b, e, {})
        /\ Joined("CIRCLEQ", mem, CIRCLEQ_INSERT_AFTER(mem, h, a, e), h, a, b, e, {})
        /\ b \in Elems => Joined("CIRCLEQ", mem, CIRCLEQ_INSERT_BEFORE(mem, h, b, e), h, a, b, e, {})
        /\ b \notin Elems => Joined("CIRCLEQ", mem, CIRCLEQ_INSERT_TAIL(mem, h, e), h, a, b, e, {})
    BY <2>2, CircleqInserts
  <2> QED
    BY <1>5, <2>1, <2>3, Zenon
<1> QED
  BY <1>1, <1>2, <1>3, <1>4, <1>5, Zenon DEF Kinds

\* The REPLACE macro of a kind.
ReplaceOf(kd, mem, h, old, e) == IF kd = "LIST" THEN LIST_REPLACE(mem, old, e) ELSE TAILQ_REPLACE(mem, h, old, e)

\* The insertions and replacements keep the invariant.
LEMMA InsertKeeps ==
  ASSUME NEW kd, NEW mem, NEW ls, LinkInv(kd, mem, ls), NEW h \in Heads, NEW e, Unlisted(ls, e)
  PROVE  /\ LinkInv(kd, InsertHeadOf(kd, mem, h, e), [ls EXCEPT ![h] = <<e>> \o ls[h]])
         /\ \A i \in 1..Len(ls[h]) :
              LinkInv(kd, InsertAfterOf(kd, mem, h, ls[h][i], e), [ls EXCEPT ![h] = InsertAt(ls[h], i + 1, e)])
         /\ kd \in TwoWay => \A i \in 1..Len(ls[h]) :
              LinkInv(kd, InsertBeforeOf(kd, mem, h, ls[h][i], e), [ls EXCEPT ![h] = InsertAt(ls[h], i, e)])
         /\ kd \in WithLast =>
              LinkInv(kd, InsertTailOf(kd, mem, h, e), [ls EXCEPT ![h] = Append(ls[h], e)])
         /\ kd \in {"LIST", "TAILQ"} => \A i \in 1..Len(ls[h]) :
              LinkInv(kd, Freed(ReplaceOf(kd, mem, h, ls[h][i], e), {ls[h][i]}),
                      [ls EXCEPT ![h] = [ls[h] EXCEPT ![i] = e]])
<1>0. PICK s : s = ls[h]
  OBVIOUS
<1>1. /\ Memory(mem) /\ kd \in Kinds /\ s \in Seq(Elems) /\ Distinct(s) /\ Links(kd, mem, s, h)
      /\ e \in Elems /\ ~In(e, s)
  BY <1>0, Zenon DEF LinkInv, Apart, Unlisted
<1>2. PICK n \in Nat : n = Len(s)
  BY <1>1
<1> DEFINE S(k) == Stop(kd, s, h, k)
<1>3. /\ \A k \in 1..n : S(k) = s[k] /\ s[k] \in Elems
      /\ S(0) = h /\ S(n + 1) = EndOf(kd, h)
  <2>1. /\ \A k \in 1..Len(s) : S(k) = s[k] /\ s[k] \in Elems
        /\ S(0) = h /\ S(Len(s) + 1) = EndOf(kd, h)
    BY <1>1, StopsApart
  <2> QED
    BY <1>2, <2>1, Zenon
<1>4. h # e /\ EndOf(kd, h) # e /\ EndOf(kd, h) \notin Elems
  BY <1>1, NodesApart
<1>5. \A k \in 0..(n + 1) : S(k) # e
  <2>1. \A k \in 0..(n + 1) : k = 0 \/ k \in 1..n \/ k = n + 1
    OBVIOUS
  <2>2. \A k \in 1..n : s[k] # e
    BY <1>1, <1>2, Zenon DEF In
  <2> QED
    BY <1>3, <1>4, <2>1, <2>2, Zenon
<1>6. ASSUME NEW k \in 0..n PROVE Between(kd, mem, h, S(k), S(k + 1))
  <2>1. k \in 0..Len(s)
    BY <1>2, Zenon
  <2> QED
    BY <1>1, <2>1, StopsBetween, Zenon
<1>7. ASSUME NEW p \in 1..(n + 1), NEW q \in (p - 1)..n, NEW gone, Within(gone, s, p, q), NEW mem2,
             Joined(kd, mem, mem2, h, S(p - 1), S(q + 1), e, gone),
             NEW s2, Replaced(s, s2, p, q, e)
      PROVE  LinkInv(kd, mem2, [ls EXCEPT ![h] = s2])
  <2>1. /\ p \in 1..(Len(ls[h]) + 1) /\ q \in (p - 1)..Len(ls[h]) /\ Within(gone, ls[h], p, q)
        /\ Joined(kd, mem, mem2, h, Stop(kd, ls[h], h, p - 1), Stop(kd, ls[h], h, q + 1), e, gone)
        /\ Replaced(ls[h], s2, p, q, e)
    BY <1>0, <1>2, <1>7, Zenon
  <2> QED
    BY <2>1, JoinedKeeps, Zenon
<1> HIDE DEF S
<1>8. ASSUME NEW k \in 0..n
      PROVE  /\ S(k) = h => Joined(kd, mem, InsertHeadOf(kd, mem, h, e), h, S(k), S(k + 1), e, {})
             /\ Joined(kd, mem, InsertAfterOf(kd, mem, h, S(k), e), h, S(k), S(k + 1), e, {})
             /\ kd \in TwoWay /\ S(k + 1) \in Elems =>
                  Joined(kd, mem, InsertBeforeOf(kd, mem, h, S(k + 1), e), h, S(k), S(k + 1), e, {})
             /\ kd \in WithLast /\ S(k + 1) \notin Elems =>
                  Joined(kd, mem, InsertTailOf(kd, mem, h, e), h, S(k), S(k + 1), e, {})
  <2>1. k \in 0..(n + 1) /\ k + 1 \in 0..(n + 1)
    OBVIOUS
  <2>2. S(k) # e /\ S(k + 1) # e
    BY <1>5, <2>1, Zenon
  <2> QED
    BY <1>1, <1>6, <2>2, InsertJoins
<1>9. ASSUME NEW k \in 0..n, NEW mem2, Joined(kd, mem, mem2, h, S(k), S(k + 1), e, {}),
             NEW s2, Replaced(s, s2, k + 1, k, e)
      PROVE  LinkInv(kd, mem2, [ls EXCEPT ![h] = s2])
  <2>1. PICK p : p = k + 1
    OBVIOUS
  <2>2. p \in 1..(n + 1) /\ k \in (p - 1)..n /\ p - 1 = k
    BY <2>1
  <2>3. Within({}, s, p, k)
    BY DEF Within
  <2> QED
    BY <1>7, <1>9, <2>1, <2>2, <2>3, Zenon
<1>10. LinkInv(kd, InsertHeadOf(kd, mem, h, e), [ls EXCEPT ![h] = <<e>> \o s])
  <2>1. 0 \in 0..n /\ 0 + 1 = 1
    OBVIOUS
  <2>2. Replaced(s, <<e>> \o s, 0 + 1, 0, e)
    BY <1>1, <2>1, InsertShapes, Zenon
  <2> QED
    BY <1>3, <1>8, <1>9, <2>1, <2>2, Zenon
<1>11. ASSUME NEW i \in 1..n
       PROVE  LinkInv(kd, InsertAfterOf(kd, mem, h, s[i], e), [ls EXCEPT ![h] = InsertAt(s, i + 1, e)])
  <2>1. i \in 0..n /\ i + 1 \in 1..(n + 1) /\ (i + 1) - 1 = i
    OBVIOUS
  <2>2. \A j \in 1..(n + 1) : Replaced(s, InsertAt(s, j, e), j, j - 1, e)
    BY <1>1, <1>2, InsertShapes, Zenon
  <2>3. Replaced(s, InsertAt(s, i + 1, e), i + 1, i, e)
    BY <2>1, <2>2
  <2> QED
    BY <1>3, <1>8, <1>9, <2>1, <2>3, Zenon
<1>12. ASSUME kd \in TwoWay, NEW i \in 1..n
       PROVE  LinkInv(kd, InsertBeforeOf(kd, mem, h, s[i], e), [ls EXCEPT ![h] = InsertAt(s, i, e)])
  <2>0. PICK j : j = i - 1
    OBVIOUS
  <2>1. j \in 0..n /\ j + 1 = i /\ i \in 1..(n + 1)
    BY <2>0
  <2>2. \A k \in 1..(n + 1) : Replaced(s, InsertAt(s, k, e), k, k - 1, e)
    BY <1>1, <1>2, InsertShapes, Zenon
  <2>3. Replaced(s, InsertAt(s, i, e), j + 1, j, e)
    BY <2>0, <2>1, <2>2, Zenon
  <2>4. S(j + 1) = s[i] /\ s[i] \in Elems
    BY <1>3, <2>1, Zenon
  <2>5. Joined(kd, mem, InsertBeforeOf(kd, mem, h, S(j + 1), e), h, S(j), S(j + 1), e, {})
    BY <1>8, <1>12, <2>1, <2>4, Zenon
  <2> QED
    BY <1>9, <2>1, <2>3, <2>4, <2>5, Zenon
<1>13. ASSUME kd \in WithLast PROVE LinkInv(kd, InsertTailOf(kd, mem, h, e), [ls EXCEPT ![h] = Append(s, e)])
  <2>1. n \in 0..n
    OBVIOUS
  <2>2. Replaced(s, Append(s, e), n + 1, n, e)
    BY <1>1, <1>2, InsertShapes, Zenon
  <2>3. S(n + 1) \notin Elems
    BY <1>3, <1>4, Zenon
  <2>4. Joined(kd, mem, InsertTailOf(kd, mem, h, e), h, S(n), S(n + 1), e, {})
    BY <1>8, <1>13, <2>1, <2>3, Zenon
  <2> QED
    BY <1>9, <2>1, <2>2, <2>4, Zenon
<1>14. ASSUME kd \in {"LIST", "TAILQ"}, NEW i \in 1..n
       PROVE  LinkInv(kd, Freed(ReplaceOf(kd, mem, h, s[i], e), {s[i]}), [ls EXCEPT ![h] = [s EXCEPT ![i] = e]])
  <2>0. PICK a, b, old : a = S(i - 1) /\ b = S(i + 1) /\ old = s[i]
    OBVIOUS
  <2>1. At(kd, mem, s, h, i, a, b, old)
    <3>1. i \in 1..Len(ls[h])
      BY <1>0, <1>2, Zenon
    <3>2. At(kd, mem, ls[h], h, i, Stop(kd, ls[h], h, i - 1), Stop(kd, ls[h], h, i + 1), ls[h][i])
      BY <3>1, ElementAt, Zenon
    <3> QED
      BY <1>0, <2>0, <3>2, Zenon DEF S
  <2>2. /\ Between(kd, mem, h, a, old) /\ Between(kd, mem, h, old, b)
        /\ old \in Elems /\ old # a /\ old # b
    BY <2>1, Zenon DEF At
  <2>3. i - 1 \in 0..(n + 1) /\ i + 1 \in 0..(n + 1) /\ i \in 1..(n + 1) /\ i \in (i - 1)..n /\ i \in i..i
    OBVIOUS
  <2>4. e # a /\ e # b /\ e # old
    <3>1. e # a /\ e # b
      BY <1>5, <2>0, <2>3, Zenon
    <3>2. e # old
      BY <1>1, <1>2, <2>0, Zenon DEF In
    <3> QED
      BY <3>1, <3>2
  <2>5. /\ kd = "LIST" => Joined(kd, mem, LIST_REPLACE(mem, old, e), h, a, b, e, {})
        /\ kd = "TAILQ" => Joined(kd, mem, TAILQ_REPLACE(mem, h, old, e), h, a, b, e, {})
    BY <1>1, <2>2, <2>4, Replaces
  <2>6. Joined(kd, mem, ReplaceOf(kd, mem, h, old, e), h, a, b, e, {})
    BY <1>14, <2>5 DEF ReplaceOf
  <2>7. {old} \in SUBSET Elems
    BY <2>2
  <2>8. Joined(kd, mem, Freed(ReplaceOf(kd, mem, h, old, e), {old}), h, a, b, e, {old})
    BY <2>6, <2>7, FreesOnly, Zenon
  <2>9. Within({old}, s, i, i)
    BY <2>0, <2>3, Zenon DEF Within
  <2>10. Replaced(s, [s EXCEPT ![i] = e], i, i, e)
    BY <1>1, <1>2, InsertShapes, Zenon
  <2>11. LinkInv(kd, Freed(ReplaceOf(kd, mem, h, old, e), {old}), [ls EXCEPT ![h] = [s EXCEPT ![i] = e]])
    BY <1>7, <2>0, <2>3, <2>8, <2>9, <2>10, Zenon
  <2> QED
    BY <2>0, <2>11, Zenon
<1> QED
  BY <1>0, <1>2, <1>10, <1>11, <1>12, <1>13, <1>14, Zenon

-----------------------------------------------------------------------------
(* Going backwards                                                         *)

\* The reverse of a list.
LEMMA ReverseIs ==
  ASSUME NEW s \in Seq(Elems), Distinct(s)
  PROVE  /\ Reverse(s) \in Seq(Elems) /\ Len(Reverse(s)) = Len(s) /\ Distinct(Reverse(s))
         /\ \A k \in 1..Len(s) : Reverse(s)[k] = s[Len(s) - k + 1]
         /\ Reverse(s) = << >> <=> s = << >>
<1>0. PICK n \in Nat : n = Len(s)
  OBVIOUS
<1>1. PICK r : r = [i \in 1..n |-> s[(n - i) + 1]]
  OBVIOUS
<1>2. Reverse(s) = r
  BY <1>0, <1>1, Zenon DEF Reverse
<1>3. \A i \in 1..n : (n - i) + 1 \in 1..n /\ s[i] \in Elems
  BY <1>0
<1>4. r \in Seq(Elems) /\ Len(r) = n /\ \A k \in 1..n : r[k] = s[n - k + 1]
  BY <1>1, <1>3
<1>5. Distinct(r)
  <2> SUFFICES ASSUME NEW j \in 1..n, NEW k \in 1..n, r[j] = r[k] PROVE j = k
    BY <1>4, Zenon DEF Distinct
  <2>1. s[n - j + 1] = s[n - k + 1]
    BY <1>4, Zenon
  <2>2. n - j + 1 \in 1..n /\ n - k + 1 \in 1..n
    OBVIOUS
  <2>3. n - j + 1 = n - k + 1
    BY <1>0, <2>1, <2>2, Zenon DEF Distinct
  <2> QED
    BY <2>3
<1>6. r = << >> <=> s = << >>
  BY <1>0, <1>4
<1> QED
  BY <1>0, <1>2, <1>4, <1>5, <1>6, Zenon

\* The pointers of a list that knows both ways, as places in it.
Places(kd, mem, h, s, n) ==
  /\ mem.prev[h] = IF n = 0 THEN h ELSE s[n]
  /\ \A k \in 1..n : mem.prev[s[k]] = IF k = 1 THEN h ELSE s[k - 1]
  /\ mem.next[h] = IF n = 0 THEN EndOf(kd, h) ELSE s[1]
  /\ \A k \in 1..n : mem.next[s[k]] = IF k = n THEN EndOf(kd, h) ELSE s[k + 1]

\* They are those.
LEMMA PrevPlaces ==
  ASSUME NEW kd, kd \in TwoWay, kd \in WithLast, NEW mem, NEW h \in Heads, NEW s \in Seq(Elems), Distinct(s),
         Links(kd, mem, s, h), NEW n \in Nat, n = Len(s)
  PROVE  Places(kd, mem, h, s, n)
<1> DEFINE S(i) == Stop(kd, s, h, i)
<1>1. /\ \A i \in 1..n : S(i) = s[i]
      /\ S(0) = h /\ S(n + 1) = EndOf(kd, h)
  <2>1. /\ \A i \in 1..Len(s) : S(i) = s[i]
        /\ S(0) = h /\ S(Len(s) + 1) = EndOf(kd, h)
    BY StopsApart
  <2> QED
    BY <2>1, Zenon
<1>2. /\ \A i \in 1..n : mem.prev[s[i]] = S(i - 1)
      /\ mem.prev[h] = S(n)
  BY Zenon DEF Links
<1>3. Leads(s, mem.next[h], mem.next, EndOf(kd, h))
  BY LinksLead, Zenon
<1> HIDE DEF S
<1>4. mem.prev[h] = IF n = 0 THEN h ELSE s[n]
  <2>1. n # 0 => n \in 1..n
    OBVIOUS
  <2> QED
    BY <1>1, <1>2, <2>1, Zenon
<1>5. ASSUME NEW k \in 1..n PROVE mem.prev[s[k]] = IF k = 1 THEN h ELSE s[k - 1]
  <2>1. CASE k = 1
    BY <1>1, <1>2, <2>1
  <2>2. CASE k # 1
    <3>1. PICK j : j = k - 1
      OBVIOUS
    <3>2. j \in 1..n
      BY <2>2, <3>1
    <3> QED
      BY <1>1, <1>2, <2>2, <3>1, <3>2, Zenon
  <2> QED
    BY <2>1, <2>2
<1> QED
  BY <1>3, <1>4, <1>5, Zenon DEF Leads, Places

\* TAILQ_LAST and TAILQ_PREV.
LEMMA TailqBack ==
  ASSUME NEW mem, NEW h \in Heads, NEW s \in Seq(Elems), Distinct(s), Links("TAILQ", mem, s, h),
         NEW n \in Nat, n = Len(s)
  PROVE  /\ TAILQ_LAST(mem, h) = IF n = 0 THEN NULL ELSE s[n]
         /\ \A k \in 1..n : TAILQ_PREV(mem, s[k]) = IF k = 1 THEN NULL ELSE s[k - 1]
<1>0. EndOf("TAILQ", h) = NULL /\ "TAILQ" \in TwoWay /\ "TAILQ" \in WithLast
  BY DEF EndOf, TwoWay, WithLast
<1>1. /\ mem.prev[h] = IF n = 0 THEN h ELSE s[n]
      /\ \A k \in 1..n : mem.prev[s[k]] = IF k = 1 THEN h ELSE s[k - 1]
      /\ mem.next[h] = IF n = 0 THEN NULL ELSE s[1]
      /\ \A k \in 1..n : mem.next[s[k]] = IF k = n THEN NULL ELSE s[k + 1]
  <2>1. Places("TAILQ", mem, h, s, n)
    BY <1>0, PrevPlaces, Zenon
  <2> QED
    BY <1>0, <2>1, Zenon DEF Places
<1>2. \A k \in 1..n : mem.next[mem.prev[s[k]]] = s[k]
  <2> TAKE k \in 1..n
  <2>1. CASE k = 1
    <3>1. n # 0
      BY <2>1
    <3> QED
      BY <1>1, <2>1, <3>1, Zenon
  <2>2. CASE k # 1
    <3>1. PICK j : j = k - 1
      OBVIOUS
    <3>2. j \in 1..n /\ j # n /\ j + 1 = k
      BY <2>2, <3>1
    <3> QED
      BY <1>1, <2>2, <3>1, <3>2, Zenon
  <2> QED
    BY <2>1, <2>2
<1>3. TAILQ_LAST(mem, h) = IF n = 0 THEN NULL ELSE s[n]
  <2>1. n # 0 => n \in 1..n
    OBVIOUS
  <2> QED
    BY <1>1, <1>2, <2>1, Zenon DEF TAILQ_LAST
<1>4. ASSUME NEW k \in 1..n PROVE TAILQ_PREV(mem, s[k]) = IF k = 1 THEN NULL ELSE s[k - 1]
  <2>1. CASE k = 1
    <3>1. n # 0 /\ n \in 1..n
      BY <2>1
    <3>2. mem.next[mem.prev[h]] = NULL
      BY <1>1, <3>1, Zenon
    <3> QED
      BY <1>1, <2>1, <3>2, Zenon DEF TAILQ_PREV
  <2>2. CASE k # 1
    <3>1. PICK j : j = k - 1
      OBVIOUS
    <3>2. j \in 1..n
      BY <2>2, <3>1
    <3> QED
      BY <1>1, <1>2, <2>2, <3>1, <3>2, Zenon DEF TAILQ_PREV
  <2> QED
    BY <2>1, <2>2
<1> QED
  BY <1>3, <1>4

-----------------------------------------------------------------------------
(* A FOREACH_SAFE loop at an element                                       *)

\* The elements still to come are those behind place k of the list, or before
\* place j + 1 if the loop goes backwards.  The element the loop is at may have
\* been removed, and tvar is the next one.
ForwardAt(kd, s, h, k, v, t, todo) ==
  /\ Len(todo) = Len(s) - k + 1
  /\ \A x \in 1..(Len(s) - k) : todo[x + 1] = s[k + x]
  /\ t = IF k = Len(s) THEN EndOf(kd, h) ELSE s[k + 1]
  /\ \A i \in 1..Len(s) : s[i] = v => i = k
BackAt(s, j, v, t, todo) ==
  /\ Len(todo) = j + 1
  /\ \A x \in 1..j : todo[x + 1] = s[j + 1 - x]
  /\ t = IF j = 0 THEN NULL ELSE s[j]
  /\ \A i \in 1..Len(s) : s[i] = v => i = j + 1
LoopAt(kd, s, h, back, v, t, todo) ==
  /\ todo \in Seq(Elems)
  /\ todo = << >> => v = EndOf(kd, h) /\ t = EndOf(kd, h)
  /\ todo # << >> => v = todo[1]
  /\ back => kd = "TAILQ"
  /\ todo # << >> /\ ~back => \E k \in 0..Len(s) : ForwardAt(kd, s, h, k, v, t, todo)
  /\ todo # << >> /\ back => \E j \in 0..Len(s) : BackAt(s, j, v, t, todo)

\* What Follower reads for the list of head h.
FollowerOf(kd, mem, back, h, x) ==
  IF x = EndOf(kd, h) THEN EndOf(kd, h) ELSE IF back THEN TAILQ_PREV(mem, x) ELSE mem.next[x]

\* The follower of the element at place k of a list of n elements.
Follows(kd, mem, back, h, s, n) ==
  /\ FollowerOf(kd, mem, back, h, EndOf(kd, h)) = EndOf(kd, h)
  /\ ~back => \A k \in 1..n :
       FollowerOf(kd, mem, back, h, s[k]) = IF k = n THEN EndOf(kd, h) ELSE s[k + 1]
  /\ back => \A k \in 1..n : FollowerOf(kd, mem, back, h, s[k]) = IF k = 1 THEN NULL ELSE s[k - 1]

\* Follower reads the neighbour of the element.
LEMMA FollowerIs ==
  ASSUME NEW kd, NEW mem, NEW h \in Heads, NEW s \in Seq(Elems), Distinct(s), Links(kd, mem, s, h),
         NEW n \in Nat, n = Len(s), NEW back \in BOOLEAN, back => kd = "TAILQ"
  PROVE  Follows(kd, mem, back, h, s, n)
<1>1. \A k \in 1..n : s[k] # EndOf(kd, h)
  BY NodesApart
<1>2. \A k \in 1..n : mem.next[s[k]] = IF k = n THEN EndOf(kd, h) ELSE s[k + 1]
  <2>1. Leads(s, mem.next[h], mem.next, EndOf(kd, h))
    BY LinksLead, Zenon
  <2> QED
    BY <2>1, Zenon DEF Leads
<1>3. back => \A k \in 1..n : TAILQ_PREV(mem, s[k]) = IF k = 1 THEN NULL ELSE s[k - 1]
  <2> SUFFICES ASSUME back PROVE \A k \in 1..n : TAILQ_PREV(mem, s[k]) = IF k = 1 THEN NULL ELSE s[k - 1]
    OBVIOUS
  <2>1. Links("TAILQ", mem, s, h)
    OBVIOUS
  <2> QED
    BY <2>1, TailqBack, ZenonT(60)
<1> QED
  BY <1>1, <1>2, <1>3, Zenon DEF FollowerOf, Follows

\* The loop starts at the first element, or at the last.
LEMMA LoopStarts ==
  ASSUME NEW kd, NEW mem, NEW h \in Heads, NEW s \in Seq(Elems), Distinct(s), Links(kd, mem, s, h),
         NEW back \in BOOLEAN, back => kd = "TAILQ", NEW v, v = IF back THEN TAILQ_LAST(mem, h) ELSE mem.next[h],
         NEW todo, todo = IF back THEN Reverse(s) ELSE s
  PROVE  LoopAt(kd, s, h, back, v, FollowerOf(kd, mem, back, h, v), todo)
<1>0. PICK n \in Nat : n = Len(s)
  OBVIOUS
<1>1. PICK t : t = FollowerOf(kd, mem, back, h, v)
  OBVIOUS
<1>2. /\ FollowerOf(kd, mem, back, h, EndOf(kd, h)) = EndOf(kd, h)
      /\ ~back => \A k \in 1..n :
           FollowerOf(kd, mem, back, h, s[k]) = IF k = n THEN EndOf(kd, h) ELSE s[k + 1]
      /\ back => \A k \in 1..n : FollowerOf(kd, mem, back, h, s[k]) = IF k = 1 THEN NULL ELSE s[k - 1]
  <2>1. Follows(kd, mem, back, h, s, n)
    BY <1>0, FollowerIs, Zenon
  <2> QED
    BY <2>1, Zenon DEF Follows
<1>3. n = 0 <=> s = << >>
  BY <1>0
<1>d. \A j, k \in 1..n : s[j] = s[k] => j = k
  BY <1>0, Zenon DEF Distinct
<1>4. CASE ~back
  <2>1. todo = s
    BY <1>4
  <2>2. v = IF n = 0 THEN EndOf(kd, h) ELSE s[1]
    <3>1. Leads(s, mem.next[h], mem.next, EndOf(kd, h))
      BY LinksLead, Zenon
    <3> QED
      BY <1>0, <1>4, <3>1, Zenon DEF Leads
  <2>3. CASE n = 0
    BY <1>1, <1>2, <1>3, <1>4, <2>1, <2>2, <2>3, Zenon DEF LoopAt
  <2>4. CASE n # 0
    <3>1. 1 \in 1..n /\ 1 \in 0..n /\ n = n - 1 + 1 /\ \A x \in 1..(n - 1) : x + 1 = 1 + x
      BY <2>4
    <3>2. v = s[1] /\ t = IF 1 = n THEN EndOf(kd, h) ELSE s[1 + 1]
      BY <1>1, <1>2, <1>4, <2>2, <2>4, <3>1, Zenon
    <3>3. \A i \in 1..n : s[i] = v => i = 1
      BY <1>d, <3>1, <3>2, Zenon
    <3>4. ForwardAt(kd, s, h, 1, v, t, s)
      BY <1>0, <3>1, <3>2, <3>3, Zenon DEF ForwardAt
    <3>5. \E k \in 0..Len(s) : ForwardAt(kd, s, h, k, v, t, s)
      BY <1>0, <3>1, <3>4, Zenon
    <3>6. LoopAt(kd, s, h, back, v, t, s)
      BY <1>3, <1>4, <2>4, <3>2, <3>5, Zenon DEF LoopAt
    <3> QED
      BY <1>1, <2>1, <3>6, Zenon
  <2> QED
    BY <2>3, <2>4
<1>5. CASE back
  <2>1. todo = Reverse(s)
    BY <1>5
  <2>2. /\ todo \in Seq(Elems) /\ Len(todo) = n /\ \A k \in 1..n : todo[k] = s[n - k + 1]
        /\ todo = << >> <=> s = << >>
    <3>1. /\ Reverse(s) \in Seq(Elems) /\ Len(Reverse(s)) = Len(s)
          /\ \A k \in 1..Len(s) : Reverse(s)[k] = s[Len(s) - k + 1]
          /\ Reverse(s) = << >> <=> s = << >>
      BY ReverseIs
    <3> QED
      BY <1>0, <2>1, <3>1, Zenon
  <2>3. v = IF n = 0 THEN NULL ELSE s[n]
    <3>1. Links("TAILQ", mem, s, h) /\ v = TAILQ_LAST(mem, h)
      BY <1>5
    <3>2. TAILQ_LAST(mem, h) = IF n = 0 THEN NULL ELSE s[n]
      BY <1>0, <3>1, TailqBack
    <3> QED
      BY <3>1, <3>2, Zenon
  <2>4. EndOf(kd, h) = NULL
    BY <1>5 DEF EndOf
  <2>5. CASE n = 0
    BY <1>1, <1>2, <1>3, <1>5, <2>2, <2>3, <2>4, <2>5, Zenon DEF LoopAt
  <2>6. CASE n # 0
    <3>0. PICK j : j = n - 1
      OBVIOUS
    <3>1. /\ n \in 1..n /\ 1 \in 1..n /\ n - 1 + 1 = n /\ j \in 0..n /\ n = j + 1 /\ (n = 1 <=> j = 0)
          /\ \A x \in 1..j : x + 1 \in 1..n /\ n - (x + 1) + 1 = j + 1 - x
      BY <2>6, <3>0
    <3>2. v = s[n] /\ t = (IF j = 0 THEN NULL ELSE s[j]) /\ todo[1] = s[n]
      BY <1>1, <1>2, <1>5, <2>2, <2>3, <2>6, <3>0, <3>1, ZenonT(60)
    <3>3. \A i \in 1..n : s[i] = v => i = j + 1
      BY <1>d, <3>1, <3>2, Zenon
    <3>4. \A x \in 1..j : todo[x + 1] = s[j + 1 - x]
      BY <2>2, <3>1, Zenon
    <3>5. BackAt(s, j, v, t, todo)
      BY <1>0, <2>2, <3>1, <3>2, <3>3, <3>4, Zenon DEF BackAt
    <3>6. \E i \in 0..Len(s) : BackAt(s, i, v, t, todo)
      BY <1>0, <3>1, <3>5, Zenon
    <3>7. LoopAt(kd, s, h, back, v, t, todo)
      BY <1>3, <1>5, <2>2, <2>6, <3>2, <3>6, Zenon DEF LoopAt
    <3> QED
      BY <1>1, <3>7, Zenon
  <2> QED
    BY <2>5, <2>6
<1> QED
  BY <1>4, <1>5

\* The tail of a sequence, by its places.
LEMMA TailIs ==
  ASSUME NEW q \in Seq(Elems), NEW c \in Nat, Len(q) = c + 1
  PROVE  /\ Tail(q) \in Seq(Elems) /\ Len(Tail(q)) = c /\ \A x \in 1..c : Tail(q)[x] = q[x + 1]
         /\ Tail(q) = << >> <=> c = 0
<1>1. q # << >>
  OBVIOUS
<1>2. Tail(q) \in Seq(Elems) /\ Len(Tail(q)) = c /\ \A x \in 1..c : Tail(q)[x] = q[x + 1]
  BY <1>1
<1> QED
  BY <1>2

\* LoopNext goes to the next element, or to the end.
LEMMA LoopGoesOn ==
  ASSUME NEW kd, NEW mem, NEW h \in Heads, NEW s \in Seq(Elems), Distinct(s), Links(kd, mem, s, h),
         NEW back \in BOOLEAN, NEW v, NEW t, NEW todo, LoopAt(kd, s, h, back, v, t, todo), v # EndOf(kd, h)
  PROVE  LoopAt(kd, s, h, back, t, FollowerOf(kd, mem, back, h, t), Tail(todo))
<1>0. PICK n \in Nat : n = Len(s)
  OBVIOUS
<1>1. PICK t2 : t2 = FollowerOf(kd, mem, back, h, t)
  OBVIOUS
<1>2. todo \in Seq(Elems) /\ todo # << >> /\ (back => kd = "TAILQ")
  BY Zenon DEF LoopAt
<1>3. Follows(kd, mem, back, h, s, n)
  BY <1>0, <1>2, FollowerIs, Zenon
<1>4. PICK q : q = Tail(todo)
  OBVIOUS
<1>5. ASSUME NEW c \in Nat, Len(todo) = c + 1
      PROVE  q \in Seq(Elems) /\ Len(q) = c /\ (\A x \in 1..c : q[x] = todo[x + 1]) /\ (q = << >> <=> c = 0)
  <2>1. /\ Tail(todo) \in Seq(Elems) /\ Len(Tail(todo)) = c /\ \A x \in 1..c : Tail(todo)[x] = todo[x + 1]
        /\ Tail(todo) = << >> <=> c = 0
    BY <1>2, <1>5, TailIs
  <2> QED
    BY <1>4, <2>1, Zenon
<1>d. \A i, k \in 1..n : s[i] = s[k] => i = k
  BY <1>0, Zenon DEF Distinct
<1>6. CASE ~back
  <2>1. PICK k \in 0..n : ForwardAt(kd, s, h, k, v, t, todo)
    BY <1>0, <1>2, <1>6, Zenon DEF LoopAt
  <2>2. /\ Len(todo) = n - k + 1 /\ \A x \in 1..(n - k) : todo[x + 1] = s[k + x]
        /\ t = IF k = n THEN EndOf(kd, h) ELSE s[k + 1]
    BY <1>0, <2>1, Zenon DEF ForwardAt
  <2>3. PICK c \in Nat : c = n - k
    OBVIOUS
  <2>4. /\ Len(todo) = c + 1 /\ (c = 0 <=> k = n) /\ \A x \in 1..c : todo[x + 1] = s[k + x]
    <3>1. c = n - k /\ (c = 0 <=> k = n)
      BY <2>3
    <3> QED
      BY <2>2, <3>1, Zenon
  <2>5. q \in Seq(Elems) /\ Len(q) = c /\ (\A x \in 1..c : q[x] = todo[x + 1]) /\ (q = << >> <=> c = 0)
    BY <1>5, <2>4, Zenon
  <2>6. CASE k = n
    <3>1. t = EndOf(kd, h) /\ q = << >>
      BY <2>2, <2>4, <2>5, <2>6, Zenon
    <3>2. t2 = EndOf(kd, h)
      BY <1>1, <1>3, <3>1, Zenon DEF Follows
    <3>3. LoopAt(kd, s, h, back, t, t2, q)
      BY <1>2, <1>6, <2>5, <3>1, <3>2, Zenon DEF LoopAt
    <3> QED
      BY <1>1, <1>4, <3>3, Zenon
  <2>7. CASE k # n
    <3>0. PICK k2 \in 0..n : k2 = k + 1
      BY <2>7
    <3>1. /\ k2 \in 1..n /\ 1 \in 1..c /\ c = n - k2 + 1 /\ k + 1 = k2
          /\ \A x \in 1..(n - k2) : x + 1 \in 1..c /\ k + (x + 1) = k2 + x
      BY <2>3, <2>7, <3>0
    <3>2. t = s[k2] /\ q[1] = s[k2] /\ q # << >>
      BY <2>2, <2>4, <2>5, <2>7, <3>1, Zenon
    <3>3. t2 = IF k2 = n THEN EndOf(kd, h) ELSE s[k2 + 1]
      BY <1>1, <1>3, <1>6, <3>1, <3>2, Zenon DEF Follows
    <3>4. \A i \in 1..n : s[i] = t => i = k2
      BY <1>d, <3>1, <3>2, Zenon
    <3>5. \A x \in 1..(n - k2) : q[x + 1] = s[k2 + x]
      BY <2>4, <2>5, <3>1, ZenonT(60)
    <3>6. ForwardAt(kd, s, h, k2, t, t2, q)
      BY <1>0, <2>5, <3>1, <3>3, <3>4, <3>5, Zenon DEF ForwardAt
    <3>7. LoopAt(kd, s, h, back, t, t2, q)
      BY <1>0, <1>6, <2>5, <3>2, <3>6, Zenon DEF LoopAt
    <3> QED
      BY <1>1, <1>4, <3>7, Zenon
  <2> QED
    BY <2>6, <2>7
<1>7. CASE back
  <2>1. PICK j \in 0..n : BackAt(s, j, v, t, todo)
    BY <1>0, <1>2, <1>7, Zenon DEF LoopAt
  <2>2. /\ Len(todo) = j + 1 /\ \A x \in 1..j : todo[x + 1] = s[j + 1 - x]
        /\ t = IF j = 0 THEN NULL ELSE s[j]
    BY <1>0, <2>1, Zenon DEF BackAt
  <2>3. EndOf(kd, h) = NULL /\ j \in Nat
    BY <1>2, <1>7 DEF EndOf
  <2>5. q \in Seq(Elems) /\ Len(q) = j /\ (\A x \in 1..j : q[x] = todo[x + 1]) /\ (q = << >> <=> j = 0)
    BY <1>5, <2>2, <2>3, Zenon
  <2>6. CASE j = 0
    <3>1. t = EndOf(kd, h) /\ q = << >>
      BY <2>2, <2>3, <2>5, <2>6, Zenon
    <3>2. t2 = EndOf(kd, h)
      BY <1>1, <1>3, <3>1, Zenon DEF Follows
    <3>3. LoopAt(kd, s, h, back, t, t2, q)
      BY <1>2, <1>7, <2>5, <3>1, <3>2, Zenon DEF LoopAt
    <3> QED
      BY <1>1, <1>4, <3>3, Zenon
  <2>7. CASE j # 0
    <3>0. PICK i \in 0..n : i = j - 1
      BY <2>7
    <3>1. /\ j \in 1..n /\ 1 \in 1..j /\ j = i + 1 /\ j + 1 - 1 = j /\ (j = 1 <=> i = 0) /\ j - 1 = i
          /\ \A x \in 1..i : x + 1 \in 1..j /\ j + 1 - (x + 1) = i + 1 - x
      BY <2>7, <3>0
    <3>2. t = s[j] /\ q[1] = s[j] /\ q # << >>
      BY <2>2, <2>5, <2>7, <3>1, Zenon
    <3>3. t2 = IF i = 0 THEN NULL ELSE s[i]
      BY <1>1, <1>3, <1>7, <3>1, <3>2, Zenon DEF Follows
    <3>4. \A k \in 1..n : s[k] = t => k = i + 1
      BY <1>d, <3>1, <3>2, Zenon
    <3>5. \A x \in 1..i : q[x + 1] = s[i + 1 - x]
      BY <2>2, <2>5, <3>1, Zenon
    <3>6. BackAt(s, i, t, t2, q)
      BY <1>0, <2>5, <3>1, <3>3, <3>4, <3>5, Zenon DEF BackAt
    <3>7. LoopAt(kd, s, h, back, t, t2, q)
      BY <1>0, <1>2, <1>7, <2>5, <3>2, <3>6, Zenon DEF LoopAt
    <3> QED
      BY <1>1, <1>4, <3>7, Zenon
  <2> QED
    BY <2>6, <2>7
<1> QED
  BY <1>6, <1>7

\* The loop stays where it is when the element it is at is removed.
LEMMA LoopOutlivesRemove ==
  ASSUME NEW kd, NEW h \in Heads, NEW s \in Seq(Elems), NEW i \in 1..Len(s), NEW s2, Removed(s, s2, i, i),
         NEW back \in BOOLEAN, NEW v, v = s[i], NEW t, NEW todo, LoopAt(kd, s, h, back, v, t, todo)
  PROVE  LoopAt(kd, s2, h, back, v, t, todo)
<1>0. PICK n \in Nat : n = Len(s)
  OBVIOUS
<1>1. i \in 1..n /\ i - i + 1 = 1
  BY <1>0
<1>2. /\ s2 \in Seq(Elems) /\ Len(s2) = n - 1 /\ \A k \in 1..(n - 1) : s2[k] = IF k < i THEN s[k] ELSE s[k + 1]
  BY <1>0, <1>1, Zenon DEF Removed
<1>3. todo \in Seq(Elems) /\ todo # << >> /\ v = todo[1] /\ (back => kd = "TAILQ")
  <2>1. v \in Elems /\ v # EndOf(kd, h)
    BY NodesApart
  <2> QED
    BY <2>1, Zenon DEF LoopAt
<1>4. CASE ~back
  <2>1. PICK k \in 0..n : ForwardAt(kd, s, h, k, v, t, todo)
    BY <1>0, <1>3, <1>4, Zenon DEF LoopAt
  <2>2. /\ Len(todo) = n - k + 1 /\ \A x \in 1..(n - k) : todo[x + 1] = s[k + x]
        /\ t = IF k = n THEN EndOf(kd, h) ELSE s[k + 1]
        /\ \A x \in 1..n : s[x] = v => x = k
    BY <1>0, <2>1, Zenon DEF ForwardAt
  <2>3. i = k
    BY <1>1, <2>2, Zenon
  <2>4. PICK k2 \in 0..(n - 1) : k2 = k - 1
    BY <1>1, <2>3
  <2>5. /\ n - 1 - k2 = n - k /\ (k2 = n - 1 <=> k = n) /\ k2 + 1 = k
        /\ (k # n => k \in 1..(n - 1)) /\ ~(k < k)
        /\ \A x \in 1..(n - k) : k2 + x \in 1..(n - 1) /\ ~(k2 + x < k) /\ k2 + x + 1 = k + x
        /\ \A x \in 1..(n - 1) : (x < k => x \in 1..n /\ x # k) /\ (~(x < k) => x + 1 \in 1..n /\ x + 1 # k)
    BY <1>1, <2>3, <2>4
  <2>6. \A x \in 1..(n - 1 - k2) : todo[x + 1] = s2[k2 + x]
    <3>1. ASSUME NEW x \in 1..(n - k) PROVE s2[k2 + x] = s[k + x]
      <4>1. k2 + x \in 1..(n - 1) /\ ~(k2 + x < i) /\ k2 + x + 1 = k + x
        BY <2>3, <2>5, <3>1, Zenon
      <4> QED
        BY <1>2, <4>1, Zenon
    <3> QED
      BY <2>2, <2>5, <3>1, Zenon
  <2>7. t = IF k2 = n - 1 THEN EndOf(kd, h) ELSE s2[k2 + 1]
    BY <1>2, <2>2, <2>3, <2>5, Zenon
  <2>8. \A x \in 1..(n - 1) : s2[x] = v => x = k2
    BY <1>2, <2>2, <2>3, <2>5, ZenonT(60)
  <2>9. ForwardAt(kd, s2, h, k2, v, t, todo)
    BY <1>2, <2>2, <2>5, <2>6, <2>7, <2>8, Zenon DEF ForwardAt
  <2> QED
    BY <1>2, <1>3, <1>4, <2>9, Zenon DEF LoopAt
<1>5. CASE back
  <2>1. PICK j \in 0..n : BackAt(s, j, v, t, todo)
    BY <1>0, <1>3, <1>5, Zenon DEF LoopAt
  <2>2. /\ Len(todo) = j + 1 /\ \A x \in 1..j : todo[x + 1] = s[j + 1 - x]
        /\ t = IF j = 0 THEN NULL ELSE s[j]
        /\ \A x \in 1..n : s[x] = v => x = j + 1
    BY <1>0, <2>1, Zenon DEF BackAt
  <2>3. i = j + 1
    BY <1>1, <2>2, Zenon
  <2>5. /\ j \in 0..(n - 1) /\ (j # 0 => j \in 1..(n - 1) /\ j < i)
        /\ \A x \in 1..j : j + 1 - x \in 1..(n - 1) /\ j + 1 - x < i
        /\ \A x \in 1..(n - 1) : (x < i => x \in 1..n /\ x # i) /\ (~(x < i) => x + 1 \in 1..n /\ x + 1 # i)
    BY <1>1, <2>3
  <2>6. \A x \in 1..j : todo[x + 1] = s2[j + 1 - x]
    BY <1>2, <2>2, <2>3, <2>5, Zenon
  <2>7. t = IF j = 0 THEN NULL ELSE s2[j]
    BY <1>2, <2>2, <2>3, <2>5, Zenon
  <2>8. \A x \in 1..(n - 1) : s2[x] = v => x = j + 1
    BY <1>2, <2>2, <2>3, <2>5, Zenon
  <2>9. BackAt(s2, j, v, t, todo)
    BY <1>2, <2>2, <2>6, <2>7, <2>8, Zenon DEF BackAt
  <2> QED
    BY <1>2, <1>3, <1>5, <2>5, <2>9, Zenon DEF LoopAt
<1> QED
  BY <1>4, <1>5

-----------------------------------------------------------------------------
(* The invariant of the specification                                      *)

\* The loop the program is in, if any.
LoopInv(kd, ls, lp) ==
  \/ lp = NoLoop
  \/ /\ lp = [on |-> TRUE, head |-> lp.head, back |-> lp.back, var |-> lp.var,
              tvar |-> lp.tvar, todo |-> lp.todo]
     /\ lp.head \in Heads /\ lp.back \in BOOLEAN
     /\ LoopAt(kd, ls[lp.head], lp.head, lp.back, lp.var, lp.tvar, lp.todo)

Inv == LinkInv(kind, m, lists) /\ LoopInv(kind, lists, loop)

\* The kind's INIT of a head makes an empty list.
LEMMA InitEmpties ==
  ASSUME NEW k \in Kinds, NEW h \in Heads
  PROVE  /\ INIT(k, h).next[h] = EndOf(k, h)
         /\ INIT(k, h).prev[h] \in Pointers
         /\ k \in WithLast => INIT(k, h).prev[h] = h
<1>1. h \in Nodes
  BY NodesApart
<1>2. CASE k = "SLIST"
  BY <1>1, <1>2 DEF INIT, SLIST_INIT, SetNext, Garbled, EndOf, WithLast, Pointers
<1>3. CASE k = "LIST"
  BY <1>1, <1>3 DEF INIT, LIST_INIT, SetNext, Garbled, EndOf, WithLast, Pointers
<1>4. CASE k = "STAILQ"
  BY <1>1, <1>4 DEF INIT, STAILQ_INIT, SetNext, SetPrev, Garbled, EndOf, WithLast, Pointers
<1>5. CASE k = "TAILQ"
  BY <1>1, <1>5 DEF INIT, TAILQ_INIT, SetNext, SetPrev, Garbled, EndOf, WithLast, Pointers
<1>6. CASE k = "CIRCLEQ"
  BY <1>1, <1>6 DEF INIT, CIRCLEQ_INIT, SetNext, SetPrev, Garbled, EndOf, WithLast, Pointers
<1> QED
  BY <1>2, <1>3, <1>4, <1>5, <1>6 DEF Kinds

\* All lists are empty at first.
LEMMA InitInv == Init => Inv
<1> SUFFICES ASSUME Init PROVE Inv
  OBVIOUS
<1>0. PICK kd, mem, ls : kd = kind /\ mem = m /\ ls = lists
  OBVIOUS
<1>1. kd \in Kinds /\ ls = [h \in Heads |-> << >>]
  BY <1>0 DEF Init
<1>2. mem = [next |-> [n \in Nodes |-> IF n \in Heads THEN INIT(kd, n).next[n] ELSE Garbage],
             prev |-> [n \in Nodes |-> IF n \in Heads THEN INIT(kd, n).prev[n] ELSE Garbage]]
  BY <1>0, Zenon DEF Init
<1>3. \A h \in Heads : /\ INIT(kd, h).next[h] = EndOf(kd, h)
                       /\ INIT(kd, h).prev[h] \in Pointers
                       /\ kd \in WithLast => INIT(kd, h).prev[h] = h
  BY <1>1, InitEmpties, Zenon
<1>e. \A h \in Heads : EndOf(kd, h) \in Pointers /\ h \in Nodes
  BY NodesApart DEF EndOf, Pointers
<1>4. /\ Memory(mem)
      /\ \A h \in Heads : mem.next[h] = EndOf(kd, h) /\ (kd \in WithLast => mem.prev[h] = h)
  BY <1>2, <1>3, <1>e DEF Memory, Pointers
<1>5. Apart(ls)
  BY <1>1 DEF Apart, Distinct, In
<1>6. ASSUME NEW h \in Heads PROVE Links(kd, mem, ls[h], h)
  <2>1. ls[h] = << >>
    BY <1>1
  <2>2. Links(kd, mem, << >>, h)
    BY <1>4 DEF Links, Stop
  <2> QED
    BY <2>1, <2>2, Zenon
<1>7. LinkInv(kd, mem, ls)
  BY <1>1, <1>4, <1>5, <1>6, Zenon DEF LinkInv
<1>8. LoopInv(kind, lists, loop)
  BY Zenon DEF Init, LoopInv
<1> QED
  BY <1>0, <1>7, <1>8, Zenon DEF Inv

\* An element that is not used is in no list.
LEMMA UnusedIsUnlisted ==
  ASSUME NEW e \in Unused, NEW ls, ls = lists, Apart(ls)
  PROVE  Unlisted(ls, e)
<1>1. e \in Elems /\ \A h \in Heads : e \notin ToSet(ls[h])
  BY DEF Unused
<1>2. \A h \in Heads : ls[h] \in Seq(Elems)
  BY DEF Apart
<1>3. \A h \in Heads : ~In(e, ls[h])
  BY <1>1, <1>2 DEF ToSet, In
<1> QED
  BY <1>1, <1>3, Zenon DEF Unlisted

\* Outside loops nothing but memory and the lists changes.
LEMMA AppliedInv ==
  ASSUME Inv, ~loop.on, UNCHANGED <<kind, loop>>, LinkInv(kind, m', lists')
  PROVE  Inv'
<1>1. loop = NoLoop
  <2>1. LoopInv(kind, lists, loop)
    BY Zenon DEF Inv
  <2>2. loop = NoLoop \/ loop.on = TRUE
    BY <2>1 DEF LoopInv
  <2> QED
    BY <2>2, Zenon
<1>2. LinkInv(kind', m', lists') /\ LoopInv(kind', lists', loop')
  BY <1>1, Zenon DEF LoopInv
<1> QED
  BY <1>2, Zenon DEF Inv

\* The insertions and replacements.
LEMMA InsertInv ==
  ASSUME Inv, NEW h \in Heads, NEW e \in Unused,
         \/ InsertHead(h, e) \/ InsertTail(h, e)
         \/ \E i \in DOMAIN lists[h] : InsertAfter(h, i, e) \/ InsertBefore(h, i, e) \/ Replace(h, i, e)
  PROVE  Inv'
<1>0. PICK kd, mem, ls : kd = kind /\ mem = m /\ ls = lists
  OBVIOUS
<1>1. LinkInv(kd, mem, ls) /\ Apart(ls)
  BY <1>0, Zenon DEF Inv, LinkInv
<1>2. Unlisted(ls, e)
  BY <1>0, <1>1, UnusedIsUnlisted, Zenon
<1>3. ls[h] \in Seq(Elems) /\ ls \in [Heads -> Seq(Elems)]
  BY <1>1 DEF Apart
<1>4. /\ LinkInv(kd, InsertHeadOf(kd, mem, h, e), [ls EXCEPT ![h] = <<e>> \o ls[h]])
      /\ \A i \in 1..Len(ls[h]) :
           LinkInv(kd, InsertAfterOf(kd, mem, h, ls[h][i], e), [ls EXCEPT ![h] = InsertAt(ls[h], i + 1, e)])
      /\ kd \in TwoWay => \A i \in 1..Len(ls[h]) :
           LinkInv(kd, InsertBeforeOf(kd, mem, h, ls[h][i], e), [ls EXCEPT ![h] = InsertAt(ls[h], i, e)])
      /\ kd \in WithLast =>
           LinkInv(kd, InsertTailOf(kd, mem, h, e), [ls EXCEPT ![h] = Append(ls[h], e)])
      /\ kd \in {"LIST", "TAILQ"} => \A i \in 1..Len(ls[h]) :
           LinkInv(kd, Freed(ReplaceOf(kd, mem, h, ls[h][i], e), {ls[h][i]}),
                   [ls EXCEPT ![h] = [ls[h] EXCEPT ![i] = e]])
  BY <1>1, <1>2, InsertKeeps, Zenon
<1>5. CASE InsertHead(h, e)
  <2>1. /\ ~loop.on /\ UNCHANGED <<kind, loop>>
        /\ m' = InsertHeadOf(kind, m, h, e) /\ lists' = [lists EXCEPT ![h] = <<e>> \o lists[h]]
    BY <1>5, Zenon DEF InsertHead, Apply, InsertHeadOf
  <2>2. LinkInv(kind, m', lists')
    BY <1>0, <1>4, <2>1, Zenon
  <2> QED
    BY <2>1, <2>2, AppliedInv, Zenon
<1>6. CASE InsertTail(h, e)
  <2>1. /\ ~loop.on /\ UNCHANGED <<kind, loop>> /\ kind \in WithLast
        /\ m' = InsertTailOf(kind, m, h, e) /\ lists' = [lists EXCEPT ![h] = Append(lists[h], e)]
    BY <1>6, Zenon DEF InsertTail, Apply, InsertTailOf, WithLast
  <2>2. LinkInv(kind, m', lists')
    BY <1>0, <1>4, <2>1, Zenon
  <2> QED
    BY <2>1, <2>2, AppliedInv, Zenon
<1>7. ASSUME NEW i \in DOMAIN lists[h], InsertAfter(h, i, e) \/ InsertBefore(h, i, e) \/ Replace(h, i, e)
      PROVE  Inv'
  <2>0. i \in 1..Len(ls[h])
    <3>1. DOMAIN ls[h] = 1..Len(ls[h])
      BY <1>3
    <3> QED
      BY <1>0, <1>7, <3>1, Zenon
  <2>1. CASE InsertAfter(h, i, e)
    <3>1. /\ ~loop.on /\ UNCHANGED <<kind, loop>>
          /\ m' = InsertAfterOf(kind, m, h, lists[h][i], e)
          /\ lists' = [lists EXCEPT ![h] = InsertAt(lists[h], i + 1, e)]
      BY <2>1, Zenon DEF InsertAfter, Apply, InsertAfterOf
    <3>2. LinkInv(kind, m', lists')
      BY <1>0, <1>4, <2>0, <3>1, Zenon
    <3> QED
      BY <3>1, <3>2, AppliedInv, Zenon
  <2>2. CASE InsertBefore(h, i, e)
    <3>1. /\ ~loop.on /\ UNCHANGED <<kind, loop>> /\ kind \in TwoWay
          /\ m' = InsertBeforeOf(kind, m, h, lists[h][i], e)
          /\ lists' = [lists EXCEPT ![h] = InsertAt(lists[h], i, e)]
      BY <2>2, Zenon DEF InsertBefore, Apply, InsertBeforeOf, TwoWay
    <3>2. LinkInv(kind, m', lists')
      BY <1>0, <1>4, <2>0, <3>1, Zenon
    <3> QED
      BY <3>1, <3>2, AppliedInv, Zenon
  <2>3. CASE Replace(h, i, e)
    <3>1. /\ ~loop.on /\ UNCHANGED <<kind, loop>> /\ kind \in {"LIST", "TAILQ"}
          /\ m' = Freed(ReplaceOf(kind, m, h, lists[h][i], e), {lists[h][i]})
          /\ lists' = [lists EXCEPT ![h] = [lists[h] EXCEPT ![i] = e]]
      BY <2>3, Zenon DEF Replace, Apply, ReplaceOf
    <3>2. LinkInv(kind, m', lists')
      BY <1>0, <1>4, <2>0, <3>1, Zenon
    <3> QED
      BY <3>1, <3>2, AppliedInv, Zenon
  <2> QED
    BY <1>7, <2>1, <2>2, <2>3, Zenon
<1> QED
  BY <1>5, <1>6, <1>7, Zenon

\* The removals.
LEMMA RemoveInv ==
  ASSUME Inv, NEW h \in Heads,
         \/ RemoveHead(h)
         \/ \E i \in DOMAIN lists[h] : RemoveElement(h, i) \/ RemoveAfter(h, i) \/ RemoveHeadUntil(h, i)
  PROVE  Inv'
<1>0. PICK kd, mem, ls : kd = kind /\ mem = m /\ ls = lists
  OBVIOUS
<1>1. LinkInv(kd, mem, ls) /\ Apart(ls)
  BY <1>0, Zenon DEF Inv, LinkInv
<1>2. ls[h] \in Seq(Elems)
  BY <1>1 DEF Apart
<1>3. /\ kd = "SLIST" /\ ls[h] # << >> =>
           LinkInv(kd, Freed(SLIST_REMOVE_HEAD(mem, h), {Head(ls[h])}), [ls EXCEPT ![h] = Tail(ls[h])])
      /\ kd = "STAILQ" /\ ls[h] # << >> =>
           LinkInv(kd, Freed(STAILQ_REMOVE_HEAD(mem, h), {Head(ls[h])}), [ls EXCEPT ![h] = Tail(ls[h])])
      /\ kd = "SLIST" => \A i \in 1..Len(ls[h]) : i < Len(ls[h]) =>
           LinkInv(kd, Freed(SLIST_REMOVE_AFTER(mem, ls[h][i]), {ls[h][i + 1]}),
                   [ls EXCEPT ![h] = RemoveAt(ls[h], i + 1)])
      /\ kd = "STAILQ" => \A i \in 1..Len(ls[h]) : i < Len(ls[h]) =>
           LinkInv(kd, Freed(STAILQ_REMOVE_AFTER(mem, h, ls[h][i]), {ls[h][i + 1]}),
                   [ls EXCEPT ![h] = RemoveAt(ls[h], i + 1)])
      /\ kd = "STAILQ" => \A i \in 1..Len(ls[h]) :
           LinkInv(kd, Freed(STAILQ_REMOVE_HEAD_UNTIL(mem, h, ls[h][i]), ToSet(SubSeq(ls[h], 1, i))),
                   [ls EXCEPT ![h] = SubSeq(ls[h], i + 1, Len(ls[h]))])
  BY <1>1, RemoveOthersKeep, Zenon
<1>4. CASE RemoveHead(h)
  <2>1. /\ ~loop.on /\ UNCHANGED <<kind, loop>> /\ lists[h] # << >>
        /\ lists' = [lists EXCEPT ![h] = Tail(lists[h])]
        /\ \/ kind = "SLIST" /\ m' = Freed(SLIST_REMOVE_HEAD(m, h), {Head(lists[h])})
           \/ kind = "STAILQ" /\ m' = Freed(STAILQ_REMOVE_HEAD(m, h), {Head(lists[h])})
    BY <1>4, Zenon DEF RemoveHead, Apply
  <2>2. LinkInv(kind, m', lists')
    BY <1>0, <1>3, <2>1, Zenon
  <2> QED
    BY <2>1, <2>2, AppliedInv, Zenon
<1>5. ASSUME NEW i \in DOMAIN lists[h], RemoveElement(h, i) \/ RemoveAfter(h, i) \/ RemoveHeadUntil(h, i)
      PROVE  Inv'
  <2>0. i \in 1..Len(ls[h])
    <3>1. DOMAIN ls[h] = 1..Len(ls[h])
      BY <1>2
    <3> QED
      BY <1>0, <1>5, <3>1, Zenon
  <2>1. CASE RemoveElement(h, i)
    <3>1. /\ ~loop.on /\ UNCHANGED <<kind, loop>>
          /\ m' = Freed(RemoveOf(kind, m, h, lists[h][i]), {lists[h][i]})
          /\ lists' = [lists EXCEPT ![h] = RemoveAt(lists[h], i)]
      BY <2>1, Zenon DEF RemoveElement, Apply, REMOVE, RemoveOf
    <3>2. LinkInv(kd, Freed(RemoveOf(kd, mem, h, ls[h][i]), {ls[h][i]}), [ls EXCEPT ![h] = RemoveAt(ls[h], i)])
      BY <1>1, <2>0, RemoveKeeps, Zenon
    <3>3. LinkInv(kind, m', lists')
      BY <1>0, <3>1, <3>2, Zenon
    <3> QED
      BY <3>1, <3>3, AppliedInv, Zenon
  <2>2. CASE RemoveAfter(h, i)
    <3>1. /\ ~loop.on /\ UNCHANGED <<kind, loop>> /\ i < Len(lists[h])
          /\ lists' = [lists EXCEPT ![h] = RemoveAt(lists[h], i + 1)]
          /\ \/ kind = "SLIST" /\ m' = Freed(SLIST_REMOVE_AFTER(m, lists[h][i]), {lists[h][i + 1]})
             \/ kind = "STAILQ" /\ m' = Freed(STAILQ_REMOVE_AFTER(m, h, lists[h][i]), {lists[h][i + 1]})
      BY <2>2, Zenon DEF RemoveAfter, Apply
    <3>2. LinkInv(kind, m', lists')
      BY <1>0, <1>3, <2>0, <3>1, Zenon
    <3> QED
      BY <3>1, <3>2, AppliedInv, Zenon
  <2>3. CASE RemoveHeadUntil(h, i)
    <3>1. /\ ~loop.on /\ UNCHANGED <<kind, loop>> /\ kind = "STAILQ"
          /\ lists' = [lists EXCEPT ![h] = SubSeq(lists[h], i + 1, Len(lists[h]))]
          /\ m' = Freed(STAILQ_REMOVE_HEAD_UNTIL(m, h, lists[h][i]), ToSet(SubSeq(lists[h], 1, i)))
      BY <2>3, Zenon DEF RemoveHeadUntil, Apply
    <3>2. LinkInv(kind, m', lists')
      BY <1>0, <1>3, <2>0, <3>1, Zenon
    <3> QED
      BY <3>1, <3>2, AppliedInv, Zenon
  <2> QED
    BY <1>5, <2>1, <2>2, <2>3, Zenon
<1> QED
  BY <1>4, <1>5, Zenon

\* CONCAT and SWAP.
LEMMA TwoListInv ==
  ASSUME Inv, NEW h1 \in Heads, NEW h2 \in Heads, Concat(h1, h2) \/ Swap(h1, h2)
  PROVE  Inv'
<1>0. PICK kd, mem, ls : kd = kind /\ mem = m /\ ls = lists
  OBVIOUS
<1>1. LinkInv(kd, mem, ls)
  BY <1>0, Zenon DEF Inv
<1>2. CASE Concat(h1, h2)
  <2>1. /\ ~loop.on /\ UNCHANGED <<kind, loop>> /\ kind \in {"STAILQ", "TAILQ"} /\ h1 # h2
        /\ m' = ConcatOf(kind, m, h1, h2)
        /\ lists' = [lists EXCEPT ![h1] = lists[h1] \o lists[h2], ![h2] = << >>]
    BY <1>2, Zenon DEF Concat, Apply, ConcatOf
  <2>2. PICK mem2 : mem2 = ConcatOf(kd, mem, h1, h2)
    OBVIOUS
  <2>3. kd \in {"STAILQ", "TAILQ"}
    BY <1>0, <2>1, Zenon
  <2>4. LinkInv(kd, mem2, [ls EXCEPT ![h1] = ls[h1] \o ls[h2], ![h2] = << >>])
    BY <1>1, <2>1, <2>2, <2>3, ConcatKeeps, Zenon
  <2>5. LinkInv(kind, m', lists')
    BY <1>0, <2>1, <2>2, <2>4, Zenon
  <2> QED
    BY <2>1, <2>5, AppliedInv, Zenon
<1>3. CASE Swap(h1, h2)
  <2>1. /\ ~loop.on /\ UNCHANGED <<kind, loop>> /\ kind # "CIRCLEQ" /\ h1 # h2
        /\ m' = SwapOf(kind, m, h1, h2)
        /\ lists' = [lists EXCEPT ![h1] = lists[h2], ![h2] = lists[h1]]
    BY <1>3, Zenon DEF Swap, Apply, SwapOf
  <2>2. PICK mem2 : mem2 = SwapOf(kd, mem, h1, h2)
    OBVIOUS
  <2>3. kd # "CIRCLEQ"
    BY <1>0, <2>1, Zenon
  <2>4. LinkInv(kd, mem2, [ls EXCEPT ![h1] = ls[h2], ![h2] = ls[h1]])
    BY <1>1, <2>1, <2>2, <2>3, SwapKeeps, Zenon
  <2>5. LinkInv(kind, m', lists')
    BY <1>0, <2>1, <2>2, <2>4, Zenon
  <2> QED
    BY <2>1, <2>5, AppliedInv, Zenon
<1> QED
  BY <1>2, <1>3, Zenon

\* A list, of what LinkInv says.
LEMMA OfList ==
  ASSUME NEW kd, NEW mem, NEW ls, LinkInv(kd, mem, ls), NEW h \in Heads
  PROVE  ls[h] \in Seq(Elems) /\ Distinct(ls[h]) /\ Links(kd, mem, ls[h], h)
  BY DEF LinkInv, Apart

\* What LoopNext does to a record.
Fields(r, a, b, c, d, e, f) == r = [on |-> a, head |-> b, back |-> c, var |-> d, tvar |-> e, todo |-> f]
MovesOn(r, d, e, f) == [r EXCEPT !.var = d, !.todo = f, !.tvar = e]

\* It moves those fields and leaves the others.
LEMMA FieldsMove ==
  ASSUME NEW a, NEW b, NEW c, NEW d, NEW e, NEW f, NEW d2, NEW e2, NEW f2, NEW r, Fields(r, a, b, c, d, e, f)
  PROVE  Fields(MovesOn(r, d2, e2, f2), a, b, c, d2, e2, f2)
<1>1. PICK r1 : r1 = [on |-> a, head |-> b, back |-> c, var |-> d2, tvar |-> e, todo |-> f]
  OBVIOUS
<1>2. PICK r2 : r2 = [on |-> a, head |-> b, back |-> c, var |-> d2, tvar |-> e, todo |-> f2]
  OBVIOUS
<1>3. [r EXCEPT !.var = d2] = r1
  BY <1>1 DEF Fields
<1>4. [r1 EXCEPT !.todo = f2] = r2
  BY <1>1, <1>2
<1>5. [r2 EXCEPT !.tvar = e2] = [on |-> a, head |-> b, back |-> c, var |-> d2, tvar |-> e2, todo |-> f2]
  BY <1>2
<1>6. MovesOn(r, d2, e2, f2) = [[[r EXCEPT !.var = d2] EXCEPT !.todo = f2] EXCEPT !.tvar = e2]
  BY Zenon DEF MovesOn
<1> QED
  BY <1>3, <1>4, <1>5, <1>6, Zenon DEF Fields

\* A loop in a record.
LEMMA LoopInvOf ==
  ASSUME NEW kd, NEW ls, NEW h \in Heads, NEW back \in BOOLEAN, NEW v, NEW t, NEW todo, NEW lp,
         lp = [on |-> TRUE, head |-> h, back |-> back, var |-> v, tvar |-> t, todo |-> todo],
         LoopAt(kd, ls[h], h, back, v, t, todo)
  PROVE  LoopInv(kd, ls, lp)
<1>1. lp.head = h /\ lp.back = back /\ lp.var = v /\ lp.tvar = t /\ lp.todo = todo
  OBVIOUS
<1> QED
  BY <1>1, Zenon DEF LoopInv

\* The loop a program is in, with its fields.
LEMMA InLoop ==
  ASSUME Inv, loop.on
  PROVE  \E h, back, v, t, todo :
           /\ h \in Heads /\ back \in BOOLEAN
           /\ loop = [on |-> TRUE, head |-> h, back |-> back, var |-> v, tvar |-> t, todo |-> todo]
           /\ loop.head = h /\ loop.back = back /\ loop.var = v /\ loop.tvar = t /\ loop.todo = todo
           /\ LoopAt(kind, lists[h], h, back, v, t, todo)
<1>1. LoopInv(kind, lists, loop)
  BY Zenon DEF Inv
<1>2. loop # NoLoop
  BY DEF NoLoop
<1> QED
  BY <1>1, <1>2, Zenon DEF LoopInv

\* A loop begins.
LEMMA ForeachInv ==
  ASSUME Inv, NEW h \in Heads, NEW back \in BOOLEAN, FOREACH_SAFE(h, back)
  PROVE  Inv'
<1>0. PICK kd, mem, ls : kd = kind /\ mem = m /\ ls = lists
  OBVIOUS
<1>1. LinkInv(kd, mem, ls)
  BY <1>0, Zenon DEF Inv
<1>2. PICK s : s = ls[h]
  OBVIOUS
<1>3. s \in Seq(Elems) /\ Distinct(s) /\ Links(kd, mem, s, h)
  BY <1>1, <1>2, OfList, Zenon
<1>4. PICK v : v = IF back THEN TAILQ_LAST(mem, h) ELSE mem.next[h]
  OBVIOUS
<1>5. PICK t : t = FollowerOf(kd, mem, back, h, v)
  OBVIOUS
<1>6. PICK todo : todo = IF back THEN Reverse(s) ELSE s
  OBVIOUS
<1>7. /\ back => kind = "TAILQ"
      /\ loop' = [on |-> TRUE, head |-> h, back |-> back,
                  var |-> IF back THEN TAILQ_LAST(m, h) ELSE m.next[h],
                  tvar |-> FollowerOf(kind, m, back, h, IF back THEN TAILQ_LAST(m, h) ELSE m.next[h]),
                  todo |-> IF back THEN Reverse(lists[h]) ELSE lists[h]]
      /\ kind' = kind /\ m' = m /\ lists' = lists
  BY Zenon DEF FOREACH_SAFE, Follower, FollowerOf, END, EndOf
<1>8. LoopAt(kd, s, h, back, v, t, todo)
  <2>1. back => kd = "TAILQ"
    BY <1>0, <1>7, Zenon
  <2>2. LoopAt(kd, s, h, back, v, FollowerOf(kd, mem, back, h, v), todo)
    BY <1>3, <1>4, <1>6, <2>1, LoopStarts, Zenon
  <2> QED
    BY <1>5, <2>2, Zenon
<1>9. PICK lp : lp = [on |-> TRUE, head |-> h, back |-> back, var |-> v, tvar |-> t, todo |-> todo]
  OBVIOUS
<1>10. LoopInv(kd, ls, lp)
  BY <1>2, <1>8, <1>9, LoopInvOf, Zenon
<1>11. loop' = lp
  BY <1>0, <1>2, <1>4, <1>5, <1>6, <1>7, <1>9, Zenon
<1> QED
  BY <1>0, <1>1, <1>7, <1>10, <1>11, Zenon DEF Inv

\* A loop goes on.
LEMMA LoopNextInv ==
  ASSUME Inv, LoopNext
  PROVE  Inv'
<1>0. PICK kd, mem, ls : kd = kind /\ mem = m /\ ls = lists
  OBVIOUS
<1>1. LinkInv(kd, mem, ls)
  BY <1>0, Zenon DEF Inv
<1>2. loop.on
  BY Zenon DEF LoopNext
<1>3. PICK h, back, v, t, todo :
        /\ h \in Heads /\ back \in BOOLEAN
        /\ loop = [on |-> TRUE, head |-> h, back |-> back, var |-> v, tvar |-> t, todo |-> todo]
        /\ loop.head = h /\ loop.back = back /\ loop.var = v /\ loop.tvar = t /\ loop.todo = todo
        /\ LoopAt(kind, lists[h], h, back, v, t, todo)
  BY <1>2, InLoop, Zenon
<1> h \in Heads /\ back \in BOOLEAN
  BY <1>3
<1>4. PICK s : s = ls[h]
  OBVIOUS
<1>5. s \in Seq(Elems) /\ Distinct(s) /\ Links(kd, mem, s, h) /\ LoopAt(kd, s, h, back, v, t, todo)
  BY <1>0, <1>1, <1>3, <1>4, OfList, Zenon
<1>6. PICK t2 : t2 = FollowerOf(kd, mem, back, h, t)
  OBVIOUS
<1>7. /\ loop.var # EndOf(kind, loop.head)
      /\ loop' = [loop EXCEPT !.var = loop.tvar, !.todo = Tail(loop.todo),
                              !.tvar = FollowerOf(kind, m, loop.back, loop.head, loop.tvar)]
      /\ kind' = kind /\ m' = m /\ lists' = lists
  BY Zenon DEF LoopNext, Follower, FollowerOf, END, EndOf
<1>8. v # EndOf(kd, h)
  BY <1>0, <1>3, <1>7, Zenon
<1>9. LoopAt(kd, s, h, back, t, t2, Tail(todo))
  <2>1. LoopAt(kd, s, h, back, t, FollowerOf(kd, mem, back, h, t), Tail(todo))
    BY <1>5, <1>8, LoopGoesOn, Zenon
  <2> QED
    BY <1>6, <2>1, Zenon
<1>10. PICK todo2 : todo2 = Tail(todo)
  OBVIOUS
<1>11. PICK lp : lp = [on |-> TRUE, head |-> h, back |-> back, var |-> t, tvar |-> t2, todo |-> todo2]
  OBVIOUS
<1>12. LoopInv(kd, ls, lp)
  BY <1>4, <1>9, <1>10, <1>11, LoopInvOf, Zenon
<1>13. loop' = lp
  <2>1. /\ loop.tvar = t /\ Tail(loop.todo) = todo2
        /\ FollowerOf(kind, m, loop.back, loop.head, loop.tvar) = t2
    BY <1>0, <1>3, <1>6, <1>10, Zenon
  <2>2. loop' = [loop EXCEPT !.var = t, !.todo = todo2, !.tvar = t2]
    BY <1>7, <2>1, Zenon
  <2>3. loop = [on |-> TRUE, head |-> h, back |-> back, var |-> v, tvar |-> t, todo |-> todo]
    BY <1>3, Zenon
  <2>4. [loop EXCEPT !.var = t, !.todo = todo2, !.tvar = t2] = lp
    <3>1. PICK r : r = loop
      OBVIOUS
    <3>2. Fields(r, TRUE, h, back, v, t, todo)
      BY <2>3, <3>1, Zenon DEF Fields
    <3>3. Fields(MovesOn(r, t, t2, todo2), TRUE, h, back, t, t2, todo2)
      BY <3>2, FieldsMove, Zenon
    <3> QED
      BY <1>11, <3>1, <3>3, Zenon DEF Fields, MovesOn
  <2> QED
    BY <2>2, <2>4, Zenon
<1> QED
  BY <1>0, <1>1, <1>7, <1>12, <1>13, Zenon DEF Inv

\* The body of a loop removes the element it is at.
LEMMA LoopRemoveInv ==
  ASSUME Inv, LoopRemove
  PROVE  Inv'
<1>0. PICK kd, mem, ls, lp : kd = kind /\ mem = m /\ ls = lists /\ lp = loop
  OBVIOUS
<1>1. LinkInv(kd, mem, ls) /\ Apart(ls)
  BY <1>0, Zenon DEF Inv, LinkInv
<1>2. loop.on
  BY Zenon DEF LoopRemove
<1>3. PICK h, back, v, t, todo :
        /\ h \in Heads /\ back \in BOOLEAN
        /\ loop = [on |-> TRUE, head |-> h, back |-> back, var |-> v, tvar |-> t, todo |-> todo]
        /\ loop.head = h /\ loop.back = back /\ loop.var = v /\ loop.tvar = t /\ loop.todo = todo
        /\ LoopAt(kind, lists[h], h, back, v, t, todo)
  BY <1>2, InLoop, Zenon
<1> h \in Heads /\ back \in BOOLEAN
  BY <1>3
<1>4. PICK s : s = ls[h]
  OBVIOUS
<1>5. s \in Seq(Elems) /\ LoopAt(kd, s, h, back, v, t, todo)
  BY <1>0, <1>1, <1>3, <1>4, OfList, Zenon
<1>6. PICK i \in DOMAIN lists[loop.head] :
        lists[loop.head][i] = loop.var /\ lists' = [lists EXCEPT ![loop.head] = RemoveAt(lists[loop.head], i)]
  BY Zenon DEF LoopRemove
<1>7. m' = Freed(RemoveOf(kind, m, loop.head, loop.var), {loop.var}) /\ kind' = kind /\ loop' = loop
  BY Zenon DEF LoopRemove, REMOVE, RemoveOf
<1>8. i \in 1..Len(s) /\ v = s[i] /\ i \in 1..Len(ls[h])
  <2>1. DOMAIN s = 1..Len(s)
    BY <1>5
  <2> QED
    BY <1>0, <1>3, <1>4, <1>6, <2>1, Zenon
<1>9. LinkInv(kd, Freed(RemoveOf(kd, mem, h, ls[h][i]), {ls[h][i]}), [ls EXCEPT ![h] = RemoveAt(ls[h], i)])
  BY <1>1, <1>8, RemoveKeeps, Zenon
<1>10. LinkInv(kind', m', lists')
  BY <1>0, <1>3, <1>4, <1>6, <1>7, <1>8, <1>9, Zenon
<1>11. PICK s2 : s2 = RemoveAt(s, i)
  OBVIOUS
<1>12. Removed(s, s2, i, i)
  BY <1>5, <1>8, <1>11, RemoveShapes
<1>13. LoopAt(kd, s2, h, back, v, t, todo)
  BY <1>5, <1>8, <1>12, LoopOutlivesRemove, Zenon
<1>14. PICK ls2 : ls2 = [ls EXCEPT ![h] = s2]
  OBVIOUS
<1>15. ls2[h] = s2
  BY <1>1, <1>14 DEF Apart
<1>16. LoopInv(kd, ls2, lp)
  BY <1>0, <1>3, <1>13, <1>15, LoopInvOf, Zenon
<1>17. lists' = ls2
  BY <1>0, <1>3, <1>4, <1>6, <1>11, <1>14, Zenon
<1> QED
  BY <1>0, <1>7, <1>10, <1>16, <1>17, Zenon DEF Inv

\* Every step keeps the invariant.
LEMMA NextInv == Inv /\ [Next]_vars => Inv'
<1> SUFFICES ASSUME Inv, [Next]_vars PROVE Inv'
  OBVIOUS
<1>1. ASSUME NEW h \in Heads, NEW e \in Unused,
             \/ InsertHead(h, e) \/ InsertTail(h, e)
             \/ \E i \in DOMAIN lists[h] : InsertAfter(h, i, e) \/ InsertBefore(h, i, e) \/ Replace(h, i, e)
      PROVE  Inv'
  BY <1>1, InsertInv, Zenon
<1>2. ASSUME NEW h \in Heads,
             \/ RemoveHead(h)
             \/ \E i \in DOMAIN lists[h] : RemoveElement(h, i) \/ RemoveAfter(h, i) \/ RemoveHeadUntil(h, i)
      PROVE  Inv'
  BY <1>2, RemoveInv, Zenon
<1>3. ASSUME NEW h1 \in Heads, NEW h2 \in Heads, Concat(h1, h2) \/ Swap(h1, h2) PROVE Inv'
  BY <1>3, TwoListInv, Zenon
<1>4. ASSUME NEW h \in Heads, NEW back \in BOOLEAN, FOREACH_SAFE(h, back) PROVE Inv'
  BY <1>4, ForeachInv, Zenon
<1>5. CASE LoopNext
  BY <1>5, LoopNextInv, Zenon
<1>6. CASE LoopRemove
  BY <1>6, LoopRemoveInv, Zenon
<1>7. CASE LoopEnd
  BY <1>7, Zenon DEF LoopEnd, Inv, LoopInv
<1>8. CASE UNCHANGED vars
  BY <1>8, Zenon DEF vars, Inv
<1> QED
  BY <1>1, <1>2, <1>3, <1>4, <1>5, <1>6, <1>7, <1>8, Zenon DEF Next

-----------------------------------------------------------------------------
(* What the invariant means for the program                                *)

\* The pointers of a node of a list, of any kind.
Pointed(kd, mem, h, s, n) ==
  /\ mem.next[h] = IF n = 0 THEN EndOf(kd, h) ELSE s[1]
  /\ \A k \in 1..n : mem.next[s[k]] = IF k = n THEN EndOf(kd, h) ELSE s[k + 1]
  /\ kd \in TwoWay => \A k \in 1..n : mem.prev[s[k]] = IF k = 1 THEN h ELSE s[k - 1]
  /\ kd \in WithLast => mem.prev[h] = IF n = 0 THEN h ELSE s[n]

\* They are those.
LEMMA PointersAre ==
  ASSUME NEW kd, NEW mem, NEW h \in Heads, NEW s \in Seq(Elems), Distinct(s), Links(kd, mem, s, h),
         NEW n \in Nat, n = Len(s)
  PROVE  Pointed(kd, mem, h, s, n)
<1>1. Leads(s, mem.next[h], mem.next, EndOf(kd, h))
  BY LinksLead, Zenon
<1>2. /\ mem.next[h] = IF n = 0 THEN EndOf(kd, h) ELSE s[1]
      /\ \A k \in 1..n : mem.next[s[k]] = IF k = n THEN EndOf(kd, h) ELSE s[k + 1]
  BY <1>1, Zenon DEF Leads
<1>3. \A k \in 0..n : Stop(kd, s, h, k) = IF k = 0 THEN h ELSE s[k]
  BY DEF Stop
<1>4. kd \in TwoWay => \A k \in 1..n : mem.prev[s[k]] = IF k = 1 THEN h ELSE s[k - 1]
  <2>1. \A k \in 1..n : k - 1 \in 0..n /\ (k - 1 = 0 <=> k = 1)
    OBVIOUS
  <2> QED
    BY <1>3, <2>1, Zenon DEF Links
<1>5. kd \in WithLast => mem.prev[h] = IF n = 0 THEN h ELSE s[n]
  <2>1. n \in 0..n
    OBVIOUS
  <2> QED
    BY <1>3, <2>1, Zenon DEF Links
<1> QED
  BY <1>2, <1>4, <1>5, Zenon DEF Pointed

\* The next place on a ring.
LEMMA RingPlace ==
  ASSUME NEW n \in Nat, NEW i \in 1..n
  PROVE  (i % n) + 1 = IF i = n THEN 1 ELSE i + 1
<1>1. CASE i = n
  BY <1>1
<1>2. CASE i # n
  BY <1>2
<1> QED
  BY <1>1, <1>2

\* The pointers lead backwards from first through s, of n elements, to end.
LeadsBack(s, n, first, step, end) ==
  /\ n = Len(s) /\ end \notin Elems
  /\ first = IF n = 0 THEN end ELSE s[n]
  /\ \A k \in 1..n : step[s[k]] = IF k = 1 THEN end ELSE s[k - 1]

VisitsReverse(s, first, step, end) == Visits(first, step, end) = Reverse(s)

\* A loop along them visits the reverse.
LEMMA BackVisits ==
  ASSUME NEW s \in Seq(Elems), Distinct(s), NEW n \in Nat, NEW first, NEW step, NEW end,
         LeadsBack(s, n, first, step, end)
  PROVE  VisitsReverse(s, first, step, end)
<1>0. n = Len(s) /\ end \notin Elems /\ first = IF n = 0 THEN end ELSE s[n]
  BY Zenon DEF LeadsBack
<1>1. PICK r : r = Reverse(s)
  OBVIOUS
<1>2. r \in Seq(Elems) /\ Len(r) = n /\ Distinct(r) /\ \A k \in 1..n : r[k] = s[n - k + 1]
  <2>1. /\ Reverse(s) \in Seq(Elems) /\ Len(Reverse(s)) = Len(s) /\ Distinct(Reverse(s))
        /\ \A k \in 1..Len(s) : Reverse(s)[k] = s[Len(s) - k + 1]
    BY ReverseIs
  <2> QED
    BY <1>0, <1>1, <2>1, Zenon
<1>3. first = IF n = 0 THEN end ELSE r[1]
  <2>1. n # 0 => 1 \in 1..n /\ n - 1 + 1 = n
    OBVIOUS
  <2> QED
    BY <1>0, <1>2, <2>1, Zenon
<1>4. ASSUME NEW k \in 1..n PROVE step[r[k]] = IF k = n THEN end ELSE r[k + 1]
  <2>1. PICK j \in 1..n : j = n - k + 1
    OBVIOUS
  <2>2. (j = 1 <=> k = n) /\ (k # n => k + 1 \in 1..n /\ n - (k + 1) + 1 = j - 1)
    BY <2>1
  <2>3. step[s[j]] = IF j = 1 THEN end ELSE s[j - 1]
    BY Zenon DEF LeadsBack
  <2>4. r[k] = s[j] /\ (k # n => r[k + 1] = s[j - 1])
    BY <1>2, <1>4, <2>1, <2>2, Zenon
  <2> QED
    BY <2>2, <2>3, <2>4, Zenon
<1>5. Leads(r, first, step, end)
  BY <1>2, <1>3, <1>4, Zenon DEF Leads
<1>6. Visits(first, step, end) = r
  <2>1. r \in Seq(Elems) /\ Distinct(r)
    BY <1>2, Zenon
  <2> QED
    BY <1>0, <1>5, <2>1, VisitsIs, Zenon
<1> QED
  BY <1>1, <1>6, Zenon DEF VisitsReverse

\* The lists can be gone through both ways.
BackwardOf(kd, mem, h, s) ==
  LET n == Len(s) IN
  CASE kd = "SLIST"   -> TRUE
    [] kd = "LIST"    -> \A i \in 1..n : LIST_PREV(mem, h, s[i]) = IF i = 1 THEN NULL ELSE s[i - 1]
    [] kd = "STAILQ"  -> STAILQ_LAST(mem, h) = IF n = 0 THEN NULL ELSE s[n]
    [] kd = "TAILQ"   -> TAILQ_FOREACH_REVERSE(mem, h) = Reverse(s)
    [] kd = "CIRCLEQ" ->
         /\ CIRCLEQ_FOREACH_REVERSE(mem, h) = Reverse(s)
         /\ \A i \in 1..n : /\ CIRCLEQ_LOOP_NEXT(mem, h, s[i]) = s[(i % n) + 1]
                           /\ CIRCLEQ_LOOP_PREV(mem, h, s[(i % n) + 1]) = s[i]

\* Going backwards gives the reverse.
LEMMA BackwardIs ==
  ASSUME NEW kd \in Kinds, NEW mem, NEW h \in Heads, NEW s \in Seq(Elems), Distinct(s), Links(kd, mem, s, h)
  PROVE  BackwardOf(kd, mem, h, s)
<1>0. PICK n \in Nat : n = Len(s)
  OBVIOUS
<1>1. Pointed(kd, mem, h, s, n)
  BY <1>0, PointersAre, Zenon
<1>2. /\ \A k \in 1..n : s[k] \in Elems /\ s[k] # h /\ s[k] # NULL
      /\ h # NULL /\ h \notin Elems /\ NULL \notin Elems
  BY <1>0, NodesApart
<1>3. CASE kd = "SLIST"
  BY <1>3 DEF BackwardOf
<1>4. CASE kd = "LIST"
  <2>1. \A k \in 1..n : mem.prev[s[k]] = IF k = 1 THEN h ELSE s[k - 1]
    BY <1>1, <1>4 DEF Pointed, TwoWay
  <2>2. \A k \in 1..n : k # 1 => k - 1 \in 1..n
    OBVIOUS
  <2>3. \A i \in 1..n : LIST_PREV(mem, h, s[i]) = IF i = 1 THEN NULL ELSE s[i - 1]
    BY <1>2, <2>1, <2>2, Zenon DEF LIST_PREV
  <2> QED
    BY <1>0, <1>4, <2>3, Zenon DEF BackwardOf
<1>5. CASE kd = "STAILQ"
  <2>1. /\ mem.next[h] = IF n = 0 THEN NULL ELSE s[1]
        /\ mem.prev[h] = IF n = 0 THEN h ELSE s[n]
    BY <1>1, <1>5 DEF Pointed, WithLast, EndOf
  <2>2. n # 0 => 1 \in 1..n
    OBVIOUS
  <2>3. STAILQ_LAST(mem, h) = IF n = 0 THEN NULL ELSE s[n]
    BY <1>2, <2>1, <2>2, Zenon DEF STAILQ_LAST
  <2> QED
    BY <1>0, <1>5, <2>3, Zenon DEF BackwardOf
<1>6. CASE kd = "TAILQ"
  <2>1. PICK step : step = [e \in Elems |-> TAILQ_PREV(mem, e)]
    OBVIOUS
  <2>2. PICK first : first = TAILQ_LAST(mem, h)
    OBVIOUS
  <2>3. /\ TAILQ_LAST(mem, h) = IF n = 0 THEN NULL ELSE s[n]
        /\ \A k \in 1..n : TAILQ_PREV(mem, s[k]) = IF k = 1 THEN NULL ELSE s[k - 1]
    <3>1. Links("TAILQ", mem, s, h)
      BY <1>6
    <3> QED
      BY <1>0, <3>1, TailqBack, ZenonT(60)
  <2>4. \A k \in 1..n : step[s[k]] = IF k = 1 THEN NULL ELSE s[k - 1]
    BY <1>2, <2>1, <2>3, Zenon
  <2>5. first = IF n = 0 THEN NULL ELSE s[n]
    BY <2>2, <2>3, Zenon
  <2>6. Visits(first, step, NULL) = Reverse(s)
    <3>1. LeadsBack(s, n, first, step, NULL)
      BY <1>0, <1>2, <2>4, <2>5, Zenon DEF LeadsBack
    <3>2. VisitsReverse(s, first, step, NULL)
      BY <3>1, BackVisits, Zenon
    <3> QED
      BY <3>2, Zenon DEF VisitsReverse
  <2>7. TAILQ_FOREACH_REVERSE(mem, h) = Reverse(s)
    BY <2>1, <2>2, <2>6, Zenon DEF TAILQ_FOREACH_REVERSE
  <2> QED
    BY <1>6, <2>7, Zenon DEF BackwardOf
<1>7. CASE kd = "CIRCLEQ"
  <2>1. /\ mem.next[h] = IF n = 0 THEN h ELSE s[1]
        /\ \A k \in 1..n : mem.next[s[k]] = IF k = n THEN h ELSE s[k + 1]
        /\ \A k \in 1..n : mem.prev[s[k]] = IF k = 1 THEN h ELSE s[k - 1]
        /\ mem.prev[h] = IF n = 0 THEN h ELSE s[n]
    BY <1>1, <1>7 DEF Pointed, WithLast, TwoWay, EndOf
  <2>2. Visits(mem.prev[h], mem.prev, h) = Reverse(s)
    <3>1. LeadsBack(s, n, mem.prev[h], mem.prev, h)
      BY <1>0, <1>2, <2>1, Zenon DEF LeadsBack
    <3>2. VisitsReverse(s, mem.prev[h], mem.prev, h)
      BY <3>1, BackVisits, Zenon
    <3> QED
      BY <3>2, Zenon DEF VisitsReverse
  <2>3. CIRCLEQ_FOREACH_REVERSE(mem, h) = Reverse(s)
    BY <2>2, Zenon DEF CIRCLEQ_FOREACH_REVERSE
  <2>4. ASSUME NEW i \in 1..n
        PROVE  /\ CIRCLEQ_LOOP_NEXT(mem, h, s[i]) = s[(i % n) + 1]
               /\ CIRCLEQ_LOOP_PREV(mem, h, s[(i % n) + 1]) = s[i]
    <3>0. PICK j : j = i + 1
      OBVIOUS
    <3>1. (i % n) + 1 = IF i = n THEN 1 ELSE j
      BY <3>0, RingPlace, Zenon
    <3>2. n # 0 /\ 1 \in 1..n /\ j = i + 1 /\ (i # n => j \in 1..n /\ j # 1 /\ j - 1 = i)
      BY <3>0
    <3>3. CASE i = n
      BY <1>2, <2>1, <3>1, <3>2, <3>3, Zenon DEF CIRCLEQ_LOOP_NEXT, CIRCLEQ_LOOP_PREV
    <3>4. CASE i # n
      BY <1>2, <2>1, <3>1, <3>2, <3>4, ZenonT(60) DEF CIRCLEQ_LOOP_NEXT, CIRCLEQ_LOOP_PREV
    <3> QED
      BY <3>3, <3>4
  <2> QED
    BY <1>0, <1>7, <2>3, <2>4, Zenon DEF BackwardOf
<1> QED
  BY <1>3, <1>4, <1>5, <1>6, <1>7 DEF Kinds

\* A node of a list, a head or NULL: what a list may point to.
Held(ls, x) ==
  \/ x \in Heads \cup {NULL}
  \/ x \in Elems /\ \E g \in Heads : In(x, ls[g])

\* The nodes of the lists hold only such pointers.
LEMMA ListsHold ==
  ASSUME NEW kd, NEW mem, NEW ls, LinkInv(kd, mem, ls), NEW x \in Nodes, Held(ls, x)
  PROVE  /\ Held(ls, mem.next[x])
         /\ kd # "SLIST" /\ kd # (IF x \in Elems THEN "STAILQ" ELSE "LIST") => Held(ls, mem.prev[x])
<1>1. kd \in Kinds
  BY Zenon DEF LinkInv
<1>2. ASSUME NEW h \in Heads, NEW s, s = ls[h]
      PROVE  /\ \E n \in Nat : n = Len(s) /\ Pointed(kd, mem, h, s, n) /\ \A k \in 1..n : Held(ls, s[k])
             /\ Held(ls, h) /\ Held(ls, EndOf(kd, h))
  <2>1. s \in Seq(Elems) /\ Distinct(s) /\ Links(kd, mem, s, h)
    BY <1>2, OfList, Zenon
  <2>2. PICK n \in Nat : n = Len(s)
    BY <2>1
  <2>3. Pointed(kd, mem, h, s, n)
    BY <2>1, <2>2, PointersAre, Zenon
  <2>4. \A k \in 1..n : s[k] \in Elems
    BY <2>1, <2>2
  <2>5. \A k \in 1..n : Held(ls, s[k])
    BY <1>2, <2>2, <2>4, Zenon DEF Held, In
  <2>6. Held(ls, h) /\ Held(ls, EndOf(kd, h))
    <3>1. h \in Heads \cup {NULL} /\ EndOf(kd, h) \in Heads \cup {NULL}
      BY DEF EndOf
    <3> QED
      BY <3>1, Zenon DEF Held
  <2> QED
    BY <2>2, <2>3, <2>5, <2>6, Zenon
<1>3. CASE x \in Heads
  <2>1. PICK s : s = ls[x]
    OBVIOUS
  <2>2. PICK n \in Nat : Pointed(kd, mem, x, s, n) /\ \A k \in 1..n : Held(ls, s[k])
    BY <1>2, <1>3, <2>1, Zenon
  <2>3. Held(ls, x) /\ Held(ls, EndOf(kd, x))
    BY <1>2, <1>3, <2>1, Zenon
  <2>4. n # 0 => 1 \in 1..n /\ n \in 1..n
    OBVIOUS
  <2>5. Held(ls, mem.next[x])
    BY <2>2, <2>3, <2>4, Zenon DEF Pointed
  <2>6. x \notin Elems
    BY <1>3, NodesApart
  <2>7. kd # "SLIST" /\ kd # "LIST" => kd \in WithLast
    BY <1>1 DEF Kinds, WithLast
  <2>8. kd \in WithLast => Held(ls, mem.prev[x])
    BY <2>2, <2>3, <2>4, Zenon DEF Pointed
  <2> QED
    BY <2>5, <2>6, <2>7, <2>8, Zenon
<1>4. CASE x \notin Heads
  <2>0. x # NULL
    BY NodesApart
  <2>1. PICK h \in Heads : x \in Elems /\ In(x, ls[h])
    BY <1>4, <2>0, Zenon DEF Held
  <2>2. PICK s : s = ls[h]
    OBVIOUS
  <2>3. PICK n \in Nat : n = Len(s) /\ Pointed(kd, mem, h, s, n) /\ \A k \in 1..n : Held(ls, s[k])
    BY <1>2, <2>2, Zenon
  <2>4. Held(ls, h) /\ Held(ls, EndOf(kd, h))
    BY <1>2, <2>2, Zenon
  <2>5. PICK k \in 1..n : s[k] = x
    BY <2>1, <2>2, <2>3, Zenon DEF In
  <2>6. (k # n => k + 1 \in 1..n) /\ (k # 1 => k - 1 \in 1..n)
    OBVIOUS
  <2>7. Held(ls, mem.next[x])
    BY <2>3, <2>4, <2>5, <2>6, Zenon DEF Pointed
  <2>8. kd # "SLIST" /\ kd # "STAILQ" => kd \in TwoWay
    BY <1>1 DEF Kinds, TwoWay
  <2>9. kd \in TwoWay => Held(ls, mem.prev[x])
    BY <2>3, <2>4, <2>5, <2>6, Zenon DEF Pointed
  <2> QED
    BY <2>1, <2>7, <2>8, <2>9, Zenon
<1> QED
  BY <1>3, <1>4

\* Such a pointer leads to no freed element, and what is not free is held.
LEMMA HeldIsUsed ==
  ASSUME NEW ls, ls = lists, Apart(ls)
  PROVE  /\ \A x : Held(ls, x) => x \notin Unused \cup {Garbage}
         /\ \A x \in Nodes \ Unused : Held(ls, x)
<1>1. \A h \in Heads : ls[h] \in Seq(Elems)
  BY DEF Apart
<1>2. \A h \in Heads : \A x : x \in ToSet(ls[h]) <=> In(x, ls[h])
  BY <1>1 DEF ToSet, In
<1>3. \A x : x \in Unused <=> x \in Elems /\ \A h \in Heads : ~In(x, ls[h])
  <2>1. \A x : x \in Unused <=> x \in Elems /\ \A h \in Heads : x \notin ToSet(ls[h])
    BY DEF Unused
  <2> QED
    BY <1>2, <2>1, Zenon
<1>4. \A x \in Heads \cup {NULL} : x \notin Elems /\ x # Garbage
  BY NodesApart
<1>5. \A x \in Elems : x # Garbage
  BY NodesApart
<1>6. \A x \in Nodes : x \in Heads \/ x \in Elems
  BY NodesApart
<1> QED
  BY <1>3, <1>4, <1>5, <1>6, Zenon DEF Held

\* The lists are right when their pointers are.
LEMMA InvGivesListInv == Inv => ListInv
<1> SUFFICES ASSUME Inv PROVE ListInv
  OBVIOUS
<1>0. PICK kd, mem, ls : kd = kind /\ mem = m /\ ls = lists
  OBVIOUS
<1>1. LinkInv(kd, mem, ls)
  BY <1>0, Zenon DEF Inv
<1>2. kd \in Kinds /\ Memory(mem) /\ Apart(ls)
  BY <1>1, Zenon DEF LinkInv
<1>3. ASSUME NEW h \in Heads
      PROVE  ls[h] \in Seq(Elems) /\ Distinct(ls[h]) /\ Links(kd, mem, ls[h], h)
  BY <1>1, OfList, Zenon
<1>h. /\ \A x : Held(ls, x) => x \notin Unused \cup {Garbage}
      /\ \A x \in Nodes \ Unused : Held(ls, x)
  BY <1>0, <1>2, HeldIsUsed, Zenon
<1>4. ListTypeOK
  <2>1. \A n \in Nodes : mem.next[n] \in Nodes \cup {NULL, Garbage} /\ mem.prev[n] \in Nodes \cup {NULL, Garbage}
    BY <1>2 DEF Memory, Pointers
  <2>2. ASSUME NEW h \in Heads PROVE mem.next[h] # Garbage /\ Len(ls[h]) <= Cardinality(Elems)
    <3>1. Len(ls[h]) <= Cardinality(Elems)
      <4>1. PICK s : s = ls[h]
        OBVIOUS
      <4>2. Len(s) <= Cardinality(Elems)
        BY <1>3, <4>1, ListFits, Zenon
      <4> QED
        BY <4>1, <4>2, Zenon
    <3>2. h \in Nodes /\ Held(ls, h)
      BY NodesApart DEF Held
    <3>3. Held(ls, mem.next[h])
      BY <1>1, <3>2, ListsHold, Zenon
    <3> QED
      BY <1>h, <3>1, <3>3, Zenon
  <2> QED
    BY <1>0, <1>2, <2>1, <2>2, Zenon DEF ListTypeOK
<1>5. ForwardOrder
  <2>1. ASSUME NEW h \in Heads
        PROVE  ls[h] = IF kd = "CIRCLEQ" THEN CIRCLEQ_FOREACH(mem, h) ELSE SLIST_FOREACH(mem, h)
    <3>1. PICK s : s = ls[h]
      OBVIOUS
    <3>2. Visits(mem.next[h], mem.next, EndOf(kd, h)) = s
      BY <1>3, <3>1, LinksLead, Zenon
    <3> QED
      BY <3>1, <3>2, Zenon DEF CIRCLEQ_FOREACH, SLIST_FOREACH, EndOf
  <2> QED
    BY <1>0, <2>1, Zenon DEF ForwardOrder
<1>6. BackwardOrder
  <2>1. ASSUME NEW h \in Heads PROVE BackwardOf(kd, mem, h, ls[h])
    <3>1. PICK s : s = ls[h]
      OBVIOUS
    <3>2. BackwardOf(kd, mem, h, s)
      BY <1>2, <1>3, <3>1, BackwardIs, Zenon
    <3> QED
      BY <3>1, <3>2, Zenon
  <2>2. \A h \in Heads : BackwardOf(kind, m, h, lists[h])
    BY <1>0, <2>1, Zenon
  <2> QED
    BY <2>2, Zenon DEF BackwardOrder, BackwardOf
<1>7. NoDanglingPointer
  <2>1. ASSUME NEW x \in Nodes \ Unused
        PROVE  /\ mem.next[x] \notin Unused \cup {Garbage}
               /\ kd # "SLIST" /\ kd # (IF x \in Elems THEN "STAILQ" ELSE "LIST")
                    => mem.prev[x] \notin Unused \cup {Garbage}
    <3>1. PICK y \in Nodes : y = x
      BY <2>1, Zenon
    <3>2. Held(ls, y)
      BY <1>h, <2>1, <3>1, Zenon
    <3>3. /\ Held(ls, mem.next[y])
          /\ kd # "SLIST" /\ kd # (IF y \in Elems THEN "STAILQ" ELSE "LIST") => Held(ls, mem.prev[y])
      BY <1>1, <3>2, ListsHold, Zenon
    <3> QED
      BY <1>h, <3>1, <3>3, Zenon
  <2> QED
    BY <1>0, <2>1, Zenon DEF NoDanglingPointer
<1> QED
  BY <1>4, <1>5, <1>6, <1>7, Zenon DEF ListInv

\* A loop is at the first of the elements to come.
LEMMA InvGivesLoopVisitsAll == Inv => LoopVisitsAll
<1> SUFFICES ASSUME Inv, loop.on
      PROVE  loop.var = IF loop.todo = << >> THEN END(loop.head) ELSE Head(loop.todo)
  BY Zenon DEF LoopVisitsAll
<1>1. PICK h, back, v, t, todo :
        /\ h \in Heads /\ back \in BOOLEAN
        /\ loop.head = h /\ loop.back = back /\ loop.var = v /\ loop.tvar = t /\ loop.todo = todo
        /\ LoopAt(kind, lists[h], h, back, v, t, todo)
  BY InLoop, Zenon
<1> h \in Heads /\ back \in BOOLEAN
  BY <1>1
<1>2. PICK e : e = END(h)
  OBVIOUS
<1>3. /\ todo \in Seq(Elems)
      /\ todo = << >> => v = e
      /\ todo # << >> => v = todo[1]
  BY <1>1, <1>2, Zenon DEF LoopAt, END, EndOf
<1>4. todo # << >> => Head(todo) = todo[1]
  BY <1>3
<1> QED
  BY <1>1, <1>2, <1>3, <1>4, Zenon

-----------------------------------------------------------------------------
(* The theorems                                                            *)

\* For any number of heads and elements, whatever macros of server/queue.h a
\* program applies and in whatever order, following the pointers gives exactly
\* the lists it asked for, forwards and, where the kind allows it, backwards,
\* and no list holds a pointer to an element that was removed and freed.
THEOREM ListsAreRight == Spec => []ListInv
<1>1. Init => Inv
  BY InitInv
<1>2. Inv /\ [Next]_vars => Inv'
  BY NextInv
<1>3. Inv => ListInv
  BY InvGivesListInv
<1> QED
  BY <1>1, <1>2, <1>3, PTL DEF Spec

\* A FOREACH_SAFE loop over a list of any length visits its elements in order
\* and once, and then stops, whichever of them its body removes and frees.
THEOREM LoopsVisitAll == Spec => []LoopVisitsAll
<1>1. Init => Inv
  BY InitInv
<1>2. Inv /\ [Next]_vars => Inv'
  BY NextInv
<1>3. Inv => LoopVisitsAll
  BY InvGivesLoopVisitsAll
<1> QED
  BY <1>1, <1>2, <1>3, PTL DEF Spec

=============================================================================
