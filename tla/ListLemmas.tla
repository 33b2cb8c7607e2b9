----------------------------- MODULE ListLemmas -----------------------------
(***************************************************************************)
(* Facts the proofs of several components need: induction without an       *)
(* operator parameter, and what FlattenSeq, the concatenation that the     *)
(* content of the device is defined with, computes for every sequence.     *)
(***************************************************************************)
EXTENDS Integers, Sequences, SequencesExt, SequenceTheorems, FiniteSetTheorems, WellFoundedInduction, TLAPS

LessThan == {p \in Nat \X Nat : p[1] < p[2]}

\* A set of naturals that is not empty has a least member.
LEMMA LeastMember ==
  ASSUME NEW S \in SUBSET Nat, S # {}
  PROVE  \E x \in S : \A y \in S : x <= y
<1>1. IsWellFoundedOn(LessThan, Nat)
  BY NatLessThanWellFounded DEF OpToRel, LessThan
<1>2. PICK x \in S : \A y \in S : ~ (<<y, x>> \in LessThan)
  BY <1>1, WFMin
<1>3. ASSUME NEW y \in S PROVE x <= y
  <2>1. y \in Nat /\ x \in Nat /\ ~ (<<y, x>> \in LessThan)
    BY <1>2
  <2> QED
    BY <2>1 DEF LessThan
<1> QED
  BY <1>2, <1>3

\* A set that holds 0 and, with each number, the next one holds all of Nat.
LEMMA SetInduction ==
  ASSUME NEW S, 0 \in S, \A n \in Nat : n \in S => n + 1 \in S
  PROVE  Nat \subseteq S
<1> SUFFICES ASSUME Nat \ S # {} PROVE FALSE
  OBVIOUS
<1>1. PICK x \in Nat \ S : \A y \in Nat \ S : x <= y
  BY LeastMember
<1>2. x # 0
  BY <1>1
<1>3. x - 1 \in Nat /\ x - 1 \notin S
  BY <1>1, <1>2
<1> QED
  BY <1>1, <1>3

-----------------------------------------------------------------------------
(* FlattenSeq                                                              *)

\* A sequence is empty exactly if its length is 0.
LEMMA LenZero ==
  ASSUME NEW T, NEW s \in Seq(T)
  PROVE  Len(s) \in Nat /\ (Len(s) = 0 <=> s = << >>)
  BY EmptySeq

\* Concatenation under a name of its own is not expanded by the provers.
Cat(a, b) == a \o b

\* The elements of a concatenation.
LEMMA CatIs ==
  ASSUME NEW T, NEW s \in Seq(T), NEW t \in Seq(T)
  PROVE  /\ Cat(s, t) \in Seq(T) /\ Len(Cat(s, t)) = Len(s) + Len(t)
         /\ Len(s) \in Nat /\ Len(t) \in Nat
         /\ \A i \in 1..Len(s) : Cat(s, t)[i] = s[i]
         /\ \A i \in 1..Len(t) : Cat(s, t)[Len(s) + i] = t[i]
<1>1. /\ s \o t \in Seq(T) /\ Len(s \o t) = Len(s) + Len(t)
      /\ \A i \in 1..Len(s) + Len(t) : (s \o t)[i] = IF i <= Len(s) THEN s[i] ELSE t[i - Len(s)]
  BY ConcatProperties
<1>2. /\ Cat(s, t) \in Seq(T) /\ Len(Cat(s, t)) = Len(s) + Len(t)
      /\ \A i \in 1..Len(s) + Len(t) : Cat(s, t)[i] = IF i <= Len(s) THEN s[i] ELSE t[i - Len(s)]
  BY <1>1, Zenon DEF Cat
<1>3. Len(s) \in Nat /\ Len(t) \in Nat
  BY LenZero
<1>4. ASSUME NEW i \in 1..Len(t) PROVE Cat(s, t)[Len(s) + i] = t[i]
  <2>1. Len(s) + i \in 1..Len(s) + Len(t) /\ ~(Len(s) + i <= Len(s)) /\ (Len(s) + i) - Len(s) = i
    BY <1>3
  <2> QED
    BY <1>2, <2>1
<1> QED
  BY <1>2, <1>3, <1>4

\* Nothing in front changes nothing, nor behind.
LEMMA CatEmpty ==
  ASSUME NEW T, NEW s \in Seq(T)
  PROVE  Cat(<< >>, s) = s /\ Cat(s, << >>) = s
  BY ConcatEmptySeq DEF Cat

\* Concatenation is associative.
LEMMA Associative ==
  ASSUME NEW T, NEW a \in Seq(T), NEW b \in Seq(T), NEW c \in Seq(T)
  PROVE  Cat(Cat(a, b), c) = Cat(a, Cat(b, c))
  BY ConcatAssociative DEF Cat

\* f is the running concatenation that FlattenSeq(ss) is the last value of,
\* carried as far as the n-th sequence.
Flattens(ss, n, f) ==
  f = [i \in 1..n |-> IF i = 1 THEN ss[i] ELSE f[i - 1] \o ss[i]]

\* The concatenation has a result.
LEMMA FlattensExists ==
  ASSUME NEW ss, NEW n \in Nat
  PROVE  \E f : Flattens(ss, n, f)
<1> DEFINE S == {m \in Nat : \E f : Flattens(ss, m, f)}
<1>1. 0 \in S
  <2> DEFINE f == [i \in 1..0 |-> ss[i]]
  <2>1. Flattens(ss, 0, f)
    BY DEF Flattens
  <2> QED
    BY <2>1
<1>2. ASSUME NEW m \in Nat, m \in S PROVE m + 1 \in S
  <2>1. PICK f : Flattens(ss, m, f)
    BY <1>2
  <2> DEFINE v == IF m = 0 THEN ss[1] ELSE f[m] \o ss[m + 1]
             g == [i \in 1..(m + 1) |-> IF i = m + 1 THEN v ELSE f[i]]
  <2>2. ASSUME NEW i \in 1..(m + 1)
        PROVE  g[i] = IF i = 1 THEN ss[i] ELSE g[i - 1] \o ss[i]
    <3>1. CASE i = m + 1
      BY <3>1
    <3>2. CASE i # m + 1
      <4>1. i \in 1..m
        BY <3>2
      <4>2. f[i] = IF i = 1 THEN ss[i] ELSE f[i - 1] \o ss[i]
        BY <2>1, <4>1 DEF Flattens
      <4>3. i # 1 => i - 1 \in 1..(m + 1) /\ i - 1 # m + 1
        BY <4>1
      <4> HIDE DEF v
      <4> QED
        BY <3>2, <4>1, <4>2, <4>3
    <3> QED
      BY <3>1, <3>2
  <2>3. Flattens(ss, m + 1, g)
    BY <2>2 DEF Flattens
  <2> HIDE DEF g
  <2> QED
    BY <2>3
<1> HIDE DEF S
<1>3. Nat \subseteq S
  BY <1>1, <1>2, SetInduction
<1> QED
  BY <1>3 DEF S

\* FlattenSeq is the last value of the running concatenation.
LEMMA FlattenSeqIs ==
  ASSUME NEW ss, Len(ss) \in Nat, Len(ss) # 0
  PROVE  \E f : Flattens(ss, Len(ss), f) /\ FlattenSeq(ss) = f[Len(ss)]
<1> DEFINE f == CHOOSE f : Flattens(ss, Len(ss), f)
<1>1. Flattens(ss, Len(ss), f)
  BY FlattensExists
<1>2. FlattenSeq(ss) = f[Len(ss)]
  BY DEF FlattenSeq, Flattens
<1> HIDE DEF f
<1> QED
  BY <1>1, <1>2

\* One more sequence at the end.
LEMMA FlattenAppend ==
  ASSUME NEW B, NEW ss \in Seq(Seq(B)), NEW s \in Seq(B)
  PROVE  FlattenSeq(Append(ss, s)) = FlattenSeq(ss) \o s
<1> DEFINE tt == Append(ss, s)
           n == Len(ss)
<1>1. /\ Len(tt) = n + 1 /\ n \in Nat /\ tt[n + 1] = s
      /\ \A i \in 1..n : tt[i] = ss[i]
  BY AppendProperties
<1> HIDE DEF tt
<1>2. PICK g : Flattens(tt, n + 1, g) /\ FlattenSeq(tt) = g[n + 1]
  BY <1>1, FlattenSeqIs
<1>3. CASE n = 0
  <2>1. g[1] = tt[1]
    BY <1>2, <1>3 DEF Flattens
  <2>2. ss = << >> /\ FlattenSeq(ss) = << >>
    BY <1>3, EmptySeq DEF FlattenSeq
  <2>3. << >> \o s = s
    BY ConcatEmptySeq
  <2> QED
    BY <1>1, <1>2, <1>3, <2>1, <2>2, <2>3 DEF tt
<1>4. CASE n # 0
  <2>1. PICK f : Flattens(ss, n, f) /\ FlattenSeq(ss) = f[n]
    BY <1>1, <1>4, FlattenSeqIs
  <2> HIDE DEF n
  <2> DEFINE S == {k \in Nat : k \in 1..n => f[k] = g[k]}
  <2>2. f[n] = g[n]
    <3>1. 0 \in S
      OBVIOUS
    <3>2. ASSUME NEW k \in Nat, k \in S PROVE k + 1 \in S
      <4> SUFFICES ASSUME k + 1 \in 1..n PROVE f[k + 1] = g[k + 1]
        OBVIOUS
      <4>1. k + 1 \in 1..(n + 1) /\ ss[k + 1] = tt[k + 1]
        BY <1>1
      <4>2. f[k + 1] = IF k + 1 = 1 THEN ss[k + 1] ELSE f[(k + 1) - 1] \o ss[k + 1]
        BY <2>1 DEF Flattens
      <4>3. g[k + 1] = IF k + 1 = 1 THEN tt[k + 1] ELSE g[(k + 1) - 1] \o tt[k + 1]
        BY <1>2, <4>1 DEF Flattens
      <4>4. (k + 1) - 1 = k /\ (k + 1 # 1 => f[k] = g[k])
        BY <1>1, <3>2
      <4> QED
        BY <4>1, <4>2, <4>3, <4>4
    <3> HIDE DEF S
    <3>3. Nat \subseteq S
      BY <3>1, <3>2, SetInduction
    <3>4. n \in S
      BY <1>1, <3>3
    <3> QED
      BY <1>1, <1>4, <3>4 DEF S
  <2>3. g[n + 1] = g[(n + 1) - 1] \o tt[n + 1]
    <3>1. n + 1 \in 1..(n + 1) /\ n + 1 # 1
      BY <1>1, <1>4
    <3>2. g = [i \in 1..(n + 1) |-> IF i = 1 THEN tt[i] ELSE g[i - 1] \o tt[i]]
      BY <1>2 DEF Flattens
    <3>3. \A i \in 1..(n + 1) : g[i] = IF i = 1 THEN tt[i] ELSE g[i - 1] \o tt[i]
      BY <3>2
    <3> QED
      BY <3>1, <3>3
  <2>4. (n + 1) - 1 = n
    BY <1>1
  <2> QED
    BY <1>1, <1>2, <2>1, <2>2, <2>3, <2>4 DEF tt
<1> QED
  BY <1>3, <1>4

\* Nothing concatenated is nothing.
LEMMA FlattenEmpty == FlattenSeq(<< >>) = << >>
  BY EmptySeq DEF FlattenSeq

\* What is concatenated from sequences over B is a sequence over B.
LEMMA FlattenTyped ==
  ASSUME NEW B, NEW ss \in Seq(Seq(B))
  PROVE  FlattenSeq(ss) \in Seq(B)
<1> DEFINE S == {n \in Nat : \A tt \in Seq(Seq(B)) : Len(tt) = n => FlattenSeq(tt) \in Seq(B)}
<1>1. 0 \in S
  <2>1. ASSUME NEW tt \in Seq(Seq(B)), Len(tt) = 0 PROVE FlattenSeq(tt) \in Seq(B)
    <3>1. tt = << >>
      BY <2>1, EmptySeq
    <3> QED
      BY <3>1, FlattenEmpty, EmptySeq
  <2> QED
    BY <2>1
<1>2. ASSUME NEW n \in Nat, n \in S PROVE n + 1 \in S
  <2>1. ASSUME NEW tt \in Seq(Seq(B)), Len(tt) = n + 1 PROVE FlattenSeq(tt) \in Seq(B)
    <3>1. tt # << >>
      BY <2>1, EmptySeq
    <3>2. PICK uu \in Seq(Seq(B)), e \in Seq(B) : tt = Append(uu, e)
      BY <3>1, SequenceEmptyOrAppend
    <3>3. Len(tt) = Len(uu) + 1 /\ Len(uu) \in Nat
      BY <3>2, AppendProperties
    <3>4. FlattenSeq(uu) \in Seq(B)
      BY <1>2, <2>1, <3>3
    <3> QED
      BY <3>2, <3>4, FlattenAppend, ConcatProperties
  <2> QED
    BY <2>1
<1> HIDE DEF S
<1>3. Nat \subseteq S
  BY <1>1, <1>2, SetInduction
<1>4. Len(ss) \in S
  BY <1>3
<1> QED
  BY <1>4 DEF S

\* The first sequence, then the others.
LEMMA FlattenHeadTail ==
  ASSUME NEW B, NEW ss \in Seq(Seq(B)), ss # << >>
  PROVE  FlattenSeq(ss) = Head(ss) \o FlattenSeq(Tail(ss))
<1> DEFINE S == {n \in Nat : \A tt \in Seq(Seq(B)) : tt # << >> /\ Len(tt) <= n =>
                   FlattenSeq(tt) = Head(tt) \o FlattenSeq(Tail(tt))}
<1>1. ASSUME NEW tt \in Seq(Seq(B)), tt # << >>
      PROVE  \E uu \in Seq(Seq(B)), e \in Seq(B) :
               /\ tt = Append(uu, e) /\ Len(tt) = Len(uu) + 1 /\ Len(uu) \in Nat
               /\ FlattenSeq(tt) = FlattenSeq(uu) \o e /\ FlattenSeq(uu) \in Seq(B)
               /\ Head(tt) = IF uu = << >> THEN e ELSE Head(uu)
               /\ Tail(tt) = IF uu = << >> THEN << >> ELSE Append(Tail(uu), e)
  <2>1. PICK uu \in Seq(Seq(B)), e \in Seq(B) : tt = Append(uu, e)
    BY <1>1, SequenceEmptyOrAppend
  <2>2. Len(tt) = Len(uu) + 1 /\ Len(uu) \in Nat
    BY <2>1, AppendProperties
  <2>3. FlattenSeq(tt) = FlattenSeq(uu) \o e /\ FlattenSeq(uu) \in Seq(B)
    BY <2>1, FlattenAppend, FlattenTyped
  <2>4. /\ Head(tt) = IF uu = << >> THEN e ELSE Head(uu)
        /\ Tail(tt) = IF uu = << >> THEN << >> ELSE Append(Tail(uu), e)
    BY <2>1, HeadTailAppend
  <2> QED
    BY <2>1, <2>2, <2>3, <2>4
<1>2. 0 \in S
  BY LenZero
<1>3. ASSUME NEW n \in Nat, n \in S PROVE n + 1 \in S
  <2>1. ASSUME NEW tt \in Seq(Seq(B)), tt # << >>, Len(tt) <= n + 1
        PROVE  FlattenSeq(tt) = Head(tt) \o FlattenSeq(Tail(tt))
    <3>1. PICK uu \in Seq(Seq(B)), e \in Seq(B) :
               /\ tt = Append(uu, e) /\ Len(tt) = Len(uu) + 1 /\ Len(uu) \in Nat
               /\ FlattenSeq(tt) = FlattenSeq(uu) \o e /\ FlattenSeq(uu) \in Seq(B)
               /\ Head(tt) = IF uu = << >> THEN e ELSE Head(uu)
               /\ Tail(tt) = IF uu = << >> THEN << >> ELSE Append(Tail(uu), e)
      BY <1>1, <2>1
    <3>2. CASE uu = << >>
      <4>1. << >> \o e = e /\ e \o << >> = e
        BY ConcatEmptySeq
      <4>2. Head(tt) = e /\ FlattenSeq(Tail(tt)) = << >> /\ FlattenSeq(tt) = << >> \o e
        BY <3>1, <3>2, FlattenEmpty
      <4> QED
        BY <4>1, <4>2
    <3>3. CASE uu # << >>
      <4> DEFINE a == Head(uu)
                 b == FlattenSeq(Tail(uu))
      <4>1. Len(uu) <= n
        BY <2>1, <3>1
      <4>2. FlattenSeq(uu) = a \o b
        BY <1>3, <3>3, <4>1
      <4>3. a \in Seq(B) /\ Tail(uu) \in Seq(Seq(B))
        BY <3>3, HeadTailProperties
      <4>4. b \in Seq(B) /\ FlattenSeq(Append(Tail(uu), e)) = b \o e
        BY <4>3, FlattenTyped, FlattenAppend
      <4>5. FlattenSeq(tt) = FlattenSeq(uu) \o e /\ Head(tt) = a /\ Tail(tt) = Append(Tail(uu), e)
        BY <3>1, <3>3
      <4> HIDE DEF a, b
      <4>6. Cat(Cat(a, b), e) = Cat(a, Cat(b, e))
        BY <4>3, <4>4, Associative
      <4>7. (a \o b) \o e = a \o (b \o e)
        BY <4>6 DEF Cat
      <4> QED
        BY <4>2, <4>4, <4>5, <4>7
    <3> QED
      BY <3>2, <3>3
  <2> QED
    BY <2>1
<1> HIDE DEF S
<1>4. Nat \subseteq S
  BY <1>2, <1>3, SetInduction
<1>5. Len(ss) \in S /\ Len(ss) <= Len(ss)
  BY <1>4, LenZero
<1> QED
  BY <1>5 DEF S

\* What the first n sequences make.
Upto(ss, n) == FlattenSeq(SubSeq(ss, 1, n))

\* One sequence more each time, and all of them in the end.
LEMMA UptoStep ==
  ASSUME NEW B, NEW ss \in Seq(Seq(B))
  PROVE  /\ Upto(ss, 0) = << >> /\ Upto(ss, Len(ss)) = FlattenSeq(ss)
         /\ \A n \in 0..Len(ss) : Upto(ss, n) \in Seq(B)
         /\ \A n \in 0..(Len(ss) - 1) : Upto(ss, n + 1) = Cat(Upto(ss, n), ss[n + 1])
<1>1. Len(ss) \in Nat
  BY LenZero
<1>2. Upto(ss, 0) = << >>
  <2>1. SubSeq(ss, 1, 0) = << >>
    BY SubSeqEmpty
  <2> QED
    BY <2>1, FlattenEmpty DEF Upto
<1>3. Upto(ss, Len(ss)) = FlattenSeq(ss)
  <2>1. SubSeq(ss, 1, Len(ss)) = ss
    BY SubSeqFull
  <2> QED
    BY <2>1 DEF Upto
<1>4. ASSUME NEW n \in 0..Len(ss) PROVE SubSeq(ss, 1, n) \in Seq(Seq(B))
  BY <1>1, SubSeqProperties
<1>5. ASSUME NEW n \in 0..Len(ss) PROVE Upto(ss, n) \in Seq(B)
  BY <1>4, FlattenTyped DEF Upto
<1>6. ASSUME NEW n \in 0..(Len(ss) - 1) PROVE Upto(ss, n + 1) = Cat(Upto(ss, n), ss[n + 1])
  <2>1. n \in 0..Len(ss) /\ n + 1 \in 1..Len(ss) /\ ss[n + 1] \in Seq(B)
    BY <1>1, ElementOfSeq
  <2>2. SubSeq(ss, 1, n + 1) = Append(SubSeq(ss, 1, n), ss[n + 1])
    BY <1>1, <2>1, SubSeqProperties
  <2>3. SubSeq(ss, 1, n) \in Seq(Seq(B))
    BY <1>4, <2>1
  <2> QED
    BY <2>1, <2>2, <2>3, FlattenAppend DEF Upto, Cat
<1> QED
  BY <1>2, <1>3, <1>5, <1>6

\* Where the elements of the n-th sequence are in the concatenation.
LEMMA FlattenElements ==
  ASSUME NEW B, NEW ss \in Seq(Seq(B)), NEW n \in 0..(Len(ss) - 1)
  PROVE  /\ Len(Upto(ss, n)) \in Nat /\ Len(ss[n + 1]) \in Nat
         /\ Len(Upto(ss, n + 1)) = Len(Upto(ss, n)) + Len(ss[n + 1])
         /\ Len(Upto(ss, n + 1)) <= Len(FlattenSeq(ss))
         /\ \A i \in 1..Len(ss[n + 1]) : FlattenSeq(ss)[Len(Upto(ss, n)) + i] = ss[n + 1][i]
<1>1. /\ Len(ss) \in Nat /\ n \in 0..Len(ss) /\ n + 1 \in 0..Len(ss) /\ n + 1 \in 1..Len(ss)
      /\ ss[n + 1] \in Seq(B)
  BY LenZero, ElementOfSeq
<1> DEFINE u == Upto(ss, n)
           v == Upto(ss, n + 1)
           s == ss[n + 1]
<1>2. u \in Seq(B) /\ v \in Seq(B) /\ v = Cat(u, s)
  BY <1>1, UptoStep
<1> HIDE DEF u, v
<1>3. /\ Len(u) \in Nat /\ Len(s) \in Nat /\ Len(v) = Len(u) + Len(s)
      /\ \A i \in 1..Len(s) : v[Len(u) + i] = s[i]
  <2> HIDE DEF s
  <2>1. u \in Seq(B) /\ s \in Seq(B)
    BY <1>1, <1>2 DEF s
  <2>2. /\ Len(u) \in Nat /\ Len(s) \in Nat /\ Len(Cat(u, s)) = Len(u) + Len(s)
        /\ \A i \in 1..Len(s) : Cat(u, s)[Len(u) + i] = s[i]
    BY <2>1, CatIs
  <2> QED
    BY <1>2, <2>2, Zenon
<1> DEFINE P(m) == Len(v) <= Len(Upto(ss, m)) /\ \A i \in 1..Len(v) : Upto(ss, m)[i] = v[i]
           S == {d \in Nat : n + 1 + d <= Len(ss) => P(n + 1 + d)}
<1>4. 0 \in S
  BY <1>1, <1>3 DEF v
<1>5. ASSUME NEW d \in Nat, d \in S PROVE d + 1 \in S
  <2> SUFFICES ASSUME n + 1 + (d + 1) <= Len(ss) PROVE P(n + 1 + (d + 1))
    OBVIOUS
  <2> DEFINE m == n + 1 + d
  <2>1. /\ m \in 0..(Len(ss) - 1) /\ m \in 0..Len(ss) /\ m + 1 \in 1..Len(ss) /\ P(m)
        /\ n + 1 + (d + 1) = m + 1
    BY <1>1, <1>5
  <2> HIDE DEF m
  <2>2. Upto(ss, m + 1) = Cat(Upto(ss, m), ss[m + 1]) /\ Upto(ss, m) \in Seq(B)
    BY <2>1, UptoStep
  <2>3. ss[m + 1] \in Seq(B)
    BY <2>1, ElementOfSeq
  <2>4. /\ Len(Upto(ss, m + 1)) = Len(Upto(ss, m)) + Len(ss[m + 1])
        /\ Len(Upto(ss, m)) \in Nat /\ Len(ss[m + 1]) \in Nat
        /\ \A i \in 1..Len(Upto(ss, m)) : Upto(ss, m + 1)[i] = Upto(ss, m)[i]
    <3> DEFINE a == Upto(ss, m)
               b == ss[m + 1]
    <3>1. a \in Seq(B) /\ b \in Seq(B)
      BY <2>2, <2>3
    <3> HIDE DEF a, b
    <3>2. /\ Len(Cat(a, b)) = Len(a) + Len(b) /\ Len(a) \in Nat /\ Len(b) \in Nat
          /\ \A i \in 1..Len(a) : Cat(a, b)[i] = a[i]
      BY <3>1, CatIs
    <3>3. Upto(ss, m + 1) = Cat(a, b)
      BY <2>2 DEF a, b
    <3> QED
      BY <3>2, <3>3, Zenon DEF a, b
  <2>5. P(m + 1)
    <3>1. Len(v) <= Len(Upto(ss, m)) /\ \A i \in 1..Len(v) : Upto(ss, m)[i] = v[i]
      BY <2>1
    <3>2. Len(v) <= Len(Upto(ss, m + 1))
      BY <1>3, <2>4, <3>1, SMTT(60)
    <3>3. ASSUME NEW i \in 1..Len(v) PROVE Upto(ss, m + 1)[i] = v[i]
      <4>1. i \in 1..Len(Upto(ss, m))
        BY <1>3, <2>4, <3>1
      <4> QED
        BY <2>4, <3>1, <4>1
    <3> QED
      BY <3>2, <3>3
  <2> QED
    BY <2>1, <2>5
<1> HIDE DEF S, P
<1>6. Nat \subseteq S
  BY <1>4, <1>5, SetInduction
<1>7. P(Len(ss))
  <2>1. Len(ss) - (n + 1) \in Nat /\ n + 1 + (Len(ss) - (n + 1)) = Len(ss)
    BY <1>1
  <2>2. Len(ss) - (n + 1) \in S
    BY <1>6, <2>1
  <2> QED
    BY <1>1, <2>1, <2>2 DEF S
<1>8. Upto(ss, Len(ss)) = FlattenSeq(ss)
  BY UptoStep
<1>9. Len(v) <= Len(FlattenSeq(ss)) /\ \A i \in 1..Len(v) : FlattenSeq(ss)[i] = v[i]
  BY <1>7, <1>8 DEF P
<1>10. ASSUME NEW i \in 1..Len(s) PROVE FlattenSeq(ss)[Len(u) + i] = s[i]
  <2>1. Len(u) + i \in 1..Len(v)
    BY <1>3
  <2> QED
    BY <1>3, <1>9, <2>1
<1> QED
  BY <1>3, <1>9, <1>10 DEF u, v

-----------------------------------------------------------------------------
(* Sums over finite sets                                                   *)

\* The element a fold takes next.
Next1(s) == CHOOSE x \in s : TRUE

\* t gives the sum of f over each of the sets in D, as the fold computes it.
Totals(f, D, t) ==
  t = [s \in D |-> IF s = {} THEN 0 ELSE f[Next1(s)] + t[s \ {Next1(s)}]]

Sums(f, S, t) == Totals(f, SUBSET S, t)

\* The sum of the values of f.
Total(f) == FoldFunction(+, 0, f)

\* The subsets of S with at most n members.
Small(S, n) == {s \in SUBSET S : Cardinality(s) <= n}

\* A finite set with no more than no members is empty.
LEMMA NoMembers ==
  ASSUME NEW S, IsFiniteSet(S), NEW s \in SUBSET S, Cardinality(s) <= 0
  PROVE  s = {}
<1>1. IsFiniteSet(s)
  BY FS_Subset
<1>2. Cardinality(s) \in Nat
  BY <1>1, FS_CardinalityType
<1>3. Cardinality(s) = 0
  BY <1>2
<1> QED
  BY <1>1, <1>3, FS_EmptySet

\* Taking an element away makes a finite set smaller.
LEMMA TakeAway ==
  ASSUME NEW S, IsFiniteSet(S), NEW s \in SUBSET S, NEW x \in s
  PROVE  /\ s \ {x} \in SUBSET S /\ Cardinality(s) \in Nat /\ Cardinality(s \ {x}) \in Nat
         /\ Cardinality(s \ {x}) = Cardinality(s) - 1
<1>1. IsFiniteSet(s)
  BY FS_Subset
<1>2. IsFiniteSet(s \ {x}) /\ Cardinality(s \ {x}) = Cardinality(s) - 1
  BY <1>1, FS_RemoveElement
<1> QED
  BY <1>1, <1>2, FS_CardinalityType

\* The fold has a result.
LEMMA TotalsExist ==
  ASSUME NEW S, IsFiniteSet(S), NEW f
  PROVE  \E t : Totals(f, SUBSET S, t)
<1> DEFINE P == {n \in Nat : \E t : Totals(f, Small(S, n), t)}
<1>0. \A s \in SUBSET S : s # {} => Next1(s) \in s
  BY DEF Next1
<1>1. 0 \in P
  <2> DEFINE t == [s \in Small(S, 0) |-> 0]
  <2>1. \A s \in Small(S, 0) : s = {}
    BY NoMembers DEF Small
  <2>2. Totals(f, Small(S, 0), t)
    BY <2>1 DEF Totals
  <2> QED
    BY <2>2
<1>2. ASSUME NEW n \in Nat, n \in P PROVE n + 1 \in P
  <2>1. PICK t : Totals(f, Small(S, n), t)
    BY <1>2
  <2> DEFINE v(s) == IF s = {} THEN 0 ELSE f[Next1(s)] + t[s \ {Next1(s)}]
             u == [s \in Small(S, n + 1) |-> IF Cardinality(s) <= n THEN t[s] ELSE v(s)]
  <2>2. ASSUME NEW s \in Small(S, n + 1)
        PROVE  u[s] = v(s)
    <3>1. CASE Cardinality(s) <= n
      BY <2>1, <3>1 DEF Totals, Small
    <3>2. CASE ~(Cardinality(s) <= n)
      BY <3>2
    <3> QED
      BY <3>1, <3>2
  <2>3. ASSUME NEW s \in Small(S, n + 1), s # {}
        PROVE  s \ {Next1(s)} \in Small(S, n + 1) /\ u[s \ {Next1(s)}] = t[s \ {Next1(s)}]
    <3> DEFINE r == s \ {Next1(s)}
    <3>1. r \in SUBSET S /\ Cardinality(s) \in Nat /\ Cardinality(r) = Cardinality(s) - 1
      BY <1>0, <2>3, TakeAway DEF Small
    <3>2. Cardinality(s) <= n + 1
      BY DEF Small
    <3>3. Cardinality(r) <= n /\ Cardinality(r) <= n + 1
      BY <3>1, <3>2
    <3> QED
      BY <3>1, <3>3 DEF Small
  <2>4. u = [s \in Small(S, n + 1) |-> IF s = {} THEN 0 ELSE f[Next1(s)] + u[s \ {Next1(s)}]]
    <3>1. ASSUME NEW s \in Small(S, n + 1)
          PROVE  u[s] = IF s = {} THEN 0 ELSE f[Next1(s)] + u[s \ {Next1(s)}]
      <4> HIDE DEF u
      <4> QED
        BY <2>2, <2>3
    <3> DEFINE w == [s \in Small(S, n + 1) |-> IF s = {} THEN 0 ELSE f[Next1(s)] + u[s \ {Next1(s)}]]
    <3>2. \A s \in Small(S, n + 1) : u[s] = w[s]
      BY <3>1
    <3> QED
      BY <3>2
  <2>5. Totals(f, Small(S, n + 1), u)
    BY <2>4, Zenon DEF Totals
  <2> HIDE DEF u
  <2> QED
    BY <2>5
<1> HIDE DEF P
<1>3. Nat \subseteq P
  BY <1>1, <1>2, SetInduction
<1>4. Cardinality(S) \in P
  BY <1>3, FS_CardinalityType
<1>5. Small(S, Cardinality(S)) = SUBSET S
  BY FS_Subset DEF Small
<1> QED
  BY <1>4, <1>5 DEF P

\* The fold is the last of these sums.
LEMMA TotalIs ==
  ASSUME NEW S, IsFiniteSet(S), NEW f, DOMAIN f = S
  PROVE  \E t : Sums(f, S, t) /\ Total(f) = t[S]
<1> DEFINE t == CHOOSE t : Totals(f, SUBSET S, t)
<1>1. Totals(f, SUBSET S, t)
  BY TotalsExist
<1>2. Total(f) = t[S]
  BY DEF Total, FoldFunction, FoldFunctionOnSet, MapThenFoldSet, Totals, Next1
<1> HIDE DEF t
<1> QED
  BY <1>1, <1>2 DEF Sums

\* What one step of the fold adds.
LEMMA TotalsStep ==
  ASSUME NEW S, NEW f, NEW t, Sums(f, S, t)
  PROVE  /\ t[{}] = 0
         /\ \A s \in SUBSET S : s # {} => Next1(s) \in s /\ t[s] = f[Next1(s)] + t[s \ {Next1(s)}]
<1>1. \A s \in SUBSET S : t[s] = IF s = {} THEN 0 ELSE f[Next1(s)] + t[s \ {Next1(s)}]
  BY DEF Sums, Totals
<1>2. {} \in SUBSET S
  OBVIOUS
<1>3. \A s : s # {} => Next1(s) \in s
  BY DEF Next1
<1> QED
  BY <1>1, <1>2, <1>3

\* Sums of naturals are naturals, and do not decrease when the values grow.
LEMMA TotalsGrow ==
  ASSUME NEW S, IsFiniteSet(S), NEW f \in [S -> Nat], NEW g \in [S -> Nat], NEW t, NEW u,
         Sums(f, S, t), Sums(g, S, u), NEW c \in SUBSET S
  PROVE  /\ t[c] \in Nat /\ u[c] \in Nat
         /\ (\A x \in c : f[x] <= g[x]) => t[c] <= u[c]
<1> DEFINE Q(s) == /\ t[s] \in Nat /\ u[s] \in Nat
                   /\ (\A x \in s : f[x] <= g[x]) => t[s] <= u[s]
           P == {n \in Nat : \A s \in Small(S, n) : Q(s)}
<1>1. ASSUME NEW s \in SUBSET S, s = {} \/ Q(s \ {Next1(s)}) PROVE Q(s)
  <2>1. CASE s = {}
    <3>1. t[{}] = 0 /\ u[{}] = 0
      BY TotalsStep
    <3> QED
      BY <2>1, <3>1
  <2>2. CASE s # {}
    <3> DEFINE x == Next1(s)
               r == s \ {x}
    <3>1. x \in s /\ t[s] = f[x] + t[r] /\ u[s] = g[x] + u[r]
      <4>0. Next1(s) \in s
        BY <2>2 DEF Next1
      <4>1. x \in s /\ t[s] = f[x] + t[r]
        BY <2>2, <4>0, TotalsStep
      <4>2. u[s] = g[x] + u[r]
        BY <2>2, TotalsStep
      <4> QED
        BY <4>1, <4>2
    <3>2. f[x] \in Nat /\ g[x] \in Nat /\ Q(r)
      BY <1>1, <2>2, <3>1
    <3>3. (\A y \in s : f[y] <= g[y]) => f[x] <= g[x] /\ t[r] <= u[r]
      BY <3>1, <3>2
    <3> HIDE DEF x, r
    <3> QED
      BY <3>1, <3>2, <3>3
  <2> QED
    BY <2>1, <2>2
<1> HIDE DEF Q
<1>2. 0 \in P
  <2> SUFFICES ASSUME NEW s \in SUBSET S, Cardinality(s) <= 0 PROVE Q(s)
    BY DEF Small
  <2>1. s = {}
    BY NoMembers
  <2> QED
    BY <1>1, <2>1
<1>3. ASSUME NEW n \in Nat, n \in P PROVE n + 1 \in P
  <2> SUFFICES ASSUME NEW s \in SUBSET S, Cardinality(s) <= n + 1 PROVE Q(s)
    BY DEF Small
  <2>1. CASE s = {}
    BY <1>1, <2>1
  <2>2. CASE s # {}
    <3>1. Next1(s) \in s
      BY <2>2 DEF Next1
    <3>2. s \ {Next1(s)} \in Small(S, n)
      BY <3>1, TakeAway DEF Small
    <3> QED
      BY <1>1, <1>3, <3>2
  <2> QED
    BY <2>1, <2>2
<1> HIDE DEF P
<1>4. Nat \subseteq P
  BY <1>2, <1>3, SetInduction
<1>5. Cardinality(S) \in P
  BY <1>4, FS_CardinalityType
<1>6. Small(S, Cardinality(S)) = SUBSET S
  BY FS_Subset DEF Small
<1> QED
  BY <1>5, <1>6 DEF P, Q

\* The order in which the fold takes the elements does not matter.
LEMMA TotalsRemove ==
  ASSUME NEW S, IsFiniteSet(S), NEW f \in [S -> Nat], NEW t, Sums(f, S, t),
         NEW c \in SUBSET S, NEW d \in c
  PROVE  t[c] = f[d] + t[c \ {d}]
<1> DEFINE Q(s) == \A x \in s : t[s] = f[x] + t[s \ {x}]
           P == {n \in Nat : \A s \in Small(S, n) : Q(s)}
<1>0. \A s \in SUBSET S : t[s] \in Nat
  BY TotalsGrow
<1>1. ASSUME NEW s \in SUBSET S, \A y \in s : Q(s \ {y}) PROVE Q(s)
  <2> SUFFICES ASSUME NEW x \in s PROVE t[s] = f[x] + t[s \ {x}]
    OBVIOUS
  <2> DEFINE y == Next1(s)
  <2>1. y \in s /\ t[s] = f[y] + t[s \ {y}]
    <3>1. s # {}
      OBVIOUS
    <3> QED
      BY <3>1, TotalsStep
  <2>2. CASE x = y
    BY <2>1, <2>2
  <2>3. CASE x # y
    <3>1. t[s \ {y}] = f[x] + t[(s \ {y}) \ {x}]
      BY <1>1, <2>1, <2>3
    <3>2. t[s \ {x}] = f[y] + t[(s \ {x}) \ {y}]
      BY <1>1, <2>1, <2>3
    <3>3. (s \ {x}) \ {y} = (s \ {y}) \ {x}
      OBVIOUS
    <3>4. f[x] \in Nat /\ f[y] \in Nat /\ t[(s \ {y}) \ {x}] \in Nat
      BY <1>0, <2>1
    <3> DEFINE a == t[s]
               b == t[s \ {y}]
               h == t[s \ {x}]
               k == t[(s \ {y}) \ {x}]
               m == f[x]
               n == f[y]
    <3>5. a = n + b /\ b = m + k /\ h = n + k /\ m \in Nat /\ n \in Nat /\ k \in Nat
      BY <2>1, <3>1, <3>2, <3>3, <3>4
    <3> HIDE DEF a, b, h, k, m, n
    <3>6. a = m + h
      BY <3>5
    <3> QED
      BY <3>6 DEF a, h, m
  <2> QED
    BY <2>2, <2>3
<1>2. 0 \in P
  <2> SUFFICES ASSUME NEW s \in SUBSET S, Cardinality(s) <= 0 PROVE Q(s)
    BY DEF Small
  <2>1. s = {}
    BY NoMembers
  <2> QED
    BY <2>1
<1> HIDE DEF Q
<1>3. ASSUME NEW n \in Nat, n \in P PROVE n + 1 \in P
  <2> SUFFICES ASSUME NEW s \in SUBSET S, Cardinality(s) <= n + 1 PROVE Q(s)
    BY DEF Small
  <2>1. ASSUME NEW y \in s PROVE Q(s \ {y})
    <3>1. s \ {y} \in Small(S, n)
      BY TakeAway DEF Small
    <3> QED
      BY <1>3, <3>1
  <2> QED
    BY <1>1, <2>1
<1> HIDE DEF P
<1>4. Nat \subseteq P
  BY <1>2, <1>3, SetInduction
<1>5. Cardinality(S) \in P
  BY <1>4, FS_CardinalityType
<1>6. Small(S, Cardinality(S)) = SUBSET S
  BY FS_Subset DEF Small
<1> QED
  BY <1>5, <1>6 DEF P, Q

\* One value, and the sum of the others.
LEMMA TotalSplits ==
  ASSUME NEW S, IsFiniteSet(S), NEW f \in [S -> Nat], NEW x \in S
  PROVE  \E t : Sums(f, S, t) /\ Total(f) = f[x] + t[S \ {x}]
<1>1. PICK t : Sums(f, S, t) /\ Total(f) = t[S]
  BY TotalIs
<1>2. S \in SUBSET S
  OBVIOUS
<1>3. t[S] = f[x] + t[S \ {x}]
  BY <1>1, <1>2, TotalsRemove
<1> QED
  BY <1>1, <1>3

\* The sum of naturals is a natural, and grows with them.
LEMMA TotalGrows ==
  ASSUME NEW S, IsFiniteSet(S), NEW f \in [S -> Nat], NEW g \in [S -> Nat],
         \A x \in S : f[x] <= g[x]
  PROVE  Total(f) \in Nat /\ Total(g) \in Nat /\ Total(f) <= Total(g)
<1>1. PICK t : Sums(f, S, t) /\ Total(f) = t[S]
  BY TotalIs
<1>2. PICK u : Sums(g, S, u) /\ Total(g) = u[S]
  BY TotalIs
<1>3. t[S] \in Nat /\ u[S] \in Nat /\ t[S] <= u[S]
  <2>1. Sums(f, S, t) /\ Sums(g, S, u) /\ S \in SUBSET S
    BY <1>1, <1>2
  <2>2. /\ t[S] \in Nat /\ u[S] \in Nat
        /\ (\A x \in S : f[x] <= g[x]) => t[S] <= u[S]
    BY <2>1, TotalsGrow
  <2> QED
    BY <2>2
<1> QED
  BY <1>1, <1>2, <1>3

\* The sum of zeros is zero.
LEMMA TotalZero ==
  ASSUME NEW S, IsFiniteSet(S), NEW f \in [S -> Nat], \A x \in S : f[x] = 0
  PROVE  Total(f) = 0
<1>1. PICK t : Sums(f, S, t) /\ Total(f) = t[S]
  BY TotalIs
<1> DEFINE Z == {n \in Nat : \A s \in Small(S, n) : t[s] = 0}
<1>2. /\ t[{}] = 0
      /\ \A s \in SUBSET S : s # {} => Next1(s) \in s /\ t[s] = f[Next1(s)] + t[s \ {Next1(s)}]
  BY <1>1, TotalsStep
<1>3. 0 \in Z
  BY <1>2, NoMembers DEF Small
<1>4. ASSUME NEW n \in Nat, n \in Z PROVE n + 1 \in Z
  <2> SUFFICES ASSUME NEW s \in SUBSET S, Cardinality(s) <= n + 1 PROVE t[s] = 0
    BY DEF Small
  <2>1. CASE s = {}
    BY <1>2, <2>1
  <2>2. CASE s # {}
    <3> DEFINE x == Next1(s)
    <3>1. x \in s
      BY <1>2, <2>2
    <3>2. t[s] = f[x] + t[s \ {x}]
      BY <1>2, <2>2
    <3> HIDE DEF x
    <3>3. s \ {x} \in Small(S, n)
      BY <3>1, TakeAway DEF Small
    <3>4. t[s \ {x}] = 0
      BY <1>4, <3>3
    <3>5. f[x] = 0
      BY <3>1
    <3> QED
      BY <3>2, <3>4, <3>5
  <2> QED
    BY <2>1, <2>2
<1> HIDE DEF Z
<1>5. Nat \subseteq Z
  BY <1>3, <1>4, SetInduction
<1>6. Cardinality(S) \in Z
  BY <1>5, FS_CardinalityType
<1>7. Small(S, Cardinality(S)) = SUBSET S
  BY FS_Subset DEF Small
<1> QED
  BY <1>1, <1>6, <1>7 DEF Z

\* A value that changes by itself changes the sum by the difference, and no
\* value is larger than the sum.
LEMMA TotalUpdate ==
  ASSUME NEW S, IsFiniteSet(S), NEW f \in [S -> Nat], NEW g \in [S -> Nat], NEW x \in S,
         \A y \in S : y # x => g[y] = f[y]
  PROVE  /\ Total(f) \in Nat /\ Total(g) \in Nat /\ f[x] <= Total(f)
         /\ Total(g) + f[x] = Total(f) + g[x]
<1>1. PICK t : Sums(f, S, t) /\ Total(f) = f[x] + t[S \ {x}]
  BY TotalSplits
<1>2. PICK u : Sums(g, S, u) /\ Total(g) = g[x] + u[S \ {x}]
  BY TotalSplits
<1> DEFINE r == S \ {x}
<1>3. r \in SUBSET S
  OBVIOUS
<1>4. t[r] \in Nat /\ u[r] \in Nat /\ f[x] \in Nat /\ g[x] \in Nat
  BY <1>1, <1>2, <1>3, TotalsGrow
<1>5. t[r] <= u[r]
  <2>1. \A y \in r : f[y] <= g[y]
    OBVIOUS
  <2> QED
    BY <1>1, <1>2, <1>3, <2>1, TotalsGrow
<1>6. u[r] <= t[r]
  <2>1. \A y \in r : g[y] <= f[y]
    OBVIOUS
  <2> QED
    BY <1>1, <1>2, <1>3, <2>1, TotalsGrow
<1> QED
  BY <1>1, <1>2, <1>4, <1>5, <1>6 DEF r

=============================================================================
