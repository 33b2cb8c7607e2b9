---------------------------- MODULE QueueMacros ----------------------------
(***************************************************************************)
(* The macros of server/queue.h as operators on memory.  A node is a list  *)
(* head or an element; m.next is its first pointer (first or next) and     *)
(* m.prev its second (last or prev).  Where the macros keep the address of *)
(* a first pointer instead of a node, it stands for the node it is in:     *)
(* heads and elements begin alike, which is what TAILQ_LAST relies on too. *)
(* Assignments happen in the order of the LETs.                            *)
(***************************************************************************)
EXTENDS Integers, Sequences, SequencesExt, FiniteSets

CONSTANTS Heads, Elems, NULL, Garbage

ASSUME ListAssumption ==
  /\ IsFiniteSet(Elems) /\ Heads \cap Elems = {}
  /\ {NULL, Garbage} \cap (Heads \cup Elems) = {} /\ NULL # Garbage

Nodes == Heads \cup Elems

SetNext(m, node, value) == [m EXCEPT !.next[node] = value]
SetPrev(m, node, value) == [m EXCEPT !.prev[node] = value]

\* The nodes a loop visits that starts at first and follows step until end.
Visits(first, step, end) ==
  LET at[k \in 0..Cardinality(Elems) + 1] ==
        IF k = 0 THEN first
        ELSE IF at[k-1] \in Elems THEN step[at[k-1]] ELSE at[k-1]
      n == Cardinality({k \in DOMAIN at : \A j \in 0..k : at[j] # end})
  IN [k \in 1..n |-> at[k-1]]

-----------------------------------------------------------------------------
(* Singly-linked lists                                                     *)

SLIST_INIT(m, h) == SetNext(m, h, NULL)

SLIST_INSERT_HEAD(m, h, e) == SetNext(SetNext(m, e, m.next[h]), h, e)

SLIST_INSERT_AFTER(m, l, e) == SetNext(SetNext(m, e, m.next[l]), l, e)

SLIST_REMOVE_HEAD(m, h) == SetNext(m, h, m.next[m.next[h]])

SLIST_REMOVE_AFTER(m, l) == SetNext(m, l, m.next[m.next[l]])

SLIST_FOREACH(m, h) == Visits(m.next[h], m.next, NULL)

\* Where the loop of the REMOVE macros stops: the element before e.
CurElm(m, h, e) == CHOOSE c \in ToSet(SLIST_FOREACH(m, h)) : m.next[c] = e

SLIST_REMOVE(m, h, e) ==
  IF m.next[h] = e THEN SLIST_REMOVE_HEAD(m, h) ELSE SLIST_REMOVE_AFTER(m, CurElm(m, h, e))

SLIST_SWAP(m, h1, h2) == SetNext(SetNext(m, h1, m.next[h2]), h2, m.next[h1])

-----------------------------------------------------------------------------
(* Lists: prev is the address of the pointer to the element                *)

LIST_INIT(m, h) == SetNext(m, h, NULL)

LIST_INSERT_HEAD(m, h, e) ==
  LET m1 == SetNext(m, e, m.next[h])
      m2 == IF m1.next[e] # NULL THEN SetPrev(m1, m1.next[h], e) ELSE m1
  IN SetPrev(SetNext(m2, h, e), e, h)

LIST_INSERT_BEFORE(m, l, e) ==
  LET m1 == SetNext(SetPrev(m, e, m.prev[l]), e, l)
  IN SetPrev(SetNext(m1, m1.prev[l], e), l, e)

LIST_INSERT_AFTER(m, l, e) ==
  LET m1 == SetNext(m, e, m.next[l])
      m2 == IF m1.next[e] # NULL THEN SetPrev(m1, m1.next[l], e) ELSE m1
  IN SetPrev(SetNext(m2, l, e), e, l)

LIST_REMOVE(m, e) ==
  LET m1 == IF m.next[e] # NULL THEN SetPrev(m, m.next[e], m.prev[e]) ELSE m
  IN SetNext(m1, m1.prev[e], m1.next[e])

LIST_REPLACE(m, e, e2) ==
  LET m1 == SetNext(m, e2, m.next[e])
      m2 == IF m1.next[e2] # NULL THEN SetPrev(m1, m1.next[e2], e2) ELSE m1
      m3 == SetPrev(m2, e2, m2.prev[e])
  IN SetNext(m3, m3.prev[e2], e2)

LIST_SWAP(m, h1, h2) ==
  LET m1 == SLIST_SWAP(m, h1, h2)
      m2 == IF m1.next[h1] # NULL THEN SetPrev(m1, m1.next[h1], h1) ELSE m1
  IN IF m2.next[h2] # NULL THEN SetPrev(m2, m2.next[h2], h2) ELSE m2

LIST_PREV(m, h, e) == IF m.prev[e] = h THEN NULL ELSE m.prev[e]

-----------------------------------------------------------------------------
(* Singly-linked tail queues: the head's prev is the address of the last   *)
(* next pointer                                                            *)

STAILQ_INIT(m, h) == SetPrev(SetNext(m, h, NULL), h, h)

\* Make node the last one if nothing follows it.
LastIfEnd(m, h, node) == IF m.next[node] = NULL THEN SetPrev(m, h, node) ELSE m

STAILQ_INSERT_HEAD(m, h, e) ==
  SetNext(LastIfEnd(SetNext(m, e, m.next[h]), h, e), h, e)

STAILQ_INSERT_AFTER(m, h, l, e) ==
  SetNext(LastIfEnd(SetNext(m, e, m.next[l]), h, e), l, e)

STAILQ_INSERT_TAIL(m, h, e) ==
  SetPrev(SetNext(SetNext(m, e, NULL), m.prev[h], e), h, e)

STAILQ_CONCAT(m, h1, h2) ==
  IF m.next[h2] = NULL THEN m
  ELSE STAILQ_INIT(SetPrev(SetNext(m, m.prev[h1], m.next[h2]), h1, m.prev[h2]), h2)

\* A plausible bug: the last pointer is left behind.
Mutant_STAILQ_REMOVE_HEAD(m, h) == SetNext(m, h, m.next[m.next[h]])

STAILQ_REMOVE_HEAD(m, h) == LastIfEnd(SetNext(m, h, m.next[m.next[h]]), h, h)

STAILQ_REMOVE_HEAD_UNTIL(m, h, e) == LastIfEnd(SetNext(m, h, m.next[e]), h, h)

STAILQ_REMOVE_AFTER(m, h, e) == LastIfEnd(SetNext(m, e, m.next[m.next[e]]), h, e)

STAILQ_REMOVE(m, h, e) ==
  IF m.next[h] = e THEN STAILQ_REMOVE_HEAD(m, h)
  ELSE STAILQ_REMOVE_AFTER(m, h, CurElm(m, h, e))

STAILQ_SWAP(m, h1, h2) ==
  LET m1 == SLIST_SWAP(m, h1, h2)
      m2 == SetPrev(SetPrev(m1, h1, m.prev[h2]), h2, m.prev[h1])
  IN LastIfEnd(LastIfEnd(m2, h1, h1), h2, h2)

STAILQ_LAST(m, h) == IF m.next[h] = NULL THEN NULL ELSE m.prev[h]

-----------------------------------------------------------------------------
(* Tail queues                                                             *)

TAILQ_INIT(m, h) == SetPrev(SetNext(m, h, NULL), h, h)

\* Make node the previous of what follows it, or the last one.
Close(m, h, node) ==
  IF m.next[node] # NULL THEN SetPrev(m, m.next[node], node) ELSE SetPrev(m, h, node)

TAILQ_INSERT_HEAD(m, h, e) ==
  SetPrev(SetNext(Close(SetNext(m, e, m.next[h]), h, e), h, e), e, h)

TAILQ_INSERT_BEFORE(m, l, e) ==
  LET m1 == SetNext(SetPrev(m, e, m.prev[l]), e, l)
  IN SetPrev(SetNext(m1, m1.prev[l], e), l, e)

TAILQ_INSERT_AFTER(m, h, l, e) ==
  SetPrev(SetNext(Close(SetNext(m, e, m.next[l]), h, e), l, e), e, l)

TAILQ_INSERT_TAIL(m, h, e) ==
  LET m1 == SetPrev(SetNext(m, e, NULL), e, m.prev[h])
  IN SetPrev(SetNext(m1, m1.prev[h], e), h, e)

TAILQ_CONCAT(m, h1, h2) ==
  IF m.next[h2] = NULL THEN m
  ELSE LET m1 == SetPrev(SetNext(m, m.prev[h1], m.next[h2]), m.next[h2], m.prev[h1])
       IN TAILQ_INIT(SetPrev(m1, h1, m1.prev[h2]), h2)

TAILQ_REMOVE(m, h, e) ==
  LET m1 == SetPrev(m, IF m.next[e] # NULL THEN m.next[e] ELSE h, m.prev[e])
  IN SetNext(m1, m1.prev[e], m1.next[e])

TAILQ_REPLACE(m, h, e, e2) ==
  LET m1 == Close(SetNext(m, e2, m.next[e]), h, e2)
      m2 == SetPrev(m1, e2, m1.prev[e])
  IN SetNext(m2, m2.prev[e2], e2)

TAILQ_SWAP(m, h1, h2) ==
  LET m1 == SLIST_SWAP(m, h1, h2)
      m2 == SetPrev(SetPrev(m1, h1, m.prev[h2]), h2, m.prev[h1])
  IN Close(Close(m2, h1, h1), h2, h2)

TAILQ_LAST(m, h) == m.next[m.prev[m.prev[h]]]

TAILQ_PREV(m, e) == m.next[m.prev[m.prev[e]]]

TAILQ_FOREACH_REVERSE(m, h) == Visits(TAILQ_LAST(m, h), [e \in Elems |-> TAILQ_PREV(m, e)], NULL)

-----------------------------------------------------------------------------
(* Circular queues: both ends lead back to the head                        *)

CIRCLEQ_INIT(m, h) == SetPrev(SetNext(m, h, h), h, h)

CIRCLEQ_INSERT_HEAD(m, h, e) ==
  LET m1 == SetPrev(SetNext(m, e, m.next[h]), e, h)
  IN SetNext(SetPrev(m1, IF m1.prev[h] = h THEN h ELSE m1.next[h], e), h, e)

CIRCLEQ_INSERT_BEFORE(m, h, l, e) ==
  LET m1 == SetPrev(SetNext(m, e, l), e, m.prev[l])
  IN SetPrev(SetNext(m1, m1.prev[l], e), l, e)

CIRCLEQ_INSERT_AFTER(m, h, l, e) ==
  LET m1 == SetPrev(SetNext(m, e, m.next[l]), e, l)
  IN SetNext(SetPrev(m1, m1.next[l], e), l, e)

CIRCLEQ_INSERT_TAIL(m, h, e) ==
  LET m1 == SetPrev(SetNext(m, e, h), e, m.prev[h])
  IN SetPrev(SetNext(m1, IF m1.next[h] = h THEN h ELSE m1.prev[h], e), h, e)

CIRCLEQ_REMOVE(m, h, e) ==
  LET m1 == SetPrev(m, m.next[e], m.prev[e]) IN SetNext(m1, m1.prev[e], m1.next[e])

CIRCLEQ_LOOP_NEXT(m, h, e) == IF m.next[e] = h THEN m.next[h] ELSE m.next[e]

CIRCLEQ_LOOP_PREV(m, h, e) == IF m.prev[e] = h THEN m.prev[h] ELSE m.prev[e]

CIRCLEQ_FOREACH(m, h) == Visits(m.next[h], m.next, h)

CIRCLEQ_FOREACH_REVERSE(m, h) == Visits(m.prev[h], m.prev, h)

=============================================================================
