----------------------------- MODULE QueueLists -----------------------------
(***************************************************************************)
(* A program that uses one kind of list of server/queue.h: every macro the *)
(* kind has, applied in any order to two lists.  An element that leaves a  *)
(* list is freed, and its pointers are garbage from then on.  lists is a   *)
(* history of what the program asked for.                                  *)
(***************************************************************************)
EXTENDS QueueMacros

VARIABLES kind,   \* the kind of list: all of a program's lists are of one kind
          m,      \* memory
          lists,  \* history: the sequence each list should be
          loop    \* a FOREACH_SAFE loop the program is in

vars == <<kind, m, lists, loop>>

Kinds == {"SLIST", "LIST", "STAILQ", "TAILQ", "CIRCLEQ"}

NoLoop == [on |-> FALSE]

Garbled == [next |-> [n \in Nodes |-> Garbage], prev |-> [n \in Nodes |-> Garbage]]

\* The kind's INIT of a head.
INIT(k, h) == CASE k = "SLIST"   -> SLIST_INIT(Garbled, h)
                [] k = "LIST"    -> LIST_INIT(Garbled, h)
                [] k = "STAILQ"  -> STAILQ_INIT(Garbled, h)
                [] k = "TAILQ"   -> TAILQ_INIT(Garbled, h)
                [] k = "CIRCLEQ" -> CIRCLEQ_INIT(Garbled, h)

\* Every head is initialised, which writes to no other node.
Init ==
  /\ kind \in Kinds
  /\ m = [next |-> [n \in Nodes |-> IF n \in Heads THEN INIT(kind, n).next[n] ELSE Garbage],
          prev |-> [n \in Nodes |-> IF n \in Heads THEN INIT(kind, n).prev[n] ELSE Garbage]]
  /\ lists = [h \in Heads |-> << >>]
  /\ loop = NoLoop

END(h) == IF kind = "CIRCLEQ" THEN h ELSE NULL

Unused == Elems \ UNION {ToSet(lists[h]) : h \in Heads}

\* What the caller does with removed elements.
Freed(mem, gone) ==
  [next |-> [n \in Nodes |-> IF n \in gone THEN Garbage ELSE mem.next[n]],
   prev |-> [n \in Nodes |-> IF n \in gone THEN Garbage ELSE mem.prev[n]]]

\* Outside loops the program applies a macro: memory and what is meant by it.
Apply(mem, meant) ==
  /\ ~loop.on
  /\ m' = mem /\ lists' = meant
  /\ UNCHANGED <<kind, loop>>

-----------------------------------------------------------------------------
InsertHead(h, e) ==
  Apply(CASE kind = "SLIST"   -> SLIST_INSERT_HEAD(m, h, e)
          [] kind = "LIST"    -> LIST_INSERT_HEAD(m, h, e)
          [] kind = "STAILQ"  -> STAILQ_INSERT_HEAD(m, h, e)
          [] kind = "TAILQ"   -> TAILQ_INSERT_HEAD(m, h, e)
          [] kind = "CIRCLEQ" -> CIRCLEQ_INSERT_HEAD(m, h, e),
        [lists EXCEPT ![h] = <<e>> \o @])

InsertAfter(h, i, e) ==
  LET l == lists[h][i] IN
  Apply(CASE kind = "SLIST"   -> SLIST_INSERT_AFTER(m, l, e)
          [] kind = "LIST"    -> LIST_INSERT_AFTER(m, l, e)
          [] kind = "STAILQ"  -> STAILQ_INSERT_AFTER(m, h, l, e)
          [] kind = "TAILQ"   -> TAILQ_INSERT_AFTER(m, h, l, e)
          [] kind = "CIRCLEQ" -> CIRCLEQ_INSERT_AFTER(m, h, l, e),
        [lists EXCEPT ![h] = InsertAt(@, i + 1, e)])

InsertBefore(h, i, e) ==
  LET l == lists[h][i] IN
  /\ kind \in {"LIST", "TAILQ", "CIRCLEQ"}
  /\ Apply(CASE kind = "LIST"    -> LIST_INSERT_BEFORE(m, l, e)
             [] kind = "TAILQ"   -> TAILQ_INSERT_BEFORE(m, l, e)
             [] kind = "CIRCLEQ" -> CIRCLEQ_INSERT_BEFORE(m, h, l, e),
           [lists EXCEPT ![h] = InsertAt(@, i, e)])

InsertTail(h, e) ==
  /\ kind \in {"STAILQ", "TAILQ", "CIRCLEQ"}
  /\ Apply(CASE kind = "STAILQ"  -> STAILQ_INSERT_TAIL(m, h, e)
             [] kind = "TAILQ"   -> TAILQ_INSERT_TAIL(m, h, e)
             [] kind = "CIRCLEQ" -> CIRCLEQ_INSERT_TAIL(m, h, e),
           [lists EXCEPT ![h] = Append(@, e)])

\* REMOVE of an element of the list, without freeing it.
REMOVE(h, e) ==
  CASE kind = "SLIST"   -> SLIST_REMOVE(m, h, e)
    [] kind = "LIST"    -> LIST_REMOVE(m, e)
    [] kind = "STAILQ"  -> STAILQ_REMOVE(m, h, e)
    [] kind = "TAILQ"   -> TAILQ_REMOVE(m, h, e)
    [] kind = "CIRCLEQ" -> CIRCLEQ_REMOVE(m, h, e)

RemoveElement(h, i) ==
  Apply(Freed(REMOVE(h, lists[h][i]), {lists[h][i]}), [lists EXCEPT ![h] = RemoveAt(@, i)])

RemoveHead(h) ==
  /\ kind \in {"SLIST", "STAILQ"} /\ lists[h] # << >>
  /\ Apply(Freed(IF kind = "SLIST" THEN SLIST_REMOVE_HEAD(m, h) ELSE STAILQ_REMOVE_HEAD(m, h),
                 {Head(lists[h])}),
           [lists EXCEPT ![h] = Tail(@)])

RemoveAfter(h, i) ==
  /\ kind \in {"SLIST", "STAILQ"} /\ i < Len(lists[h])
  /\ Apply(Freed(IF kind = "SLIST" THEN SLIST_REMOVE_AFTER(m, lists[h][i])
                 ELSE STAILQ_REMOVE_AFTER(m, h, lists[h][i]),
                 {lists[h][i + 1]}),
           [lists EXCEPT ![h] = RemoveAt(@, i + 1)])

RemoveHeadUntil(h, i) ==
  /\ kind = "STAILQ"
  /\ Apply(Freed(STAILQ_REMOVE_HEAD_UNTIL(m, h, lists[h][i]), ToSet(SubSeq(lists[h], 1, i))),
           [lists EXCEPT ![h] = SubSeq(@, i + 1, Len(@))])

\* CIRCLEQ_REPLACE does not compile for a pointer to a head.
Replace(h, i, e) ==
  LET old == lists[h][i] IN
  /\ kind \in {"LIST", "TAILQ"}
  /\ Apply(Freed(IF kind = "LIST" THEN LIST_REPLACE(m, old, e) ELSE TAILQ_REPLACE(m, h, old, e),
                 {old}),
           [lists EXCEPT ![h][i] = e])

Concat(h1, h2) ==
  /\ kind \in {"STAILQ", "TAILQ"} /\ h1 # h2
  /\ Apply(IF kind = "STAILQ" THEN STAILQ_CONCAT(m, h1, h2) ELSE TAILQ_CONCAT(m, h1, h2),
           [lists EXCEPT ![h1] = lists[h1] \o lists[h2], ![h2] = << >>])

Swap(h1, h2) ==
  /\ kind # "CIRCLEQ" /\ h1 # h2
  /\ Apply(CASE kind = "SLIST"  -> SLIST_SWAP(m, h1, h2)
             [] kind = "LIST"   -> LIST_SWAP(m, h1, h2)
             [] kind = "STAILQ" -> STAILQ_SWAP(m, h1, h2)
             [] kind = "TAILQ"  -> TAILQ_SWAP(m, h1, h2),
           [lists EXCEPT ![h1] = lists[h2], ![h2] = lists[h1]])

-----------------------------------------------------------------------------
(* The loops whose body may remove and free the element it is at           *)

\* tvar is read before the body runs; backwards loops exist for TAILQ.
Follower(back, h, e) ==
  IF e = END(h) THEN END(h) ELSE IF back THEN TAILQ_PREV(m, e) ELSE m.next[e]

FOREACH_SAFE(h, back) ==
  LET first == IF back THEN TAILQ_LAST(m, h) ELSE m.next[h] IN
  /\ ~loop.on /\ (back => kind = "TAILQ")
  /\ loop' = [on |-> TRUE, head |-> h, back |-> back, var |-> first,
              tvar |-> Follower(back, h, first), todo |-> IF back THEN Reverse(lists[h]) ELSE lists[h]]
  /\ UNCHANGED <<kind, m, lists>>

\* A plausible bug: the next element is read when the body has run.
Mutant_LoopNext ==
  /\ loop.on /\ loop.todo # << >>
  /\ loop' = [loop EXCEPT !.var = Follower(loop.back, loop.head, loop.var), !.todo = Tail(@)]
  /\ UNCHANGED <<kind, m, lists>>

\* The body is done with var.
LoopNext ==
  /\ loop.on /\ loop.var # END(loop.head)
  /\ loop' = [loop EXCEPT !.var = loop.tvar, !.todo = Tail(@),
                          !.tvar = Follower(loop.back, loop.head, loop.tvar)]
  /\ UNCHANGED <<kind, m, lists>>

\* The body removes var and frees it.
LoopRemove ==
  /\ loop.on
  /\ \E i \in DOMAIN lists[loop.head] :
       lists[loop.head][i] = loop.var /\ lists' = [lists EXCEPT ![loop.head] = RemoveAt(@, i)]
  /\ m' = Freed(REMOVE(loop.head, loop.var), {loop.var})
  /\ UNCHANGED <<kind, loop>>

LoopEnd ==
  /\ loop.on /\ loop.var = END(loop.head)
  /\ loop' = NoLoop
  /\ UNCHANGED <<kind, m, lists>>

Next ==
  \/ \E h \in Heads, e \in Unused :
       \/ InsertHead(h, e) \/ InsertTail(h, e)
       \/ \E i \in DOMAIN lists[h] :
            InsertAfter(h, i, e) \/ InsertBefore(h, i, e) \/ Replace(h, i, e)
  \/ \E h \in Heads :
       \/ RemoveHead(h)
       \/ \E i \in DOMAIN lists[h] : RemoveElement(h, i) \/ RemoveAfter(h, i) \/ RemoveHeadUntil(h, i)
  \/ \E h1, h2 \in Heads : Concat(h1, h2) \/ Swap(h1, h2)
  \/ \E h \in Heads, back \in BOOLEAN : FOREACH_SAFE(h, back)
  \/ LoopNext \/ LoopRemove \/ LoopEnd

Spec == Init /\ [][Next]_vars

-----------------------------------------------------------------------------
ListTypeOK ==
  /\ kind \in Kinds
  /\ \A n \in Nodes : m.next[n] \in Nodes \cup {NULL, Garbage} /\ m.prev[n] \in Nodes \cup {NULL, Garbage}
  /\ \A h \in Heads : m.next[h] # Garbage /\ Len(lists[h]) <= Cardinality(Elems)

\* Following the pointers gives exactly the list that was built, whatever macros
\* built it: nothing is lost, doubled or linked into the other list.
ForwardOrder ==
  \A h \in Heads :
    lists[h] = IF kind = "CIRCLEQ" THEN CIRCLEQ_FOREACH(m, h) ELSE SLIST_FOREACH(m, h)

\* Going backwards gives the reverse, and a ring closes.  A last or prev pointer one
\* macro leaves behind shows only when another macro or loop uses it much later.
BackwardOrder ==
  \A h \in Heads :
    LET n == Len(lists[h]) IN
    CASE kind = "SLIST"   -> TRUE
      [] kind = "LIST"    -> \A i \in 1..n : LIST_PREV(m, h, lists[h][i]) =
                               IF i = 1 THEN NULL ELSE lists[h][i - 1]
      [] kind = "STAILQ"  -> STAILQ_LAST(m, h) = IF n = 0 THEN NULL ELSE lists[h][n]
      [] kind = "TAILQ"   -> TAILQ_FOREACH_REVERSE(m, h) = Reverse(lists[h])
      [] kind = "CIRCLEQ" ->
           /\ CIRCLEQ_FOREACH_REVERSE(m, h) = Reverse(lists[h])
           /\ \A i \in 1..n : /\ CIRCLEQ_LOOP_NEXT(m, h, lists[h][i]) = lists[h][(i % n) + 1]
                             /\ CIRCLEQ_LOOP_PREV(m, h, lists[h][(i % n) + 1]) = lists[h][i]

\* No pointer of a list leads to a freed element.
NoDanglingPointer ==
  \A n \in Nodes \ Unused :
    /\ m.next[n] \notin Unused \cup {Garbage}
    /\ kind # "SLIST" /\ kind # (IF n \in Elems THEN "STAILQ" ELSE "LIST")
         => m.prev[n] \notin Unused \cup {Garbage}

\* The lists in memory are the lists that were asked for, both ways, and hold on
\* to nothing that has left them.
ListInv == ListTypeOK /\ ForwardOrder /\ BackwardOrder /\ NoDanglingPointer

\* A FOREACH_SAFE loop visits every element of the list it began with, in
\* order and once, although its body frees elements.
LoopVisitsAll ==
  loop.on => loop.var = IF loop.todo = << >> THEN END(loop.head) ELSE Head(loop.todo)

=============================================================================
