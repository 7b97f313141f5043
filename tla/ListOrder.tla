----------------------------- MODULE ListOrder -----------------------------
(***************************************************************************)
(* The operations of lib/kernel/list.c that walk a list: splicing a range, *)
(* reversing, the merge sort, and the operations on ordered elements.      *)
(* less() compares the keys of two elements.                               *)
(***************************************************************************)
EXTENDS List, SequencesExt

CONSTANT Key       \* the value that less() looks at

less(a, b) == Key[a] < Key[b]

\* The nodes from a up to, but not including, b.
RECURSIVE Between(_, _, _)
Between(L, a, b) == IF a = b THEN <<>> ELSE <<a>> \o Between(L, list_next(L, a), b)
Walk(L, l) == Between(L, list_begin(L, l), list_end(l))

\* swap() of the links of e and of the nodes that follow.
RECURSIVE SwapFrom(_, _, _)
SwapFrom(L, e, l) ==
  IF e = list_end(l) THEN L
  ELSE SwapFrom([prev |-> [L.prev EXCEPT ![e] = L.next[e]],
                 next |-> [L.next EXCEPT ![e] = L.prev[e]]], L.next[e], l)
list_reverse(L, l) ==
  LET S == SwapFrom(L, list_begin(L, l), l)
      first == S.prev[tail[l]]       \* becomes head.next
      last  == S.next[head[l]]       \* becomes tail.prev
  IN IF list_empty(L, l) THEN L
     ELSE LET T == [prev |-> [S.prev EXCEPT ![tail[l]] = last],
                    next |-> [S.next EXCEPT ![head[l]] = first]]
          IN [prev |-> [T.prev EXCEPT ![first] = T.next[last]],
              next |-> [T.next EXCEPT ![last] = T.prev[first]]]

RECURSIVE find_end_of_run(_, _, _)
find_end_of_run(L, a, b) ==
  LET n == list_next(L, a)
  IN IF n # b /\ ~less(n, list_prev(L, n)) THEN find_end_of_run(L, n, b) ELSE n

\* Fault: an element that is equal goes in front.
RECURSIVE inplace_merge_unstable(_, _, _, _)
inplace_merge_unstable(L, a0, a1b0, b1) ==
  IF a0 = a1b0 \/ a1b0 = b1 THEN L
  ELSE IF less(a0, a1b0) THEN inplace_merge_unstable(L, list_next(L, a0), a1b0, b1)
  ELSE LET n == list_next(L, a1b0)
       IN inplace_merge_unstable(list_splice(L, a0, list_prev(L, n), n), a0, n, b1)

RECURSIVE inplace_merge(_, _, _, _)
inplace_merge(L, a0, a1b0, b1) ==
  IF a0 = a1b0 \/ a1b0 = b1 THEN L
  ELSE IF ~less(a1b0, a0) THEN inplace_merge(L, list_next(L, a0), a1b0, b1)
  ELSE LET n == list_next(L, a1b0)
       IN inplace_merge(list_splice(L, a0, list_prev(L, n), n), a0, n, b1)

\* One pass over the list from a0: the links and the number of runs.
RECURSIVE Pass(_, _, _, _)
Pass(L, a0, l, output_run_cnt) ==
  IF a0 = list_end(l) THEN [links |-> L, runs |-> output_run_cnt]
  ELSE LET a1b0 == find_end_of_run(L, a0, list_end(l))
       IN IF a1b0 = list_end(l) THEN [links |-> L, runs |-> output_run_cnt + 1]
          ELSE LET b1 == find_end_of_run(L, a1b0, list_end(l))
               IN Pass(inplace_merge(L, a0, a1b0, b1), b1, l, output_run_cnt + 1)

RECURSIVE list_sort(_, _)
list_sort(L, l) ==
  LET r == Pass(L, list_begin(L, l), l, 0)
  IN IF r.runs > 1 THEN list_sort(r.links, l) ELSE r.links

\* Where list_insert_ordered() stops.
RECURSIVE Place(_, _, _, _)
Place(L, e, l, elem) ==
  IF e = list_end(l) \/ less(elem, e) THEN e ELSE Place(L, list_next(L, e), l, elem)

\* A duplicate is appended to another list, if there is one.
RECURSIVE UniqueFrom(_, _, _, _)
UniqueFrom(L, elem, l, duplicates) ==
  LET n == list_next(L, elem)
      R == list_remove(L, n)
  IN IF n = list_end(l) THEN L
     ELSE IF less(elem, n) \/ less(n, elem) THEN UniqueFrom(L, n, l, duplicates)
     ELSE UniqueFrom(IF duplicates = NULL THEN R ELSE list_insert(R, list_end(duplicates), n),
                     elem, l, duplicates)

RECURSIVE MaxFrom(_, _, _, _)
MaxFrom(L, max, e, l) ==
  IF e = list_end(l) THEN max
  ELSE MaxFrom(L, IF less(max, e) THEN e ELSE max, list_next(L, e), l)
list_max(L, l) == LET b == list_begin(L, l) IN
                  IF b = list_end(l) THEN b ELSE MaxFrom(L, b, list_next(L, b), l)

RECURSIVE MinFrom(_, _, _, _)
MinFrom(L, min, e, l) ==
  IF e = list_end(l) THEN min
  ELSE MinFrom(L, IF less(e, min) THEN e ELSE min, list_next(L, e), l)
list_min(L, l) == LET b == list_begin(L, l) IN
                  IF b = list_end(l) THEN b ELSE MinFrom(L, b, list_next(L, b), l)
-----------------------------------------------------------------------------
Keep(L) == links' = L /\ UNCHANGED linked

\* The caller gives a range of one list and a place outside it.
Splice(before, first, last) ==
  /\ \E l \in List : \E i, j \in 1..(Len(Walk(links, l)) + 1) :
       LET s == Append(Walk(links, l), tail[l])
       IN i <= j /\ first = s[i] /\ last = s[j] /\ \A k \in i..(j - 1) : s[k] # before
  /\ before \in linked \cup Tails
  /\ Keep(list_splice(links, before, first, last))
  /\ op' = [fn |-> "list_splice", before |-> before, first |-> first, last |-> last]

ListReverse(l) == Keep(list_reverse(links, l)) /\ op' = [fn |-> "list_reverse", list |-> l]
ListSort(l) == Keep(list_sort(links, l)) /\ op' = [fn |-> "list_sort", list |-> l]

list_insert_ordered(l, e) ==
  /\ e \in Elem \ linked
  /\ \A i \in 1..(Len(Walk(links, l)) - 1) : ~less(Walk(links, l)[i + 1], Walk(links, l)[i])
  /\ links' = list_insert(links, Place(links, list_begin(links, l), l, e), e)
  /\ linked' = linked \cup {e}
  /\ op' = [fn |-> "list_insert_ordered", list |-> l, elem |-> e]

list_unique(l, duplicates) ==
  /\ l # duplicates
  /\ links' = IF list_empty(links, l) THEN links
              ELSE UniqueFrom(links, list_begin(links, l), l, duplicates)
  /\ linked' = IF duplicates # NULL THEN linked
               ELSE linked \ (ToSet(Walk(links, l)) \ ToSet(Walk(links', l)))
  /\ op' = [fn |-> "list_unique", list |-> l, duplicates |-> duplicates]

ListMax(l) == Keep(links) /\ op' = [fn |-> "list_max", list |-> l, elem |-> list_max(links, l)]
ListMin(l) == Keep(links) /\ op' = [fn |-> "list_min", list |-> l, elem |-> list_min(links, l)]

ListNext ==
  \/ PrimitiveNext
  \/ \E before, first, last \in Node : Splice(before, first, last)
  \/ \E l \in List : \/ ListReverse(l) \/ ListSort(l) \/ ListMax(l) \/ ListMin(l)
                     \/ \E e \in Elem : list_insert_ordered(l, e)
                     \/ \E d \in List \cup {NULL} : list_unique(l, d)
-----------------------------------------------------------------------------
Abstract == INSTANCE ListSpec WITH lists <- [l \in List |-> Walk(links, l)]

\* The linked lists implement sequences: every operation of list.c, whatever
\* was done before, changes the sequences the way its comment says, and
\* list_sort() is stable.
ListRefines == Abstract!Spec

=============================================================================
