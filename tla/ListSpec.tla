------------------------------ MODULE ListSpec ------------------------------
(***************************************************************************)
(* What the lists of lib/kernel/list.c promise: every list is a sequence,  *)
(* and an operation changes sequences.  The other modules of this project  *)
(* model a struct list by such a sequence.                                 *)
(***************************************************************************)
EXTENDS Naturals, Sequences, SequencesExt, FiniteSetsExt

CONSTANTS Elem, List, tail, Key

VARIABLES lists, op
-----------------------------------------------------------------------------
Free == {e \in Elem : \A l \in List : e \notin ToSet(lists[l])}
Position(l, n) == IF n = tail[l] THEN Len(lists[l]) + 1
                  ELSE CHOOSE i \in 1..Len(lists[l]) : lists[l][i] = n
Where(n) == CHOOSE l \in List : n = tail[l] \/ n \in ToSet(lists[l])
Change(l, s) == lists' = [lists EXCEPT ![l] = s]

Increasing(s) == \A i \in 1..(Len(s) - 1) : Key[s[i]] <= Key[s[i + 1]]
\* Stable: equal elements of s stay in the order they have in t.
Stable(s, t) == \A i, j \in 1..Len(s) : i < j /\ Key[s[i]] = Key[s[j]] =>
                  \E k, m \in 1..Len(t) : k < m /\ t[k] = s[i] /\ t[m] = s[j]
Firsts(s) == {i \in 1..Len(s) : i = 1 \/ Key[s[i]] # Key[s[i - 1]]}
Pick(s, I) == [k \in 1..Cardinality(I) |-> s[CHOOSE i \in I : Cardinality({j \in I : j < i}) = k - 1]]

DoesInsert(o) ==
  /\ o.fn = "list_insert" /\ o.elem \in Free
  /\ LET l == Where(o.before)
     IN Change(l, InsertAt(lists[l], Position(l, o.before), o.elem))
DoesPush(o) ==
  /\ o.fn \in {"list_push_front", "list_push_back"} /\ o.elem \in Free
  /\ \/ o.fn = "list_push_front" /\ Change(o.list, <<o.elem>> \o lists[o.list])
     \/ o.fn = "list_push_back" /\ Change(o.list, Append(lists[o.list], o.elem))
DoesRemove(o) ==
  /\ o.fn = "list_remove" /\ o.elem \in Elem \ Free
  /\ Change(Where(o.elem), SelectSeq(lists[Where(o.elem)], LAMBDA x : x # o.elem))
DoesPop(o) ==
  /\ o.fn \in {"list_pop_front", "list_pop_back"} /\ lists[o.list] # <<>>
  /\ \/ o.fn = "list_pop_front" /\ o.elem = Head(lists[o.list]) /\ Change(o.list, Tail(lists[o.list]))
     \/ o.fn = "list_pop_back" /\ o.elem = Last(lists[o.list]) /\ Change(o.list, Front(lists[o.list]))
DoesSplice(o) ==
  /\ o.fn = "list_splice"
  /\ LET from == Where(o.first)
         to   == Where(o.before)
         i == Position(from, o.first)
         j == Position(from, o.last)
         moved == SubSeq(lists[from], i, j - 1)
         Less(s) == SelectSeq(s, LAMBDA x : x \notin ToSet(moved))
         at == Len(Less(SubSeq(lists[to], 1, Position(to, o.before) - 1)))
         rest == Less(lists[to])
     IN lists' = [lists EXCEPT ![from] = Less(@),
                               ![to] = SubSeq(rest, 1, at) \o moved \o SubSeq(rest, at + 1, Len(rest))]
DoesReverse(o) == o.fn = "list_reverse" /\ Change(o.list, Reverse(lists[o.list]))
DoesSort(o) ==
  /\ o.fn = "list_sort"
  /\ \E s \in SetToSeqs(ToSet(lists[o.list])) :
       Increasing(s) /\ Stable(s, lists[o.list]) /\ Change(o.list, s)
DoesInsertOrdered(o) ==
  /\ o.fn = "list_insert_ordered" /\ o.elem \in Free
  /\ LET s == lists[o.list]
         i == Cardinality({j \in 1..Len(s) : Key[s[j]] <= Key[o.elem]})
     IN Change(o.list, InsertAt(s, i + 1, o.elem))
DoesUnique(o) ==
  /\ o.fn = "list_unique"
  /\ LET s == lists[o.list]
         F == Firsts(s)
     IN lists' = [l \in List |-> IF l = o.list THEN Pick(s, F)
                                 ELSE IF l = o.duplicates THEN lists[l] \o Pick(s, (1..Len(s)) \ F)
                                 ELSE lists[l]]
\* The first of the largest and of the smallest, or the tail of an empty list.
DoesExtremum(o) ==
  /\ o.fn \in {"list_max", "list_min"} /\ UNCHANGED lists
  /\ LET s == lists[o.list]
         K == {Key[s[i]] : i \in 1..Len(s)}
         k == IF o.fn = "list_max" THEN Max(K) ELSE Min(K)
     IN o.elem = IF s = <<>> THEN tail[o.list] ELSE s[Min({i \in 1..Len(s) : Key[s[i]] = k})]

Init == lists = [l \in List |-> <<>>] /\ op = [fn |-> "list_init"]
Next == \/ DoesInsert(op') \/ DoesPush(op') \/ DoesRemove(op') \/ DoesPop(op') \/ DoesSplice(op')
        \/ DoesReverse(op') \/ DoesSort(op') \/ DoesInsertOrdered(op') \/ DoesExtremum(op') \/ DoesUnique(op')
Spec == Init /\ [][Next]_<<lists, op>>
=============================================================================
