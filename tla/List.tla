-------------------------------- MODULE List --------------------------------
(***************************************************************************)
(* The doubly linked lists of lib/kernel/list.c, pointer by pointer.  The  *)
(* links of all the nodes of memory are one record of two functions; a     *)
(* list owns two nodes, its head and its tail, and an element is a node    *)
(* that a caller owns.  A caller inserts only elements that are in no list *)
(* and removes only elements that are in one, as list.c demands.           *)
(***************************************************************************)
EXTENDS Naturals, Sequences

CONSTANTS
  Elem, List,        \* elements; lists
  head, tail,        \* the two header nodes of every list
  NULL

Heads == {head[l] : l \in List}
Tails == {tail[l] : l \in List}
Node == Elem \cup Heads \cup Tails

ASSUME ListAssumption ==
  /\ head \in [List -> Node] /\ tail \in [List -> Node]
  /\ Elem \cap (Heads \cup Tails) = {} /\ Heads \cap Tails = {}
  /\ \A k, l \in List : k # l => head[k] # head[l] /\ tail[k] # tail[l]
  /\ NULL \notin Node

VARIABLES
  links,             \* links.prev and links.next
  linked,            \* the elements that are in some list
  op                 \* the call that was made last, with its arguments
lvars == <<links, linked, op>>
-----------------------------------------------------------------------------
is_head(L, e)     == e # NULL /\ L.prev[e] = NULL /\ L.next[e] # NULL
is_tail(L, e)     == e # NULL /\ L.prev[e] # NULL /\ L.next[e] = NULL

list_begin(L, l)  == L.next[head[l]]
list_end(l)       == tail[l]
list_rbegin(L, l) == L.prev[tail[l]]
list_next(L, e)   == L.next[e]
list_prev(L, e)   == L.prev[e]
list_empty(L, l)  == list_begin(L, l) = list_end(l)

\* Every list empty.  The links of an element that is in no list are junk.
list_init ==
  [prev |-> [n \in Node |-> IF n \in Tails THEN head[CHOOSE l \in List : tail[l] = n] ELSE NULL],
   next |-> [n \in Node |-> IF n \in Heads THEN tail[CHOOSE l \in List : head[l] = n] ELSE NULL]]

list_insert(L, before, elem) ==
  [prev |-> [L.prev EXCEPT ![elem] = L.prev[before], ![before] = elem],
   next |-> [L.next EXCEPT ![elem] = before, ![L.prev[before]] = elem]]

\* Fault: the node after the element keeps its link to the element.
list_remove_half(L, elem) ==
  [prev |-> L.prev, next |-> [L.next EXCEPT ![L.prev[elem]] = L.next[elem]]]

list_remove(L, elem) ==
  [prev |-> [L.prev EXCEPT ![L.next[elem]] = L.prev[elem]],
   next |-> [L.next EXCEPT ![L.prev[elem]] = L.next[elem]]]

\* The nodes from first to last, both included, go before another node.
Relink(L, before, first, last) ==
  LET out == [prev |-> [L.prev EXCEPT ![L.next[last]] = L.prev[first]],
              next |-> [L.next EXCEPT ![L.prev[first]] = L.next[last]]]
  IN [prev |-> [out.prev EXCEPT ![first] = out.prev[before], ![before] = last],
      next |-> [out.next EXCEPT ![last] = before, ![out.prev[before]] = first]]

list_splice(L, before, first, last) ==
  IF first = last THEN L ELSE Relink(L, before, first, list_prev(L, last))
-----------------------------------------------------------------------------
ListInit == links = list_init /\ linked = {} /\ op = [fn |-> "list_init"]

Insert(before, e) ==
  /\ before \in linked \cup Tails /\ e \in Elem \ linked
  /\ links' = list_insert(links, before, e)
  /\ linked' = linked \cup {e}
  /\ op' = [fn |-> "list_insert", before |-> before, elem |-> e]

list_push_front(l, e) ==
  /\ e \in Elem \ linked
  /\ links' = list_insert(links, list_begin(links, l), e)
  /\ linked' = linked \cup {e}
  /\ op' = [fn |-> "list_push_front", list |-> l, elem |-> e]

list_push_back(l, e) ==
  /\ e \in Elem \ linked
  /\ links' = list_insert(links, list_end(l), e)
  /\ linked' = linked \cup {e}
  /\ op' = [fn |-> "list_push_back", list |-> l, elem |-> e]

Detach(e) ==
  /\ e \in linked
  /\ links' = list_remove(links, e)
  /\ linked' = linked \ {e}
  /\ op' = [fn |-> "list_remove", elem |-> e]

list_pop_front(l) ==
  LET front == list_begin(links, l) IN
  /\ ~list_empty(links, l)
  /\ links' = list_remove(links, front)
  /\ linked' = linked \ {front}
  /\ op' = [fn |-> "list_pop_front", list |-> l, elem |-> front]

list_pop_back(l) ==
  LET back == list_rbegin(links, l) IN
  /\ ~list_empty(links, l)
  /\ links' = list_remove(links, back)
  /\ linked' = linked \ {back}
  /\ op' = [fn |-> "list_pop_back", list |-> l, elem |-> back]

PrimitiveNext ==
  \/ \E e \in Elem : \/ \E before \in Node : Insert(before, e)
                     \/ \E l \in List : list_push_front(l, e) \/ list_push_back(l, e)
                     \/ Detach(e)
  \/ \E l \in List : list_pop_front(l) \/ list_pop_back(l)

PrimitiveSpec == ListInit /\ [][PrimitiveNext]_lvars
-----------------------------------------------------------------------------
\* Neighbours agree: following a link from a node of a list and coming back
\* leads to the same node, and only nodes of lists are reached.  The two
\* assignments of list_remove() and the four of list_insert() keep it.
LinksMirror ==
  /\ \A n \in linked \cup Heads : /\ links.next[n] \in linked \cup Tails
                                  /\ links.prev[links.next[n]] = n
  /\ \A n \in linked \cup Tails : /\ links.prev[n] \in linked \cup Heads
                                  /\ links.next[links.prev[n]] = n
  /\ \A n \in Heads : is_head(links, n)
  /\ \A n \in Tails : is_tail(links, n)
=============================================================================
