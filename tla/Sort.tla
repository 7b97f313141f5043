-------------------------------- MODULE Sort --------------------------------
(***************************************************************************)
(* Sorting and searching of lib/stdlib.c: the heap sort behind qsort() and *)
(* the binary search behind bsearch().  An array is a sequence of keys,    *)
(* which compare() orders as numbers.                                      *)
(***************************************************************************)
EXTENDS Naturals, Sequences, SequencesExt

NotFound == 0      \* the null pointer; array indexes start at 1

do_swap(a, i, j) == [a EXCEPT ![i] = a[j], ![j] = a[i]]

\* The largest of element i and its children among the first cnt elements.
Largest(a, i, cnt) ==
  LET left  == IF 2 * i <= cnt /\ a[2 * i] > a[i] THEN 2 * i ELSE i
  IN IF 2 * i + 1 <= cnt /\ a[2 * i + 1] > a[left] THEN 2 * i + 1 ELSE left

\* "Float down" element i.
RECURSIVE heapify(_, _, _)
heapify(a, i, cnt) ==
  LET max == Largest(a, i, cnt)
  IN IF max = i THEN a ELSE heapify(do_swap(a, i, max), max, cnt)

RECURSIVE build_heap(_, _)
build_heap(a, i) == IF i = 0 THEN a ELSE build_heap(heapify(a, i, Len(a)), i - 1)

RECURSIVE sort_heap(_, _)
sort_heap(a, i) ==
  IF i <= 1 THEN a ELSE sort_heap(heapify(do_swap(a, 1, i), 1, i - 1), i - 1)

sort(a) == sort_heap(build_heap(a, Len(a) \div 2), Len(a))

\* The elements from first up to, but not including, last are left.
RECURSIVE search(_, _, _, _)
search(key, a, first, last) ==
  LET middle == first + (last - first) \div 2
  IN IF first >= last THEN NotFound
     ELSE IF key < a[middle] THEN search(key, a, first, middle)
     ELSE IF key > a[middle] THEN search(key, a, middle + 1, last)
     ELSE middle

binary_search(key, a) == search(key, a, 1, Len(a) + 1)
-----------------------------------------------------------------------------
Sorted(a) == \A i \in 1..(Len(a) - 1) : a[i] <= a[i + 1]
Occurs(x, a) == {i \in 1..Len(a) : a[i] = x}

\* sort() returns the elements of the array in order, each as often as
\* before, and binary_search() of the result finds a key if and only if it is
\* there.
SortingRight(a, keys) ==
  /\ Sorted(sort(a)) /\ DOMAIN sort(a) = DOMAIN a
  /\ \A x \in keys \cup ToSet(a) : Cardinality(Occurs(x, sort(a))) = Cardinality(Occurs(x, a))
  /\ \A x \in keys : LET i == binary_search(x, sort(a)) IN
       IF x \in ToSet(a) THEN i \in Occurs(x, sort(a)) ELSE i = NotFound
=============================================================================
