-------------------------------- MODULE Hash --------------------------------
(***************************************************************************)
(* The hash tables of lib/kernel/hash.c.  A bucket is the sequence of its  *)
(* elements (see ListSpec).  Elements are equal if their keys are, and the *)
(* key is also the hash value.  malloc() may fail, which keeps the buckets *)
(* there are.                                                              *)
(***************************************************************************)
EXTENDS Naturals, Sequences, SequencesExt, FiniteSets, Bitwise

CONSTANTS
  HashElem,                \* records with a key and an identity
  MIN_BUCKET_CNT,          \* 4 in the code
  BEST_ELEMS_PER_BUCKET,   \* 2 in the code
  NoElem                   \* the null pointer

ASSUME HashAssumption == MIN_BUCKET_CNT \in Nat \ {0} /\ BEST_ELEMS_PER_BUCKET \in Nat \ {0}

VARIABLES
  h,            \* the table: elem_cnt, bucket_cnt and buckets
  found,        \* what the last call returned
  content,      \* the elements in the table, as its callers know them
  expected      \* what they expect the last call to return
hvars == <<h, found, content, expected>>
-----------------------------------------------------------------------------
turn_off_least_1bit(x) == x & (x - 1)
is_power_of_2(x) == x # 0 /\ turn_off_least_1bit(x) = 0

Buckets(cnt) == [i \in 0..(cnt - 1) |-> <<>>]
find_bucket(t, e) == e.key & (t.bucket_cnt - 1)
find_elem(t, i, e) ==
  LET at == {k \in 1..Len(t.buckets[i]) : t.buckets[i][k].key = e.key}
  IN IF at = {} THEN NoElem ELSE t.buckets[i][CHOOSE k \in at : \A j \in at : k <= j]
insert_elem(t, i, e) == [t EXCEPT !.elem_cnt = @ + 1, !.buckets[i] = <<e>> \o @]
remove_elem(t, i, e) == [t EXCEPT !.elem_cnt = @ - 1,
                                  !.buckets[i] = SelectSeq(@, LAMBDA x : x # e)]

RECURSIVE PowerBelow(_)
PowerBelow(cnt) == IF is_power_of_2(cnt) THEN cnt ELSE PowerBelow(turn_off_least_1bit(cnt))
ideal_bucket_cnt(t) ==
  LET cnt == t.elem_cnt \div BEST_ELEMS_PER_BUCKET
  IN PowerBelow(IF cnt < MIN_BUCKET_CNT THEN MIN_BUCKET_CNT ELSE cnt)

\* The elements in the order of the buckets, as hash_apply() and the iterator
\* hash_first(), hash_next() meet them.
Elements(t) == FlattenSeq([i \in 1..t.bucket_cnt |-> t.buckets[i - 1]])

\* Fault: elements are put where the old number of buckets has them.
rehash_stale(t, memory) ==
  LET cnt == ideal_bucket_cnt(t)
      new == [t EXCEPT !.bucket_cnt = cnt, !.buckets = Buckets(cnt)]
  IN IF cnt = t.bucket_cnt \/ ~memory THEN t
     ELSE FoldLeft(LAMBDA s, e : [s EXCEPT !.buckets[find_bucket(t, e) % cnt] = <<e>> \o @],
                   new, Elements(t))

rehash(t, memory) ==
  LET cnt == ideal_bucket_cnt(t)
      new == [t EXCEPT !.bucket_cnt = cnt, !.buckets = Buckets(cnt)]
  IN IF cnt = t.bucket_cnt \/ ~memory THEN t
     ELSE FoldLeft(LAMBDA s, e : [s EXCEPT !.buckets[find_bucket(s, e)] = <<e>> \o @],
                   new, Elements(t))
-----------------------------------------------------------------------------
Equal(e) == {x \in content : x.key = e.key}
Expect(e) == expected' = IF Equal(e) = {} THEN NoElem ELSE CHOOSE x \in Equal(e) : TRUE

\* hash_init(): if there is no memory for the buckets, there is no table.
HashInit ==
  /\ h = [elem_cnt |-> 0, bucket_cnt |-> MIN_BUCKET_CNT, buckets |-> Buckets(MIN_BUCKET_CNT)]
  /\ content = {} /\ found = NoElem /\ expected = NoElem

hash_insert(new, memory) ==
  LET bucket == find_bucket(h, new)
      old == find_elem(h, bucket, new)
  IN /\ h' = rehash(IF old = NoElem THEN insert_elem(h, bucket, new) ELSE h, memory)
     /\ found' = old /\ Expect(new)
     /\ content' = IF Equal(new) = {} THEN content \cup {new} ELSE content

hash_replace(new, memory) ==
  LET bucket == find_bucket(h, new)
      old == find_elem(h, bucket, new)
      less == IF old = NoElem THEN h ELSE remove_elem(h, bucket, old)
  IN /\ new \notin content
     /\ h' = rehash(insert_elem(less, bucket, new), memory)
     /\ found' = old /\ Expect(new)
     /\ content' = (content \ Equal(new)) \cup {new}

hash_find(e) ==
  /\ found' = find_elem(h, find_bucket(h, e), e) /\ Expect(e)
  /\ UNCHANGED <<h, content>>

hash_delete(e, memory) ==
  LET bucket == find_bucket(h, e)
      old == find_elem(h, bucket, e)
  IN /\ h' = IF old = NoElem THEN h ELSE rehash(remove_elem(h, bucket, old), memory)
     /\ found' = old /\ Expect(e)
     /\ content' = content \ Equal(e)

\* Every bucket is emptied, and their number stays.
hash_clear ==
  /\ h' = [h EXCEPT !.elem_cnt = 0, !.buckets = Buckets(h.bucket_cnt)]
  /\ content' = {} /\ found' = NoElem /\ expected' = NoElem

HashNext ==
  \/ \E e \in HashElem, memory \in BOOLEAN :
       hash_insert(e, memory) \/ hash_replace(e, memory) \/ hash_delete(e, memory)
  \/ \E e \in HashElem : hash_find(e)
  \/ hash_clear
-----------------------------------------------------------------------------
\* A hash table is a set of elements with different keys: every call returns
\* the element that the set has, an iteration meets every element once, the
\* count is right, and whatever growing and shrinking went before, failed
\* allocations included, every element is in the bucket where it is looked for.
HashRight ==
  /\ found = expected
  /\ ToSet(Elements(h)) = content /\ Len(Elements(h)) = h.elem_cnt
  /\ h.elem_cnt = Cardinality(content)
  /\ is_power_of_2(h.bucket_cnt)
  /\ \A i \in DOMAIN h.buckets : \A k \in 1..Len(h.buckets[i]) : find_bucket(h, h.buckets[i][k]) = i
=============================================================================
