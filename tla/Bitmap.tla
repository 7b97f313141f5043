------------------------------- MODULE Bitmap -------------------------------
(***************************************************************************)
(* Bitmaps of lib/kernel/bitmap.c: bit_cnt bits kept in an array of        *)
(* elements.  An element of ELEM_BITS bits is the set of its bits that are *)
(* one, and bit 0 is the least significant.                                *)
(***************************************************************************)
EXTENDS Integers, FiniteSets, FiniteSetsExt, SequencesExt

CONSTANT ELEM_BITS

ASSUME BitmapAssumption == ELEM_BITS \in Nat \ {0}

BITMAP_ERROR == -1
AllBits == 0..(ELEM_BITS - 1)

elem_idx(idx) == idx \div ELEM_BITS
bit_mask(idx) == {idx % ELEM_BITS}
elem_cnt(bit_cnt) == (bit_cnt + ELEM_BITS - 1) \div ELEM_BITS
last_mask(m) == LET n == m.bit_cnt % ELEM_BITS IN IF n = 0 THEN AllBits ELSE 0..(n - 1)

bitmap_mark(m, idx)  == [m EXCEPT !.bits[elem_idx(idx)] = @ \cup bit_mask(idx)]
bitmap_reset(m, idx) == [m EXCEPT !.bits[elem_idx(idx)] = @ \ bit_mask(idx)]
bitmap_flip(m, idx)  == [m EXCEPT !.bits[elem_idx(idx)] = SymDiff(@, bit_mask(idx))]
bitmap_set(m, idx, value) == IF value THEN bitmap_mark(m, idx) ELSE bitmap_reset(m, idx)
bitmap_test(m, idx) == m.bits[elem_idx(idx)] \cap bit_mask(idx) # {}

bitmap_set_multiple(m, start, cnt, value) ==
  FoldLeft(LAMBDA n, i : bitmap_set(n, start + i, value), m, [i \in 1..cnt |-> i - 1])
bitmap_set_all(m, value) == bitmap_set_multiple(m, 0, m.bit_cnt, value)

\* bitmap_create() of memory that malloc() did not clear.
bitmap_create(bit_cnt, junk) ==
  bitmap_set_all([bit_cnt |-> bit_cnt, bits |-> [i \in 0..(elem_cnt(bit_cnt) - 1) |-> junk]], FALSE)

bitmap_count(m, start, cnt, value) ==
  Cardinality({i \in start..(start + cnt - 1) : bitmap_test(m, i) = value})
bitmap_contains(m, start, cnt, value) ==
  \E i \in start..(start + cnt - 1) : bitmap_test(m, i) = value
bitmap_any(m, start, cnt)  == bitmap_contains(m, start, cnt, TRUE)
bitmap_none(m, start, cnt) == ~bitmap_contains(m, start, cnt, TRUE)
bitmap_all(m, start, cnt)  == ~bitmap_contains(m, start, cnt, FALSE)

bitmap_scan(m, start, cnt, value) ==
  LET found == {i \in start..(m.bit_cnt - cnt) : ~bitmap_contains(m, i, cnt, ~value)}
  IN IF cnt <= m.bit_cnt /\ found # {} THEN Min(found) ELSE BITMAP_ERROR

bitmap_scan_and_flip(m, start, cnt, value) ==
  LET idx == bitmap_scan(m, start, cnt, value)
  IN [map |-> IF idx = BITMAP_ERROR THEN m ELSE bitmap_set_multiple(m, idx, cnt, ~value),
      value |-> idx]

\* A file that has only the first n elements leaves the others as they were.
bitmap_read(m, file, n) ==
  LET elems == [i \in DOMAIN m.bits |-> IF i < n THEN file[i] ELSE m.bits[i]]
  IN [map |-> IF m.bit_cnt = 0 THEN m
              ELSE [m EXCEPT !.bits = [elems EXCEPT ![elem_cnt(m.bit_cnt) - 1] = @ \cap last_mask(m)]],
      success |-> m.bit_cnt = 0 \/ n = elem_cnt(m.bit_cnt)]
-----------------------------------------------------------------------------
\* A bitmap seen from outside: the numbers of its bits that are one, and
\* whether the bits that are not used are zero.
Ones(m) == {i \in 0..(m.bit_cnt - 1) : i % ELEM_BITS \in m.bits[i \div ELEM_BITS]}
SpareZero(m) == \A i \in m.bit_cnt..(elem_cnt(m.bit_cnt) * ELEM_BITS - 1) :
                  i % ELEM_BITS \notin m.bits[i \div ELEM_BITS]
BitsFrom(start, cnt) == start..(start + cnt - 1)

\* The operations are those of a set of numbers, also where a group of bits
\* crosses from one element to the next, and leave the unused bits alone;
\* scanning finds the first group, up to the very last bit; a bitmap read
\* back from a file is the one that was written, and whatever a file too short
\* for it leaves there, bitmap_read() says so and the unused bits are zero.
BitmapRight(m, start, cnt, value) ==
  LET S == IF value THEN Ones(m) ELSE (0..(m.bit_cnt - 1)) \ Ones(m)
      groups == {i \in start..(m.bit_cnt - cnt) : BitsFrom(i, cnt) \subseteq S}
      idx == bitmap_scan(m, start, cnt, value)
      flip == bitmap_scan_and_flip(m, start, cnt, value)
      fits == start + cnt <= m.bit_cnt
      set == bitmap_set_multiple(m, start, cnt, value)
  IN /\ fits => /\ Ones(set) = IF value THEN Ones(m) \cup BitsFrom(start, cnt)
                               ELSE Ones(m) \ BitsFrom(start, cnt)
                /\ bitmap_count(m, start, cnt, value) = Cardinality(S \cap BitsFrom(start, cnt))
                /\ bitmap_any(m, start, cnt) = (Ones(m) \cap BitsFrom(start, cnt) # {})
                /\ bitmap_none(m, start, cnt) = ~bitmap_any(m, start, cnt)
                /\ bitmap_all(m, start, cnt) = (BitsFrom(start, cnt) \subseteq Ones(m))
                /\ SpareZero(m) => SpareZero(set)
     /\ start < m.bit_cnt => Ones(bitmap_flip(m, start)) = SymDiff(Ones(m), {start})
     /\ idx = IF groups = {} THEN BITMAP_ERROR ELSE Min(groups)
     /\ flip.value = idx
     /\ idx # BITMAP_ERROR => Ones(flip.map) = SymDiff(Ones(m), BitsFrom(idx, cnt))
     /\ idx = BITMAP_ERROR => flip.map = m
     /\ \A n \in 0..elem_cnt(m.bit_cnt) :
          LET back == bitmap_read(bitmap_create(m.bit_cnt, AllBits), m.bits, n)
          IN /\ back.success = (n = elem_cnt(m.bit_cnt)) /\ SpareZero(back.map)
             /\ back.success => Ones(back.map) = Ones(m)

\* bitmap_scan_and_flip(): "If CNT is zero, returns 0."
FlipOfNothing(m, start, value) == bitmap_scan_and_flip(m, start, 0, value).value = 0
=============================================================================
