------------------------------ MODULE Strings ------------------------------
(***************************************************************************)
(* The string functions of lib/string.c.  Memory is a sequence of bytes, a *)
(* pointer is an index into it, NUL ends a string and 0 is the null        *)
(* pointer.  A function that writes gives the new memory and its value.  A *)
(* loop that looks for the first byte with some property is the First such *)
(* index.                                                                  *)
(***************************************************************************)
EXTENDS Integers, Sequences, SequencesExt

NUL == 0           \* the byte '\0'
NULL_POINTER == 0

First(S) == IF S = {} THEN NULL_POINTER ELSE CHOOSE i \in S : \A j \in S : i <= j

\* The end of the string at p, and its characters.
End(m, p) == First({i \in p..Len(m) : m[i] = NUL})
Text(m, p) == SubSeq(m, p, End(m, p) - 1)

\* *dst++ = *src++ and *--dst = *--src, size times.
RECURSIVE CopyUp(_, _, _, _)
CopyUp(m, dst, src, size) ==
  IF size = 0 THEN m ELSE CopyUp([m EXCEPT ![dst] = m[src]], dst + 1, src + 1, size - 1)
RECURSIVE CopyDown(_, _, _, _)
CopyDown(m, dst, src, size) ==
  IF size = 0 THEN m
  ELSE CopyDown([m EXCEPT ![dst + size - 1] = m[src + size - 1]], dst, src, size - 1)

memcpy(m, dst, src, size) == CopyUp(m, dst, src, size)

\* What is returned is the pointer that was moved: to the end of DST forwards,
\* back to its beginning otherwise.
memmove(m, dst, src, size) ==
  IF dst < src THEN [mem |-> CopyUp(m, dst, src, size), value |-> dst + size]
  ELSE [mem |-> CopyDown(m, dst, src, size), value |-> dst]

strlen(m, p) == End(m, p) - p
strnlen(m, p, maxlen) == IF strlen(m, p) < maxlen THEN strlen(m, p) ELSE maxlen

\* The sign of the first difference; strcmp() stops at the end of a string.
Sign(x, y) == IF x > y THEN 1 ELSE IF x < y THEN -1 ELSE 0
memcmp(m, p, q, size) ==
  LET i == First({k \in 1..size : m[p + k - 1] # m[q + k - 1]})
  IN IF i = 0 THEN 0 ELSE Sign(m[p + i - 1], m[q + i - 1])
strcmp(m, p, q) ==
  LET i == First({k \in 1..(strnlen(m, p, strlen(m, q)) + 1) :
                    m[p + k - 1] = NUL \/ m[p + k - 1] # m[q + k - 1]})
  IN Sign(m[p + i - 1], m[q + i - 1])

memchr(m, p, ch, size) == First({i \in p..(p + size - 1) : m[i] = ch})
strchr(m, p, c) == First({i \in p..End(m, p) : m[i] = c})
strrchr(m, p, c) ==
  LET S == {i \in p..(End(m, p) - 1) : m[i] = c}
  IN IF S = {} THEN NULL_POINTER ELSE CHOOSE i \in S : \A j \in S : i >= j

\* Characters are looked up in a second string with strchr().
strcspn(m, p, stop) == First({i \in p..End(m, p) : strchr(m, stop, m[i]) # NULL_POINTER}) - p
strspn(m, p, skip) ==
  First({i \in p..End(m, p) : m[i] = NUL \/ strchr(m, skip, m[i]) = NULL_POINTER}) - p
strpbrk(m, p, stop) ==
  First({i \in p..(End(m, p) - 1) : strchr(m, stop, m[i]) # NULL_POINTER})

strstr(m, haystack, needle) ==
  LET rest == strlen(m, haystack) - strlen(m, needle)
  IN First({i \in haystack..(haystack + rest) : memcmp(m, i, needle, strlen(m, needle)) = 0})

\* strtok_r() with the delimiters as a set: the memory after the call, the
\* token and the place to go on from.
strtok_r(m, s, delimiters) ==
  LET token == First({i \in s..Len(m) : m[i] \notin delimiters})  \* may be the end
      end   == First({i \in token..Len(m) : m[i] \in delimiters \cup {NUL}})
  IN IF m[token] = NUL THEN [mem |-> m, token |-> NULL_POINTER, save |-> token]
     ELSE IF m[end] # NUL THEN [mem |-> [m EXCEPT ![end] = NUL], token |-> token, save |-> end + 1]
     ELSE [mem |-> m, token |-> token, save |-> end]

strlcpy(m, dst, src, size) ==
  LET src_len == strlen(m, src)
      dst_len == IF src_len < size - 1 THEN src_len ELSE size - 1
  IN [mem |-> IF size > 0 THEN [memcpy(m, dst, src, dst_len) EXCEPT ![dst + dst_len] = NUL] ELSE m,
      value |-> src_len]

strlcat(m, dst, src, size) ==
  LET src_len == strlen(m, src)
      end == dst + strlen(m, dst)
      room == size - strlen(m, dst) - 1
      copy_cnt == IF src_len < room THEN src_len ELSE room
  IN [mem |-> IF size > 0 /\ room >= 0
              THEN [memcpy(m, end, src, copy_cnt) EXCEPT ![end + copy_cnt] = NUL] ELSE m,
      value |-> src_len + strlen(m, dst)]
-----------------------------------------------------------------------------
\* Only the bytes of a buffer change.
Outside(m, n, dst, size) == \A i \in DOMAIN m \ (dst..(dst + size - 1)) : n[i] = m[i]
Cut(s, n) == SubSeq(s, 1, IF Len(s) < n THEN Len(s) ELSE n)

\* memmove() moves overlapping blocks as if through a copy.
MoveRight(m, dst, src, size) ==
  LET n == memmove(m, dst, src, size).mem IN
  /\ Outside(m, n, dst, size)
  /\ \A k \in 0..(size - 1) : n[dst + k] = m[src + k]

\* memmove() "returns DST".
MoveReturnsDst(m, dst, src, size) == memmove(m, dst, src, size).value = dst

\* strlcpy() and strlcat() write inside a buffer of size bytes, end it with
\* NUL, keep as much of the text as fits and tell the length of the whole, so
\* that a caller can see whether the text was cut.
BoundedRight(m, dst, src, size) ==
  LET copy == strlcpy(m, dst, src, size)
      cat  == strlcat(m, dst, src, size)
      both == Text(m, dst) \o Text(m, src)
  IN /\ Outside(m, copy.mem, dst, size) /\ Outside(m, cat.mem, dst, size)
     /\ size > 0 => Text(copy.mem, dst) = Cut(Text(m, src), size - 1)
     /\ strlen(m, dst) < size => Text(cat.mem, dst) = Cut(both, size - 1)
     /\ copy.value = Len(Text(m, src)) /\ cat.value = Len(both)
     /\ size > 0 => (copy.value < size) = (Text(copy.mem, dst) = Text(m, src))

\* strstr() finds the first place where the second string occurs in the first,
\* strspn() and strcspn() split a string, and a string that is not greater and
\* not less is equal.
SearchRight(m, p, q) ==
  /\ LET A == Text(m, p)
         B == Text(m, q)
         At == {i \in 0..(Len(A) - Len(B)) : SubSeq(A, i + 1, i + Len(B)) = B}
     IN /\ strstr(m, p, q) = IF At = {} THEN NULL_POINTER ELSE p + (CHOOSE i \in At : \A j \in At : i <= j)
        /\ (strcmp(m, p, q) = 0) = (A = B) /\ strcmp(m, q, p) = -strcmp(m, p, q)
        /\ strcspn(m, p, q) = IF strpbrk(m, p, q) = NULL_POINTER THEN Len(A) ELSE strpbrk(m, p, q) - p
        /\ \A k \in 1..strspn(m, p, q) : A[k] \in ToSet(B)
        /\ strspn(m, p, q) < Len(A) => A[strspn(m, p, q) + 1] \notin ToSet(B)
        /\ \A c \in ToSet(A) : strchr(m, p, c) <= strrchr(m, p, c) /\ m[strrchr(m, p, c)] = c
        /\ \A c \in ToSet(A) \cup ToSet(B) : memchr(m, p, c, strlen(m, p)) = strchr(m, p, c)
=============================================================================
