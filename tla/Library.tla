------------------------------ MODULE Library ------------------------------
(***************************************************************************)
(* The functions of the C library, each called once with any of a set of   *)
(* arguments: division (Divide), sorting and searching (Sort), strings and *)
(* memory blocks (Strings), bitmaps (Bitmap) and formatted output          *)
(* (Printf).  They keep no state, so that a call is one step.              *)
(***************************************************************************)
EXTENDS Divide, Sort, Strings, Bitmap, Printf

CONSTANTS
  Arrays, Keys,          \* arguments of sort() and binary_search()
  Memories, Copies,      \* memory, and the (dst, src, size) of block moves
  Buffers,               \* memory holding two strings, with their places
  Bitmaps,
  Items, Formats         \* conversions, and formats with a buffer size

VARIABLE job             \* the call that was made

NoJob == [fn |-> "none"]
LibraryInit == job = NoJob

call_divide  == \E n, d \in Word : job' = [fn |-> "divide", n |-> n, d |-> d]
call_sort    == \E a \in Arrays : job' = [fn |-> "sort", a |-> a]
call_memmove == \E m \in Memories, c \in Copies : job' = [fn |-> "memmove", m |-> m, c |-> c]
call_string  == \E x \in Buffers, n \in 0..4 : job' = [fn |-> "string", x |-> x, n |-> n]
call_bitmap  == \E m \in Bitmaps, v \in BOOLEAN : \E start, cnt \in 0..m.bit_cnt :
                  job' = [fn |-> "bitmap", m |-> m, start |-> start, cnt |-> cnt, v |-> v]
call_convert == \E i \in Items : job' = [fn |-> "convert", i |-> i]
call_snprintf == \E f \in Formats, n \in 0..5 : job' = [fn |-> "snprintf", f |-> f, n |-> n]
call_hex_dump == \E ofs, size \in 0..7 : job' = [fn |-> "hex_dump", ofs |-> ofs, size |-> size]

LibraryNext ==
  /\ job = NoJob
  /\ \/ call_divide \/ call_sort \/ call_memmove \/ call_string
     \/ call_bitmap \/ call_convert \/ call_snprintf \/ call_hex_dump
-----------------------------------------------------------------------------
\* Numbers survive the library: every 64-bit division is exact, by the short
\* and by the long way, and what printf() and hex_dump() show is the value.
NumbersRight ==
  /\ job.fn = "divide" => DivisionRight(job.n, job.d)
  /\ job.fn = "convert" => IntegerRight(job.i)
  /\ job.fn = "snprintf" => BufferRight(job.n, job.f)
  /\ job.fn = "hex_dump" => DumpRight(job.ofs, job.size)

\* Arrays of the library: sorting, overlapping moves, bounded strings and
\* bitmaps that cross element boundaries leave in memory what they should and
\* write nowhere else.
ArraysRight ==
  /\ job.fn = "sort" => SortingRight(job.a, Keys)
  /\ job.fn = "memmove" => MoveRight(job.m, job.c.dst, job.c.src, job.c.size)
  /\ job.fn = "string" => /\ BoundedRight(job.x.m, job.x.p, job.x.q, job.n)
                          /\ SearchRight(job.x.m, job.x.p, job.x.q)
  /\ job.fn = "bitmap" => BitmapRight(job.m, job.start, job.cnt, job.v)

\* The library's functions leave in memory and return what a reference
\* definition says: quotients, sorted arrays, moved blocks, cut strings with
\* their lengths, sets of bits, digits that read back.  Three values are not
\* among them, because the code does not return what its comment says: see
\* RemaindersRight, MovesReturnDst and FlipsOfNothing.
FunctionsRight == NumbersRight /\ ArraysRight

\* umod64(): the remainder of an unsigned 64-bit division, of which it returns
\* 32 bits.
RemaindersRight == job.fn = "divide" => RemainderRight(job.n, job.d)

\* memmove() "Returns DST" (string.c:22), and does not when it copies forwards.
MovesReturnDst == job.fn = "memmove" => MoveReturnsDst(job.m, job.c.dst, job.c.src, job.c.size)

\* bitmap_scan_and_flip(): "If CNT is zero, returns 0" (bitmap.c:317), where the
\* code returns START.
FlipsOfNothing == job.fn = "bitmap" => FlipOfNothing(job.m, job.start, job.v)
=============================================================================
