---------------------------- MODULE MCResources ----------------------------
(***************************************************************************)
(* What a thread and a process own: pages and blocks (Memory), an address  *)
(* space (Load), arguments on a stack (Arguments) and open files           *)
(* (Syscalls); and the library under them: its functions (Library), two    *)
(* linked lists of four elements (ListOrder) and a hash table (Hash).      *)
(* `part' says which of them a behaviour exercises.                        *)
(***************************************************************************)
EXTENDS Memory, Load, Syscalls, MCArguments, Library, ListOrder, Hash, TLC

CONSTANTS t1, t2, p1, p2, e1, e2, e3, e4

\* Two threads on a kernel pool of three pages and a user pool of one, each with
\* at most MaxHeld blocks and groups of pages.
MCThread == {t1, t2}
MaxHeld == 2
Symmetry == Permutations(MCThread) \cup Permutations(Caller)
MCDesc == {1}
MCBlocks == [d \in MCDesc |-> 2]

\* Pages of two bytes, page tables of two entries, addresses of four bits with
\* user memory below 8.
MCLoader == {p1, p2}

Segment(o, v, f, m, w) ==
  [type |-> "load", offset |-> o, vaddr |-> v, filesz |-> f, memsz |-> m, writable |-> w]
Other(t) == [Segment(0, 0, 0, 0, FALSE) EXCEPT !.type = t]
Exe(e, phdrs, n) == [ehdr |-> e, phdrs |-> phdrs, length |-> n]
Setup(x, y, k, u) == [prog |-> (p1 :> x) @@ (p2 :> y), kernel |-> 1..k, user |-> 11..(10 + u)]

\* Every single segment, for one process with memory enough.
AnySegment ==
  {Setup(Exe("ok", <<Segment(o, v, f, m, TRUE)>>, 3), Nil, 4, 6) :
     o \in {0, 1, 3, 4}, v \in 0..8, f \in 0..3, m \in 0..15}

\* Two processes at the same time, in pools that run out at different steps.
Code == Segment(0, 2, 2, 2, FALSE)
Data == Segment(3, 5, 1, 2, TRUE)
Two == Exe("ok", <<Code, Data>>, 4)
CutOff == Exe("ok", <<Other("ignored"), Data>>, 3)         \* the file ends early
Twice == Exe("ok", <<Code, Segment(1, 3, 0, 1, TRUE)>>, 4) \* both in one page
Dyn == Exe("ok", <<Other("dynamic")>>, 4)
Missing == Exe("missing", <<>>, 0)
TwoLoads ==
  {Setup(Two, Two, k, 6) : k \in {0, 3, 4}} \cup {Setup(Two, y, 5, 6) : y \in {Twice, Dyn}}
  \cup {Setup(Two, CutOff, 6, u) : u \in {0, 2, 4}}
  \cup {Setup(Two, Missing, 6, 4), Setup(Two, Two, 5, 3)}

MCSetups == AnySegment \cup TwoLoads

\* Arguments of the library's functions.
MCArrays == Upto(1..3, 5) \cup [1..6 -> 1..2]
MCMemories == {<<1, 2, 3, 4, 5>>}
MCCopies == {[dst |-> i, src |-> j, size |-> k] :
               i \in 1..5, j \in 1..5, k \in 0..5}
FitCopies == {c \in MCCopies : c.dst + c.size <= 6 /\ c.src + c.size <= 6}

\* A buffer of four bytes that holds a string, then a second string.
TextSet == Upto(1..2, 3)
MCBuffers == {[m |-> s \o <<NUL>> \o [i \in 1..(3 - Len(s)) |-> 1] \o t \o <<NUL>>, p |-> 1, q |-> 5] :
              s \in TextSet, t \in TextSet}

MCBitmaps == UNION {{[bit_cnt |-> n, bits |-> f] : f \in [0..(elem_cnt(n) - 1) -> SUBSET AllBits]} : n \in 0..5}

\* Four widths for the eight types; a precision larger than the buffer.
MCTypeBits == [CHAR |-> 3, SHORT |-> 4, INT |-> 6, LONGLONG |-> 7]
MCItems ==
  {[conv |-> k, flags |-> f, width |-> w, precision |-> p, type |-> t, arg |-> v] :
     k \in {"d", "u", "o", "X", "p"}, f \in SUBSET {"-", "+", " ", "#", "0", "'"},
     w \in {-4, 0, 5}, p \in {-1, 0, 4, 9}, t \in DOMAIN MCTypeBits, v \in {-64, -3, 0, 63}}
Conv(k, w, v) == [conv |-> k, flags |-> {}, width |-> w, precision |-> -1, type |-> "INT", arg |-> v]
MCFormats == {<<Conv("copy", 0, "z"), Conv("s", w, n), Conv("d", 0, v), Conv("f", 0, 0)>> :
                w \in {0, 2}, n \in -1..2, v \in {-1, 20}}
             \cup {<<>>, <<Conv("s", 0, 1), Conv("c", -2, "z")>>}

\* Two lists with two equal elements; a table with keys of one bucket.
MCElem == {e1, e2, e3, e4}
MCTwoLists == {"a", "b"}
MChead == [a \in MCTwoLists |-> <<a, "head">>]
MCtail == [a \in MCTwoLists |-> <<a, "tail">>]
MCKey == [e \in MCElem |-> CASE e = e1 -> 1 [] e = e2 -> 1 [] e = e3 -> 2 [] e = e4 -> 3]
MCHashElem == [key : {0, 1, 2, 4, 5, 6}, id : {1}] \cup {[key |-> 2, id |-> 2]}

VARIABLE part

ResourcesInit ==
  /\ part \in {"memory", "address space", "arguments", "files", "functions", "lists", "table"}
  /\ IF part = "address space" THEN LoadInit ELSE LoadStart(Setup(Nil, Nil, 0, 0))
  /\ MemInit /\ CallInit /\ ArgumentsInit /\ LibraryInit /\ ListInit /\ HashInit
ResourcesNext ==
  \/ /\ part = "memory" /\ MemNext /\ UNCHANGED <<loadVars, started, callvars, job, lvars, hvars, part>>
     /\ \A t \in MCThread : Cardinality(held'[t]) <= MaxHeld
  \/ /\ part = "address space" /\ LoadNext
     /\ UNCHANGED <<memvars, started, callvars, job, lvars, hvars, part>>
  \/ /\ part = "arguments" /\ ArgumentsNext
     /\ UNCHANGED <<memvars, loadVars, callvars, job, lvars, hvars, part>>
  \/ /\ part = "files" /\ CallNext
     /\ UNCHANGED <<memvars, loadVars, started, job, lvars, hvars, part>>
  \/ /\ part = "functions" /\ LibraryNext
     /\ UNCHANGED <<memvars, loadVars, started, callvars, lvars, hvars, part>>
  \/ /\ part = "lists" /\ ListNext
     /\ UNCHANGED <<memvars, loadVars, started, callvars, job, hvars, part>>
  \/ /\ part = "table" /\ HashNext
     /\ UNCHANGED <<memvars, loadVars, started, callvars, job, lvars, part>>
ResourcesSpec ==
  ResourcesInit
  /\ [][ResourcesNext]_<<memvars, loadVars, started, callvars, job, lvars, hvars, part>>

\* The links of an element that is in no list are left out: the code never
\* reads them.
Live == linked \cup Heads \cup Tails
View == <<part, memvars, loadVars, started, callvars, job, hvars,
          [n \in Live |-> <<links.prev[n], links.next[n]>>]>>
=============================================================================
