---------------------------- MODULE MemoryProofs ----------------------------
(***************************************************************************)
(* The page allocator of threads/palloc.c and the block allocator of       *)
(* threads/malloc.c over it, for any number of threads, pages, descriptors *)
(* and any sizes of arenas: the locks are taken in one order, and every    *)
(* page and every block is free or has exactly one owner.                  *)
(*                                                                         *)
(* ControlInv says where a thread can be and which locks it holds there.   *)
(* PageInv adds who owns the pages: a page in use belongs to one thread or *)
(* is an arena.  BlockInv adds who owns the blocks: a block of an arena is *)
(* on the free list of its descriptor or belongs to one thread, and        *)
(* free_cnt counts the ones on the list.  The three are proved one after   *)
(* the other, each with one lemma per step of the code (BeginControl,      *)
(* FlipPages, PopBlocks...); the lemmas about blocks use the pages and the *)
(* lemmas about pages use the locks.  A step of one thread leaves what the *)
(* others own and what their locks protect alone (Frame).                  *)
(***************************************************************************)
EXTENDS Memory, Integers, TLAPS

Block == Page \X Int
Header == [desc : Desc \cup {Nothing}, free_cnt : Int]
Holding == {"block", "big", "pages"} \X Page \X Int
Getting == {"get", "scan", "flip", "unlock", "clear"}

\* Where a thread is in which call.
Calling(t) ==
  \/ mpc[t] = "idle" /\ call[t] = NoRequest
  \/ /\ mpc[t] \in Getting \cup {"desc", "arena", "pop", "put"}
     /\ call[t].desc \in Desc /\ call[t] = Small(call[t].desc)
  \/ mpc[t] \in Getting /\ call[t].n \in Int /\ call[t] = Big(call[t].n)
  \/ /\ mpc[t] \in Getting
     /\ call[t].pool \in Pool /\ call[t].n \in Int /\ call[t] = Pages(call[t].pool, call[t].n)

\* A thread's local state fits the place it has reached in the call.
Control(t) ==
  /\ Calling(t)
  /\ page[t] \in Page \cup {Nothing}
  /\ mpc[t] \in {"flip", "arena"} => page[t] \in Page
  /\ mpc[t] \in {"idle", "desc", "get", "scan", "put", "clear"} => page[t] = Nothing
  /\ mpc[t] = "pop" => free_list[call[t].desc] # <<>>
  /\ mpc[t] = "put" => block[t] \in Block
  /\ held[t] \subseteq Holding

\* A thread holds the locks it must.
Locks(t) ==
  /\ \A d \in Desc : desc_lock[d] = t <=>
       call[t] = Small(d) /\ mpc[t] \notin {"idle", "desc", "put"}
  /\ \A p \in Pool : pool_lock[p] = t <=>
       call[t].pool = p /\ mpc[t] \in {"scan", "flip", "unlock"}

Shared ==
  /\ DOMAIN pool_lock = Pool /\ DOMAIN desc_lock = Desc
  /\ free_list \in [Desc -> Seq(Block)]
  /\ arena \in [Page -> Header]
Local ==
  /\ DOMAIN mpc = Thread /\ DOMAIN call = Thread /\ DOMAIN page = Thread
  /\ DOMAIN block = Thread /\ DOMAIN left = Thread /\ DOMAIN held = Thread

ControlInv == Shared /\ Local /\ (\A t \in Thread : Control(t)) /\ LockOrder

\* What a thread knows of the pages it works on.
PagesOf(t) ==
  /\ \A x, y \in Groups(t) : x # y => Group(x) \cap Group(y) = {}
  /\ HeldPages(t) \cap left[t] = {} /\ HeldPages(t) \cap NewPages(t) = {}
  /\ mpc[t] # "clear" => left[t] = {}
  /\ mpc[t] = "flip" => PageGroup(page[t], call[t].n) \subseteq Range0(call[t].pool) \ used
  /\ mpc[t] \in {"get", "scan", "flip", "unlock"} => call[t].n \in Nat \ {0}
  /\ \A x \in Groups(t) : x[3] \in Nat \ {0}
  /\ \A x \in Groups(t) : x[1] = "big" =>
       arena[x[2]].desc = Nothing /\ arena[x[2]].free_cnt = x[3]

\* No page has two owners; the pages in use are those with one.
OnePageOwner ==
  /\ \A t, u \in Thread : t # u => OwnPages(t) \cap OwnPages(u) = {}
  /\ \A t \in Thread : OwnPages(t) \cap ArenaPages = {}
  /\ used = ArenaPages \cup UNION {OwnPages(t) : t \in Thread}

PageInv == used \subseteq Page /\ OnePageOwner /\ \A t \in Thread : PagesOf(t)

\* The blocks a thread was given, of whatever descriptor.
HeldBlocks(t) == {<<x[2], x[3]>> : x \in {y \in held[t] : y[1] = "block"}}
BlocksOf(t) ==
  /\ \A x \in held[t] : x[1] = "block" => arena[x[2]].desc # Nothing
  /\ mpc[t] = "put" => block[t] \notin HeldBlocks(t)
  /\ mpc[t] \in {"get", "scan", "flip", "unlock", "arena"} /\ call[t].kind = "block" =>
       free_list[call[t].desc] = <<>>

\* No block of a descriptor has two owners, and those with one are all there are.
AllBlocks(d) == UNION {ArenaBlocks(d, a) : a \in Arenas(d)}
OneBlockOwner(d) ==
  /\ IsInjective(free_list[d])
  /\ \A t \in Thread : Range(free_list[d]) \cap OwnBlocks(t, d) = {}
  /\ Range(free_list[d]) \cup UNION {OwnBlocks(t, d) : t \in Thread} = AllBlocks(d)
  /\ \A t, u \in Thread : t # u => OwnBlocks(t, d) \cap OwnBlocks(u, d) = {}

\* A full arena is one malloc() is about to take a block of.
Popping(d, a) == \E t \in Thread : mpc[t] = "pop" /\ call[t] = Small(d) /\ Head(free_list[d])[1] = a
Counted(d) ==
  \A a \in Arenas(d) :
    /\ arena[a].free_cnt = Cardinality(Range(free_list[d]) \cap ArenaBlocks(d, a))
    /\ arena[a].free_cnt < blocks_per_arena[d] \/ Popping(d, a)

BlockInv == (\A t \in Thread : BlocksOf(t)) /\ \A d \in Desc : OneBlockOwner(d) /\ Counted(d)

MemoryInv == ControlInv /\ PageInv /\ BlockInv

\* What a step of t leaves alone: the other threads, and what a lock held by
\* another thread protects.
Frame(t) ==
  /\ Local'
  /\ \A u \in Thread : u # t => /\ mpc'[u] = mpc[u] /\ call'[u] = call[u]
                                /\ page'[u] = page[u] /\ block'[u] = block[u]
                                /\ left'[u] = left[u] /\ held'[u] = held[u]
  /\ \A d \in Desc : desc_lock[d] \notin {t, Nothing} =>
                       desc_lock'[d] = desc_lock[d] /\ free_list'[d] = free_list[d]
  /\ \A d \in Desc : desc_lock'[d] \notin {t, Nothing} => desc_lock[d] = desc_lock'[d]
  /\ \A p \in Pool : pool_lock[p] \notin {t, Nothing} => pool_lock'[p] = pool_lock[p]
  /\ \A p \in Pool : pool_lock'[p] \notin {t, Nothing} => pool_lock[p] = pool_lock'[p]

-----------------------------------------------------------------------------
(***************************************************************************)
(* What the proofs need to know of finite sets.  The library's theorems    *)
(* say so, but they would be carried through every step below; here the    *)
(* facts are a formula that the lemmas take as a hypothesis where they     *)
(* count.  FiniteSetsAreSo, at the end of the module, proves it.           *)
(***************************************************************************)
SubsetFact ==
  \A S : IsFiniteSet(S) =>
    /\ Cardinality(S) \in Nat /\ (Cardinality(S) = 0 => S = {})
    /\ \A T \in SUBSET S : /\ IsFiniteSet(T) /\ Cardinality(T) <= Cardinality(S)
                           /\ Cardinality(S) = Cardinality(T) => S = T
ElementFact ==
  \A S, x : IsFiniteSet(S) =>
    /\ x \in S => Cardinality(S \ {x}) = Cardinality(S) - 1
    /\ x \notin S => Cardinality(S \cup {x}) = Cardinality(S) + 1
IntervalFact ==
  \A n \in Nat : /\ IsFiniteSet(1..n) /\ Cardinality(1..n) = n
                 /\ IsFiniteSet(0..(n - 1)) /\ Cardinality(0..(n - 1)) = n
FunctionFact ==
  \A S, T :
    /\ IsFiniteSet(S) /\ ExistsBijection(S, T) => IsFiniteSet(T) /\ Cardinality(T) = Cardinality(S)
    /\ \A g \in Injection(S, T) :
         IsFiniteSet(T) /\ Cardinality(S) = Cardinality(T) => g \in Surjection(S, T)
FiniteFacts == SubsetFact /\ ElementFact /\ IntervalFact /\ FunctionFact

-----------------------------------------------------------------------------
(* First-order reasoning closes most leaves; the ones about numbers,       *)
(* records and sequences cite SMT.                                         *)
USE Zenon

\* The four kinds of request differ, and their fields are what they say.
LEMMA Requests ==
  /\ NoRequest.kind = "none" /\ NoRequest.pool = "kernel" /\ NoRequest.n = 0
  /\ \A d : Small(d).kind = "block" /\ Small(d).desc = d /\ Small(d).pool = "kernel" /\ Small(d).n = 1
  /\ \A n : Big(n).kind = "big" /\ Big(n).desc = Nothing /\ Big(n).pool = "kernel" /\ Big(n).n = n
  /\ \A p, n : /\ Pages(p, n).kind = "pages" /\ Pages(p, n).desc = Nothing
               /\ Pages(p, n).pool = p /\ Pages(p, n).n = n
<1>1. NoRequest.kind = "none" /\ NoRequest.pool = "kernel" /\ NoRequest.n = 0
  BY SMT DEF NoRequest
<1>2. ASSUME NEW d
      PROVE  Small(d).kind = "block" /\ Small(d).desc = d /\ Small(d).pool = "kernel" /\ Small(d).n = 1
  BY SMT DEF Small
<1>3. ASSUME NEW n
      PROVE  Big(n).kind = "big" /\ Big(n).desc = Nothing /\ Big(n).pool = "kernel" /\ Big(n).n = n
  BY SMT DEF Big
<1>4. ASSUME NEW p, NEW n
      PROVE  /\ Pages(p, n).kind = "pages" /\ Pages(p, n).desc = Nothing
             /\ Pages(p, n).pool = p /\ Pages(p, n).n = n
  BY SMT DEF Pages
<1> QED BY <1>1, <1>2, <1>3, <1>4

\* A request for a small block tells its descriptor.
LEMMA SmallOnce == \A d, e : Small(d) = Small(e) <=> d = e
<1>1. ASSUME NEW d, NEW e, Small(d) = Small(e) PROVE d = e
  <2>1. Small(d).desc = d /\ Small(e).desc = e
    BY Requests
  <2> QED BY <1>1, <2>1
<1> QED BY <1>1

\* A call's kind tells the request it works on.
LEMMA KindOf ==
  ASSUME NEW t \in Thread, Calling(t)
  PROVE  /\ call[t].kind = "block" <=> call[t].desc \in Desc /\ call[t] = Small(call[t].desc)
         /\ \A d \in Desc : call[t] = Small(d) <=> call[t].kind = "block" /\ call[t].desc = d
         /\ mpc[t] \in {"desc", "arena", "pop", "put"} => call[t].kind = "block"
         /\ mpc[t] = "idle" <=> call[t].kind = "none"
         /\ call[t].pool \in Pool /\ call[t].n \in Int
         /\ call[t].kind \in {"none", "block", "big", "pages"}
<1> USE Requests, MemoryAssumption
<1>1. CASE mpc[t] = "idle" /\ call[t] = NoRequest
  BY <1>1, SMT DEF Pool
<1>2. CASE /\ mpc[t] \in Getting \cup {"desc", "arena", "pop", "put"}
           /\ call[t].desc \in Desc /\ call[t] = Small(call[t].desc)
  BY <1>2, SMT DEF Pool, Getting
<1>3. CASE mpc[t] \in Getting /\ call[t].n \in Int /\ call[t] = Big(call[t].n)
  BY <1>3, SMT DEF Pool, Getting
<1>4. CASE /\ mpc[t] \in Getting /\ call[t].pool \in Pool /\ call[t].n \in Int
           /\ call[t] = Pages(call[t].pool, call[t].n)
  BY <1>4, SMT DEF Pool, Getting
<1> QED BY <1>1, <1>2, <1>3, <1>4 DEF Calling

\* Taking elements out of a list keeps the rest, each as often as before.
LEMMA WithoutKeeps ==
  ASSUME FiniteFacts, NEW T, NEW s \in Seq(T), NEW S
  PROVE  /\ Without(s, S) \in Seq(T)
         /\ Range(Without(s, S)) = Range(s) \ S
         /\ IsInjective(s) => IsInjective(Without(s, S))
<1> DEFINE kept == {i \in DOMAIN s : s[i] \notin S}
           upto(i) == {j \in kept : j <= i}
           n == Cardinality(kept)
           rank == [i \in kept |-> Cardinality(upto(i))]
           c(k) == CHOOSE i \in kept : Cardinality(upto(i)) = k
<1>1. Len(s) \in Nat /\ DOMAIN s = 1..Len(s) /\ \A i \in DOMAIN s : s[i] \in T
  BY SMT
<1>2. IsFiniteSet(kept) /\ n \in Nat
  <2>1. IsFiniteSet(1..Len(s))
    BY <1>1 DEF FiniteFacts, IntervalFact
  <2>2. kept \in SUBSET (1..Len(s))
    BY <1>1
  <2> QED BY <2>1, <2>2 DEF FiniteFacts, SubsetFact
<1>3. kept \subseteq Nat
  BY <1>1, SMT
<1>4. \A i \in kept : IsFiniteSet(upto(i)) /\ Cardinality(upto(i)) \in 1..n
  <2>1. ASSUME NEW i \in kept PROVE IsFiniteSet(upto(i)) /\ Cardinality(upto(i)) \in 1..n
    <3>1. upto(i) \in SUBSET kept
      OBVIOUS
    <3>2. IsFiniteSet(upto(i)) /\ Cardinality(upto(i)) <= n
      BY <1>2, <3>1 DEF FiniteFacts, SubsetFact
    <3>3. i \in upto(i)
      BY <1>3, SMT
    <3>4. Cardinality(upto(i)) \in Nat /\ Cardinality(upto(i)) # 0
      <4>1. upto(i) # {}
        BY <3>3
      <4> HIDE DEF upto
      <4> QED BY <3>2, <4>1 DEF FiniteFacts, SubsetFact
    <3> HIDE DEF upto, n
    <3> QED BY <1>2, <3>2, <3>4, SMT
  <2> QED BY <2>1
<1>5. \A i, j \in kept : Cardinality(upto(i)) = Cardinality(upto(j)) => i = j
  <2>1. ASSUME NEW i \in kept, NEW j \in kept, i < j,
               Cardinality(upto(i)) = Cardinality(upto(j))
        PROVE  FALSE
    <3>1. i \in Nat /\ j \in Nat
      BY <1>3
    <3>2. upto(i) \in SUBSET upto(j) /\ j \in upto(j) /\ j \notin upto(i)
      BY <1>3, <2>1, <3>1, SMT
    <3>3. IsFiniteSet(upto(j))
      BY <1>4
    <3> HIDE DEF upto
    <3>4. upto(j) = upto(i)
      BY <2>1, <3>2, <3>3 DEF FiniteFacts, SubsetFact
    <3> QED BY <3>2, <3>4
  <2>2. \A i, j \in kept : i = j \/ i < j \/ j < i
    BY <1>3, SMT
  <2> HIDE DEF kept, upto
  <2> QED BY <2>1, <2>2
<1>6. \A k \in 1..n : \E i \in kept : Cardinality(upto(i)) = k
  <2>1. rank \in Injection(kept, 1..n)
    <3>1. rank \in [kept -> 1..n]
      BY <1>4
    <3>2. \A i, j \in kept : rank[i] = rank[j] => i = j
      BY <1>5
    <3> HIDE DEF rank, kept, n
    <3> QED BY <3>1, <3>2 DEF Injection, IsInjective
  <2>2. IsFiniteSet(1..n) /\ Cardinality(1..n) = n
    <3> HIDE DEF n
    <3> QED BY <1>2 DEF FiniteFacts, IntervalFact
  <2>3. rank \in Surjection(kept, 1..n)
    <3> HIDE DEF rank
    <3>1. Cardinality(kept) = Cardinality(1..n)
      BY <2>2
    <3> HIDE DEF kept, n
    <3> QED BY <2>1, <2>2, <3>1 DEF FiniteFacts, FunctionFact
  <2>4. \A k \in 1..n : \E i \in kept : rank[i] = k
    <3> HIDE DEF rank, kept, n
    <3> QED BY <2>3 DEF Surjection
  <2> QED BY <2>4
<1>7. \A k \in 1..n : c(k) \in kept /\ Cardinality(upto(c(k))) = k
  <2> HIDE DEF kept, upto, n
  <2> QED BY <1>6
<1>8. /\ DOMAIN Without(s, S) = 1..n /\ Without(s, S) = [k \in 1..n |-> s[c(k)]]
      /\ \A k \in 1..n : Without(s, S)[k] = s[c(k)]
  BY DEF Without
<1>9. \A k \in 1..n : s[c(k)] \in T
  BY <1>1, <1>7
<1> HIDE DEF upto, rank, c, n
<1>10. Without(s, S) \in Seq(T)
  <2>1. Without(s, S) \in [1..n -> T]
    BY <1>8, <1>9
  <2>2. PICK m \in Nat : m = n
    BY <1>2
  <2>3. PICK w : w = Without(s, S)
    OBVIOUS
  <2>4. w \in Seq(T)
    BY <2>1, <2>2, <2>3, SMT
  <2> QED BY <2>3, <2>4
<1>11. Range(Without(s, S)) = Range(s) \ S
  <2>1. ASSUME NEW k \in 1..n PROVE s[c(k)] \in Range(s) \ S
    BY <1>7 DEF Range
  <2>2. ASSUME NEW x \in Range(s) \ S PROVE \E k \in 1..n : x = s[c(k)]
    <3>1. PICK i \in DOMAIN s : x = s[i]
      BY DEF Range
    <3>2. i \in kept
      BY <2>2, <3>1
    <3>3. PICK k \in 1..n : k = Cardinality(upto(i))
      BY <1>4, <3>2
    <3>4. c(k) = i
      BY <1>5, <1>7, <3>2, <3>3
    <3> QED BY <3>1, <3>4
  <2>3. PICK w : w = Without(s, S) /\ DOMAIN w = 1..n /\ \A k \in 1..n : w[k] = s[c(k)]
    BY <1>8
  <2> HIDE DEF kept
  <2>4. \A x : x \in Range(w) <=> \E k \in 1..n : x = s[c(k)]
    BY <2>3 DEF Range
  <2>5. \A x : x \in Range(w) <=> x \in Range(s) \ S
    BY <2>1, <2>2, <2>4, SMT
  <2> QED BY <2>3, <2>5
<1>12. ASSUME IsInjective(s) PROVE IsInjective(Without(s, S))
  <2>1. ASSUME NEW k \in 1..n, NEW m \in 1..n, s[c(k)] = s[c(m)] PROVE k = m
    <3>1. c(k) \in DOMAIN s /\ c(m) \in DOMAIN s
      BY <1>7
    <3>2. c(k) = c(m)
      BY <1>12, <2>1, <3>1 DEF IsInjective
    <3> QED BY <1>7, <3>2
  <2> QED BY <1>8, <2>1 DEF IsInjective
<1> QED BY <1>10, <1>11, <1>12

\* A list loses its head, or gets a new one.
LEMMA ListPop ==
  ASSUME NEW T, NEW s \in Seq(T), s # <<>>, IsInjective(s)
  PROVE  Range(Tail(s)) = Range(s) \ {Head(s)} /\ IsInjective(Tail(s))
<1>1. PICK n \in Nat : n = Len(s) - 1 /\ DOMAIN s = 1..(n + 1)
  BY SMT
<1>2. /\ Head(s) = s[1] /\ DOMAIN Tail(s) = 1..n
      /\ \A i \in 1..n : Tail(s)[i] = s[i + 1]
  BY <1>1, SMT
<1>3. \A i \in 1..n : i + 1 \in 1..(n + 1) /\ i + 1 # 1
  BY SMT
<1>4. \A i, j \in 1..n : i + 1 = j + 1 => i = j
  BY SMT
<1>5. \A i \in 1..(n + 1) : i # 1 => \E j \in 1..n : i = j + 1
  <2>1. ASSUME NEW i \in 1..(n + 1), i # 1 PROVE i - 1 \in 1..n /\ i = (i - 1) + 1
    BY <2>1, SMT
  <2> QED BY <2>1
<1>6. 1 \in 1..(n + 1)
  BY SMT
<1>7. \A i, j \in 1..(n + 1) : s[i] = s[j] => i = j
  BY <1>1 DEF IsInjective
<1>8. \A x : x \in Range(Tail(s)) <=> x \in Range(s) /\ x # Head(s)
  <2>1. ASSUME NEW x \in Range(Tail(s)) PROVE x \in Range(s) /\ x # Head(s)
    <3>1. PICK i \in 1..n : x = s[i + 1]
      BY <1>2 DEF Range
    <3> QED BY <1>1, <1>2, <1>3, <1>6, <1>7, <3>1 DEF Range
  <2>2. ASSUME NEW x \in Range(s), x # Head(s) PROVE x \in Range(Tail(s))
    <3>1. PICK i \in 1..(n + 1) : x = s[i]
      BY <1>1 DEF Range
    <3>2. PICK j \in 1..n : i = j + 1
      BY <1>2, <1>5, <2>2, <3>1
    <3> QED BY <1>2, <3>1, <3>2 DEF Range
  <2> QED BY <2>1, <2>2
<1>9. IsInjective(Tail(s))
  <2>1. ASSUME NEW i \in 1..n, NEW j \in 1..n, Tail(s)[i] = Tail(s)[j] PROVE i = j
    <3>1. s[i + 1] = s[j + 1]
      BY <1>2, <2>1
    <3> QED BY <1>3, <1>4, <1>7, <3>1
  <2> QED BY <1>2, <2>1 DEF IsInjective
<1> QED BY <1>8, <1>9

\* A block that is not in a list can be put in front of it.
LEMMA ListPush ==
  ASSUME NEW T, NEW s \in Seq(T), NEW b \in T, b \notin Range(s), IsInjective(s)
  PROVE  Range(<<b>> \o s) = Range(s) \cup {b} /\ IsInjective(<<b>> \o s)
<1>1. PICK n \in Nat : n = Len(s) /\ DOMAIN s = 1..n
  BY SMT
<1>2. PICK r : r = <<b>> \o s
  OBVIOUS
<1>3. DOMAIN r = 1..(n + 1) /\ r[1] = b /\ \A i \in 1..n : r[i + 1] = s[i]
  BY <1>1, <1>2, SMT
<1>4. \A i \in 1..n : i + 1 \in 1..(n + 1) /\ i + 1 # 1
  BY SMT
<1>5. \A i \in 1..(n + 1) : i = 1 \/ \E j \in 1..n : i = j + 1
  <2>1. ASSUME NEW i \in 1..(n + 1), i # 1 PROVE i - 1 \in 1..n /\ i = (i - 1) + 1
    BY <2>1, SMT
  <2> QED BY <2>1
<1>6. 1 \in 1..(n + 1)
  BY SMT
<1>7. \A x : x \in Range(r) <=> x \in Range(s) \/ x = b
  <2>1. ASSUME NEW x \in Range(r) PROVE x \in Range(s) \/ x = b
    <3>1. PICK i \in 1..(n + 1) : x = r[i]
      BY <1>3 DEF Range
    <3>2. CASE i = 1
      BY <1>3, <3>1, <3>2
    <3>3. CASE i # 1
      <4>1. PICK j \in 1..n : i = j + 1
        BY <1>5, <3>3
      <4>2. x = s[j] /\ j \in DOMAIN s
        BY <1>1, <1>3, <3>1, <4>1
      <4> QED BY <4>2 DEF Range
    <3> QED BY <3>2, <3>3
  <2>2. ASSUME NEW x \in Range(s) PROVE x \in Range(r)
    <3>1. PICK i \in 1..n : x = s[i]
      BY <1>1 DEF Range
    <3>2. r[i + 1] = x /\ i + 1 \in DOMAIN r
      BY <1>3, <1>4, <3>1
    <3> QED BY <3>2 DEF Range
  <2>3. b \in Range(r)
    BY <1>3, <1>6 DEF Range
  <2> QED BY <2>1, <2>2, <2>3
<1>8. IsInjective(r)
  <2>1. ASSUME NEW i \in 1..n PROVE r[i + 1] # b
    BY <1>1, <1>3 DEF Range
  <2>2. ASSUME NEW i \in 1..(n + 1), NEW j \in 1..(n + 1), r[i] = r[j] PROVE i = j
    <3>1. CASE i = 1 \/ j = 1
      BY <1>3, <1>5, <2>1, <2>2, <3>1
    <3>2. CASE i # 1 /\ j # 1
      <4>1. PICK k \in 1..n : i = k + 1
        BY <1>5, <3>2
      <4>2. PICK m \in 1..n : j = m + 1
        BY <1>5, <3>2
      <4>3. s[k] = s[m]
        BY <1>3, <2>2, <4>1, <4>2
      <4> QED BY <1>1, <4>1, <4>2, <4>3 DEF IsInjective
    <3> QED BY <3>1, <3>2
  <2> QED BY <1>3, <2>2 DEF IsInjective
<1> QED BY <1>2, <1>7, <1>8

\* The blocks of an arena: how many there are, and how many of them a set has.
LEMMA ArenaCount ==
  ASSUME FiniteFacts, NEW d \in Desc, NEW a
  PROVE  /\ IsFiniteSet(ArenaBlocks(d, a)) /\ Cardinality(ArenaBlocks(d, a)) = blocks_per_arena[d]
         /\ blocks_per_arena[d] \in Nat \ {0}
         /\ \A z \in ArenaBlocks(d, a) : z[1] = a
<1>1. PICK n \in Nat \ {0} : n = blocks_per_arena[d]
  BY MemoryAssumption
<1>2. IsFiniteSet(0..(n - 1)) /\ Cardinality(0..(n - 1)) = n
  BY DEF FiniteFacts, IntervalFact
<1>3. PICK f : f = [i \in 0..(n - 1) |-> <<a, i>>]
  OBVIOUS
<1>4. \A i, j : <<a, i>> = <<a, j>> => i = j
  BY SMT
<1>5. ArenaBlocks(d, a) = {<<a, i>> : i \in 0..(n - 1)}
  BY <1>1 DEF ArenaBlocks
<1>6. f \in Bijection(0..(n - 1), ArenaBlocks(d, a))
  <2>1. f \in [0..(n - 1) -> ArenaBlocks(d, a)]
    BY <1>3, <1>5
  <2>2. \A i, j \in 0..(n - 1) : f[i] = f[j] => i = j
    BY <1>3, <1>4
  <2>3. \A z \in ArenaBlocks(d, a) : \E i \in 0..(n - 1) : f[i] = z
    BY <1>3, <1>5
  <2> QED BY <2>1, <2>2, <2>3 DEF Bijection, Injection, Surjection, IsInjective
<1>7. ExistsBijection(0..(n - 1), ArenaBlocks(d, a))
  BY <1>6 DEF ExistsBijection
<1>8. IsFiniteSet(ArenaBlocks(d, a)) /\ Cardinality(ArenaBlocks(d, a)) = n
  BY <1>2, <1>7 DEF FiniteFacts, FunctionFact
<1>9. \A z \in ArenaBlocks(d, a) : z[1] = a
  <2>1. \A i : <<a, i>>[1] = a
    BY SMT
  <2> QED BY <1>5, <2>1
<1> QED BY <1>1, <1>8, <1>9
Count(d, a, R) == Cardinality(R \cap ArenaBlocks(d, a))

\* The blocks of an arena that are in a set: at most all of them, and if
\* there are as many as the arena has, every one.
LEMMA CountSet ==
  ASSUME FiniteFacts, NEW d \in Desc, NEW a, NEW R
  PROVE  /\ IsFiniteSet(R \cap ArenaBlocks(d, a)) /\ Count(d, a, R) \in Nat
         /\ Count(d, a, R) <= blocks_per_arena[d]
         /\ Count(d, a, R) >= blocks_per_arena[d] => ArenaBlocks(d, a) \subseteq R
<1>1. PICK B : B = ArenaBlocks(d, a)
  OBVIOUS
<1>2. IsFiniteSet(B) /\ Cardinality(B) = blocks_per_arena[d]
  BY <1>1, ArenaCount
<1>3. PICK C : C = R \cap B
  OBVIOUS
<1>4. C \in SUBSET B
  BY <1>3
<1>5. /\ IsFiniteSet(C) /\ Cardinality(C) <= Cardinality(B)
      /\ Cardinality(B) = Cardinality(C) => B = C
  BY <1>2, <1>4 DEF FiniteFacts, SubsetFact
<1>6. Cardinality(C) \in Nat /\ Cardinality(B) \in Nat
  BY <1>2, <1>5 DEF FiniteFacts, SubsetFact
<1>7. ASSUME Cardinality(C) >= Cardinality(B) PROVE B \subseteq R
  <2>1. Cardinality(C) = Cardinality(B)
    BY <1>5, <1>6, <1>7, SMT
  <2> QED BY <1>3, <1>5, <2>1
<1> QED BY <1>1, <1>2, <1>3, <1>5, <1>6, <1>7 DEF Count

\* One block of the arena leaves the set.
LEMMA CountTake ==
  ASSUME FiniteFacts, NEW d \in Desc, NEW a, NEW R, NEW b \in ArenaBlocks(d, a), b \in R
  PROVE  /\ Count(d, a, R) \in Nat /\ Count(d, a, R) <= blocks_per_arena[d]
         /\ Count(d, a, R \ {b}) = Count(d, a, R) - 1
<1>a. PICK C : C = R \cap ArenaBlocks(d, a)
  OBVIOUS
<1>b. IsFiniteSet(C)
  BY <1>a, CountSet
<1>1. C = R \cap ArenaBlocks(d, a) /\ IsFiniteSet(C) /\ b \in C
  BY <1>a, <1>b
<1>2. (R \ {b}) \cap ArenaBlocks(d, a) = C \ {b}
  BY <1>1
<1>3. Cardinality(C \ {b}) = Cardinality(C) - 1
  BY <1>1 DEF FiniteFacts, ElementFact
<1> QED BY <1>1, <1>2, <1>3, CountSet DEF Count

\* One block of the arena joins the set.
LEMMA CountGive ==
  ASSUME FiniteFacts, NEW d \in Desc, NEW a, NEW R, NEW b \in ArenaBlocks(d, a), b \notin R
  PROVE  Count(d, a, R) \in Nat /\ Count(d, a, R \cup {b}) = Count(d, a, R) + 1
<1>a. PICK C : C = R \cap ArenaBlocks(d, a)
  OBVIOUS
<1>b. IsFiniteSet(C)
  BY <1>a, CountSet
<1>1. C = R \cap ArenaBlocks(d, a) /\ IsFiniteSet(C) /\ b \notin C
  BY <1>a, <1>b
<1>2. (R \cup {b}) \cap ArenaBlocks(d, a) = C \cup {b}
  BY <1>1
<1>3. Cardinality(C \cup {b}) = Cardinality(C) + 1
  BY <1>1 DEF FiniteFacts, ElementFact
<1> QED BY <1>1, <1>2, <1>3, CountSet DEF Count

\* A new arena's blocks as a list.
NewBlocks(d, a) == [i \in 1..blocks_per_arena[d] |-> <<a, i - 1>>]

\* It is a list of blocks, as long as an arena.
LEMMA NewBlocksSeq ==
  ASSUME NEW d \in Desc, NEW a \in Page
  PROVE  /\ NewBlocks(d, a) \in Seq(Block) /\ Len(NewBlocks(d, a)) = blocks_per_arena[d]
         /\ blocks_per_arena[d] \in Nat \ {0}
<1>1. PICK n \in Nat \ {0} : n = blocks_per_arena[d]
  BY MemoryAssumption
<1>2. \A i \in 1..n : i - 1 \in Int
  BY <1>1, SMT
<1>3. \A i \in 1..n : <<a, i - 1>> \in Block
  BY <1>2 DEF Block
<1>4. PICK f : f = [i \in 1..n |-> <<a, i - 1>>]
  OBVIOUS
<1>5. f \in [1..n -> Block]
  BY <1>3, <1>4
<1>6. f \in Seq(Block) /\ Len(f) = n
  BY <1>1, <1>5, SMT
<1> QED BY <1>1, <1>4, <1>6 DEF NewBlocks

\* It holds each block of the arena once.
LEMMA NewList ==
  ASSUME NEW d \in Desc, NEW a \in Page
  PROVE  /\ IsInjective(NewBlocks(d, a)) /\ Range(NewBlocks(d, a)) = ArenaBlocks(d, a)
         /\ <<>> \o NewBlocks(d, a) = NewBlocks(d, a) /\ Head(NewBlocks(d, a))[1] = a
<1>1. PICK n \in Nat \ {0} : n = blocks_per_arena[d]
  BY MemoryAssumption
<1>2. PICK s : s = [i \in 1..n |-> <<a, i - 1>>]
  OBVIOUS
<1>3. s = NewBlocks(d, a) /\ s \in Seq(Block) /\ Len(s) = n /\ DOMAIN s = 1..n
  BY <1>1, <1>2, NewBlocksSeq DEF NewBlocks
<1>4. Head(s) = <<a, 0>> /\ Head(s)[1] = a
  BY <1>2, <1>3, SMT
<1>5. <<>> \o s = s
  BY <1>3, SMT
<1>6. \A i, j \in 1..n : <<a, i - 1>> = <<a, j - 1>> => i = j
  BY SMT
<1>7. IsInjective(s)
  BY <1>2, <1>6 DEF IsInjective
<1>8. \A z : z \in Range(s) <=> z \in ArenaBlocks(d, a)
  <2>1. ASSUME NEW i \in 1..n PROVE i - 1 \in 0..(n - 1)
    BY SMT
  <2>2. ASSUME NEW i \in 0..(n - 1) PROVE i + 1 \in 1..n /\ (i + 1) - 1 = i
    BY SMT
  <2>3. ASSUME NEW z \in Range(s) PROVE z \in ArenaBlocks(d, a)
    <3>1. PICK i \in 1..n : z = <<a, i - 1>>
      BY <1>2, <1>3 DEF Range
    <3> QED BY <1>1, <2>1, <3>1 DEF ArenaBlocks
  <2>4. ASSUME NEW z \in ArenaBlocks(d, a) PROVE z \in Range(s)
    <3>1. PICK i \in 0..(n - 1) : z = <<a, i>>
      BY <1>1 DEF ArenaBlocks
    <3>2. s[i + 1] = z /\ i + 1 \in DOMAIN s
      BY <1>2, <1>3, <2>2, <3>1
    <3> QED BY <3>2 DEF Range
  <2> QED BY <2>3, <2>4
<1> QED BY <1>3, <1>4, <1>5, <1>7, <1>8

\* Disjoint sets O[u] and R that cover A stay so when an element b moves from R
\* to one of them or back, or a set G joins or leaves R.
Cover(T, O, R, A) ==
  /\ \A u, v \in T : u # v => O[u] \cap O[v] = {}
  /\ \A u \in T : R \cap O[u] = {}
  /\ R \cup UNION {O[u] : u \in T} = A
Take(R, S, X, Y, A, B, b) == S = R \ {b} /\ Y = X \cup {b} /\ B = A /\ b \in R
Give(R, S, X, Y, A, B, b) == S = R \cup {b} /\ Y = X \ {b} /\ B = A /\ b \in X
Leave(R, S, X, Y, A, B, b, G) ==
  S = (R \cup {b}) \ G /\ Y = X \ {b} /\ B = A \ G /\ b \in X /\ b \in G /\ G \subseteq R \cup {b}
Join(R, S, X, Y, A, B, G) == S = G /\ Y = X /\ R = {} /\ B = A \cup G /\ G \cap A = {}
Moves(R, S, X, Y, A, B, b, G) ==
  \/ Take(R, S, X, Y, A, B, b) \/ Give(R, S, X, Y, A, B, b)
  \/ Leave(R, S, X, Y, A, B, b, G) \/ Join(R, S, X, Y, A, B, G)

\* If every element of A is in R or in exactly one O[u], one of the four moves
\* of t's elements leaves every element of B in S or in exactly one P[u].
LEMMA SetsMove ==
  ASSUME NEW T, NEW t \in T, NEW O, NEW P, NEW R, NEW S, NEW A, NEW B, NEW b, NEW G,
         Cover(T, O, R, A), \A u \in T : u # t => P[u] = O[u], Moves(R, S, O[t], P[t], A, B, b, G)
  PROVE  Cover(T, P, S, B)
<1>1. PICK Q : Q = UNION {O[u] : u \in T \ {t}}
  OBVIOUS
<1>2. \A u \in T : u # t => O[u] \subseteq Q
  BY <1>1
<1>3. \A i \in Q : \E u \in T : u # t /\ i \in O[u]
  BY <1>1
<1>4. PICK X, Y : X = O[t] /\ Y = P[t]
  OBVIOUS
<1>5. Q \cap X = {} /\ Q \cap R = {} /\ X \cap R = {}
  <2>1. Q \cap X = {}
    BY <1>3, <1>4 DEF Cover
  <2>2. Q \cap R = {}
    BY <1>3 DEF Cover
  <2>3. X \cap R = {}
    BY <1>4 DEF Cover
  <2> QED BY <2>1, <2>2, <2>3
<1>6. \A i : i \in A <=> i \in R \/ i \in X \/ i \in Q
  <2>1. \A i : i \in A <=> i \in R \/ \E u \in T : i \in O[u]
    BY DEF Cover
  <2>2. \A i : (\E u \in T : i \in O[u]) <=> i \in X \/ i \in Q
    BY <1>2, <1>3, <1>4
  <2> QED BY <2>1, <2>2
<1>7. /\ Q \cap Y = {} /\ Q \cap S = {} /\ Y \cap S = {}
      /\ \A i : i \in B <=> i \in S \/ i \in Y \/ i \in Q
  <2>1. CASE Take(R, S, X, Y, A, B, b)
    BY <1>5, <1>6, <2>1 DEF Take
  <2>2. CASE Give(R, S, X, Y, A, B, b)
    BY <1>5, <1>6, <2>2 DEF Give
  <2>3. CASE Leave(R, S, X, Y, A, B, b, G)
    <3>1. Q \cap Y = {} /\ Q \cap S = {} /\ Y \cap S = {}
      BY <1>5, <2>3 DEF Leave
    <3>2. \A i : i \in G => i \notin Q /\ i \notin Y
      BY <1>5, <2>3 DEF Leave
    <3>3. \A i : i \in B <=> i \in S \/ i \in Y \/ i \in Q
      BY <1>6, <2>3, <3>2 DEF Leave
    <3> QED BY <3>1, <3>3
  <2>4. CASE Join(R, S, X, Y, A, B, G)
    BY <1>5, <1>6, <2>4 DEF Join
  <2> QED BY <1>4, <2>1, <2>2, <2>3, <2>4 DEF Moves
<1>8. \A u, v \in T : u # v => P[u] \cap P[v] = {}
  <2>1. ASSUME NEW u \in T, NEW v \in T, u # v PROVE P[u] \cap P[v] = {}
    <3>1. CASE u = t
      BY <1>2, <1>4, <1>7, <2>1, <3>1
    <3>2. CASE v = t
      BY <1>2, <1>4, <1>7, <2>1, <3>2
    <3>3. CASE u # t /\ v # t
      BY <2>1, <3>3 DEF Cover
    <3> QED BY <3>1, <3>2, <3>3
  <2> QED BY <2>1
<1>9. \A u \in T : S \cap P[u] = {}
  <2>1. S \cap P[t] = {} /\ \A u \in T : u # t => S \cap O[u] = {}
    BY <1>2, <1>4, <1>7
  <2> QED BY <2>1
<1>10. S \cup UNION {P[u] : u \in T} = B
  <2>1. \A i : (\E u \in T : i \in P[u]) <=> i \in Y \/ i \in Q
    BY <1>2, <1>3, <1>4
  <2>2. \A i : i \in B <=> i \in S \/ \E u \in T : i \in P[u]
    BY <1>7, <2>1
  <2> QED BY <2>2
<1> QED BY <1>8, <1>9, <1>10 DEF Cover

\* What a change of one arena header does.
LEMMA HeaderSet ==
  ASSUME arena \in [Page -> Header], NEW a \in Page, NEW d \in Desc \cup {Nothing}, NEW n \in Int,
         arena' = [arena EXCEPT ![a] = [desc |-> d, free_cnt |-> n]]
  PROVE  /\ arena' \in [Page -> Header]
         /\ arena'[a].desc = d /\ arena'[a].free_cnt = n
         /\ \A i \in Page : i # a => arena'[i] = arena[i]
<1>1. [desc |-> d, free_cnt |-> n] \in Header
  BY SMT DEF Header
<1>2. arena'[a] = [desc |-> d, free_cnt |-> n]
  OBVIOUS
<1>3. arena'[a].desc = d /\ arena'[a].free_cnt = n
  BY <1>2, SMT
<1> QED BY <1>1, <1>3

\* free_cnt of one arena is set.
LEMMA HeaderCount ==
  ASSUME arena \in [Page -> Header], NEW a \in Page, NEW n \in Int,
         arena' = [arena EXCEPT ![a].free_cnt = n]
  PROVE  /\ arena' \in [Page -> Header]
         /\ arena'[a].desc = arena[a].desc /\ arena'[a].free_cnt = n
         /\ \A i \in Page : i # a => arena'[i] = arena[i]
<1>1. arena[a] \in Header
  OBVIOUS
<1>2. arena'[a] = [arena[a] EXCEPT !.free_cnt = n]
  OBVIOUS
<1>3. arena'[a] \in Header /\ arena'[a].desc = arena[a].desc /\ arena'[a].free_cnt = n
  BY <1>1, <1>2, SMT DEF Header
<1>4. \A i \in Page : i # a => arena'[i] = arena[i]
  OBVIOUS
<1>5. DOMAIN arena' = Page /\ arena' = [i \in Page |-> arena'[i]]
  OBVIOUS
<1>6. \A i \in Page : arena'[i] \in Header
  BY <1>3, <1>4
<1> QED BY <1>3, <1>4, <1>5, <1>6

\* The other threads keep their place and their locks.
LEMMA FrameKeeps ==
  ASSUME ControlInv, NEW t \in Thread, Frame(t), Shared', Control(t)', Locks(t)'
  PROVE  ControlInv'
<1>1. ASSUME NEW u \in Thread, u # t
      PROVE  Control(u)' /\ Locks(u)'
  <2>1. /\ mpc'[u] = mpc[u] /\ call'[u] = call[u]
        /\ page'[u] = page[u] /\ block'[u] = block[u]
        /\ left'[u] = left[u] /\ held'[u] = held[u]
    BY <1>1 DEF Frame
  <2>2. Control(u) /\ Locks(u) /\ u # Nothing
    BY MemoryAssumption DEF ControlInv, LockOrder, Locks
  <2>3. Locks(u)'
    <3>1. \A d \in Desc : desc_lock'[d] = u <=> desc_lock[d] = u
      BY <1>1, <2>2 DEF Frame
    <3>2. \A p \in Pool : pool_lock'[p] = u <=> pool_lock[p] = u
      BY <1>1, <2>2 DEF Frame
    <3> QED BY <2>1, <2>2, <3>1, <3>2, SMT DEF Locks
  <2>4. ASSUME mpc[u] = "pop" PROVE free_list'[call[u].desc] # <<>>
    <3>1. call[u].desc \in Desc /\ call[u] = Small(call[u].desc)
      BY <2>2, <2>4, KindOf DEF Control
    <3>2. "pop" \notin {"idle", "desc", "put"}
      OBVIOUS
    <3>3. desc_lock[call[u].desc] = u
      BY <2>2, <2>4, <3>1, <3>2 DEF Locks
    <3>4. free_list'[call[u].desc] = free_list[call[u].desc]
      BY <1>1, <2>2, <3>1, <3>3 DEF Frame
    <3> QED BY <2>2, <2>4, <3>4 DEF Control
  <2>5. Calling(u)'
    BY <2>1, <2>2 DEF Control, Calling
  <2> QED BY <2>1, <2>2, <2>3, <2>4, <2>5 DEF Control
<1>2. \A u \in Thread : Control(u)' /\ Locks(u)'
  BY <1>1
<1>3. Local'
  BY DEF Frame
<1> QED BY <1>2, <1>3 DEF ControlInv, LockOrder, Locks

\* The cases of the handlers that branch: a group is found or not; the page is
\* for an arena, there is none, or it is returned; the arena is kept or not.
scan_none(t) ==
  /\ At(t, "scan") /\ Free(call[t].pool, call[t].n) = {} /\ Move(t, "unlock")
  /\ UNCHANGED <<used, pool_lock, arena, free_list, desc_lock, call, page, block, left, held>>
scan_found(t, i) ==
  /\ At(t, "scan") /\ i \in Free(call[t].pool, call[t].n) /\ Move(t, "flip")
  /\ page' = [page EXCEPT ![t] = i]
  /\ UNCHANGED <<used, pool_lock, arena, free_list, desc_lock, call, block, left, held>>
unlock_arena(t) ==
  /\ At(t, "unlock") /\ call[t].kind = "block" /\ page[t] # Nothing /\ Move(t, "arena")
  /\ pool_lock' = [pool_lock EXCEPT ![call[t].pool] = Nothing]
  /\ UNCHANGED <<used, arena, free_list, desc_lock, call, page, block, left, held>>
unlock_none(t) ==
  /\ At(t, "unlock") /\ page[t] = Nothing /\ Finish(t)
  /\ pool_lock' = [pool_lock EXCEPT ![call[t].pool] = Nothing]
  /\ desc_lock' = IF call[t].kind = "block" THEN [desc_lock EXCEPT ![call[t].desc] = Nothing]
                  ELSE desc_lock
  /\ UNCHANGED <<used, arena, free_list, block, left, held>>
unlock_pages(t) ==
  /\ At(t, "unlock") /\ page[t] # Nothing /\ call[t].kind # "block" /\ Finish(t)
  /\ pool_lock' = [pool_lock EXCEPT ![call[t].pool] = Nothing]
  /\ held' = [held EXCEPT ![t] = @ \cup {<<call[t].kind, page[t], call[t].n>>}]
  /\ arena' = IF call[t].kind = "big"
              THEN [arena EXCEPT ![page[t]] = [desc |-> Nothing, free_cnt |-> call[t].n]] ELSE arena
  /\ UNCHANGED <<used, free_list, desc_lock, block, left>>
put_keep(t, d, b) ==
  /\ At(t, "put") /\ d = call[t].desc /\ b = block[t] /\ desc_lock[d] = Nothing
  /\ ~(arena[b[1]].free_cnt + 1 >= blocks_per_arena[d])
  /\ arena' = [arena EXCEPT ![b[1]].free_cnt = @ + 1]
  /\ free_list' = [free_list EXCEPT ![d] = <<b>> \o @]
  /\ block' = [block EXCEPT ![t] = Nothing] /\ Finish(t)
  /\ UNCHANGED <<used, pool_lock, desc_lock, left, held>>
put_drop(t, d, b) ==
  /\ At(t, "put") /\ d = call[t].desc /\ b = block[t] /\ desc_lock[d] = Nothing
  /\ arena[b[1]].free_cnt + 1 >= blocks_per_arena[d]
  /\ arena' = [arena EXCEPT ![b[1]].free_cnt = @ + 1]
  /\ free_list' = [free_list EXCEPT ![d] = Without(<<b>> \o @, ArenaBlocks(d, b[1]))]
  /\ desc_lock' = [desc_lock EXCEPT ![d] = t]
  /\ left' = [left EXCEPT ![t] = {b[1]}]
  /\ block' = [block EXCEPT ![t] = Nothing] /\ Move(t, "clear")
  /\ UNCHANGED <<used, pool_lock, call, page, held>>
clear_one(t, i) ==
  /\ At(t, "clear") /\ i \in left[t]
  /\ used' = used \ {i} /\ left' = [left EXCEPT ![t] = @ \ {i}]
  /\ arena' = [j \in Page |-> IF j \in left[t] THEN NoArena ELSE arena[j]]
  /\ UNCHANGED <<pool_lock, free_list, desc_lock, mpc, call, page, block, held>>

\* bitmap_scan() finds a group of pages or none.
LEMMA ScanCases == ASSUME NEW t, get_scan(t) PROVE scan_none(t) \/ \E i : scan_found(t, i)
BY DEF get_scan, scan_none, scan_found, Move

\* palloc_get_multiple() returns to malloc() for an arena, returns without
\* pages, or returns pages to its caller.
LEMMA UnlockCases ==
  ASSUME NEW t, get_unlock(t) PROVE unlock_arena(t) \/ unlock_none(t) \/ unlock_pages(t)
<1>1. CASE call[t].kind = "block" /\ page[t] # Nothing
  BY <1>1 DEF get_unlock, unlock_arena
<1>2. CASE page[t] = Nothing
  BY <1>2 DEF get_unlock, unlock_none
<1>3. CASE page[t] # Nothing /\ call[t].kind # "block"
  BY <1>3 DEF get_unlock, unlock_pages
<1> QED BY <1>1, <1>2, <1>3

\* free() keeps the arena, or drops it because all of its blocks are free.
LEMMA PutCases ==
  ASSUME NEW t, free_put(t)
  PROVE  \E d, b : put_keep(t, d, b) \/ put_drop(t, d, b)
<1> DEFINE d == call[t].desc
           b == block[t]
<1>1. CASE arena[b[1]].free_cnt + 1 >= blocks_per_arena[d]
  <2>1. put_drop(t, d, b)
    BY <1>1 DEF free_put, put_drop
  <2> QED BY <2>1
<1>2. CASE ~(arena[b[1]].free_cnt + 1 >= blocks_per_arena[d])
  <2>1. put_keep(t, d, b)
    BY <1>2 DEF free_put, put_keep
  <2> QED BY <2>1
<1> QED BY <1>1, <1>2

\* palloc_free_multiple() resets one bit.
LEMMA ClearCases == ASSUME NEW t, free_clear(t) PROVE \E i : clear_one(t, i)
BY DEF free_clear, clear_one

\* A step's effect on one thread's entry of a function, and on one lock.
Entry(f, g, S, t) == DOMAIN g = S /\ \A u \in S : u # t => g[u] = f[u]

\* An assignment to one entry of an array leaves the others alone.
LEMMA EntrySame ==
  ASSUME NEW S, NEW f, DOMAIN f = S, NEW t
  PROVE  Entry(f, f, S, t) /\ \A e : Entry(f, [f EXCEPT ![t] = e], S, t)
BY DEF Entry

\* Frame(t), from what the step does to each variable.
Framed(t) ==
  /\ Entry(mpc, mpc', Thread, t) /\ Entry(call, call', Thread, t) /\ Entry(page, page', Thread, t)
  /\ Entry(block, block', Thread, t) /\ Entry(left, left', Thread, t) /\ Entry(held, held', Thread, t)

\* The entries of the other threads, descriptors and pools are unchanged.
LEMMA FrameFrom ==
  ASSUME NEW t \in Thread, NEW d, NEW p, Framed(t),
         Entry(desc_lock, desc_lock', Desc, d), Entry(free_list, free_list', Desc, d),
         Entry(pool_lock, pool_lock', Pool, p),
         d \in Desc => desc_lock[d] \in {t, Nothing} /\ desc_lock'[d] \in {t, Nothing},
         p \in Pool => pool_lock[p] \in {t, Nothing} /\ pool_lock'[p] \in {t, Nothing}
  PROVE  Frame(t)
<1>1. Local'
  BY DEF Framed, Entry, Local
<1>2. \A u \in Thread : u # t => /\ mpc'[u] = mpc[u] /\ call'[u] = call[u]
                                /\ page'[u] = page[u] /\ block'[u] = block[u]
                                /\ left'[u] = left[u] /\ held'[u] = held[u]
  BY DEF Framed, Entry
<1>3. \A e \in Desc : desc_lock[e] \notin {t, Nothing} =>
                        desc_lock'[e] = desc_lock[e] /\ free_list'[e] = free_list[e]
  BY DEF Entry
<1>4. \A e \in Desc : desc_lock'[e] \notin {t, Nothing} => desc_lock[e] = desc_lock'[e]
  BY DEF Entry
<1>5. \A q \in Pool : /\ pool_lock[q] \notin {t, Nothing} => pool_lock'[q] = pool_lock[q]
                      /\ pool_lock'[q] \notin {t, Nothing} => pool_lock[q] = pool_lock'[q]
  BY DEF Entry
<1> QED BY <1>1, <1>2, <1>3, <1>4, <1>5 DEF Frame

\* What is known of a thread, whatever it does next.
LEMMA Here ==
  ASSUME ControlInv, NEW t \in Thread
  PROVE  Shared /\ Local /\ Control(t) /\ Locks(t) /\ Calling(t) /\ t # Nothing
BY MemoryAssumption DEF ControlInv, LockOrder, Locks, Control

\* No lock and no list changes, or those of one descriptor and one pool.
LEMMA NoDesc ==
  ASSUME Shared, UNCHANGED <<desc_lock, free_list>>
  PROVE  /\ Entry(desc_lock, desc_lock', Desc, Nothing) /\ Entry(free_list, free_list', Desc, Nothing)
         /\ Nothing \notin Desc
BY EntrySame, MemoryAssumption DEF Shared

\* A step that does not touch a pool's lock.
LEMMA NoPool ==
  ASSUME Shared, UNCHANGED pool_lock
  PROVE  Entry(pool_lock, pool_lock', Pool, "none") /\ "none" \notin Pool
BY EntrySame DEF Shared, Pool

\* A call begins.
LEMMA BeginControl ==
  ASSUME ControlInv, NEW t \in Thread, At(t, "idle"),
         NEW c, NEW l, Move(t, l), call' = [call EXCEPT ![t] = c],
         UNCHANGED <<used, pool_lock, arena, free_list, desc_lock, page, block, left, held>>,
         \/ l = "desc" /\ c.desc \in Desc /\ c = Small(c.desc)
         \/ l = "get" /\ c.n \in Int /\ c = Big(c.n)
         \/ l = "get" /\ c.n \in Int /\ c.pool \in Pool /\ c = Pages(c.pool, c.n)
  PROVE  Frame(t) /\ ControlInv'
<1>1. Shared /\ Local /\ Control(t) /\ Locks(t) /\ t # Nothing
  BY Here
<1>2. mpc'[t] = l /\ call'[t] = c /\ page'[t] = Nothing /\ held'[t] = held[t]
  BY <1>1 DEF Local, Move, At, Control
<1>3. Framed(t)
  BY <1>1, EntrySame DEF Local, Framed, Move
<1>4. Frame(t)
  BY <1>1, <1>3, NoDesc, NoPool, FrameFrom
<1>5. Shared'
  BY <1>1 DEF Shared
<1>6. Calling(t)'
  BY <1>2 DEF Calling, Getting
<1>7. l \in {"desc", "get"}
  OBVIOUS
<1>8. Control(t)'
  BY <1>1, <1>2, <1>6, <1>7 DEF Control
<1>9. Locks(t)'
  <2>1. \A d \in Desc : desc_lock'[d] # t
    BY <1>1 DEF Locks, At
  <2>2. \A p \in Pool : pool_lock'[p] # t
    BY <1>1 DEF Locks, At
  <2>3. \A d \in Desc : ~(call'[t] = Small(d) /\ mpc'[t] \notin {"idle", "desc", "put"})
    BY <1>2, Requests, SMT
  <2>4. mpc'[t] \notin {"scan", "flip", "unlock"}
    BY <1>2, <1>7
  <2> QED BY <2>1, <2>2, <2>3, <2>4 DEF Locks
<1> QED BY <1>4, <1>5, <1>8, <1>9, FrameKeeps

\* malloc() takes the descriptor's lock.
LEMMA LockControl ==
  ASSUME ControlInv, NEW t \in Thread, malloc_lock(t)
  PROVE  Frame(t) /\ ControlInv'
<1>1. Shared /\ Local /\ Control(t) /\ Locks(t) /\ Calling(t) /\ t # Nothing
  BY Here
<1>2. PICK d : d = call[t].desc
  OBVIOUS
<1>3. d \in Desc /\ call[t] = Small(d) /\ call[t].kind = "block"
  BY <1>1, <1>2, KindOf DEF malloc_lock, At
<1>4. PICK l \in {"get", "pop"} : Move(t, l) /\ (l = "pop" => free_list[d] # <<>>)
  BY <1>2 DEF malloc_lock
<1>0. UNCHANGED <<used, pool_lock, arena, free_list, call, page, block, left, held>>
  BY DEF malloc_lock
<1>5. mpc'[t] = l /\ call'[t] = call[t] /\ page'[t] = Nothing /\ held'[t] = held[t]
  BY <1>1, <1>4 DEF malloc_lock, Local, Move, At, Control
<1>6. Framed(t)
  BY <1>0, <1>1, <1>4, EntrySame DEF Local, Framed, Move
<1>7. desc_lock[d] = Nothing /\ desc_lock' = [desc_lock EXCEPT ![d] = t] /\ desc_lock'[d] = t
  BY <1>1, <1>2, <1>3 DEF malloc_lock, Shared
<1>8. Frame(t)
  <2>1. Entry(desc_lock, desc_lock', Desc, d) /\ Entry(free_list, free_list', Desc, d)
    BY <1>0, <1>1, <1>7, EntrySame DEF Shared
  <2> QED BY <1>0, <1>1, <1>6, <1>7, <2>1, NoPool, FrameFrom
<1>9. Shared'
  BY <1>0, <1>1, <1>7 DEF Shared
<1>10. Calling(t)'
  BY <1>2, <1>3, <1>5 DEF Calling, Getting
<1>11. Control(t)'
  BY <1>1, <1>2, <1>4, <1>5, <1>10 DEF Control, malloc_lock
<1>12. Locks(t)'
  <2>1. \A e \in Desc : desc_lock'[e] = t <=> e = d
    BY <1>1, <1>7 DEF Locks, At, malloc_lock, Shared
  <2>2. \A p \in Pool : pool_lock'[p] # t
    BY <1>1 DEF Locks, At, malloc_lock
  <2>3. \A e \in Desc : call'[t] = Small(e) <=> e = d
    BY <1>3, <1>5, SmallOnce
  <2> QED BY <1>4, <1>5, <2>1, <2>2, <2>3 DEF Locks
<1> QED BY <1>8, <1>9, <1>11, <1>12, FrameKeeps

\* palloc_get_multiple() takes the pool's lock.
LEMMA PoolControl ==
  ASSUME ControlInv, NEW t \in Thread, get_lock(t)
  PROVE  Frame(t) /\ ControlInv'
<1>1. Shared /\ Local /\ Control(t) /\ Locks(t) /\ Calling(t) /\ t # Nothing
  BY Here
<1>2. PICK p : p = call[t].pool
  OBVIOUS
<1>3. p \in Pool
  BY <1>1, <1>2, KindOf
<1>5. mpc'[t] = "scan" /\ call'[t] = call[t] /\ page'[t] = Nothing /\ held'[t] = held[t]
  BY <1>1 DEF get_lock, Local, Move, At, Control
<1>6. Framed(t)
  BY <1>1, EntrySame DEF Local, Framed, Move, get_lock
<1>7. pool_lock[p] = Nothing /\ pool_lock' = [pool_lock EXCEPT ![p] = t] /\ pool_lock'[p] = t
  BY <1>1, <1>2, <1>3 DEF get_lock, Shared
<1>8. Frame(t)
  <2>1. Entry(pool_lock, pool_lock', Pool, p)
    BY <1>1, <1>7, EntrySame DEF Shared
  <2> QED BY <1>1, <1>6, <1>7, <2>1, NoDesc, FrameFrom DEF get_lock
<1>9. Shared'
  BY <1>1, <1>7 DEF Shared, get_lock
<1>10. Calling(t)'
  BY <1>1, <1>5 DEF Calling, Getting, get_lock, At
<1>11. Control(t)'
  BY <1>1, <1>5, <1>10 DEF Control
<1>12. Locks(t)'
  <2>1. \A e \in Desc : desc_lock'[e] = t <=> call'[t] = Small(e)
    BY <1>1, <1>5 DEF Locks, At, get_lock
  <2>2. \A q \in Pool : pool_lock'[q] = t <=> q = p
    BY <1>1, <1>7 DEF Locks, At, get_lock, Shared
  <2> QED BY <1>2, <1>5, <2>1, <2>2 DEF Locks
<1> QED BY <1>8, <1>9, <1>11, <1>12, FrameKeeps

\* A pool's pages are pages.
LEMMA RangePage == \A p : Range0(p) \subseteq Page
BY MemoryAssumption, SMT DEF Range0, Page

\* The search for free pages goes on under the pool's lock.
LEMMA SearchControl ==
  ASSUME ControlInv, NEW t \in Thread, mpc[t] \in {"scan", "flip"},
         NEW l \in {"flip", "unlock"}, Move(t, l),
         page' = page \/ \E i \in Page : page' = [page EXCEPT ![t] = i],
         l = "flip" => page'[t] \in Page,
         UNCHANGED <<pool_lock, arena, free_list, desc_lock, call, block, left, held>>
  PROVE  Frame(t) /\ ControlInv'
<1>1. Shared /\ Local /\ Control(t) /\ Locks(t) /\ Calling(t) /\ t # Nothing
  BY Here
<1>2. mpc'[t] = l /\ call'[t] = call[t] /\ held'[t] = held[t]
  BY <1>1 DEF Local, Move
<1>3. page'[t] \in Page \cup {Nothing} /\ Entry(page, page', Thread, t)
  <2>1. CASE page' = page
    BY <1>1, <2>1, EntrySame DEF Local, Control
  <2>2. ASSUME NEW i \in Page, page' = [page EXCEPT ![t] = i]
        PROVE  page'[t] \in Page \cup {Nothing} /\ Entry(page, page', Thread, t)
    <3>1. page'[t] = i
      BY <1>1, <2>2 DEF Local
    <3> QED BY <1>1, <2>2, <3>1, EntrySame DEF Local
  <2> QED BY <2>1, <2>2
<1>4. Framed(t)
  BY <1>1, <1>3, EntrySame DEF Local, Framed, Move
<1>5. Frame(t)
  BY <1>1, <1>4, NoDesc, NoPool, FrameFrom
<1>6. Shared'
  BY <1>1 DEF Shared
<1>7. Calling(t)'
  BY <1>1, <1>2 DEF Calling, Getting
<1>8. Control(t)'
  BY <1>1, <1>2, <1>3, <1>7 DEF Control
<1>9. Locks(t)'
  BY <1>1, <1>2 DEF Locks
<1> QED BY <1>5, <1>6, <1>8, <1>9, FrameKeeps

\* A call that returns leaves the thread without a lock.
LEMMA FinishControl ==
  ASSUME ControlInv, NEW t \in Thread, Frame(t), Shared', Finish(t),
         held'[t] \subseteq Holding,
         \A d \in Desc : desc_lock'[d] # t, \A p \in Pool : pool_lock'[p] # t
  PROVE  ControlInv'
<1>1. mpc'[t] = "idle" /\ call'[t] = NoRequest /\ page'[t] = Nothing
  BY Here DEF Finish, Move, Local
<1>2. Calling(t)'
  BY <1>1 DEF Calling
<1>3. Control(t)'
  BY <1>1, <1>2 DEF Control
<1>4. Locks(t)'
  BY <1>1 DEF Locks
<1> QED BY <1>3, <1>4, FrameKeeps

\* The page for an arena: the pool's lock is released.
LEMMA ArenaPageControl ==
  ASSUME ControlInv, NEW t \in Thread, unlock_arena(t)
  PROVE  Frame(t) /\ ControlInv'
<1>1. Shared /\ Local /\ Control(t) /\ Locks(t) /\ Calling(t) /\ t # Nothing
  BY Here
<1>2. PICK p : p = call[t].pool
  OBVIOUS
<1>3. p \in Pool /\ call[t].desc \in Desc /\ call[t] = Small(call[t].desc)
  BY <1>1, <1>2, KindOf DEF unlock_arena
<1>4. mpc[t] = "unlock" /\ mpc'[t] = "arena" /\ call'[t] = call[t] /\ held'[t] = held[t]
  BY <1>1 DEF Local, Move, unlock_arena, At
<1>5. page'[t] = page[t] /\ page[t] \in Page
  BY <1>1 DEF unlock_arena, Control
<1>6. Framed(t)
  BY <1>1, EntrySame DEF Local, Framed, Move, unlock_arena
<1>7. pool_lock[p] = t /\ pool_lock' = [pool_lock EXCEPT ![p] = Nothing] /\ pool_lock'[p] = Nothing
  BY <1>1, <1>2, <1>3, <1>4 DEF unlock_arena, Shared, Locks
<1>8. Frame(t)
  <2>1. Entry(pool_lock, pool_lock', Pool, p)
    BY <1>1, <1>7, EntrySame DEF Shared
  <2> QED BY <1>1, <1>6, <1>7, <2>1, NoDesc, FrameFrom DEF unlock_arena
<1>9. Shared'
  BY <1>1, <1>7 DEF Shared, unlock_arena
<1>10. Calling(t)'
  BY <1>3, <1>4 DEF Calling
<1>11. Control(t)'
  BY <1>1, <1>4, <1>5, <1>10 DEF Control
<1>12. Locks(t)'
  <2>1. \A d \in Desc : desc_lock'[d] = t <=> call'[t] = Small(d)
    BY <1>1, <1>4 DEF Locks, unlock_arena
  <2>2. \A q \in Pool : pool_lock'[q] # t
    BY <1>1, <1>2, <1>7 DEF Locks, Shared
  <2> QED BY <1>4, <2>1, <2>2 DEF Locks
<1> QED BY <1>8, <1>9, <1>11, <1>12, FrameKeeps

\* The return from palloc_get_multiple(), with pages or without.
LEMMA UnlockControl ==
  ASSUME ControlInv, NEW t \in Thread, unlock_none(t) \/ unlock_pages(t)
  PROVE  Frame(t) /\ ControlInv'
<1>1. Shared /\ Local /\ Control(t) /\ Locks(t) /\ Calling(t) /\ t # Nothing
  BY Here
<1>2. PICK p, d : p = call[t].pool /\ d = IF call[t].kind = "block" THEN call[t].desc ELSE Nothing
  OBVIOUS
<1>3. p \in Pool /\ mpc[t] = "unlock"
  BY <1>1, <1>2, KindOf DEF unlock_none, unlock_pages, At
<1>4. /\ pool_lock[p] = t /\ pool_lock' = [pool_lock EXCEPT ![p] = Nothing]
      /\ pool_lock'[p] = Nothing /\ \A q \in Pool : pool_lock'[q] # t
  <2>1. pool_lock[p] = t /\ pool_lock' = [pool_lock EXCEPT ![p] = Nothing]
    BY <1>1, <1>2, <1>3 DEF unlock_none, unlock_pages, Locks
  <2> QED BY <1>1, <1>2, <1>3, <2>1 DEF Locks, Shared
<1>5. /\ Entry(desc_lock, desc_lock', Desc, d)
      /\ d \in Desc => desc_lock[d] = t /\ desc_lock'[d] = Nothing
      /\ \A e \in Desc : desc_lock'[e] # t
  <2>1. CASE call[t].kind = "block"
    <3>1. d \in Desc /\ call[t] = Small(d)
      BY <1>1, <1>2, <2>1, KindOf
    <3>2. desc_lock' = [desc_lock EXCEPT ![d] = Nothing]
      BY <1>2, <2>1 DEF unlock_none, unlock_pages
    <3>3. \A e \in Desc : desc_lock[e] = t <=> e = d
      BY <1>1, <1>3, <3>1, SmallOnce DEF Locks
    <3> QED BY <1>1, <3>1, <3>2, <3>3, EntrySame DEF Shared
  <2>2. CASE call[t].kind # "block"
    <3>1. d \notin Desc
      BY <1>2, <2>2, MemoryAssumption
    <3>2. UNCHANGED desc_lock
      BY <2>2 DEF unlock_none, unlock_pages
    <3>3. \A e \in Desc : desc_lock[e] # t
      BY <1>1, <1>3, <2>2, KindOf DEF Locks
    <3> QED BY <1>1, <3>1, <3>2, <3>3, EntrySame DEF Shared
  <2> QED BY <2>1, <2>2
<1>6. /\ UNCHANGED <<free_list, block, left>> /\ Finish(t)
      /\ Entry(held, held', Thread, t) /\ held'[t] \subseteq Holding
      /\ arena' \in [Page -> Header]
  <2>1. CASE unlock_none(t)
    BY <1>1, <2>1, EntrySame DEF unlock_none, Local, Control, Shared
  <2>2. CASE unlock_pages(t)
    <3>1. page[t] \in Page /\ call[t].n \in Int
      BY <1>1, <2>2, KindOf DEF unlock_pages, Control
    <3>2. call[t].kind \in {"block", "big", "pages"}
      BY <1>1, <1>3, KindOf
    <3>3. <<call[t].kind, page[t], call[t].n>> \in Holding
      BY <3>1, <3>2 DEF Holding
    <3>4. arena' \in [Page -> Header]
      <4>1. CASE call[t].kind = "big"
        BY <1>1, <2>2, <3>1, <4>1, HeaderSet DEF unlock_pages, Shared
      <4>2. CASE call[t].kind # "big"
        BY <1>1, <2>2, <4>2 DEF unlock_pages, Shared
      <4> QED BY <4>1, <4>2
    <3>5. held' = [held EXCEPT ![t] = held[t] \cup {<<call[t].kind, page[t], call[t].n>>}]
      BY <2>2 DEF unlock_pages
    <3>6. held'[t] = held[t] \cup {<<call[t].kind, page[t], call[t].n>>} /\ Entry(held, held', Thread, t)
      BY <1>1, <3>5, EntrySame DEF Local
    <3>7. held'[t] \subseteq Holding
      BY <1>1, <3>3, <3>6 DEF Control
    <3> QED BY <2>2, <3>4, <3>6, <3>7 DEF unlock_pages
  <2> QED BY <2>1, <2>2
<1>7. Framed(t)
  BY <1>1, <1>6, EntrySame DEF Local, Framed, Move, Finish
<1>8. Frame(t)
  <2>1. Entry(pool_lock, pool_lock', Pool, p) /\ Entry(free_list, free_list', Desc, d)
    BY <1>1, <1>4, <1>6, EntrySame DEF Shared
  <2> QED BY <1>1, <1>4, <1>5, <1>7, <2>1, FrameFrom
<1>9. Shared'
  BY <1>1, <1>4, <1>5, <1>6 DEF Shared, Entry
<1> QED BY <1>4, <1>5, <1>6, <1>8, <1>9, FinishControl

\* What appending them makes of a free list.
LEMMA AppendArena ==
  ASSUME NEW d \in Desc, NEW a \in Page, NEW s \in Seq(Block)
  PROVE  s \o NewBlocks(d, a) \in Seq(Block) /\ s \o NewBlocks(d, a) # <<>>
<1>1. /\ NewBlocks(d, a) \in Seq(Block) /\ Len(NewBlocks(d, a)) = blocks_per_arena[d]
      /\ blocks_per_arena[d] \in Nat \ {0}
  BY NewBlocksSeq
<1>2. PICK w : w = NewBlocks(d, a)
  OBVIOUS
<1>3. w \in Seq(Block) /\ Len(w) # 0 /\ Len(<<>>) = 0
  BY <1>1, <1>2, SMT
<1>4. PICK v : v = s \o w
  OBVIOUS
<1>5. v \in Seq(Block) /\ Len(v) = Len(s) + Len(w) /\ Len(s) \in Nat /\ Len(w) \in Nat
  BY <1>3, <1>4, SMT
<1>6. Len(v) # 0
  BY <1>3, <1>5, SMT
<1>7. v # <<>>
  BY <1>3, <1>6
<1> QED BY <1>2, <1>4, <1>5, <1>7

\* The new arena is on the free list.
LEMMA ArenaControl ==
  ASSUME ControlInv, NEW t \in Thread, new_arena(t)
  PROVE  Frame(t) /\ ControlInv'
<1>1. Shared /\ Local /\ Control(t) /\ Locks(t) /\ Calling(t) /\ t # Nothing
  BY Here
<1>2. PICK d, a : d = call[t].desc /\ a = page[t]
  OBVIOUS
<1>3. d \in Desc /\ a \in Page /\ call[t] = Small(d) /\ mpc[t] = "arena"
  BY <1>1, <1>2, KindOf DEF new_arena, At, Control
<1>4. /\ UNCHANGED <<used, pool_lock, desc_lock, call, page, block, left, held>> /\ Move(t, "pop")
      /\ arena' = [arena EXCEPT ![a] = [desc |-> d, free_cnt |-> blocks_per_arena[d]]]
      /\ free_list' = [free_list EXCEPT ![d] = free_list[d] \o NewBlocks(d, a)]
  BY <1>2 DEF new_arena, NewBlocks
<1>5. mpc'[t] = "pop" /\ call'[t] = call[t] /\ page'[t] = a /\ held'[t] = held[t]
  BY <1>1, <1>2, <1>4 DEF Local, Move
<1>6. Framed(t)
  BY <1>1, <1>4, EntrySame DEF Local, Framed, Move
<1>7. desc_lock[d] = t
  BY <1>1, <1>3 DEF Locks
<1>8. Frame(t)
  <2>1. Entry(desc_lock, desc_lock', Desc, d) /\ Entry(free_list, free_list', Desc, d)
    BY <1>1, <1>4, EntrySame DEF Shared
  <2> QED BY <1>1, <1>4, <1>6, <1>7, <2>1, NoPool, FrameFrom
<1>9. free_list[d] \in Seq(Block)
  BY <1>1, <1>3 DEF Shared
<1>10. /\ free_list'[d] = free_list[d] \o NewBlocks(d, a) /\ free_list'[d] # <<>>
       /\ free_list' \in [Desc -> Seq(Block)]
  BY <1>1, <1>3, <1>4, <1>9, AppendArena DEF Shared
<1>11. arena' \in [Page -> Header]
  <2>1. blocks_per_arena[d] \in Int
    BY <1>3, NewBlocksSeq, SMT
  <2> QED BY <1>1, <1>3, <1>4, <2>1, HeaderSet DEF Shared
<1>12. Shared'
  BY <1>1, <1>4, <1>10, <1>11 DEF Shared
<1>13. Calling(t)'
  BY <1>2, <1>3, <1>5 DEF Calling
<1>14. Control(t)'
  BY <1>1, <1>2, <1>3, <1>5, <1>10, <1>13 DEF Control
<1>15. Locks(t)'
  BY <1>1, <1>3, <1>4, <1>5 DEF Locks
<1> QED BY <1>8, <1>12, <1>14, <1>15, FrameKeeps

\* malloc() returns a block.
LEMMA PopControl ==
  ASSUME ControlInv, NEW t \in Thread, malloc_pop(t)
  PROVE  Frame(t) /\ ControlInv'
<1>1. Shared /\ Local /\ Control(t) /\ Locks(t) /\ Calling(t) /\ t # Nothing
  BY Here
<1>2. PICK d : d = call[t].desc
  OBVIOUS
<1>3. d \in Desc /\ call[t] = Small(d) /\ mpc[t] = "pop" /\ free_list[d] # <<>>
  BY <1>1, <1>2, KindOf DEF malloc_pop, At, Control
<1>4. PICK b : b = Head(free_list[d])
  OBVIOUS
<1>5. /\ UNCHANGED <<used, pool_lock, block, left>> /\ Finish(t)
      /\ free_list' = [free_list EXCEPT ![d] = Tail(free_list[d])]
      /\ arena' = [arena EXCEPT ![b[1]].free_cnt = arena[b[1]].free_cnt - 1]
      /\ desc_lock' = [desc_lock EXCEPT ![d] = Nothing]
      /\ held' = [held EXCEPT ![t] = held[t] \cup {<<"block", b[1], b[2]>>}]
  BY <1>2, <1>4 DEF malloc_pop
<1>6. b \in Block /\ Tail(free_list[d]) \in Seq(Block)
  <2>1. free_list[d] \in Seq(Block)
    BY <1>1, <1>3 DEF Shared
  <2> QED BY <1>3, <1>4, <2>1, SMT
<1>7. b[1] \in Page /\ b[2] \in Int
  BY <1>6 DEF Block
<1>8. Framed(t)
  BY <1>1, <1>5, EntrySame DEF Local, Framed, Move, Finish
<1>9. desc_lock[d] = t /\ desc_lock'[d] = Nothing
  BY <1>1, <1>3, <1>5 DEF Locks, Shared
<1>10. Frame(t)
  <2>1. Entry(desc_lock, desc_lock', Desc, d) /\ Entry(free_list, free_list', Desc, d)
    BY <1>1, <1>5, EntrySame DEF Shared
  <2> QED BY <1>1, <1>5, <1>8, <1>9, <2>1, NoPool, FrameFrom
<1>11. arena' \in [Page -> Header]
  <2>1. arena[b[1]].free_cnt \in Int
    BY <1>1, <1>7, SMT DEF Shared, Header
  <2>2. arena[b[1]].free_cnt - 1 \in Int
    BY <2>1, SMT
  <2> QED BY <1>1, <1>5, <1>7, <2>2, HeaderCount DEF Shared
<1>12. Shared'
  BY <1>1, <1>5, <1>6, <1>11 DEF Shared
<1>13. held'[t] \subseteq Holding
  <2>1. <<"block", b[1], b[2]>> \in Holding
    BY <1>7 DEF Holding
  <2>2. held'[t] = held[t] \cup {<<"block", b[1], b[2]>>}
    BY <1>1, <1>5 DEF Local
  <2> QED BY <1>1, <2>1, <2>2 DEF Control
<1>14. \A e \in Desc : desc_lock'[e] # t
  <2>1. \A e \in Desc : call[t] = Small(e) <=> e = d
    BY <1>3, SmallOnce
  <2>2. \A e \in Desc : desc_lock[e] = t <=> e = d
    BY <1>1, <1>3, <2>1 DEF Locks
  <2> QED BY <1>1, <1>3, <1>5, <2>2 DEF Shared
<1>15. \A p \in Pool : pool_lock'[p] # t
  BY <1>1, <1>3, <1>5 DEF Locks
<1> QED BY <1>5, <1>10, <1>12, <1>13, <1>14, <1>15, FinishControl

\* free() and palloc_free_multiple() begin.
LEMMA FreeControl ==
  ASSUME ControlInv, NEW t \in Thread, NEW x \in held[t], free(t, x)
  PROVE  Frame(t) /\ ControlInv'
<1>1. Shared /\ Local /\ Control(t) /\ Locks(t) /\ Calling(t) /\ t # Nothing
  BY Here
<1>2. x \in Holding
  BY <1>1 DEF Control
<1>3. x[2] \in Page /\ x[3] \in Int
  BY <1>2 DEF Holding
<1>4. PICK a, c : /\ a = x[2]
                  /\ c = IF x[1] = "pages" THEN Pages(page_from_pool(a), x[3])
                         ELSE IF arena[a].desc = Nothing THEN Big(arena[a].free_cnt)
                              ELSE Small(arena[a].desc)
  OBVIOUS
<1>5. arena[a].desc \in Desc \cup {Nothing} /\ arena[a].free_cnt \in Int
  BY <1>1, <1>3, <1>4, SMT DEF Shared, Header
<1>6. /\ mpc[t] = "idle" /\ UNCHANGED <<used, pool_lock, arena, free_list, desc_lock, page>>
      /\ held' = [held EXCEPT ![t] = held[t] \ {x}]
      /\ call' = [call EXCEPT ![t] = c]
      /\ block' = [block EXCEPT ![t] = IF c.kind = "block" THEN <<a, x[3]>> ELSE Nothing]
      /\ mpc' = [mpc EXCEPT ![t] = IF c.kind = "block" THEN "put" ELSE "clear"]
      /\ left' = [left EXCEPT ![t] = IF c.kind = "block" THEN {} ELSE PageGroup(a, c.n)]
  BY <1>4 DEF free, Move, At
<1>7. \/ c.kind = "block" /\ c.desc \in Desc /\ c = Small(c.desc)
      \/ c.kind = "big" /\ c.n \in Int /\ c = Big(c.n)
      \/ c.kind = "pages" /\ c.n \in Int /\ c.pool \in Pool /\ c = Pages(c.pool, c.n)
  <2>1. page_from_pool(a) \in Pool
    BY DEF page_from_pool, Pool
  <2>2. CASE x[1] = "pages"
    <3>1. PICK p \in Pool, n \in Int : c = Pages(p, n)
      BY <1>3, <1>4, <2>1, <2>2
    <3>2. c.kind = "pages" /\ c.pool = p /\ c.n = n
      BY <3>1, Requests, SMT
    <3> QED BY <3>1, <3>2
  <2>3. CASE x[1] # "pages" /\ arena[a].desc = Nothing
    BY <1>4, <1>5, <2>3, Requests
  <2>4. CASE x[1] # "pages" /\ arena[a].desc # Nothing
    BY <1>4, <1>5, <2>4, Requests
  <2> QED BY <2>2, <2>3, <2>4
<1>8. PICK l \in {"put", "clear"} : l = IF c.kind = "block" THEN "put" ELSE "clear"
  OBVIOUS
<1>9. mpc'[t] = l /\ call'[t] = c /\ page'[t] = Nothing /\ held'[t] \subseteq Holding
  BY <1>1, <1>6, <1>8 DEF Local, Control
<1>10. l = "put" => block'[t] \in Block
  <2>1. l = "put" => c.kind = "block"
    BY <1>8
  <2>2. l = "put" => block'[t] = <<a, x[3]>>
    BY <1>1, <1>6, <2>1 DEF Local
  <2>3. <<a, x[3]>> \in Block
    BY <1>3, <1>4 DEF Block
  <2> QED BY <2>2, <2>3
<1>11. Framed(t)
  BY <1>1, <1>6, EntrySame DEF Local, Framed
<1>12. Frame(t)
  BY <1>1, <1>6, <1>11, NoDesc, NoPool, FrameFrom
<1>13. Shared'
  BY <1>1, <1>6 DEF Shared
<1>14. Calling(t)'
  <2>1. CASE c.kind = "block"
    BY <1>7, <1>8, <1>9, <2>1, Requests DEF Calling
  <2>2. CASE c.kind # "block"
    BY <1>7, <1>8, <1>9, <2>2, Requests DEF Calling, Getting
  <2> QED BY <2>1, <2>2
<1>15. Control(t)'
  BY <1>8, <1>9, <1>10, <1>14 DEF Control
<1>16. Locks(t)'
  <2>1. \A d \in Desc : desc_lock'[d] # t
    BY <1>1, <1>6 DEF Locks
  <2>2. \A p \in Pool : pool_lock'[p] # t
    BY <1>1, <1>6 DEF Locks
  <2>3. ASSUME NEW d \in Desc, call'[t] = Small(d) PROVE mpc'[t] = "put"
    BY <1>8, <1>9, <2>3, Requests, SMT
  <2>4. mpc'[t] \notin {"scan", "flip", "unlock"}
    BY <1>8, <1>9
  <2> QED BY <2>1, <2>2, <2>3, <2>4 DEF Locks
<1> QED BY <1>12, <1>13, <1>15, <1>16, FrameKeeps

\* Facts common to the two ways a block is put back.
LEMMA PutFacts ==
  ASSUME ControlInv, NEW t \in Thread, NEW d, NEW b, put_keep(t, d, b) \/ put_drop(t, d, b)
  PROVE  /\ d \in Desc /\ call[t] = Small(d) /\ mpc[t] = "put" /\ b = block[t]
         /\ b \in Block /\ b[1] \in Page /\ b[2] \in Int /\ b = <<b[1], b[2]>>
         /\ arena[b[1]].free_cnt \in Int
         /\ arena' = [arena EXCEPT ![b[1]].free_cnt = arena[b[1]].free_cnt + 1]
         /\ arena' \in [Page -> Header]
         /\ free_list[d] \in Seq(Block) /\ <<b>> \o free_list[d] \in Seq(Block)
         /\ desc_lock[d] = Nothing
<1>1. Shared /\ Local /\ Control(t) /\ Locks(t) /\ Calling(t) /\ t # Nothing
  BY Here
<1>2. /\ mpc[t] = "put" /\ d = call[t].desc /\ b = block[t] /\ desc_lock[d] = Nothing
      /\ arena' = [arena EXCEPT ![b[1]].free_cnt = arena[b[1]].free_cnt + 1]
  BY DEF put_keep, put_drop, At
<1>3. d \in Desc /\ call[t] = Small(d)
  BY <1>1, <1>2, KindOf
<1>4. b \in Block
  BY <1>1, <1>2 DEF Control
<1>5. b[1] \in Page /\ b[2] \in Int /\ b = <<b[1], b[2]>>
  BY <1>4, SMT DEF Block
<1>6. arena[b[1]].free_cnt \in Int
  BY <1>1, <1>5, SMT DEF Shared, Header
<1>7. arena[b[1]].free_cnt + 1 \in Int
  BY <1>6, SMT
<1>8. arena' \in [Page -> Header]
  BY <1>1, <1>2, <1>5, <1>7, HeaderCount DEF Shared
<1>9. free_list[d] \in Seq(Block)
  BY <1>1, <1>3 DEF Shared
<1>10. <<b>> \in Seq(Block)
  BY <1>4, SMT
<1>11. <<b>> \o free_list[d] \in Seq(Block)
  BY <1>9, <1>10, SMT
<1> QED BY <1>2, <1>3, <1>4, <1>5, <1>6, <1>8, <1>9, <1>11

\* free() of a block whose arena stays.
LEMMA KeepControl ==
  ASSUME ControlInv, NEW t \in Thread, NEW d, NEW b, put_keep(t, d, b)
  PROVE  Frame(t) /\ ControlInv'
<1>1. Shared /\ Local /\ Control(t) /\ Locks(t) /\ Calling(t) /\ t # Nothing
  BY Here
<1>2. /\ d \in Desc /\ mpc[t] = "put" /\ desc_lock[d] = Nothing
      /\ arena' \in [Page -> Header] /\ <<b>> \o free_list[d] \in Seq(Block)
  BY PutFacts
<1>3. /\ UNCHANGED <<used, pool_lock, desc_lock, left, held>> /\ Finish(t)
      /\ free_list' = [free_list EXCEPT ![d] = <<b>> \o free_list[d]]
      /\ block' = [block EXCEPT ![t] = Nothing]
  BY DEF put_keep
<1>4. Framed(t)
  BY <1>1, <1>3, EntrySame DEF Local, Framed, Move, Finish
<1>5. Frame(t)
  <2>1. Entry(desc_lock, desc_lock', Desc, d) /\ Entry(free_list, free_list', Desc, d)
    BY <1>1, <1>3, EntrySame DEF Shared
  <2>2. desc_lock'[d] = Nothing
    BY <1>2, <1>3
  <2> QED BY <1>1, <1>2, <1>3, <1>4, <2>1, <2>2, NoPool, FrameFrom
<1>6. Shared'
  BY <1>1, <1>2, <1>3 DEF Shared
<1>7. held'[t] \subseteq Holding
  BY <1>1, <1>3 DEF Control
<1>8. (\A e \in Desc : desc_lock'[e] # t) /\ \A p \in Pool : pool_lock'[p] # t
  BY <1>1, <1>2, <1>3 DEF Locks
<1> QED BY <1>3, <1>5, <1>6, <1>7, <1>8, FinishControl

\* free() of the last block of an arena in use.
LEMMA DropControl ==
  ASSUME FiniteFacts, ControlInv, NEW t \in Thread, NEW d, NEW b, put_drop(t, d, b)
  PROVE  Frame(t) /\ ControlInv'
<1>1. Shared /\ Local /\ Control(t) /\ Locks(t) /\ Calling(t) /\ t # Nothing
  BY Here
<1>2. /\ d \in Desc /\ mpc[t] = "put" /\ call[t] = Small(d) /\ desc_lock[d] = Nothing
      /\ arena' \in [Page -> Header] /\ <<b>> \o free_list[d] \in Seq(Block)
  BY PutFacts
<1>3. /\ UNCHANGED <<used, pool_lock, call, page, held>> /\ Move(t, "clear")
      /\ free_list' = [free_list EXCEPT ![d] = Without(<<b>> \o free_list[d], ArenaBlocks(d, b[1]))]
      /\ desc_lock' = [desc_lock EXCEPT ![d] = t]
      /\ left' = [left EXCEPT ![t] = {b[1]}]
      /\ block' = [block EXCEPT ![t] = Nothing]
  BY DEF put_drop
<1>4. Framed(t)
  BY <1>1, <1>3, EntrySame DEF Local, Framed, Move
<1>5. desc_lock'[d] = t
  BY <1>1, <1>2, <1>3 DEF Shared
<1>6. Frame(t)
  <2>1. Entry(desc_lock, desc_lock', Desc, d) /\ Entry(free_list, free_list', Desc, d)
    BY <1>1, <1>3, EntrySame DEF Shared
  <2> QED BY <1>1, <1>2, <1>3, <1>4, <1>5, <2>1, NoPool, FrameFrom
<1>7. Shared'
  <2>1. Without(<<b>> \o free_list[d], ArenaBlocks(d, b[1])) \in Seq(Block)
    BY <1>2, WithoutKeeps
  <2> QED BY <1>1, <1>2, <1>3, <2>1 DEF Shared
<1>8. mpc'[t] = "clear" /\ call'[t] = call[t] /\ page'[t] = Nothing /\ held'[t] = held[t]
  BY <1>1, <1>2, <1>3 DEF Local, Move, Control
<1>9. Calling(t)'
  <2>1. call[t].desc = d
    BY <1>2, Requests
  <2> QED BY <1>2, <1>8, <2>1 DEF Calling, Getting
<1>10. Control(t)'
  BY <1>1, <1>8, <1>9 DEF Control
<1>11. Locks(t)'
  <2>1. \A e \in Desc : desc_lock'[e] = t <=> e = d
    BY <1>1, <1>2, <1>3 DEF Locks, Shared
  <2>2. \A e \in Desc : call'[t] = Small(e) <=> e = d
    BY <1>2, <1>8, SmallOnce
  <2>3. \A p \in Pool : pool_lock'[p] # t
    BY <1>1, <1>2, <1>3 DEF Locks
  <2> QED BY <1>8, <2>1, <2>2, <2>3 DEF Locks
<1> QED BY <1>6, <1>7, <1>10, <1>11, FrameKeeps

\* One bit of a group is cleared.
LEMMA ClearControl ==
  ASSUME ControlInv, NEW t \in Thread, NEW i, clear_one(t, i)
  PROVE  Frame(t) /\ ControlInv'
<1>1. Shared /\ Local /\ Control(t) /\ Locks(t) /\ Calling(t) /\ t # Nothing
  BY Here
<1>2. /\ mpc[t] = "clear" /\ left' = [left EXCEPT ![t] = left[t] \ {i}]
      /\ arena' = [j \in Page |-> IF j \in left[t] THEN NoArena ELSE arena[j]]
      /\ UNCHANGED <<pool_lock, free_list, desc_lock, mpc, call, page, block, held>>
  BY DEF clear_one, At
<1>3. Framed(t)
  BY <1>1, <1>2, EntrySame DEF Local, Framed
<1>4. Frame(t)
  BY <1>1, <1>2, <1>3, NoDesc, NoPool, FrameFrom
<1>5. Shared'
  <2>1. NoArena \in Header
    BY SMT DEF NoArena, Header
  <2>2. arena' \in [Page -> Header]
    BY <1>1, <1>2, <2>1 DEF Shared
  <2> QED BY <1>1, <1>2, <2>2 DEF Shared
<1>6. Calling(t)'
  BY <1>1, <1>2 DEF Calling
<1>7. Control(t)'
  BY <1>1, <1>2, <1>6 DEF Control
<1>8. Locks(t)'
  BY <1>1, <1>2 DEF Locks
<1> QED BY <1>4, <1>5, <1>7, <1>8, FrameKeeps

\* The return from free() and palloc_free_multiple().
LEMMA ReturnControl ==
  ASSUME ControlInv, NEW t \in Thread, free_return(t)
  PROVE  Frame(t) /\ ControlInv'
<1>1. Shared /\ Local /\ Control(t) /\ Locks(t) /\ Calling(t) /\ t # Nothing
  BY Here
<1>2. PICK d : d = IF call[t].kind = "block" THEN call[t].desc ELSE Nothing
  OBVIOUS
<1>3. /\ mpc[t] = "clear" /\ Finish(t)
      /\ UNCHANGED <<used, pool_lock, arena, free_list, block, left, held>>
  BY DEF free_return, At
<1>4. /\ Entry(desc_lock, desc_lock', Desc, d)
      /\ d \in Desc => desc_lock[d] = t /\ desc_lock'[d] = Nothing
      /\ \A e \in Desc : desc_lock'[e] # t
  <2>1. CASE call[t].kind = "block"
    <3>1. d \in Desc /\ call[t] = Small(d)
      BY <1>1, <1>2, <2>1, KindOf
    <3>2. desc_lock' = [desc_lock EXCEPT ![d] = Nothing]
      BY <1>2, <2>1 DEF free_return
    <3>3. \A e \in Desc : call[t] = Small(e) <=> e = d
      BY <3>1, SmallOnce
    <3>4. \A e \in Desc : desc_lock[e] = t <=> e = d
      BY <1>1, <1>3, <3>3 DEF Locks
    <3> QED BY <1>1, <3>1, <3>2, <3>4, EntrySame DEF Shared
  <2>2. CASE call[t].kind # "block"
    <3>1. d \notin Desc
      BY <1>2, <2>2, MemoryAssumption
    <3>2. UNCHANGED desc_lock
      BY <2>2 DEF free_return
    <3>3. \A e \in Desc : desc_lock[e] # t
      BY <1>1, <1>3, <2>2, KindOf DEF Locks
    <3> QED BY <1>1, <3>1, <3>2, <3>3, EntrySame DEF Shared
  <2> QED BY <2>1, <2>2
<1>5. Framed(t)
  BY <1>1, <1>3, EntrySame DEF Local, Framed, Move, Finish
<1>6. Frame(t)
  <2>1. Entry(free_list, free_list', Desc, d)
    BY <1>1, <1>3, EntrySame DEF Shared
  <2> QED BY <1>1, <1>3, <1>4, <1>5, <2>1, NoPool, FrameFrom
<1>7. Shared'
  BY <1>1, <1>3, <1>4 DEF Shared, Entry
<1>8. held'[t] \subseteq Holding
  BY <1>1, <1>3 DEF Control
<1>9. \A p \in Pool : pool_lock'[p] # t
  BY <1>1, <1>3 DEF Locks
<1> QED BY <1>3, <1>4, <1>6, <1>7, <1>8, <1>9, FinishControl

\* The steps of a thread, with the handlers that branch split into their cases.
Steps(t) ==
  \/ malloc_lock(t) \/ get_lock(t) \/ scan_none(t) \/ (\E i : scan_found(t, i)) \/ get_flip(t)
  \/ unlock_arena(t) \/ unlock_none(t) \/ unlock_pages(t) \/ new_arena(t) \/ malloc_pop(t)
  \/ (\E d, b : put_keep(t, d, b) \/ put_drop(t, d, b)) \/ (\E i : clear_one(t, i)) \/ free_return(t)
  \/ (\E d \in Desc : malloc(t, d)) \/ (\E n \in BigCounts : malloc_big(t, n))
  \/ (\E n \in PageCounts, p \in Pool : palloc_get_multiple(t, p, n))
  \/ (\E x \in held[t] : free(t, x))

\* Every step of the system is a step of some thread.
LEMMA NextSteps ==
  ASSUME MemNext
  PROVE  \E t \in Thread : Steps(t)
<1>1. PICK t \in Thread :
        \/ step(t)
        \/ \E d \in Desc : malloc(t, d)
        \/ \E n \in BigCounts : malloc_big(t, n)
        \/ \E n \in PageCounts, p \in Pool : palloc_get_multiple(t, p, n)
        \/ \E x \in held[t] : free(t, x)
  BY DEF MemNext
<1>2. CASE step(t)
  <2>1. /\ get_scan(t) => scan_none(t) \/ \E i : scan_found(t, i)
        /\ get_unlock(t) => unlock_arena(t) \/ unlock_none(t) \/ unlock_pages(t)
        /\ free_put(t) => \E d, b : put_keep(t, d, b) \/ put_drop(t, d, b)
        /\ free_clear(t) => \E i : clear_one(t, i)
    BY ScanCases, UnlockCases, PutCases, ClearCases
  <2>2. \/ malloc_lock(t) \/ get_lock(t) \/ get_scan(t) \/ get_flip(t) \/ get_unlock(t)
        \/ new_arena(t) \/ malloc_pop(t) \/ free_put(t) \/ free_clear(t) \/ free_return(t)
    BY <1>2 DEF step
  <2>3. Steps(t)
    BY <2>1, <2>2 DEF Steps
  <2> QED BY <2>3
<1>3. CASE \/ \E d \in Desc : malloc(t, d)
           \/ \E n \in BigCounts : malloc_big(t, n)
           \/ \E n \in PageCounts, p \in Pool : palloc_get_multiple(t, p, n)
           \/ \E x \in held[t] : free(t, x)
  <2>1. Steps(t)
    BY <1>3 DEF Steps
  <2> QED BY <2>1
<1> QED BY <1>1, <1>2, <1>3

\* Every step of a thread keeps the control invariant and leaves alone what
\* another thread holds.
LEMMA StepControl ==
  ASSUME FiniteFacts, ControlInv, NEW t \in Thread, Steps(t)
  PROVE  Frame(t) /\ ControlInv'
<1>1. Local /\ Control(t)
  BY Here
<1>2. ASSUME NEW i, scan_found(t, i) PROVE Frame(t) /\ ControlInv'
  <2>1. i \in Page
    BY <1>2, RangePage DEF scan_found, Free
  <2>2. page' = [page EXCEPT ![t] = i] /\ page'[t] = i
    BY <1>1, <1>2 DEF scan_found, Local
  <2> QED BY <1>2, <2>1, <2>2, SearchControl DEF scan_found, At
<1>3. ASSUME scan_none(t) \/ get_flip(t) PROVE Frame(t) /\ ControlInv'
  <2>1. mpc[t] \in {"scan", "flip"} /\ UNCHANGED page
    BY <1>3 DEF scan_none, get_flip, At
  <2> QED BY <1>3, <2>1, SearchControl DEF scan_none, get_flip
<1>4. ASSUME NEW d \in Desc, malloc(t, d) PROVE Frame(t) /\ ControlInv'
  <2>1. PICK c : c = Small(d)
    OBVIOUS
  <2>2. c.desc \in Desc /\ c = Small(c.desc)
    BY <2>1, Requests
  <2> QED BY <1>4, <2>1, <2>2, BeginControl DEF malloc
<1>5. ASSUME NEW n \in BigCounts, malloc_big(t, n) PROVE Frame(t) /\ ControlInv'
  <2>1. PICK c : c = Big(n)
    OBVIOUS
  <2>2. n \in Int
    BY MemoryAssumption, SMT
  <2>3. c.n \in Int /\ c = Big(c.n)
    BY <2>1, <2>2, Requests
  <2> QED BY <1>5, <2>1, <2>3, BeginControl DEF malloc_big
<1>6. ASSUME NEW n \in PageCounts, NEW p \in Pool, palloc_get_multiple(t, p, n)
      PROVE  Frame(t) /\ ControlInv'
  <2>1. PICK c : c = Pages(p, n)
    OBVIOUS
  <2>2. n \in Int
    BY MemoryAssumption, SMT
  <2>3. c.n \in Int /\ c.pool \in Pool /\ c = Pages(c.pool, c.n)
    BY <2>1, <2>2, Requests, SMT
  <2> QED BY <1>6, <2>1, <2>3, BeginControl DEF palloc_get_multiple
<1> QED BY <1>2, <1>3, <1>4, <1>5, <1>6, LockControl, PoolControl, ArenaPageControl, UnlockControl,
           ArenaControl, PopControl, FreeControl, KeepControl, DropControl, ClearControl,
           ReturnControl DEF Steps

\* Nobody is in a call at first.
LEMMA ControlInvInit ==
  ASSUME MemInit
  PROVE  ControlInv
<1>1. NoArena \in Header
  BY SMT DEF NoArena, Header
<1>2. Shared
  <2>1. <<>> \in Seq(Block)
    BY SMT
  <2> QED BY <1>1, <2>1 DEF Shared, MemInit
<1>3. Local
  BY DEF Local, MemInit
<1>4. ASSUME NEW t \in Thread PROVE Control(t) /\ Locks(t)
  <2>1. /\ mpc[t] = "idle" /\ call[t] = NoRequest /\ page[t] = Nothing /\ held[t] = {}
    BY DEF MemInit
  <2>2. Calling(t)
    BY <2>1 DEF Calling
  <2>3. Control(t)
    BY <2>1, <2>2 DEF Control
  <2>4. (\A d \in Desc : desc_lock[d] # t) /\ (\A p \in Pool : pool_lock[p] # t)
    BY MemoryAssumption DEF MemInit
  <2>5. Locks(t)
    BY <2>1, <2>4 DEF Locks
  <2> QED BY <2>3, <2>5
<1> QED BY <1>2, <1>3, <1>4 DEF ControlInv, LockOrder, Locks

\* Every step keeps the locks right and the threads where they can be.
LEMMA ControlInvStep ==
  ASSUME FiniteFacts, ControlInv, [MemNext]_memvars
  PROVE  ControlInv'
<1>1. CASE MemNext
  BY <1>1, NextSteps, StepControl
<1>2. CASE UNCHANGED memvars
  <2>1. Shared' /\ Local'
    BY <1>2 DEF memvars, ControlInv, Shared, Local
  <2>2. ASSUME NEW t \in Thread PROVE Calling(t)' /\ Control(t)'
    <3>1. Calling(t) /\ Control(t)
      BY Here
    <3> QED BY <1>2, <3>1 DEF memvars, Control, Calling
  <2>3. ASSUME NEW t \in Thread PROVE Locks(t)'
    <3>1. Locks(t)
      BY Here
    <3>2. desc_lock' = desc_lock /\ pool_lock' = pool_lock /\ call' = call /\ mpc' = mpc
      BY <1>2 DEF memvars
    <3> QED BY <3>1, <3>2 DEF Locks
  <2> QED BY <2>1, <2>2, <2>3 DEF ControlInv, LockOrder, Locks
<1> QED BY <1>1, <1>2

-----------------------------------------------------------------------------
(* Pages.                                                                  *)

\* The pages of malloc(), and those of a thread, one by one.
LEMMA ArenaPagesAre ==
  /\ \A i : i \in ArenaPages <=>
       i \in Page /\ arena[i].desc \in Desc /\ \A t \in Thread : i \notin left[t]
  /\ \A i : i \in ArenaPages' <=>
       i \in Page /\ arena'[i].desc \in Desc /\ \A t \in Thread : i \notin left'[t]
  /\ \A d \in Desc : \A i : i \in Arenas(d) <=> i \in ArenaPages /\ arena[i].desc = d
  /\ \A d \in Desc : \A i : i \in Arenas(d)' <=> i \in ArenaPages' /\ arena'[i].desc = d
<1>1. \A i : i \in ArenaPages <=>
        i \in Page /\ arena[i].desc \in Desc /\ \A t \in Thread : i \notin left[t]
  <2>1. \A d, i : i \in Arenas(d) <=>
          i \in Page /\ arena[i].desc = d /\ \A t \in Thread : i \notin left[t]
    BY DEF Arenas
  <2>2. \A i : i \in ArenaPages <=> \E d \in Desc : i \in Arenas(d)
    BY DEF ArenaPages
  <2>3. \A i : (\E d \in Desc : i \in Arenas(d)) <=> arena[i].desc \in Desc /\ i \in Arenas(arena[i].desc)
    BY <2>1
  <2> QED BY <2>1, <2>2, <2>3
<1>2. \A i : i \in ArenaPages' <=>
        i \in Page /\ arena'[i].desc \in Desc /\ \A t \in Thread : i \notin left'[t]
  <2>1. \A d, i : i \in Arenas(d)' <=>
          i \in Page /\ arena'[i].desc = d /\ \A t \in Thread : i \notin left'[t]
    BY DEF Arenas
  <2>2. \A i : i \in ArenaPages' <=> \E d \in Desc : i \in Arenas(d)'
    BY DEF ArenaPages
  <2>3. ASSUME NEW i, i \in Page, arena'[i].desc \in Desc, \A t \in Thread : i \notin left'[t]
        PROVE  i \in ArenaPages'
    <3>1. PICK d \in Desc : d = arena'[i].desc
      BY <2>3
    <3>2. i \in Arenas(d)'
      BY <2>1, <2>3, <3>1
    <3> QED BY <2>2, <3>2
  <2>4. ASSUME NEW i, i \in ArenaPages'
        PROVE  i \in Page /\ arena'[i].desc \in Desc /\ \A t \in Thread : i \notin left'[t]
    <3>1. PICK d \in Desc : i \in Arenas(d)'
      BY <2>2, <2>4
    <3> QED BY <2>1, <3>1
  <2> QED BY <2>3, <2>4
<1>3. \A d \in Desc : \A i : i \in Arenas(d) <=> i \in ArenaPages /\ arena[i].desc = d
  BY <1>1 DEF Arenas
<1>4. \A d \in Desc : \A i : i \in Arenas(d)' <=> i \in ArenaPages' /\ arena'[i].desc = d
  BY <1>2 DEF Arenas
<1> QED BY <1>1, <1>2, <1>3, <1>4

\* The pages of a thread, before and after a step.
LEMMA OwnPagesAre ==
  ASSUME NEW t
  PROVE  /\ OwnPages(t) = HeldPages(t) \cup left[t] \cup NewPages(t)
         /\ OwnPages(t)' = HeldPages(t)' \cup left'[t] \cup NewPages(t)'
<1>1. OwnPages(t) = HeldPages(t) \cup left[t] \cup NewPages(t)
  BY DEF OwnPages
<1>2. OwnPages(t)' = HeldPages(t)' \cup left'[t] \cup NewPages(t)'
  BY DEF OwnPages
<1> QED BY <1>1, <1>2

\* A thread that does nothing owns what it owned.
LEMMA OwnFrame ==
  ASSUME NEW t \in Thread, Frame(t), NEW u \in Thread, u # t
  PROVE  OwnPages(u)' = OwnPages(u) /\ Groups(u)' = Groups(u) /\ HeldPages(u)' = HeldPages(u)
         /\ NewPages(u)' = NewPages(u)
<1>1. mpc'[u] = mpc[u] /\ call'[u] = call[u] /\ page'[u] = page[u] /\ left'[u] = left[u] /\ held'[u] = held[u]
  BY DEF Frame
<1>2. Groups(u)' = Groups(u)
  BY <1>1 DEF Groups
<1>3. HeldPages(u)' = HeldPages(u)
  BY <1>2 DEF HeldPages
<1>4. NewPages(u)' = NewPages(u)
  BY <1>1 DEF NewPages
<1> QED BY <1>1, <1>2, <1>3, <1>4, OwnPagesAre

\* A group that is not empty contains its first page.
LEMMA GroupFirst ==
  ASSUME NEW a \in Page, NEW n \in Nat \ {0}
  PROVE  a \in PageGroup(a, n)
BY MemoryAssumption, SMT DEF PageGroup, Page

\* A page moves between free, a thread and malloc().
LEMMA PagesMove ==
  ASSUME OnePageOwner, NEW t \in Thread, Frame(t), NEW G,
         \/ /\ OwnPages(t)' = OwnPages(t) /\ ArenaPages' = ArenaPages /\ used' = used
         \/ /\ OwnPages(t)' = OwnPages(t) \cup G /\ ArenaPages' = ArenaPages
            /\ used' = used \cup G /\ G \cap used = {}
         \/ /\ OwnPages(t)' = OwnPages(t) \ G /\ ArenaPages' = ArenaPages \cup G
            /\ used' = used /\ G \subseteq OwnPages(t)
         \/ /\ OwnPages(t)' = OwnPages(t) \cup G /\ ArenaPages' = ArenaPages \ G
            /\ used' = used /\ G \subseteq ArenaPages
         \/ /\ OwnPages(t)' = OwnPages(t) \ G /\ ArenaPages' = ArenaPages
            /\ used' = used \ G /\ G \subseteq OwnPages(t)
  PROVE  OnePageOwner'
<1>1. \A u \in Thread : u # t => OwnPages(u)' = OwnPages(u)
  BY OwnFrame
<1>2. /\ \A u \in Thread : u # t => OwnPages(u) \cap OwnPages(t) = {}
      /\ \A u \in Thread : OwnPages(u) \cap ArenaPages = {} /\ OwnPages(u) \subseteq used
      /\ ArenaPages \subseteq used
      /\ \A i \in used : i \in ArenaPages \/ \E u \in Thread : i \in OwnPages(u)
  BY DEF OnePageOwner
<1>3. \A u \in Thread : u # t => OwnPages(u) \cap OwnPages(t)' = {}
  BY <1>2
<1>4. \A u \in Thread : OwnPages(u)' \cap ArenaPages' = {}
  <2>1. \A u \in Thread : u # t => OwnPages(u) \cap ArenaPages' = {}
    BY <1>2
  <2>2. OwnPages(t)' \cap ArenaPages' = {}
    BY <1>2
  <2> QED BY <1>1, <2>1, <2>2
<1>5. \A i : i \in used' <=> i \in ArenaPages' \/ \E u \in Thread : i \in OwnPages(u)'
  <2>1. \A i : (\E u \in Thread : i \in OwnPages(u)') <=>
               i \in OwnPages(t)' \/ \E u \in Thread : u # t /\ i \in OwnPages(u)
    BY <1>1
  <2>2. \A i : i \in used <=> \/ i \in ArenaPages \/ i \in OwnPages(t)
                              \/ \E u \in Thread : u # t /\ i \in OwnPages(u)
    BY <1>2
  <2>3. \A i : (\E u \in Thread : u # t /\ i \in OwnPages(u)) => i \in used /\ i \notin OwnPages(t)
    BY <1>2
  <2> QED BY <1>2, <2>1, <2>2, <2>3
<1>6. \A u, v \in Thread : u # v => OwnPages(u)' \cap OwnPages(v)' = {}
  <2>1. ASSUME NEW u \in Thread, NEW v \in Thread, u # v PROVE OwnPages(u)' \cap OwnPages(v)' = {}
    <3>1. CASE u = t
      BY <1>1, <1>3, <2>1, <3>1
    <3>2. CASE v = t
      BY <1>1, <1>3, <2>1, <3>2
    <3>3. CASE u # t /\ v # t
      BY <1>1, <2>1, <3>3 DEF OnePageOwner
    <3> QED BY <3>1, <3>2, <3>3
  <2> QED BY <2>1
<1>7. used' = ArenaPages' \cup UNION {OwnPages(u)' : u \in Thread}
  BY <1>5
<1> QED BY <1>4, <1>6, <1>7 DEF OnePageOwner

\* The pages of a group belong to the thread that was given it.
LEMMA GroupOwned ==
  ASSUME MemoryInv, NEW u \in Thread, NEW x \in Groups(u)
  PROVE  /\ x \in Holding /\ x[1] # "block" /\ x[2] \in Page /\ x[3] \in Nat \ {0}
         /\ x[2] \in Group(x) /\ Group(x) \subseteq HeldPages(u) /\ Group(x) \subseteq OwnPages(u)
         /\ x[2] \in OwnPages(u) /\ x[2] \notin ArenaPages
<1>1. PagesOf(u) /\ OnePageOwner /\ Control(u)
  BY DEF MemoryInv, PageInv, ControlInv
<1>2. x \in Holding /\ x[1] # "block" /\ x[3] \in Nat \ {0}
  BY <1>1 DEF Control, Groups, PagesOf
<1>3. x[2] \in Page
  BY <1>2 DEF Holding
<1>4. x[2] \in Group(x)
  BY <1>2, <1>3, GroupFirst DEF Group
<1>5. Group(x) \in {Group(y) : y \in Groups(u)}
  OBVIOUS
<1>6. Group(x) \subseteq HeldPages(u)
  BY <1>5 DEF HeldPages
<1>7. Group(x) \subseteq OwnPages(u)
  BY <1>6, OwnPagesAre
<1> QED BY <1>1, <1>2, <1>3, <1>4, <1>6, <1>7 DEF OnePageOwner

\* What a thread that does nothing knows of its pages stays true.
LEMMA PagesFrame ==
  ASSUME MemoryInv, NEW t \in Thread, Frame(t), NEW u \in Thread, u # t,
         \A i \in Page : i \notin ArenaPages \cup OwnPages(t) => arena'[i] = arena[i],
         mpc[u] = "flip" => (used' \ used) \cap Range0(call[u].pool) = {}
  PROVE  PagesOf(u)'
<1>1. /\ mpc'[u] = mpc[u] /\ call'[u] = call[u] /\ page'[u] = page[u] /\ left'[u] = left[u]
      /\ Groups(u)' = Groups(u) /\ HeldPages(u)' = HeldPages(u) /\ NewPages(u)' = NewPages(u)
  BY OwnFrame DEF Frame
<1>2. PagesOf(u) /\ OnePageOwner /\ Control(u)
  BY DEF MemoryInv, PageInv, ControlInv
<1>3. ASSUME NEW x \in Groups(u) PROVE arena'[x[2]] = arena[x[2]]
  <2>1. x[2] \in Page /\ x[2] \in OwnPages(u) /\ x[2] \notin ArenaPages
    BY GroupOwned
  <2>2. x[2] \notin OwnPages(t)
    BY <1>2, <2>1 DEF OnePageOwner
  <2> QED BY <2>1, <2>2
<1>4. ASSUME mpc[u] = "flip"
      PROVE  PageGroup(page[u], call[u].n) \subseteq Range0(call[u].pool) \ used'
  BY <1>2, <1>4 DEF PagesOf
<1>5. /\ \A x, y \in Groups(u)' : x # y => Group(x) \cap Group(y) = {}
      /\ HeldPages(u)' \cap left'[u] = {} /\ HeldPages(u)' \cap NewPages(u)' = {}
      /\ mpc'[u] # "clear" => left'[u] = {}
  BY <1>1, <1>2 DEF PagesOf
<1>6. mpc'[u] = "flip" => PageGroup(page'[u], call'[u].n) \subseteq Range0(call'[u].pool) \ used'
  BY <1>1, <1>4
<1>7. /\ mpc'[u] \in {"get", "scan", "flip", "unlock"} => call'[u].n \in Nat \ {0}
      /\ \A x \in Groups(u)' : x[3] \in Nat \ {0}
  BY <1>1, <1>2 DEF PagesOf
<1>8. \A x \in Groups(u)' : x[1] = "big" =>
        arena'[x[2]].desc = Nothing /\ arena'[x[2]].free_cnt = x[3]
  <2>1. ASSUME NEW x \in Groups(u), x[1] = "big"
        PROVE  arena'[x[2]].desc = Nothing /\ arena'[x[2]].free_cnt = x[3]
    <3>1. arena[x[2]].desc = Nothing /\ arena[x[2]].free_cnt = x[3]
      BY <1>2, <2>1 DEF PagesOf
    <3> QED BY <1>3, <3>1
  <2> QED BY <1>1, <2>1
<1> QED BY <1>5, <1>6, <1>7, <1>8 DEF PagesOf, Group

\* What is left to show of a step that changes a page's owner.
LEMMA PageStep ==
  ASSUME MemoryInv, NEW t \in Thread, Frame(t), used' \subseteq Page, OnePageOwner', PagesOf(t)',
         \A i \in Page : i \notin ArenaPages \cup OwnPages(t) => arena'[i] = arena[i],
         \A u \in Thread : u # t /\ mpc[u] = "flip" => (used' \ used) \cap Range0(call[u].pool) = {}
  PROVE  PageInv'
<1>1. ASSUME NEW u \in Thread, u # t PROVE PagesOf(u)'
  BY <1>1, PagesFrame
<1>2. \A u \in Thread : PagesOf(u)'
  BY <1>1
<1> QED BY <1>2 DEF PageInv

\* Most steps leave every page with its owner.
LEMMA QuietPages ==
  ASSUME MemoryInv, NEW t \in Thread, Frame(t), used' = used, left'[t] = left[t],
         Groups(t)' = Groups(t), NewPages(t)' = NewPages(t),
         mpc'[t] # "clear" => left[t] = {},
         mpc'[t] = "flip" => PageGroup(page'[t], call'[t].n) \subseteq Range0(call'[t].pool) \ used,
         mpc'[t] \in {"get", "scan", "flip", "unlock"} => call'[t].n \in Nat \ {0},
         \A i \in Page : arena'[i].desc = arena[i].desc,
         \A i \in Page : i \notin ArenaPages => arena'[i] = arena[i]
  PROVE  PageInv'
<1>1. PagesOf(t) /\ OnePageOwner /\ Control(t) /\ used \subseteq Page
  BY DEF MemoryInv, PageInv, ControlInv
<1>2. HeldPages(t)' = HeldPages(t)
  BY DEF HeldPages
<1>3. OwnPages(t)' = OwnPages(t)
  BY <1>2, OwnPagesAre
<1>a. \A u \in Thread : left'[u] = left[u]
  BY DEF Frame
<1>b. \A i : i \in ArenaPages' <=> i \in ArenaPages
  BY <1>a, ArenaPagesAre
<1>4. ArenaPages' = ArenaPages
  BY <1>b
<1>5. OnePageOwner'
  BY <1>1, <1>3, <1>4, PagesMove
<1>6. ASSUME NEW x \in Groups(t) PROVE arena'[x[2]] = arena[x[2]]
  BY GroupOwned
<1>7. PagesOf(t)'
  <2>1. /\ \A x, y \in Groups(t)' : x # y => Group(x) \cap Group(y) = {}
        /\ HeldPages(t)' \cap left'[t] = {} /\ HeldPages(t)' \cap NewPages(t)' = {}
        /\ mpc'[t] # "clear" => left'[t] = {}
    BY <1>1, <1>2 DEF PagesOf
  <2>2. \A x \in Groups(t)' : x[3] \in Nat \ {0}
    BY <1>1 DEF PagesOf
  <2>3. \A x \in Groups(t)' : x[1] = "big" =>
          arena'[x[2]].desc = Nothing /\ arena'[x[2]].free_cnt = x[3]
    <3>1. ASSUME NEW x \in Groups(t), x[1] = "big"
          PROVE  arena'[x[2]].desc = Nothing /\ arena'[x[2]].free_cnt = x[3]
      <4>1. arena[x[2]].desc = Nothing /\ arena[x[2]].free_cnt = x[3]
        BY <1>1, <3>1 DEF PagesOf
      <4> QED BY <1>6, <4>1
    <3> QED BY <3>1
  <2>4. mpc'[t] = "flip" => PageGroup(page'[t], call'[t].n) \subseteq Range0(call'[t].pool) \ used'
    OBVIOUS
  <2> QED BY <2>1, <2>2, <2>3, <2>4 DEF PagesOf, Group
<1> QED BY <1>1, <1>5, <1>7, PageStep

\* Steps that touch neither the map, nor a header, nor what a thread was given.
LEMMA SameHeaders ==
  ASSUME MemoryInv, NEW t \in Thread, Frame(t), UNCHANGED <<used, arena, left>>,
         held'[t] = held[t], NewPages(t)' = NewPages(t),
         mpc'[t] # "clear" => left[t] = {},
         mpc'[t] = "flip" => PageGroup(page'[t], call'[t].n) \subseteq Range0(call'[t].pool) \ used,
         mpc'[t] \in {"get", "scan", "flip", "unlock"} => call'[t].n \in Nat \ {0}
  PROVE  PageInv'
<1>1. Groups(t)' = Groups(t)
  BY DEF Groups
<1> QED BY <1>1, QuietPages

\* A thread has pages in hand that nobody knows of only on the way out of
\* palloc_get_multiple() and while it makes an arena.
LEMMA NoNewPages ==
  ASSUME NEW t
  PROVE  /\ mpc[t] \notin {"unlock", "arena"} \/ page[t] = Nothing => NewPages(t) = {}
         /\ mpc'[t] \notin {"unlock", "arena"} \/ page'[t] = Nothing => NewPages(t)' = {}
BY DEF NewPages

\* A call begins, takes a lock, or returns without pages.
LEMMA CallPages ==
  ASSUME MemoryInv, ControlInv', NEW t \in Thread, Frame(t),
         \/ malloc_lock(t) \/ get_lock(t) \/ scan_none(t) \/ unlock_none(t) \/ free_return(t)
         \/ (\E d \in Desc : malloc(t, d)) \/ (\E n \in BigCounts : malloc_big(t, n))
         \/ (\E n \in PageCounts, p \in Pool : palloc_get_multiple(t, p, n))
  PROVE  PageInv'
<1>1. Local /\ Control(t) /\ PagesOf(t) /\ Calling(t)
  BY Here DEF MemoryInv, PageInv
<1>2. UNCHANGED <<used, arena, left, held>>
  <2>1. CASE malloc_lock(t) \/ get_lock(t) \/ scan_none(t) \/ unlock_none(t) \/ free_return(t)
    BY <2>1 DEF malloc_lock, get_lock, scan_none, unlock_none, free_return
  <2>2. CASE \E d \in Desc : malloc(t, d)
    BY <2>2 DEF malloc
  <2>3. CASE \E n \in BigCounts : malloc_big(t, n)
    BY <2>3 DEF malloc_big
  <2>4. CASE \E n \in PageCounts, p \in Pool : palloc_get_multiple(t, p, n)
    BY <2>4 DEF palloc_get_multiple
  <2> QED BY <2>1, <2>2, <2>3, <2>4
<1>3. /\ mpc[t] \in {"idle", "desc", "get", "scan", "clear"} \/ page[t] = Nothing
      /\ mpc'[t] \in {"idle", "desc", "get", "pop", "scan"} \/ (mpc'[t] = "unlock" /\ page'[t] = Nothing)
      /\ mpc[t] = "clear" => left[t] = {}
      /\ mpc'[t] \in {"get", "scan", "unlock"} => call'[t].n \in Nat \ {0}
  <2>1. CASE malloc_lock(t)
    <3>1. mpc[t] = "desc" /\ call'[t] = call[t] /\ mpc'[t] \in {"get", "pop"}
      BY <1>1, <2>1 DEF malloc_lock, Local, Move, At
    <3>2. call[t].kind = "block"
      BY <1>1, <3>1, KindOf
    <3>3. PICK d : call[t] = Small(d)
      BY <1>1, <3>2, KindOf
    <3>4. call'[t].n \in Nat \ {0}
      BY <3>1, <3>3, Requests, SMT
    <3> QED BY <3>1, <3>4
  <2>2. CASE get_lock(t)
    <3>1. mpc[t] = "get" /\ call'[t] = call[t] /\ mpc'[t] = "scan"
      BY <1>1, <2>2 DEF get_lock, Local, Move, At
    <3> QED BY <1>1, <3>1 DEF PagesOf
  <2>3. CASE scan_none(t)
    BY <1>1, <2>3 DEF scan_none, Local, Move, At, PagesOf, Control
  <2>4. CASE unlock_none(t)
    BY <1>1, <2>4 DEF unlock_none, Local, Move, Finish, At
  <2>5. CASE free_return(t)
    BY <1>1, <2>5 DEF free_return, Local, Move, Finish, At
  <2>6. ASSUME NEW d \in Desc, malloc(t, d) PROVE mpc[t] = "idle" /\ mpc'[t] = "desc"
    BY <1>1, <2>6 DEF malloc, Local, Move, At
  <2>7. ASSUME NEW n \in BigCounts, malloc_big(t, n)
        PROVE  mpc[t] = "idle" /\ mpc'[t] = "get" /\ call'[t].n \in Nat \ {0}
    <3>1. mpc[t] = "idle" /\ mpc'[t] = "get" /\ call'[t] = Big(n)
      BY <1>1, <2>7 DEF malloc_big, Local, Move, At
    <3>2. n \in Nat \ {0}
      BY MemoryAssumption
    <3> QED BY <3>1, <3>2, Requests, SMT
  <2>8. ASSUME NEW n \in PageCounts, NEW p \in Pool, palloc_get_multiple(t, p, n)
        PROVE  mpc[t] = "idle" /\ mpc'[t] = "get" /\ call'[t].n \in Nat \ {0}
    <3>1. mpc[t] = "idle" /\ mpc'[t] = "get" /\ call'[t] = Pages(p, n)
      BY <1>1, <2>8 DEF palloc_get_multiple, Local, Move, At
    <3>2. n \in Nat \ {0}
      BY MemoryAssumption
    <3>3. Pages(p, n).n = n
      BY Requests, SMT
    <3> QED BY <3>1, <3>2, <3>3
  <2> QED BY <2>1, <2>2, <2>3, <2>4, <2>5, <2>6, <2>7, <2>8
<1>4. NewPages(t) = {} /\ NewPages(t)' = {}
  BY <1>3, NoNewPages
<1>5. mpc'[t] # "flip"
  BY <1>3
<1>6. left[t] = {}
  BY <1>1, <1>3 DEF PagesOf
<1> QED BY <1>2, <1>3, <1>4, <1>5, <1>6, SameHeaders

\* A group of free pages is found; a page is taken for an arena.
LEMMA FoundPages ==
  ASSUME MemoryInv, NEW t \in Thread, Frame(t), NEW i, scan_found(t, i)
  PROVE  PageInv'
<1>1. Local /\ Control(t) /\ PagesOf(t)
  BY Here DEF MemoryInv, PageInv
<1>2. mpc[t] = "scan" /\ mpc'[t] = "flip" /\ page'[t] = i /\ call'[t] = call[t]
  BY <1>1 DEF scan_found, Local, Move, At
<1>3. PageGroup(page'[t], call'[t].n) \subseteq Range0(call'[t].pool) \ used
  BY <1>2 DEF scan_found, Free
<1>4. NewPages(t) = {} /\ NewPages(t)' = {}
  BY <1>2, NoNewPages
<1>5. left[t] = {} /\ call'[t].n \in Nat \ {0}
  BY <1>1, <1>2 DEF PagesOf
<1> QED BY <1>3, <1>4, <1>5, SameHeaders DEF scan_found

\* The page for an arena arrives in malloc().
LEMMA ArenaPagePages ==
  ASSUME MemoryInv, NEW t \in Thread, Frame(t), unlock_arena(t)
  PROVE  PageInv'
<1>1. Local /\ Control(t) /\ PagesOf(t)
  BY Here DEF MemoryInv, PageInv
<1>2. mpc[t] = "unlock" /\ mpc'[t] = "arena" /\ page'[t] = page[t] /\ call'[t] = call[t]
  BY <1>1 DEF unlock_arena, Local, Move, At
<1>3. NewPages(t)' = NewPages(t)
  BY <1>2 DEF NewPages
<1>4. left[t] = {}
  BY <1>1, <1>2 DEF PagesOf
<1> QED BY <1>2, <1>3, <1>4, SameHeaders DEF unlock_arena

\* The two pools have no page in common.
LEMMA PoolsApart ==
  ASSUME NEW p \in Pool, NEW q \in Pool, p # q
  PROVE  Range0(p) \cap Range0(q) = {}
<1>1. Range0("kernel") \cap Range0("user") = {}
  BY MemoryAssumption, SMT DEF Range0
<1>2. \/ p = "kernel" /\ q = "user"
      \/ p = "user" /\ q = "kernel"
  BY DEF Pool
<1>3. Range0("user") \cap Range0("kernel") = {}
  BY <1>1
<1> QED BY <1>1, <1>2, <1>3

\* The null pointer is no page.
LEMMA NothingNoPage == Nothing \notin Page
BY MemoryAssumption, SMT DEF Page

\* A page that is owned is in use.
LEMMA OwnedUsed ==
  ASSUME OnePageOwner, NEW t \in Thread
  PROVE  OwnPages(t) \subseteq used /\ ArenaPages \subseteq used
BY DEF OnePageOwner

\* The bits of a group are set.
LEMMA FlipPages ==
  ASSUME MemoryInv, NEW t \in Thread, Frame(t), get_flip(t)
  PROVE  PageInv'
<1>1. Shared /\ Local /\ Control(t) /\ Locks(t) /\ Calling(t) /\ PagesOf(t) /\ OnePageOwner /\ used \subseteq Page
  BY Here DEF MemoryInv, PageInv
<1>2. PICK G : G = PageGroup(page[t], call[t].n)
  OBVIOUS
<1>3. /\ mpc[t] = "flip" /\ mpc'[t] = "unlock" /\ page'[t] = page[t] /\ call'[t] = call[t]
      /\ held'[t] = held[t] /\ left' = left /\ arena' = arena /\ used' = used \cup G
  BY <1>1, <1>2 DEF get_flip, Local, Move, At
<1>4. G \subseteq Range0(call[t].pool) \ used
  BY <1>1, <1>2, <1>3 DEF PagesOf
<1>5. NewPages(t) = {} /\ NewPages(t)' = G
  <2>1. page[t] # Nothing
    BY <1>1, <1>3, NothingNoPage DEF Control
  <2> QED BY <1>2, <1>3, <2>1 DEF NewPages
<1>6. Groups(t)' = Groups(t)
  BY <1>3 DEF Groups
<1>7. HeldPages(t)' = HeldPages(t)
  BY <1>6 DEF HeldPages
<1>8. OwnPages(t)' = OwnPages(t) \cup G
  BY <1>3, <1>5, <1>7, OwnPagesAre
<1>9. ArenaPages' = ArenaPages
  BY <1>3, ArenaPagesAre
<1>10. OnePageOwner'
  BY <1>1, <1>3, <1>4, <1>8, <1>9, PagesMove
<1>11. PagesOf(t)'
  <2>1. /\ \A x, y \in Groups(t)' : x # y => Group(x) \cap Group(y) = {}
        /\ \A x \in Groups(t)' : x[3] \in Nat \ {0}
        /\ \A x \in Groups(t)' : x[1] = "big" =>
             arena'[x[2]].desc = Nothing /\ arena'[x[2]].free_cnt = x[3]
    BY <1>1, <1>3, <1>6 DEF PagesOf
  <2>2. HeldPages(t)' \cap left'[t] = {} /\ left'[t] = {}
    BY <1>1, <1>3, <1>7 DEF PagesOf
  <2>3. HeldPages(t)' \cap NewPages(t)' = {}
    BY <1>1, <1>4, <1>5, <1>7, OwnPagesAre, OwnedUsed
  <2>4. call'[t].n \in Nat \ {0}
    BY <1>1, <1>3 DEF PagesOf
  <2> QED BY <1>3, <2>1, <2>2, <2>3, <2>4 DEF PagesOf, Group
<1>12. used' \subseteq Page
  BY <1>1, <1>3, <1>4, RangePage
<1>13. ASSUME NEW u \in Thread, u # t, mpc[u] = "flip"
       PROVE  (used' \ used) \cap Range0(call[u].pool) = {}
  <2>1. Locks(u) /\ Calling(u)
    BY Here DEF MemoryInv
  <2>2. call[t].pool \in Pool /\ call[u].pool \in Pool
    BY <1>1, <2>1, KindOf
  <2>3. pool_lock[call[t].pool] = t /\ pool_lock[call[u].pool] = u
    BY <1>1, <1>3, <1>13, <2>1, <2>2 DEF Locks
  <2>4. call[t].pool # call[u].pool
    BY <1>13, <2>3
  <2>5. Range0(call[t].pool) \cap Range0(call[u].pool) = {}
    BY <2>2, <2>4, PoolsApart
  <2> QED BY <1>3, <1>4, <2>5
<1> QED BY <1>3, <1>10, <1>11, <1>12, <1>13, PageStep

\* The group goes to the caller.
LEMMA UnlockPages ==
  ASSUME MemoryInv, NEW t \in Thread, Frame(t), unlock_pages(t)
  PROVE  PageInv' /\ ArenaPages' = ArenaPages /\ \A i \in ArenaPages : arena'[i] = arena[i]
<1>1. Shared /\ Local /\ Control(t) /\ Calling(t) /\ PagesOf(t) /\ OnePageOwner /\ used \subseteq Page
  BY Here DEF MemoryInv, PageInv
<1>2. PICK k, a, n : k = call[t].kind /\ a = page[t] /\ n = call[t].n
  OBVIOUS
<1>3. PICK z : z = <<k, a, n>>
  OBVIOUS
<1>4. /\ mpc[t] = "unlock" /\ k # "block" /\ a # Nothing
      /\ held' = [held EXCEPT ![t] = held[t] \cup {z}] /\ left' = left /\ used' = used /\ Finish(t)
      /\ arena' = IF k = "big" THEN [arena EXCEPT ![a] = [desc |-> Nothing, free_cnt |-> n]] ELSE arena
  BY <1>2, <1>3 DEF unlock_pages, At
<1>5. a \in Page /\ n \in Nat \ {0} /\ n \in Int
  BY <1>1, <1>2, <1>4, KindOf DEF Control, PagesOf
<1>6. z[1] = k /\ z[2] = a /\ z[3] = n
  BY <1>3
<1>7. Groups(t)' = Groups(t) \cup {z}
  <2>1. held'[t] = held[t] \cup {z}
    BY <1>1, <1>4 DEF Local
  <2> QED BY <1>4, <1>6, <2>1 DEF Groups
<1>8. Group(z) = PageGroup(a, n) /\ NewPages(t) = Group(z)
  BY <1>2, <1>4, <1>6 DEF Group, NewPages
<1>9. HeldPages(t)' = HeldPages(t) \cup Group(z)
  <2>1. HeldPages(t)' = UNION {Group(x) : x \in Groups(t) \cup {z}}
    BY <1>7 DEF HeldPages, Group
  <2> QED BY <2>1 DEF HeldPages
<1>10. mpc'[t] = "idle" /\ NewPages(t)' = {} /\ left[t] = {}
  <2>1. mpc'[t] = "idle"
    BY <1>1, <1>4 DEF Finish, Move, Local
  <2> QED BY <1>1, <1>4, <2>1, NoNewPages DEF PagesOf
<1>11. OwnPages(t)' = OwnPages(t)
  BY <1>4, <1>8, <1>9, <1>10, OwnPagesAre
<1>12. Group(z) \subseteq OwnPages(t) /\ a \in Group(z) /\ Group(z) \cap HeldPages(t) = {}
  BY <1>1, <1>5, <1>8, OwnPagesAre, GroupFirst DEF PagesOf
<1>13. a \notin ArenaPages /\ a \in OwnPages(t)
  BY <1>1, <1>12 DEF OnePageOwner
<1>14. \A i \in Page : i # a => arena'[i] = arena[i]
  BY <1>1, <1>4 DEF Shared
<1>15. k = "big" => arena'[a].desc = Nothing /\ arena'[a].free_cnt = n
  BY <1>1, <1>4, <1>5, HeaderSet DEF Shared
<1>16. arena'[a].desc \in Desc => arena[a].desc \in Desc
  <2>1. CASE k = "big"
    BY <1>15, <2>1, MemoryAssumption
  <2>2. CASE k # "big"
    BY <1>4, <2>2
  <2> QED BY <2>1, <2>2
<1>17. ArenaPages' = ArenaPages
  <2>1. a \notin ArenaPages'
    BY <1>4, <1>13, <1>16, ArenaPagesAre
  <2>2. \A i : i # a => (i \in ArenaPages' <=> i \in ArenaPages)
    BY <1>4, <1>14, ArenaPagesAre
  <2>3. \A i : i \in ArenaPages' <=> i \in ArenaPages
    BY <1>13, <2>1, <2>2
  <2> QED BY <2>3
<1>18. OnePageOwner'
  BY <1>1, <1>4, <1>11, <1>17, PagesMove
<1>19. ASSUME NEW x \in Groups(t) PROVE x[2] # a /\ Group(x) \cap Group(z) = {}
  <2>1. Group(x) \subseteq HeldPages(t) /\ x[2] \in Group(x)
    BY GroupOwned
  <2> QED BY <1>12, <2>1
<1>20. \A x \in Groups(t) \cup {z} : x[1] = "big" =>
         arena'[x[2]].desc = Nothing /\ arena'[x[2]].free_cnt = x[3]
  <2>1. ASSUME NEW x \in Groups(t), x[1] = "big"
        PROVE  arena'[x[2]].desc = Nothing /\ arena'[x[2]].free_cnt = x[3]
    <3>1. arena[x[2]].desc = Nothing /\ arena[x[2]].free_cnt = x[3]
      BY <1>1, <2>1 DEF PagesOf
    <3>2. arena'[x[2]] = arena[x[2]]
      BY <1>14, <1>19, GroupOwned
    <3> QED BY <3>1, <3>2
  <2>2. z[1] = "big" => arena'[z[2]].desc = Nothing /\ arena'[z[2]].free_cnt = z[3]
    BY <1>6, <1>15
  <2> QED BY <2>1, <2>2
<1>21. PagesOf(t)'
  <2>1. \A x, y \in Groups(t) \cup {z} : x # y => Group(x) \cap Group(y) = {}
    BY <1>1, <1>19 DEF PagesOf
  <2>2. \A x \in Groups(t) \cup {z} : x[3] \in Nat \ {0}
    BY <1>1, <1>5, <1>6 DEF PagesOf
  <2>3. left'[t] = {}
    BY <1>4, <1>10
  <2> QED BY <1>7, <1>10, <1>20, <2>1, <2>2, <2>3 DEF PagesOf, Group
<1>22. \A i \in Page : i \notin ArenaPages \cup OwnPages(t) => arena'[i] = arena[i]
  BY <1>13, <1>14
<1>23. PageInv'
  BY <1>1, <1>4, <1>18, <1>21, <1>22, PageStep
<1>24. \A i \in ArenaPages : arena'[i] = arena[i]
  BY <1>13, <1>14, ArenaPagesAre
<1> QED BY <1>17, <1>23, <1>24

\* What is freed is what was allocated: a group of pages, or a block of the
\* descriptor the arena header names.
free_group(t, x) ==
  /\ mpc[t] = "idle" /\ x \in Groups(t)
  /\ held' = [held EXCEPT ![t] = @ \ {x}] /\ left' = [left EXCEPT ![t] = Group(x)]
  /\ mpc'[t] = "clear" /\ call'[t].kind # "block"
  /\ UNCHANGED <<used, pool_lock, arena, free_list, desc_lock, page>>
free_block(t, x) ==
  /\ mpc[t] = "idle" /\ x \in held[t] /\ x[1] = "block" /\ arena[x[2]].desc \in Desc
  /\ held' = [held EXCEPT ![t] = @ \ {x}] /\ left'[t] = {}
  /\ mpc'[t] = "put" /\ block'[t] = <<x[2], x[3]>> /\ call'[t] = Small(arena[x[2]].desc)
  /\ UNCHANGED <<used, pool_lock, arena, free_list, desc_lock, page>>

\* free() of a group of pages, or of a block.
LEMMA FreeCases ==
  ASSUME MemoryInv, NEW t \in Thread, NEW x \in held[t], free(t, x)
  PROVE  free_group(t, x) \/ free_block(t, x)
<1>1. Shared /\ Local /\ Control(t) /\ PagesOf(t) /\ BlocksOf(t)
  BY Here DEF MemoryInv, PageInv, BlockInv
<1>2. x \in Holding
  BY <1>1 DEF Control
<1>3. x[1] \in {"block", "big", "pages"} /\ x[2] \in Page /\ x[3] \in Int
  BY <1>2 DEF Holding
<1>4. PICK a, c : /\ a = x[2]
                  /\ c = IF x[1] = "pages" THEN Pages(page_from_pool(a), x[3])
                         ELSE IF arena[a].desc = Nothing THEN Big(arena[a].free_cnt)
                              ELSE Small(arena[a].desc)
  OBVIOUS
<1>5. /\ mpc[t] = "idle" /\ UNCHANGED <<used, pool_lock, arena, free_list, desc_lock, page>>
      /\ held' = [held EXCEPT ![t] = held[t] \ {x}]
      /\ call' = [call EXCEPT ![t] = c]
      /\ block' = [block EXCEPT ![t] = IF c.kind = "block" THEN <<a, x[3]>> ELSE Nothing]
      /\ mpc' = [mpc EXCEPT ![t] = IF c.kind = "block" THEN "put" ELSE "clear"]
      /\ left' = [left EXCEPT ![t] = IF c.kind = "block" THEN {} ELSE PageGroup(a, c.n)]
  BY <1>4 DEF free, Move, At
<1>6. call'[t] = c
  BY <1>1, <1>5 DEF Local
<1>7. ASSUME c.kind # "block", c.n = x[3], x[1] # "block" PROVE free_group(t, x)
  <2>1. x \in Groups(t)
    BY <1>7 DEF Groups
  <2>2. mpc'[t] = "clear"
    BY <1>1, <1>5, <1>7 DEF Local
  <2>3. left' = [left EXCEPT ![t] = Group(x)]
    BY <1>4, <1>5, <1>7 DEF Group
  <2> QED BY <1>5, <1>6, <1>7, <2>1, <2>2, <2>3 DEF free_group
<1>8. CASE x[1] = "pages"
  <2>1. c.kind = "pages" /\ c.n = x[3]
    BY <1>4, <1>8, Requests, SMT
  <2> QED BY <1>7, <1>8, <2>1
<1>9. CASE x[1] = "big"
  <2>1. arena[a].desc = Nothing /\ arena[a].free_cnt = x[3]
    BY <1>1, <1>4, <1>9 DEF PagesOf, Groups
  <2>2. c = Big(x[3])
    BY <1>4, <1>9, <2>1
  <2>3. c.kind = "big" /\ c.n = x[3]
    BY <2>2, Requests
  <2> QED BY <1>7, <1>9, <2>3
<1>10. CASE x[1] = "block"
  <2>1. arena[a].desc # Nothing
    BY <1>1, <1>4, <1>10 DEF BlocksOf
  <2>2. c = Small(arena[a].desc) /\ c.kind = "block"
    BY <1>4, <1>10, <2>1, Requests
  <2>3. arena[a].desc \in Desc
    BY <1>1, <1>3, <1>4, <2>1, SMT DEF Shared, Header
  <2>4. mpc'[t] = "put" /\ block'[t] = <<a, x[3]>> /\ left'[t] = {}
    BY <1>1, <1>5, <2>2 DEF Local
  <2> QED BY <1>4, <1>5, <1>6, <1>10, <2>2, <2>3, <2>4 DEF free_block
<1> QED BY <1>3, <1>8, <1>9, <1>10

\* The pages of a group are to be given back.
LEMMA FreeGroupPages ==
  ASSUME MemoryInv, NEW t \in Thread, Frame(t), NEW z, free_group(t, z)
  PROVE  PageInv' /\ ArenaPages' = ArenaPages
<1>1. Shared /\ Local /\ Control(t) /\ Calling(t) /\ PagesOf(t) /\ OnePageOwner /\ used \subseteq Page
  BY Here DEF MemoryInv, PageInv
<1>2. /\ mpc[t] = "idle" /\ mpc'[t] = "clear" /\ z \in Groups(t)
      /\ held'[t] = held[t] \ {z} /\ left'[t] = Group(z) /\ left[t] = {}
      /\ used' = used /\ arena' = arena
  BY <1>1 DEF free_group, Local, PagesOf
<1>3. Groups(t)' = Groups(t) \ {z}
  BY <1>2 DEF Groups
<1>4. HeldPages(t)' = UNION {Group(x) : x \in Groups(t) \ {z}}
  BY <1>3 DEF HeldPages, Group
<1>5. \A x \in Groups(t) : x # z => Group(x) \cap Group(z) = {}
  BY <1>1, <1>2 DEF PagesOf
<1>6. HeldPages(t)' \cap Group(z) = {} /\ HeldPages(t) = HeldPages(t)' \cup Group(z)
  <2>1. HeldPages(t)' \cap Group(z) = {}
    BY <1>4, <1>5
  <2>2. HeldPages(t) = HeldPages(t)' \cup Group(z)
    BY <1>2, <1>4 DEF HeldPages
  <2> QED BY <2>1, <2>2
<1>7. NewPages(t) = {} /\ NewPages(t)' = {}
  BY <1>2, NoNewPages
<1>8. OwnPages(t)' = OwnPages(t)
  BY <1>2, <1>6, <1>7, OwnPagesAre
<1>9. ArenaPages' = ArenaPages
  <2>1. Group(z) \cap ArenaPages = {}
    BY <1>1, <1>2, GroupOwned DEF OnePageOwner
  <2>2. \A u \in Thread : u # t => left'[u] = left[u]
    BY DEF Frame
  <2>3. \A i : (\A u \in Thread : i \notin left'[u]) <=> i \notin Group(z) /\ \A u \in Thread : i \notin left[u]
    BY <1>2, <2>2
  <2>4. \A i : i \in ArenaPages' <=> i \in ArenaPages
    BY <1>2, <2>1, <2>3, ArenaPagesAre
  <2> QED BY <2>4
<1>10. OnePageOwner'
  BY <1>1, <1>2, <1>8, <1>9, PagesMove
<1>11. PagesOf(t)'
  <2>1. /\ \A x, y \in Groups(t) \ {z} : x # y => Group(x) \cap Group(y) = {}
        /\ \A x \in Groups(t) \ {z} : x[3] \in Nat \ {0}
    BY <1>1 DEF PagesOf
  <2>2. \A x \in Groups(t) \ {z} : x[1] = "big" =>
             arena'[x[2]].desc = Nothing /\ arena'[x[2]].free_cnt = x[3]
    BY <1>1, <1>2 DEF PagesOf
  <2> QED BY <1>2, <1>3, <1>6, <1>7, <2>1, <2>2 DEF PagesOf, Group
<1> QED BY <1>1, <1>2, <1>9, <1>10, <1>11, PageStep

\* The page becomes malloc()'s.
LEMMA ArenaStepPages ==
  ASSUME MemoryInv, NEW t \in Thread, Frame(t), new_arena(t)
  PROVE  /\ PageInv'
         /\ page[t] \in Page /\ page[t] \notin ArenaPages /\ arena[page[t]].desc = Nothing
         /\ ArenaPages' = ArenaPages \cup {page[t]}
<1>1. Shared /\ Local /\ Control(t) /\ Calling(t) /\ PagesOf(t) /\ OnePageOwner /\ used \subseteq Page
  BY Here DEF MemoryInv, PageInv
<1>2. PICK d, a : d = call[t].desc /\ a = page[t]
  OBVIOUS
<1>3. /\ mpc[t] = "arena" /\ mpc'[t] = "pop" /\ held'[t] = held[t] /\ left' = left /\ used' = used
      /\ arena' = [arena EXCEPT ![a] = [desc |-> d, free_cnt |-> blocks_per_arena[d]]]
  BY <1>1, <1>2 DEF new_arena, Local, Move, At
<1>4. d \in Desc /\ call[t] = Small(d) /\ a \in Page
  BY <1>1, <1>2, <1>3, KindOf DEF Control
<1>5. NewPages(t) = {a} /\ NewPages(t)' = {}
  <2>0. call[t].n = 1
    BY <1>4, Requests, SMT
  <2>1. call[t].n = 1 /\ a # Nothing
    BY <1>4, <2>0, NothingNoPage
  <2>2. PageGroup(a, 1) = {a}
    BY <1>4, MemoryAssumption, SMT DEF PageGroup, Page
  <2>3. NewPages(t)' = {}
    BY <1>3, NoNewPages
  <2> QED BY <1>2, <1>3, <2>1, <2>2, <2>3 DEF NewPages
<1>6. Groups(t)' = Groups(t)
  BY <1>3 DEF Groups
<1>7. HeldPages(t)' = HeldPages(t) /\ left[t] = {} /\ a \notin HeldPages(t)
  BY <1>1, <1>3, <1>5, <1>6 DEF HeldPages, PagesOf
<1>8. OwnPages(t)' = OwnPages(t) \ {a} /\ a \in OwnPages(t)
  BY <1>3, <1>5, <1>7, OwnPagesAre, SMT
<1>9. a \notin ArenaPages /\ \A u \in Thread : a \notin left[u]
  BY <1>1, <1>7, <1>8, OwnPagesAre DEF OnePageOwner
<1>10. arena[a].desc = Nothing
  <2>1. arena[a].desc \in Desc \cup {Nothing}
    BY <1>1, <1>4, SMT DEF Shared, Header
  <2>2. arena[a].desc \notin Desc
    BY <1>4, <1>9, ArenaPagesAre
  <2> QED BY <2>1, <2>2
<1>11. arena'[a].desc = d /\ \A i \in Page : i # a => arena'[i] = arena[i]
  <2>1. blocks_per_arena[d] \in Int
    BY <1>4, NewBlocksSeq, SMT
  <2> QED BY <1>1, <1>3, <1>4, <2>1, HeaderSet DEF Shared
<1>12. ArenaPages' = ArenaPages \cup {a}
  <2>0. arena'[a].desc \in Desc /\ \A u \in Thread : a \notin left'[u]
    BY <1>3, <1>4, <1>9, <1>11
  <2>1. a \in ArenaPages'
    BY <1>4, <2>0, ArenaPagesAre
  <2>2. \A i : i # a => (i \in ArenaPages' <=> i \in ArenaPages)
    BY <1>3, <1>11, ArenaPagesAre
  <2>3. \A i : i \in ArenaPages' <=> i \in ArenaPages \cup {a}
    BY <2>1, <2>2
  <2> QED BY <2>3
<1>13. OnePageOwner'
  <2>1. {a} \subseteq OwnPages(t)
    BY <1>8
  <2> QED BY <1>1, <1>3, <1>8, <1>12, <2>1, PagesMove
<1>14. PagesOf(t)'
  <2>1. ASSUME NEW x \in Groups(t), x[1] = "big"
        PROVE  arena'[x[2]].desc = Nothing /\ arena'[x[2]].free_cnt = x[3]
    <3>1. arena[x[2]].desc = Nothing /\ arena[x[2]].free_cnt = x[3]
      BY <1>1, <2>1 DEF PagesOf
    <3>2. x[2] \in Page /\ x[2] # a
      BY <1>7, GroupOwned
    <3> QED BY <1>11, <3>1, <3>2
  <2>2. /\ \A x, y \in Groups(t)' : x # y => Group(x) \cap Group(y) = {}
        /\ \A x \in Groups(t)' : x[3] \in Nat \ {0}
    BY <1>1, <1>6 DEF PagesOf
  <2>3. left'[t] = {}
    BY <1>3, <1>7
  <2> QED BY <1>3, <1>5, <1>6, <2>1, <2>2, <2>3 DEF PagesOf, Group
<1>15. \A i \in Page : i \notin ArenaPages \cup OwnPages(t) => arena'[i] = arena[i]
  BY <1>8, <1>11
<1>16. PageInv'
  BY <1>1, <1>3, <1>13, <1>14, <1>15, PageStep
<1> QED BY <1>2, <1>4, <1>9, <1>10, <1>12, <1>16

\* A page that has no block in use is malloc()'s no longer.
LEMMA DropPages ==
  ASSUME MemoryInv, NEW t \in Thread, Frame(t), NEW d, NEW b, put_drop(t, d, b), b[1] \in ArenaPages
  PROVE  PageInv' /\ ArenaPages' = ArenaPages \ {b[1]}
<1>1. Shared /\ Local /\ Control(t) /\ Calling(t) /\ PagesOf(t) /\ OnePageOwner /\ used \subseteq Page
  BY Here DEF MemoryInv, PageInv
<1>2. PICK a : a = b[1]
  OBVIOUS
<1>3. /\ mpc[t] = "put" /\ a \in Page /\ arena[a].free_cnt \in Int
      /\ arena' = [arena EXCEPT ![a].free_cnt = arena[a].free_cnt + 1]
  <2>1. ControlInv /\ (put_keep(t, d, b) \/ put_drop(t, d, b))
    BY DEF MemoryInv
  <2>2. mpc[t] = "put" /\ b[1] \in Page /\ arena[b[1]].free_cnt \in Int
    BY <2>1, PutFacts
  <2> QED BY <1>2, <2>2 DEF put_drop
<1>4. /\ mpc'[t] = "clear" /\ held'[t] = held[t] /\ left'[t] = {a} /\ used' = used
  BY <1>1, <1>2 DEF put_drop, Local, Move
<1>5. arena'[a].desc = arena[a].desc /\ \A i \in Page : i # a => arena'[i] = arena[i]
  <2>1. arena[a].free_cnt + 1 \in Int
    BY <1>3, SMT
  <2> QED BY <1>1, <1>3, <2>1, HeaderCount DEF Shared
<1>6. NewPages(t) = {} /\ NewPages(t)' = {} /\ left[t] = {}
  BY <1>1, <1>3, <1>4, NoNewPages DEF PagesOf
<1>7. Groups(t)' = Groups(t)
  BY <1>4 DEF Groups
<1>8. HeldPages(t)' = HeldPages(t)
  BY <1>7 DEF HeldPages
<1>9. OwnPages(t)' = OwnPages(t) \cup {a} /\ a \in ArenaPages /\ a \notin OwnPages(t)
  <2>1. OwnPages(t) = HeldPages(t) /\ OwnPages(t)' = HeldPages(t) \cup {a}
    BY <1>4, <1>6, <1>8, OwnPagesAre
  <2>2. a \in ArenaPages /\ a \notin OwnPages(t)
    BY <1>1, <1>2 DEF OnePageOwner
  <2> QED BY <2>1, <2>2
<1>10. ArenaPages' = ArenaPages \ {a}
  <2>1. \A u \in Thread : u # t => left'[u] = left[u]
    BY DEF Frame
  <2>2. \A i : (\A u \in Thread : i \notin left'[u]) <=> i # a /\ \A u \in Thread : i \notin left[u]
    BY <1>4, <1>6, <2>1
  <2>3. \A i \in Page : i # a => arena'[i].desc = arena[i].desc
    BY <1>5
  <2>4. \A i : i \in ArenaPages' <=> i \in ArenaPages \ {a}
    BY <2>2, <2>3, ArenaPagesAre
  <2> QED BY <2>4
<1>11. OnePageOwner'
  <2>1. {a} \subseteq ArenaPages
    BY <1>9
  <2> QED BY <1>1, <1>4, <1>9, <1>10, <2>1, PagesMove
<1>12. PagesOf(t)'
  <2>1. ASSUME NEW x \in Groups(t), x[1] = "big"
        PROVE  arena'[x[2]].desc = Nothing /\ arena'[x[2]].free_cnt = x[3]
    <3>1. arena[x[2]].desc = Nothing /\ arena[x[2]].free_cnt = x[3]
      BY <1>1, <2>1 DEF PagesOf
    <3>2. x[2] \in Page /\ x[2] # a
      BY <1>9, GroupOwned
    <3> QED BY <1>5, <3>1, <3>2
  <2>2. /\ \A x, y \in Groups(t)' : x # y => Group(x) \cap Group(y) = {}
        /\ \A x \in Groups(t)' : x[3] \in Nat \ {0}
    BY <1>1, <1>7 DEF PagesOf
  <2>3. HeldPages(t)' \cap left'[t] = {}
    BY <1>4, <1>8, <1>9, OwnPagesAre, SMT
  <2> QED BY <1>4, <1>6, <1>7, <2>1, <2>2, <2>3 DEF PagesOf, Group
<1>13. \A i \in Page : i \notin ArenaPages \cup OwnPages(t) => arena'[i] = arena[i]
  BY <1>5, <1>9
<1> QED BY <1>1, <1>2, <1>4, <1>10, <1>11, <1>12, <1>13, PageStep

\* A page is free again.
LEMMA ClearPages ==
  ASSUME MemoryInv, NEW t \in Thread, Frame(t), NEW i, clear_one(t, i)
  PROVE  PageInv' /\ ArenaPages' = ArenaPages
<1>1. Shared /\ Local /\ Control(t) /\ Calling(t) /\ PagesOf(t) /\ OnePageOwner /\ used \subseteq Page
  BY Here DEF MemoryInv, PageInv
<1>2. /\ mpc[t] = "clear" /\ mpc'[t] = "clear" /\ held'[t] = held[t] /\ i \in left[t]
      /\ left'[t] = left[t] \ {i} /\ used' = used \ {i}
      /\ \A j \in Page : arena'[j] = IF j \in left[t] THEN NoArena ELSE arena[j]
  BY <1>1 DEF clear_one, Local, At
<1>3. NewPages(t) = {} /\ NewPages(t)' = {}
  BY <1>2, NoNewPages
<1>4. Groups(t)' = Groups(t)
  BY <1>2 DEF Groups
<1>5. HeldPages(t)' = HeldPages(t) /\ HeldPages(t) \cap left[t] = {}
  BY <1>1, <1>4 DEF HeldPages, PagesOf
<1>6. OwnPages(t)' = OwnPages(t) \ {i} /\ i \in OwnPages(t) /\ left[t] \subseteq OwnPages(t)
  <2>1. OwnPages(t) = HeldPages(t) \cup left[t] /\ OwnPages(t)' = HeldPages(t) \cup (left[t] \ {i})
    BY <1>2, <1>3, <1>5, OwnPagesAre
  <2> QED BY <1>2, <1>5, <2>1
<1>7. ArenaPages' = ArenaPages
  <2>1. \A u \in Thread : u # t => left'[u] = left[u]
    BY DEF Frame
  <2>2. NoArena.desc \notin Desc
    BY MemoryAssumption, SMT DEF NoArena
  <2>3. \A j \in Page : j \in left[t] => arena'[j].desc \notin Desc
    BY <1>2, <2>2
  <2>4. \A j \in Page : j \notin left[t] => arena'[j].desc = arena[j].desc
    BY <1>2
  <2>5. \A j : j \notin left[t] =>
          ((\A u \in Thread : j \notin left'[u]) <=> \A u \in Thread : j \notin left[u])
    BY <1>2, <2>1
  <2>6. \A j : j \in left[t] => j \notin ArenaPages /\ j \notin ArenaPages'
    BY <2>3, ArenaPagesAre
  <2>7. \A j : j \notin left[t] => (j \in ArenaPages' <=> j \in ArenaPages)
    BY <2>4, <2>5, ArenaPagesAre
  <2>8. \A j : j \in ArenaPages' <=> j \in ArenaPages
    BY <2>6, <2>7
  <2> QED BY <2>8
<1>8. OnePageOwner'
  <2>1. {i} \subseteq OwnPages(t)
    BY <1>6
  <2> QED BY <1>1, <1>2, <1>6, <1>7, <2>1, PagesMove
<1>9. PagesOf(t)'
  <2>1. ASSUME NEW x \in Groups(t), x[1] = "big"
        PROVE  arena'[x[2]].desc = Nothing /\ arena'[x[2]].free_cnt = x[3]
    <3>1. arena[x[2]].desc = Nothing /\ arena[x[2]].free_cnt = x[3]
      BY <1>1, <2>1 DEF PagesOf
    <3>2. x[2] \in Page /\ x[2] \notin left[t]
      BY <1>5, GroupOwned
    <3> QED BY <1>2, <3>1, <3>2
  <2>2. /\ \A x, y \in Groups(t)' : x # y => Group(x) \cap Group(y) = {}
        /\ \A x \in Groups(t)' : x[3] \in Nat \ {0}
    BY <1>1, <1>4 DEF PagesOf
  <2>3. HeldPages(t)' \cap left'[t] = {}
    BY <1>2, <1>5
  <2> QED BY <1>2, <1>3, <1>4, <2>1, <2>2, <2>3 DEF PagesOf, Group
<1>10. \A j \in Page : j \notin ArenaPages \cup OwnPages(t) => arena'[j] = arena[j]
  BY <1>2, <1>6
<1> QED BY <1>1, <1>2, <1>7, <1>8, <1>9, <1>10, PageStep

-----------------------------------------------------------------------------
(* Blocks.                                                                 *)

\* Where a block is: on the page of an arena of its descriptor.
LEMMA BlockPlace ==
  ASSUME MemoryInv, NEW d \in Desc, NEW b \in AllBlocks(d)
  PROVE  /\ b[1] \in Arenas(d) /\ b \in ArenaBlocks(d, b[1])
         /\ b[1] \in ArenaPages /\ b[1] \in Page /\ arena[b[1]].desc = d
<1>1. PICK a \in Arenas(d) : b \in ArenaBlocks(d, a)
  BY DEF AllBlocks
<1>2. PICK i \in 0..(blocks_per_arena[d] - 1) : b = <<a, i>>
  BY <1>1 DEF ArenaBlocks
<1>3. b[1] = a
  BY <1>2
<1>4. a \in ArenaPages /\ arena[a].desc = d
  BY <1>1, ArenaPagesAre
<1>5. a \in Page
  BY <1>4, ArenaPagesAre
<1> QED BY <1>1, <1>3, <1>4, <1>5

\* A free block, or one that a thread was given, is a block of some arena.
LEMMA ListBlock ==
  ASSUME MemoryInv, NEW d \in Desc
  PROVE  /\ Range(free_list[d]) \subseteq AllBlocks(d)
         /\ \A t \in Thread : OwnBlocks(t, d) \subseteq AllBlocks(d)
<1>1. Range(free_list[d]) \cup UNION {OwnBlocks(t, d) : t \in Thread} = AllBlocks(d)
  BY DEF MemoryInv, BlockInv, OneBlockOwner
<1> QED BY <1>1

\* The block at the head of the list malloc() pops, and the one free() puts.
LEMMA HeadBlock ==
  ASSUME MemoryInv, NEW t \in Thread, malloc_pop(t)
  PROVE  \E d \in Desc : /\ d = call[t].desc /\ call[t] = Small(d) /\ mpc[t] = "pop"
                         /\ free_list[d] \in Seq(Block) /\ free_list[d] # <<>>
                         /\ Head(free_list[d]) \in AllBlocks(d)
<1>1. Shared /\ Control(t) /\ Calling(t)
  BY Here DEF MemoryInv
<1>2. PICK d : d = call[t].desc
  OBVIOUS
<1>3. d \in Desc /\ call[t] = Small(d) /\ mpc[t] = "pop" /\ free_list[d] # <<>>
  BY <1>1, <1>2, KindOf DEF malloc_pop, At, Control
<1>4. free_list[d] \in Seq(Block)
  BY <1>1, <1>3 DEF Shared
<1>5. PICK s \in Seq(Block) : s = free_list[d] /\ s # <<>>
  BY <1>3, <1>4
<1>6. Head(s) = s[1] /\ 1 \in DOMAIN s
  BY <1>5, SMT
<1>7. Head(s) \in Range(s)
  BY <1>6 DEF Range
<1>8. Head(free_list[d]) \in AllBlocks(d)
  BY <1>3, <1>5, <1>7, ListBlock
<1> QED BY <1>2, <1>3, <1>4, <1>8

\* The block that is being freed belongs to the thread that frees it.
LEMMA PutBlock ==
  ASSUME MemoryInv, NEW t \in Thread, NEW d \in Desc, mpc[t] = "put", call[t].desc = d
  PROVE  block[t] \in OwnBlocks(t, d) /\ block[t] \in AllBlocks(d)
<1>1. block[t] \in OwnBlocks(t, d)
  BY DEF OwnBlocks
<1> QED BY <1>1, ListBlock

\* malloc() returns a block, free() puts one back or begins to: no page changes
\* its owner.
LEMMA PopPages ==
  ASSUME MemoryInv, NEW t \in Thread, Frame(t), malloc_pop(t)
  PROVE  PageInv'
<1>1. Shared /\ Local /\ Control(t) /\ Calling(t) /\ PagesOf(t)
  BY Here DEF MemoryInv, PageInv
<1>a. PICK d \in Desc : /\ d = call[t].desc /\ mpc[t] = "pop"
                        /\ Head(free_list[d]) \in AllBlocks(d)
  BY HeadBlock
<1>2. PICK b \in AllBlocks(d) : b = Head(free_list[d])
  BY <1>a
<1>3. b[1] \in ArenaPages /\ b[1] \in Page
  BY <1>2, BlockPlace
<1>4. /\ held'[t] = held[t] \cup {<<"block", b[1], b[2]>>} /\ mpc'[t] = "idle"
      /\ used' = used /\ left' = left
      /\ arena' = [arena EXCEPT ![b[1]].free_cnt = arena[b[1]].free_cnt - 1]
  BY <1>1, <1>a, <1>2 DEF malloc_pop, Local, Finish, Move
<1>5. Groups(t)' = Groups(t)
  <2>a. \A a, i : <<"block", a, i>>[1] = "block"
    BY SMT
  <2>1. PICK z : z = <<"block", b[1], b[2]>> /\ z[1] = "block"
    BY <2>a
  <2> QED BY <1>4, <2>1 DEF Groups
<1>6. /\ \A i \in Page : arena'[i].desc = arena[i].desc
      /\ \A i \in Page : i \notin ArenaPages => arena'[i] = arena[i]
  <2>1. arena[b[1]].free_cnt \in Int
    BY <1>1, <1>3, SMT DEF Shared, Header
  <2>2. arena[b[1]].free_cnt - 1 \in Int
    BY <2>1, SMT
  <2>3. /\ arena'[b[1]].desc = arena[b[1]].desc
        /\ \A i \in Page : i # b[1] => arena'[i] = arena[i]
    BY <1>1, <1>3, <1>4, <2>2, HeaderCount DEF Shared
  <2> QED BY <1>3, <2>3
<1>7. NewPages(t) = {} /\ NewPages(t)' = {} /\ left[t] = {}
  BY <1>1, <1>a, <1>4, NoNewPages DEF PagesOf
<1> QED BY <1>4, <1>5, <1>6, <1>7, QuietPages

\* free() puts a block back and keeps its arena.
LEMMA KeepPages ==
  ASSUME MemoryInv, NEW t \in Thread, Frame(t), NEW d, NEW b, put_keep(t, d, b), b[1] \in ArenaPages
  PROVE  PageInv'
<1>1. Shared /\ Local /\ Control(t) /\ Calling(t) /\ PagesOf(t)
  BY Here DEF MemoryInv, PageInv
<1>2. mpc[t] = "put" /\ b[1] \in Page /\ arena[b[1]].free_cnt \in Int
  <2>1. ControlInv /\ (put_keep(t, d, b) \/ put_drop(t, d, b))
    BY DEF MemoryInv
  <2> QED BY <2>1, PutFacts
<1>3. /\ held' = held /\ mpc'[t] = "idle" /\ used' = used /\ left' = left
      /\ arena' = [arena EXCEPT ![b[1]].free_cnt = arena[b[1]].free_cnt + 1]
  BY <1>1 DEF put_keep, Local, Finish, Move
<1>4. Groups(t)' = Groups(t)
  BY <1>3 DEF Groups
<1>5. /\ \A i \in Page : arena'[i].desc = arena[i].desc
      /\ \A i \in Page : i \notin ArenaPages => arena'[i] = arena[i]
  <2>1. arena[b[1]].free_cnt + 1 \in Int
    BY <1>2, SMT
  <2>2. /\ arena'[b[1]].desc = arena[b[1]].desc
        /\ \A i \in Page : i # b[1] => arena'[i] = arena[i]
    BY <1>1, <1>2, <1>3, <2>1, HeaderCount DEF Shared
  <2> QED BY <2>2
<1>6. NewPages(t) = {} /\ NewPages(t)' = {} /\ left[t] = {}
  BY <1>1, <1>2, <1>3, NoNewPages DEF PagesOf
<1> QED BY <1>3, <1>4, <1>5, <1>6, QuietPages

\* free() of a block begins.
LEMMA FreeBlockPages ==
  ASSUME MemoryInv, NEW t \in Thread, Frame(t), NEW x, free_block(t, x)
  PROVE  PageInv'
<1>1. Shared /\ Local /\ Control(t) /\ Calling(t) /\ PagesOf(t)
  BY Here DEF MemoryInv, PageInv
<1>2. /\ mpc[t] = "idle" /\ mpc'[t] = "put" /\ x[1] = "block" /\ held'[t] = held[t] \ {x}
      /\ left'[t] = {} /\ left[t] = {} /\ used' = used /\ arena' = arena
  BY <1>1 DEF free_block, Local, PagesOf
<1>3. Groups(t)' = Groups(t)
  BY <1>2 DEF Groups
<1>4. NewPages(t) = {} /\ NewPages(t)' = {}
  BY <1>2, NoNewPages
<1> QED BY <1>2, <1>3, <1>4, QuietPages


\* What a thread's blocks are.
InHand(h, r, d, z) == \E x \in h : x[1] = "block" /\ r[x[2]].desc = d /\ z = <<x[2], x[3]>>
Given(h, z) == \E x \in h : x[1] = "block" /\ z = <<x[2], x[3]>>

\* The blocks of a thread, before and after a step.
LEMMA OwnBlocksAre ==
  ASSUME NEW t, NEW z
  PROVE  /\ \A d : z \in OwnBlocks(t, d) <=>
              InHand(held[t], arena, d, z) \/ (mpc[t] = "put" /\ call[t].desc = d /\ z = block[t])
         /\ \A d : z \in OwnBlocks(t, d)' <=>
              InHand(held'[t], arena', d, z) \/ (mpc'[t] = "put" /\ call'[t].desc = d /\ z = block'[t])
         /\ z \in HeldBlocks(t) <=> Given(held[t], z)
         /\ z \in HeldBlocks(t)' <=> Given(held'[t], z)
<1>1. \A d : z \in OwnBlocks(t, d) <=>
        InHand(held[t], arena, d, z) \/ (mpc[t] = "put" /\ call[t].desc = d /\ z = block[t])
  BY DEF OwnBlocks, InHand
<1>2. \A d : z \in OwnBlocks(t, d)' <=>
        InHand(held'[t], arena', d, z) \/ (mpc'[t] = "put" /\ call'[t].desc = d /\ z = block'[t])
  BY DEF OwnBlocks, InHand
<1>3. z \in HeldBlocks(t) <=> Given(held[t], z)
  BY DEF HeldBlocks, Given
<1>4. z \in HeldBlocks(t)' <=> Given(held'[t], z)
  BY DEF HeldBlocks, Given
<1> QED BY <1>1, <1>2, <1>3, <1>4

\* A block a thread was given is on the page of an arena.
LEMMA HeldPlace ==
  ASSUME MemoryInv, NEW t \in Thread, NEW x \in held[t], x[1] = "block"
  PROVE  x[2] \in ArenaPages /\ x[2] \in Page /\ arena[x[2]].desc \in Desc
<1>1. Shared /\ Control(t) /\ BlocksOf(t)
  BY Here DEF MemoryInv, BlockInv
<1>2. x[2] \in Page
  BY <1>1 DEF Control, Holding
<1>3. arena[x[2]] \in Header
  BY <1>1, <1>2 DEF Shared
<1>4. arena[x[2]].desc \in Desc
  BY <1>1, <1>3 DEF Header, BlocksOf
<1>5. PICK z : z = <<x[2], x[3]>>
  OBVIOUS
<1>a. InHand(held[t], arena, arena[x[2]].desc, z)
  BY <1>5 DEF InHand
<1>6. z \in OwnBlocks(t, arena[x[2]].desc)
  BY <1>a, OwnBlocksAre
<1>7. z[1] = x[2]
  BY <1>5, SMT
<1> QED BY <1>2, <1>4, <1>6, <1>7, ListBlock, BlockPlace

\* A thread keeps its blocks when it neither gets nor puts one, and no arena in
\* use changes its descriptor.
LEMMA OwnSame ==
  ASSUME MemoryInv, NEW u \in Thread, \A i \in ArenaPages : arena'[i].desc = arena[i].desc,
         \A x : x[1] = "block" => (x \in held'[u] <=> x \in held[u]),
         mpc'[u] = "put" <=> mpc[u] = "put",
         mpc[u] = "put" => call'[u] = call[u] /\ block'[u] = block[u]
  PROVE  /\ \A d \in Desc : OwnBlocks(u, d)' = OwnBlocks(u, d)
         /\ \A x \in held'[u] : x[1] = "block" => arena'[x[2]].desc # Nothing
         /\ mpc'[u] = "put" => block'[u] \notin HeldBlocks(u)'
<1>1. BlocksOf(u)
  BY DEF MemoryInv, BlockInv
<1>2. \A x \in held'[u] : x[1] = "block" => x \in held[u] /\ arena'[x[2]].desc = arena[x[2]].desc
  BY HeldPlace
<1>3. \A x \in held[u] : x[1] = "block" => x \in held'[u] /\ arena'[x[2]].desc = arena[x[2]].desc
  BY HeldPlace
<1>4. ASSUME NEW d \in Desc, NEW z PROVE z \in OwnBlocks(u, d)' <=> z \in OwnBlocks(u, d)
  <2>1. InHand(held'[u], arena', d, z) <=> InHand(held[u], arena, d, z)
    BY <1>2, <1>3 DEF InHand
  <2>2. mpc'[u] = "put" /\ call'[u].desc = d /\ z = block'[u] <=>
        mpc[u] = "put" /\ call[u].desc = d /\ z = block[u]
    OBVIOUS
  <2>3. z \in OwnBlocks(u, d) <=>
        InHand(held[u], arena, d, z) \/ (mpc[u] = "put" /\ call[u].desc = d /\ z = block[u])
    BY OwnBlocksAre
  <2>4. z \in OwnBlocks(u, d)' <=>
        InHand(held'[u], arena', d, z) \/ (mpc'[u] = "put" /\ call'[u].desc = d /\ z = block'[u])
    BY OwnBlocksAre
  <2> QED BY <2>1, <2>2, <2>3, <2>4
<1>5. \A d \in Desc : OwnBlocks(u, d)' = OwnBlocks(u, d)
  BY <1>4
<1>6. ASSUME NEW z PROVE z \in HeldBlocks(u)' <=> z \in HeldBlocks(u)
  <2>1. Given(held'[u], z) <=> Given(held[u], z)
    BY DEF Given
  <2> QED BY <2>1, OwnBlocksAre
<1>7. \A x \in held'[u] : x[1] = "block" => arena'[x[2]].desc # Nothing
  BY <1>1, <1>2 DEF BlocksOf
<1>8. mpc'[u] = "put" => block'[u] \notin HeldBlocks(u)'
  BY <1>1, <1>6 DEF BlocksOf
<1> QED BY <1>5, <1>7, <1>8

\* A step of t changes nothing about the blocks of another thread.
LEMMA OtherBlocks ==
  ASSUME MemoryInv, NEW t \in Thread, Frame(t), NEW u \in Thread, u # t,
         \A i \in ArenaPages : arena'[i].desc = arena[i].desc
  PROVE  BlocksOf(u)' /\ \A d \in Desc : OwnBlocks(u, d)' = OwnBlocks(u, d)
<1>1. /\ mpc'[u] = mpc[u] /\ call'[u] = call[u] /\ block'[u] = block[u] /\ held'[u] = held[u]
      /\ \A d \in Desc : desc_lock[d] \notin {t, Nothing} => free_list'[d] = free_list[d]
  BY DEF Frame
<1>2. Locks(u) /\ Calling(u) /\ BlocksOf(u) /\ u # Nothing
  BY Here DEF MemoryInv, BlockInv
<1>3. /\ \A d \in Desc : OwnBlocks(u, d)' = OwnBlocks(u, d)
      /\ \A x \in held'[u] : x[1] = "block" => arena'[x[2]].desc # Nothing
      /\ mpc'[u] = "put" => block'[u] \notin HeldBlocks(u)'
  BY <1>1, OwnSame
<1>4. ASSUME mpc'[u] \in {"get", "scan", "flip", "unlock", "arena"}, call'[u].kind = "block"
      PROVE  free_list'[call'[u].desc] = <<>>
  <2>1. PICK d \in Desc : d = call[u].desc /\ call[u] = Small(d)
    BY <1>1, <1>2, <1>4, KindOf
  <2>2. desc_lock[d] = u
    BY <1>1, <1>2, <1>4, <2>1 DEF Locks
  <2>3. free_list'[d] = free_list[d]
    BY <1>1, <1>2, <2>2
  <2>4. free_list[d] = <<>>
    BY <1>1, <1>2, <1>4, <2>1 DEF BlocksOf
  <2> QED BY <1>1, <2>1, <2>3, <2>4
<1> QED BY <1>3, <1>4 DEF BlocksOf

\* A descriptor whose list, blocks and arenas stay as they are.
LEMMA DescSame ==
  ASSUME NEW d \in Desc, OneBlockOwner(d), Counted(d), free_list'[d] = free_list[d],
         \A u \in Thread : OwnBlocks(u, d)' = OwnBlocks(u, d),
         Arenas(d)' = Arenas(d), \A a \in Arenas(d) : arena'[a].free_cnt = arena[a].free_cnt,
         \A u \in Thread : mpc[u] = "pop" /\ call[u] = Small(d) => mpc'[u] = "pop" /\ call'[u] = Small(d)
  PROVE  OneBlockOwner(d)' /\ Counted(d)'
<1>1. AllBlocks(d)' = AllBlocks(d)
  BY DEF AllBlocks, ArenaBlocks
<1>2. UNION {OwnBlocks(u, d)' : u \in Thread} = UNION {OwnBlocks(u, d) : u \in Thread}
  OBVIOUS
<1>3. OneBlockOwner(d)'
  <2>1. /\ IsInjective(free_list'[d])
        /\ \A u \in Thread : Range(free_list'[d]) \cap OwnBlocks(u, d)' = {}
    BY DEF OneBlockOwner
  <2>2. Range(free_list'[d]) \cup UNION {OwnBlocks(u, d)' : u \in Thread} = AllBlocks(d)'
    BY <1>1, <1>2 DEF OneBlockOwner
  <2>3. \A u, v \in Thread : u # v => OwnBlocks(u, d)' \cap OwnBlocks(v, d)' = {}
    BY DEF OneBlockOwner
  <2> QED BY <2>1, <2>2, <2>3 DEF OneBlockOwner
<1>4. ASSUME NEW a \in Arenas(d)'
      PROVE  /\ arena'[a].free_cnt = Cardinality(Range(free_list'[d]) \cap ArenaBlocks(d, a))
             /\ arena'[a].free_cnt < blocks_per_arena[d] \/ Popping(d, a)'
  <2>1. /\ arena'[a].free_cnt = Cardinality(Range(free_list'[d]) \cap ArenaBlocks(d, a))
        /\ arena'[a].free_cnt < blocks_per_arena[d] \/ Popping(d, a)
    BY DEF Counted
  <2>2. Popping(d, a) => Popping(d, a)'
    BY DEF Popping
  <2> QED BY <2>1, <2>2
<1>5. Counted(d)'
  BY <1>4 DEF Counted, ArenaBlocks
<1> QED BY <1>3, <1>5

\* The arenas of one descriptor.
LEMMA ArenasOf ==
  ASSUME NEW d \in Desc, NEW i
  PROVE  /\ i \in Arenas(d) <=> i \in ArenaPages /\ arena[i].desc = d
         /\ i \in Arenas(d)' <=> i \in ArenaPages' /\ arena'[i].desc = d
BY ArenaPagesAre

\* Most steps neither move a block nor touch an arena in use.
LEMMA QuietBlocks ==
  ASSUME MemoryInv, NEW t \in Thread, Frame(t), free_list' = free_list,
         ArenaPages' = ArenaPages, \A i \in ArenaPages : arena'[i] = arena[i],
         \A x : x[1] = "block" => (x \in held'[t] <=> x \in held[t]),
         mpc[t] \notin {"put", "pop"}, mpc'[t] # "put",
         mpc'[t] \in {"get", "scan", "flip", "unlock", "arena"} /\ call'[t].kind = "block" =>
           free_list[call'[t].desc] = <<>>
  PROVE  BlockInv'
<1>1. \A i \in ArenaPages : arena'[i].desc = arena[i].desc
  OBVIOUS
<1>2. \A u \in Thread : u # t => BlocksOf(u)' /\ \A d \in Desc : OwnBlocks(u, d)' = OwnBlocks(u, d)
  BY <1>1, OtherBlocks
<1>3. /\ \A d \in Desc : OwnBlocks(t, d)' = OwnBlocks(t, d)
      /\ \A x \in held'[t] : x[1] = "block" => arena'[x[2]].desc # Nothing
      /\ mpc'[t] = "put" => block'[t] \notin HeldBlocks(t)'
  BY <1>1, OwnSame
<1>4. BlocksOf(t)'
  BY <1>3 DEF BlocksOf
<1>5. ASSUME NEW d \in Desc PROVE OneBlockOwner(d)' /\ Counted(d)'
  <2>1. OneBlockOwner(d) /\ Counted(d)
    BY DEF MemoryInv, BlockInv
  <2>2. \A i : i \in Arenas(d)' <=> i \in Arenas(d)
    BY <1>1, ArenasOf
  <2>3. Arenas(d)' = Arenas(d) /\ \A a \in Arenas(d) : arena'[a].free_cnt = arena[a].free_cnt
    BY <2>2, ArenasOf
  <2>4. \A u \in Thread : mpc[u] = "pop" /\ call[u] = Small(d) => mpc'[u] = "pop" /\ call'[u] = Small(d)
    BY DEF Frame
  <2>5. \A u \in Thread : OwnBlocks(u, d)' = OwnBlocks(u, d)
    BY <1>2, <1>3
  <2>6. free_list'[d] = free_list[d]
    OBVIOUS
  <2> QED BY <2>1, <2>3, <2>4, <2>5, <2>6, DescSame
<1>6. (\A u \in Thread : BlocksOf(u)') /\ \A d \in Desc : OneBlockOwner(d)' /\ Counted(d)'
  BY <1>2, <1>4, <1>5
<1> QED BY <1>6 DEF BlockInv

\* A step that leaves every header and every page to give back as it is.
LEMMA SameArenas ==
  ASSUME arena' = arena, left' = left
  PROVE  ArenaPages' = ArenaPages /\ \A i \in ArenaPages : arena'[i] = arena[i]
<1>1. \A i : i \in ArenaPages' <=> i \in ArenaPages
  BY ArenaPagesAre
<1> QED BY <1>1

\* Calls begin, locks are taken, pages are found, marked or not, and the call
\* returns without a block.
LEMMA CallBlocks ==
  ASSUME MemoryInv, NEW t \in Thread, Frame(t),
         \/ malloc_lock(t) \/ get_lock(t) \/ scan_none(t) \/ (\E i : scan_found(t, i)) \/ get_flip(t)
         \/ unlock_arena(t) \/ unlock_none(t) \/ free_return(t)
         \/ (\E d \in Desc : malloc(t, d)) \/ (\E n \in BigCounts : malloc_big(t, n))
         \/ (\E n \in PageCounts, p \in Pool : palloc_get_multiple(t, p, n))
  PROVE  BlockInv'
<1>1. Local /\ Shared /\ Calling(t) /\ BlocksOf(t)
  BY Here DEF MemoryInv, BlockInv
<1>2. arena' = arena /\ left' = left /\ held' = held /\ free_list' = free_list
  BY DEF malloc_lock, get_lock, scan_none, scan_found, get_flip, unlock_arena, unlock_none, free_return,
         malloc, malloc_big, palloc_get_multiple
<1>3. ArenaPages' = ArenaPages /\ \A i \in ArenaPages : arena'[i] = arena[i]
  BY <1>2, SameArenas
<1>4. mpc[t] \notin {"put", "pop"}
  BY DEF malloc_lock, get_lock, scan_none, scan_found, get_flip, unlock_arena, unlock_none, free_return,
         malloc, malloc_big, palloc_get_multiple, At
<1>5. /\ mpc'[t] # "put"
      /\ mpc'[t] \in {"get", "scan", "flip", "unlock", "arena"} /\ call'[t].kind = "block" =>
           free_list[call'[t].desc] = <<>>
  <2>1. CASE malloc_lock(t)
    <3>1. /\ mpc'[t] = IF free_list[call[t].desc] = <<>> THEN "get" ELSE "pop"
          /\ call' = call
      BY <1>1, <2>1 DEF malloc_lock, Move, Local
    <3> QED BY <3>1
  <2>2. CASE get_lock(t) \/ scan_none(t) \/ (\E i : scan_found(t, i)) \/ get_flip(t) \/ unlock_arena(t)
    <3>1. /\ mpc[t] \in {"get", "scan", "flip", "unlock"} /\ call' = call
          /\ mpc'[t] \in {"scan", "flip", "unlock", "arena"}
      BY <1>1, <2>2 DEF get_lock, scan_none, scan_found, get_flip, unlock_arena, Move, Local, At
    <3> QED BY <1>1, <3>1 DEF BlocksOf
  <2>3. CASE unlock_none(t) \/ free_return(t)
    <3>1. mpc'[t] = "idle"
      BY <1>1, <2>3 DEF unlock_none, free_return, Finish, Move, Local
    <3> QED BY <3>1
  <2>4. CASE \E d \in Desc : malloc(t, d)
    <3>1. mpc'[t] = "desc"
      BY <1>1, <2>4 DEF malloc, Move, Local
    <3> QED BY <3>1
  <2>5. CASE \E n \in BigCounts : malloc_big(t, n)
    <3>1. PICK n : mpc'[t] = "get" /\ call'[t] = Big(n)
      BY <1>1, <2>5 DEF malloc_big, Move, Local
    <3>2. call'[t].kind = "big"
      BY <3>1, Requests, SMT
    <3> QED BY <3>1, <3>2
  <2>6. CASE \E n \in PageCounts, p \in Pool : palloc_get_multiple(t, p, n)
    <3>1. PICK n, p : mpc'[t] = "get" /\ call'[t] = Pages(p, n)
      BY <1>1, <2>6 DEF palloc_get_multiple, Move, Local
    <3>2. call'[t].kind = "pages"
      BY <3>1, Requests, SMT
    <3> QED BY <3>1, <3>2
  <2> QED BY <2>1, <2>2, <2>3, <2>4, <2>5, <2>6
<1> QED BY <1>2, <1>3, <1>4, <1>5, QuietBlocks

\* Pages are returned, given up, or cleared.
LEMMA ReturnBlocks ==
  ASSUME MemoryInv, NEW t \in Thread, Frame(t), unlock_pages(t),
         ArenaPages' = ArenaPages, \A i \in ArenaPages : arena'[i] = arena[i]
  PROVE  BlockInv'
<1>1. Local
  BY Here DEF MemoryInv
<1>2. /\ mpc[t] = "unlock" /\ mpc'[t] = "idle" /\ free_list' = free_list /\ call[t].kind # "block"
      /\ held'[t] = held[t] \cup {<<call[t].kind, page[t], call[t].n>>}
  BY <1>1 DEF unlock_pages, At, Finish, Move, Local
<1>3. PICK k, a, n : k = call[t].kind /\ a = page[t] /\ n = call[t].n
  OBVIOUS
<1>4. PICK z : z = <<k, a, n>>
  OBVIOUS
<1>5. z[1] = k
  BY <1>4
<1>6. \A x : x[1] = "block" => (x \in held'[t] <=> x \in held[t])
  BY <1>2, <1>3, <1>4, <1>5
<1> QED BY <1>2, <1>6, QuietBlocks

\* free() of a group of pages begins: no block is touched.
LEMMA FreeGroupBlocks ==
  ASSUME MemoryInv, NEW t \in Thread, Frame(t), NEW x, free_group(t, x), ArenaPages' = ArenaPages
  PROVE  BlockInv'
<1>1. Local
  BY Here DEF MemoryInv
<1>2. /\ mpc[t] = "idle" /\ mpc'[t] = "clear" /\ free_list' = free_list /\ arena' = arena
      /\ x \in Groups(t) /\ held'[t] = held[t] \ {x}
  BY <1>1 DEF free_group, Local
<1>3. x[1] # "block"
  BY <1>2 DEF Groups
<1> QED BY <1>2, <1>3, QuietBlocks

\* The bits of a freed group are reset: no block is touched.
LEMMA ClearBlocks ==
  ASSUME MemoryInv, NEW t \in Thread, Frame(t), NEW i, clear_one(t, i), ArenaPages' = ArenaPages
  PROVE  BlockInv'
<1>1. /\ mpc[t] = "clear" /\ mpc' = mpc /\ free_list' = free_list /\ held' = held
      /\ arena' = [j \in Page |-> IF j \in left[t] THEN NoArena ELSE arena[j]]
  BY DEF clear_one, At
<1>2. \A j \in ArenaPages : j \in Page /\ j \notin left[t]
  BY ArenaPagesAre
<1>3. \A j \in ArenaPages : arena'[j] = arena[j]
  BY <1>1, <1>2
<1> QED BY <1>1, <1>3, QuietBlocks

\* free() takes a block from the caller, to put it back.
LEMMA FreeBlockBlocks ==
  ASSUME MemoryInv, NEW t \in Thread, Frame(t), NEW x, free_block(t, x)
  PROVE  BlockInv'
<1>1. Local /\ Shared /\ Control(t) /\ PagesOf(t) /\ BlocksOf(t)
  BY Here DEF MemoryInv, PageInv, BlockInv
<1>2. PICK d \in Desc : d = arena[x[2]].desc
  BY DEF free_block
<1>3. /\ mpc[t] = "idle" /\ mpc'[t] = "put" /\ free_list' = free_list /\ arena' = arena
      /\ x \in held[t] /\ x[1] = "block" /\ held'[t] = held[t] \ {x} /\ left'[t] = {} /\ left[t] = {}
      /\ call'[t] = Small(d) /\ block'[t] = <<x[2], x[3]>>
  BY <1>1, <1>2 DEF free_block, Local, PagesOf
<1>4. call'[t].desc = d
  BY <1>3, Requests
<1>5. \A u \in Thread : left'[u] = left[u]
  BY <1>3 DEF Frame
<1>6. \A i : i \in ArenaPages' <=> i \in ArenaPages
  BY <1>3, <1>5, ArenaPagesAre
<1>7. \A u \in Thread : u # t => BlocksOf(u)' /\ \A e \in Desc : OwnBlocks(u, e)' = OwnBlocks(u, e)
  BY <1>3, OtherBlocks
<1>8. ASSUME NEW e \in Desc PROVE OwnBlocks(t, e)' = OwnBlocks(t, e)
  <2>1. ASSUME NEW z PROVE z \in OwnBlocks(t, e)' <=> z \in OwnBlocks(t, e)
    <3>1. InHand(held[t], arena, e, z) <=>
            InHand(held'[t], arena', e, z) \/ (d = e /\ z = <<x[2], x[3]>>)
      BY <1>2, <1>3 DEF InHand
    <3>2. z \in OwnBlocks(t, e) <=> InHand(held[t], arena, e, z)
      BY <1>3, OwnBlocksAre
    <3>3. z \in OwnBlocks(t, e)' <=> InHand(held'[t], arena', e, z) \/ (d = e /\ z = block'[t])
      BY <1>3, <1>4, OwnBlocksAre
    <3> QED BY <1>3, <3>1, <3>2, <3>3
  <2> QED BY <2>1
<1>9. BlocksOf(t)'
  <2>1. \A y \in held'[t] : y[1] = "block" => arena'[y[2]].desc # Nothing
    BY <1>1, <1>3 DEF BlocksOf
  <2>2. block'[t] \notin HeldBlocks(t)'
    <3>a. block'[t] \in HeldBlocks(t)' <=> Given(held'[t], block'[t])
      BY OwnBlocksAre
    <3>1. SUFFICES ASSUME Given(held'[t], <<x[2], x[3]>>) PROVE FALSE
      BY <1>3, <3>a
    <3>2. PICK y \in held'[t] : y[1] = "block" /\ <<x[2], x[3]>> = <<y[2], y[3]>>
      BY <3>1 DEF Given
    <3>3. y \in Holding /\ x \in Holding /\ x # y
      BY <1>1, <1>3 DEF Control
    <3>4. x[2] = y[2] /\ x[3] = y[3]
      BY <3>2, SMT
    <3>5. x = <<x[1], x[2], x[3]>> /\ y = <<y[1], y[2], y[3]>>
      BY <3>3, SMT DEF Holding
    <3> QED BY <1>3, <3>2, <3>3, <3>4, <3>5
  <2> QED BY <1>3, <2>1, <2>2 DEF BlocksOf
<1>10. ASSUME NEW e \in Desc PROVE OneBlockOwner(e)' /\ Counted(e)'
  <2>1. OneBlockOwner(e) /\ Counted(e)
    BY DEF MemoryInv, BlockInv
  <2>2. \A i : i \in Arenas(e)' <=> i \in Arenas(e)
    BY <1>3, <1>6, ArenasOf
  <2>3. Arenas(e)' = Arenas(e)
    BY <2>2
  <2>4. \A u \in Thread : mpc[u] = "pop" /\ call[u] = Small(e) => mpc'[u] = "pop" /\ call'[u] = Small(e)
    BY <1>3 DEF Frame
  <2>5. \A u \in Thread : OwnBlocks(u, e)' = OwnBlocks(u, e)
    BY <1>7, <1>8
  <2>6. free_list'[e] = free_list[e] /\ \A a \in Arenas(e) : arena'[a].free_cnt = arena[a].free_cnt
    BY <1>3
  <2> QED BY <2>1, <2>3, <2>4, <2>5, <2>6, DescSame
<1>11. (\A u \in Thread : BlocksOf(u)') /\ \A e \in Desc : OneBlockOwner(e)' /\ Counted(e)'
  BY <1>7, <1>9, <1>10
<1> QED BY <1>11 DEF BlockInv

\* A block, or the blocks of an arena, move.
LEMMA BlocksMove ==
  ASSUME NEW d \in Desc, NEW t \in Thread, OneBlockOwner(d), IsInjective(free_list'[d]),
         \A u \in Thread : u # t => OwnBlocks(u, d)' = OwnBlocks(u, d), NEW b, NEW G,
         Moves(Range(free_list[d]), Range(free_list'[d]), OwnBlocks(t, d), OwnBlocks(t, d)',
               AllBlocks(d), AllBlocks(d)', b, G)
  PROVE  OneBlockOwner(d)'
<1>1. PICK O : O = [u \in Thread |-> OwnBlocks(u, d)]
  OBVIOUS
<1>2. PICK P : P = [u \in Thread |-> OwnBlocks(u, d)']
  OBVIOUS
<1>3. PICK A, B : A = AllBlocks(d) /\ B = AllBlocks(d)'
  OBVIOUS
<1>4. PICK R, S : R = Range(free_list[d]) /\ S = Range(free_list'[d])
  OBVIOUS
<1>5. (\A u \in Thread : O[u] = OwnBlocks(u, d)) /\ (\A u \in Thread : P[u] = OwnBlocks(u, d)')
  BY <1>1, <1>2
<1>6. Cover(Thread, O, R, A)
  <2>1. {O[u] : u \in Thread} = {OwnBlocks(u, d) : u \in Thread}
    BY <1>5
  <2>2. R \cup UNION {O[u] : u \in Thread} = A
    BY <1>3, <1>4, <2>1 DEF OneBlockOwner
  <2>3. /\ \A u, v \in Thread : u # v => O[u] \cap O[v] = {}
        /\ \A u \in Thread : R \cap O[u] = {}
    BY <1>4, <1>5 DEF OneBlockOwner
  <2> QED BY <2>2, <2>3 DEF Cover
<1>7. \A u \in Thread : u # t => P[u] = O[u]
  BY <1>5
<1>8. Moves(R, S, O[t], P[t], A, B, b, G)
  BY <1>3, <1>4, <1>5
<1>9. Cover(Thread, P, S, B)
  BY <1>6, <1>7, <1>8, SetsMove
<1>10. S \cup UNION {OwnBlocks(u, d)' : u \in Thread} = AllBlocks(d)'
  <2>1. {P[u] : u \in Thread} = {OwnBlocks(u, d)' : u \in Thread}
    BY <1>5
  <2> QED BY <1>3, <1>9, <2>1 DEF Cover
<1>11. /\ \A u, v \in Thread : u # v => OwnBlocks(u, d)' \cap OwnBlocks(v, d)' = {}
       /\ \A u \in Thread : S \cap OwnBlocks(u, d)' = {}
  BY <1>5, <1>9 DEF Cover
<1> QED BY <1>4, <1>10, <1>11 DEF OneBlockOwner

\* A step on one descriptor and one of its arenas leaves the others alone.
OnlyArena(d, a) ==
  /\ \A i \in Page : i # a => arena'[i] = arena[i]
  /\ \A i : i # a => (i \in ArenaPages' <=> i \in ArenaPages)
  /\ a \in ArenaPages => arena[a].desc = d
  /\ a \in ArenaPages' => arena'[a].desc = d

\* A step on one descriptor leaves the others right.
LEMMA OtherDesc ==
  ASSUME MemoryInv, NEW t \in Thread, Frame(t), NEW d \in Desc, NEW e \in Desc, e # d,
         call[t] = Small(d), free_list'[e] = free_list[e],
         \A u \in Thread : OwnBlocks(u, e)' = OwnBlocks(u, e), NEW a, OnlyArena(d, a)
  PROVE  OneBlockOwner(e)' /\ Counted(e)'
<1>1. OneBlockOwner(e) /\ Counted(e)
  BY DEF MemoryInv, BlockInv
<1>2. a \notin Arenas(e) /\ a \notin Arenas(e)'
  BY ArenasOf DEF OnlyArena
<1>3. \A i : i # a => (i \in Arenas(e)' <=> i \in Arenas(e))
  <2>1. ArenaPages \subseteq Page
    BY ArenaPagesAre
  <2>2. ASSUME NEW i, i # a PROVE i \in Arenas(e)' <=> i \in Arenas(e)
    <3>1. i \in ArenaPages => arena'[i] = arena[i]
      BY <2>1, <2>2 DEF OnlyArena
    <3>2. i \in ArenaPages' <=> i \in ArenaPages
      BY <2>2 DEF OnlyArena
    <3>3. /\ i \in Arenas(e) <=> i \in ArenaPages /\ arena[i].desc = e
          /\ i \in Arenas(e)' <=> i \in ArenaPages' /\ arena'[i].desc = e
      BY ArenasOf
    <3> QED BY <3>1, <3>2, <3>3
  <2> QED BY <2>2
<1>a. ASSUME NEW i PROVE i \in Arenas(e)' <=> i \in Arenas(e)
  <2>1. CASE i = a
    BY <1>2, <2>1
  <2>2. CASE i # a
    BY <1>3, <2>2
  <2> QED BY <2>1, <2>2
<1>4. Arenas(e)' = Arenas(e)
  BY <1>a
<1>5. \A i \in Arenas(e) : arena'[i].free_cnt = arena[i].free_cnt
  <2>1. Arenas(e) \subseteq Page
    BY DEF Arenas
  <2> QED BY <1>2, <2>1 DEF OnlyArena
<1>6. \A u \in Thread : mpc[u] = "pop" /\ call[u] = Small(e) => mpc'[u] = "pop" /\ call'[u] = Small(e)
  <2>1. call[t] # Small(e)
    BY SmallOnce
  <2> QED BY <2>1 DEF Frame
<1> QED BY <1>1, <1>4, <1>5, <1>6, DescSame

\* What a step changes of the blocks of the thread that takes it, when it keeps
\* every arena's descriptor.
LEMMA HandSame ==
  ASSUME MemoryInv, NEW t \in Thread, \A i \in ArenaPages : arena'[i].desc = arena[i].desc, NEW e, NEW z
  PROVE  InHand(held[t], arena', e, z) <=> InHand(held[t], arena, e, z)
<1>1. \A x \in held[t] : x[1] = "block" => arena'[x[2]].desc = arena[x[2]].desc
  BY HeldPlace
<1> QED BY <1>1 DEF InHand

Added(h, g, r, y, d, b) ==
  g = h \cup {y} /\ y[1] = "block" /\ r[y[2]].desc = d /\ b = <<y[2], y[3]>>

\* The block that malloc() returns is in hand, and no other is new.
LEMMA HandAdd ==
  ASSUME NEW h, NEW g, NEW r, NEW y, NEW d, NEW b, Added(h, g, r, y, d, b), NEW e, NEW z
  PROVE  InHand(g, r, e, z) <=> InHand(h, r, e, z) \/ (e = d /\ z = b)
BY DEF InHand, Added

\* malloc() takes the first block of the free list.
LEMMA PopBlocks ==
  ASSUME FiniteFacts, MemoryInv, NEW t \in Thread, Frame(t), malloc_pop(t)
  PROVE  BlockInv'
<1>1. Shared /\ Local /\ Control(t) /\ Calling(t) /\ BlocksOf(t)
  BY Here DEF MemoryInv, BlockInv
<1>2. PICK d \in Desc : /\ d = call[t].desc /\ call[t] = Small(d) /\ mpc[t] = "pop"
                        /\ free_list[d] \in Seq(Block) /\ free_list[d] # <<>>
                        /\ Head(free_list[d]) \in AllBlocks(d)
  BY HeadBlock
<1>3. PICK b \in AllBlocks(d) : b = Head(free_list[d])
  BY <1>2
<1>4. PICK a \in Page : /\ a = b[1] /\ a \in Arenas(d) /\ b \in ArenaBlocks(d, a)
                        /\ a \in ArenaPages /\ arena[a].desc = d
  BY <1>3, BlockPlace
<1>5. b = <<b[1], b[2]>>
  <2>1. PICK i \in 0..(blocks_per_arena[d] - 1) : b = <<a, i>>
    BY <1>4 DEF ArenaBlocks
  <2> QED BY <2>1, SMT
<1>6. /\ mpc'[t] = "idle" /\ held'[t] = held[t] \cup {<<"block", a, b[2]>>} /\ left' = left
      /\ free_list'[d] = Tail(free_list[d]) /\ (\A e \in Desc : e # d => free_list'[e] = free_list[e])
      /\ arena' = [arena EXCEPT ![a].free_cnt = arena[a].free_cnt - 1]
  BY <1>1, <1>2, <1>3, <1>4 DEF malloc_pop, Finish, Move, Local, Shared
<1>7. arena[a].free_cnt \in Int /\ arena[a].free_cnt - 1 \in Int
  <2>1. arena[a].free_cnt \in Int
    BY <1>1, <1>4, SMT DEF Shared, Header
  <2> QED BY <2>1, SMT
<1>8. /\ arena'[a].desc = d /\ arena'[a].free_cnt = arena[a].free_cnt - 1
      /\ \A i \in Page : i # a => arena'[i] = arena[i]
  BY <1>1, <1>4, <1>6, <1>7, HeaderCount DEF Shared
<1>9. \A i \in Page : arena'[i].desc = arena[i].desc
  BY <1>4, <1>8
<1>10. ArenaPages \subseteq Page /\ \A i \in ArenaPages : arena'[i].desc = arena[i].desc
  BY <1>9, ArenaPagesAre
<1>11. \A i : i \in ArenaPages' <=> i \in ArenaPages
  BY <1>6, <1>9, ArenaPagesAre
<1>12. \A u \in Thread : u # t => BlocksOf(u)' /\ \A e \in Desc : OwnBlocks(u, e)' = OwnBlocks(u, e)
  BY <1>10, OtherBlocks
<1>13. PICK y : y = <<"block", a, b[2]>> /\ y[1] = "block" /\ y[2] = a /\ y[3] = b[2]
  <2>1. PICK j : j = b[2]
    OBVIOUS
  <2>2. PICK y : y = <<"block", a, j>>
    OBVIOUS
  <2>3. y[1] = "block" /\ y[2] = a /\ y[3] = j
    BY <2>2
  <2> QED BY <2>1, <2>2, <2>3
<1>14. ASSUME NEW e \in Desc, NEW z
       PROVE  z \in OwnBlocks(t, e)' <=> z \in OwnBlocks(t, e) \/ (e = d /\ z = b)
  <2>1. InHand(held'[t], arena', e, z) <=> InHand(held[t], arena', e, z) \/ (e = d /\ z = b)
    <3>1. Added(held[t], held'[t], arena', y, d, b)
      BY <1>4, <1>5, <1>6, <1>8, <1>13 DEF Added
    <3> QED BY <3>1, HandAdd, SMT
  <2>2. InHand(held[t], arena', e, z) <=> InHand(held[t], arena, e, z)
    BY <1>10, HandSame
  <2>3. z \in OwnBlocks(t, e) <=> InHand(held[t], arena, e, z)
    BY <1>2, OwnBlocksAre
  <2>4. z \in OwnBlocks(t, e)' <=> InHand(held'[t], arena', e, z)
    BY <1>6, OwnBlocksAre
  <2> QED BY <2>1, <2>2, <2>3, <2>4
<1>15. ASSUME NEW e \in Desc, e # d PROVE OneBlockOwner(e)' /\ Counted(e)'
  <2>1. OwnBlocks(t, e)' = OwnBlocks(t, e)
    BY <1>14, <1>15
  <2>2. \A u \in Thread : OwnBlocks(u, e)' = OwnBlocks(u, e)
    BY <1>12, <2>1
  <2>3. free_list'[e] = free_list[e]
    BY <1>6, <1>15
  <2>4. OnlyArena(d, a)
    BY <1>4, <1>8, <1>11 DEF OnlyArena
  <2> QED BY <1>2, <1>15, <2>2, <2>3, <2>4, OtherDesc
<1>16. OneBlockOwner(d) /\ Counted(d)
  BY DEF MemoryInv, BlockInv
<1>17. /\ Range(free_list'[d]) = Range(free_list[d]) \ {b} /\ b \in Range(free_list[d])
       /\ IsInjective(free_list'[d])
  <2>1. PICK s \in Seq(Block) : s = free_list[d] /\ s # <<>> /\ IsInjective(s)
    BY <1>2, <1>16 DEF OneBlockOwner
  <2>2. Range(Tail(s)) = Range(s) \ {Head(s)} /\ IsInjective(Tail(s))
    BY <2>1, ListPop
  <2>3. Head(s) = s[1] /\ 1 \in DOMAIN s
    BY <2>1, SMT
  <2>4. Head(s) \in Range(s)
    BY <2>3 DEF Range
  <2> QED BY <1>3, <1>6, <2>1, <2>2, <2>4
<1>18. Arenas(d)' = Arenas(d) /\ AllBlocks(d)' = AllBlocks(d)
  <2>1. \A i : i \in Arenas(d)' <=> i \in Arenas(d)
    BY <1>10, <1>11, ArenasOf
  <2>2. Arenas(d)' = Arenas(d)
    BY <2>1
  <2> QED BY <2>2 DEF AllBlocks, ArenaBlocks
<1>19. OneBlockOwner(d)'
  <2>1. OwnBlocks(t, d)' = OwnBlocks(t, d) \cup {b}
    BY <1>14
  <2>2. Moves(Range(free_list[d]), Range(free_list'[d]), OwnBlocks(t, d), OwnBlocks(t, d)',
              AllBlocks(d), AllBlocks(d)', b, {})
    BY <1>17, <1>18, <2>1 DEF Moves, Take
  <2> QED BY <1>12, <1>16, <1>17, <2>2, BlocksMove
<1>20. ASSUME NEW c \in Arenas(d)
       PROVE  /\ arena'[c].free_cnt = Cardinality(Range(free_list'[d]) \cap ArenaBlocks(d, c))
              /\ arena'[c].free_cnt < blocks_per_arena[d]
  <2>1. /\ arena[c].free_cnt = Cardinality(Range(free_list[d]) \cap ArenaBlocks(d, c))
        /\ arena[c].free_cnt < blocks_per_arena[d] \/ Popping(d, c)
    BY <1>16 DEF Counted
  <2>2. CASE c = a
    <3>1. PICK R : R = Range(free_list[d]) /\ b \in R /\ b \in ArenaBlocks(d, a)
      BY <1>4, <1>17
    <3>2. /\ Count(d, a, R) \in Nat /\ Count(d, a, R) <= blocks_per_arena[d]
          /\ Count(d, a, R \ {b}) = Count(d, a, R) - 1
      BY <3>1, CountTake
    <3>3. arena[a].free_cnt = Count(d, a, R)
      BY <2>1, <2>2, <3>1 DEF Count
    <3>4. PICK n, m : n = Count(d, a, R) /\ m = blocks_per_arena[d] /\ n \in Nat /\ m \in Nat /\ n <= m
      BY <3>2, ArenaCount
    <3>5. n - 1 < m
      BY <3>4, SMT
    <3>6. arena'[c].free_cnt < blocks_per_arena[d]
      BY <1>8, <2>2, <3>3, <3>4, <3>5
    <3>7. arena'[c].free_cnt = Count(d, a, R \ {b})
      BY <1>8, <2>2, <3>2, <3>3
    <3> QED BY <1>17, <2>2, <3>1, <3>6, <3>7 DEF Count
  <2>3. CASE c # a
    <3>1. c \in Page
      BY DEF Arenas
    <3>2. arena'[c] = arena[c]
      BY <1>8, <2>3, <3>1
    <3>3. b \notin ArenaBlocks(d, c)
      BY <1>4, <2>3, ArenaCount
    <3>4. Range(free_list'[d]) \cap ArenaBlocks(d, c) = Range(free_list[d]) \cap ArenaBlocks(d, c)
      BY <1>17, <3>3
    <3>5. ~Popping(d, c)
      BY <1>3, <1>4, <2>3 DEF Popping
    <3> QED BY <2>1, <3>2, <3>4, <3>5
  <2> QED BY <2>2, <2>3
<1>21. Counted(d)'
  BY <1>18, <1>20 DEF Counted, ArenaBlocks
<1>22. BlocksOf(t)'
  <2>1. ASSUME NEW x \in held'[t], x[1] = "block" PROVE arena'[x[2]].desc # Nothing
    <3>1. CASE x = y
      BY <1>8, <1>13, <3>1, MemoryAssumption
    <3>2. CASE x # y
      <4>1. x \in held[t]
        BY <1>6, <1>13, <3>2
      <4>2. x[2] \in Page /\ arena[x[2]].desc # Nothing
        BY <1>1, <2>1, <4>1, HeldPlace DEF BlocksOf
      <4> QED BY <1>9, <4>2
    <3> QED BY <3>1, <3>2
  <2> QED BY <1>6, <2>1 DEF BlocksOf
<1>23. \A u \in Thread : BlocksOf(u)'
  BY <1>12, <1>22
<1>24. \A e \in Desc : OneBlockOwner(e)' /\ Counted(e)'
  BY <1>15, <1>19, <1>21
<1> QED BY <1>23, <1>24 DEF BlockInv

\* free() puts a block back: the thread has it no longer.
LEMMA PutOwn ==
  ASSUME MemoryInv, NEW t \in Thread, \A i \in ArenaPages : arena'[i].desc = arena[i].desc,
         NEW d \in Desc, NEW b, mpc[t] = "put", call[t].desc = d, b = block[t],
         held'[t] = held[t], mpc'[t] # "put"
  PROVE  /\ OwnBlocks(t, d)' = OwnBlocks(t, d) \ {b}
         /\ \A e \in Desc : e # d => OwnBlocks(t, e)' = OwnBlocks(t, e)
         /\ \A x \in held'[t] : x[1] = "block" => arena'[x[2]].desc # Nothing
<1>1. BlocksOf(t)
  BY DEF MemoryInv, BlockInv
<1>2. ~InHand(held[t], arena, d, b)
  <2>1. ~Given(held[t], b)
    BY <1>1, OwnBlocksAre DEF BlocksOf
  <2> QED BY <2>1 DEF InHand, Given
<1>3. ASSUME NEW e, NEW z
      PROVE  z \in OwnBlocks(t, e) <=> InHand(held[t], arena, e, z) \/ (e = d /\ z = b)
  <2>1. z \in OwnBlocks(t, e) <=>
          InHand(held[t], arena, e, z) \/ (mpc[t] = "put" /\ call[t].desc = e /\ z = block[t])
    BY OwnBlocksAre
  <2> QED BY <2>1
<1>4. ASSUME NEW e, NEW z PROVE z \in OwnBlocks(t, e)' <=> InHand(held[t], arena, e, z)
  <2>1. z \in OwnBlocks(t, e)' <=> InHand(held'[t], arena', e, z)
    BY OwnBlocksAre
  <2>2. InHand(held[t], arena', e, z) <=> InHand(held[t], arena, e, z)
    BY HandSame
  <2> QED BY <2>1, <2>2
<1>5. ASSUME NEW z PROVE z \in OwnBlocks(t, d)' <=> z \in OwnBlocks(t, d) /\ z # b
  <2>1. z \in OwnBlocks(t, d) <=> InHand(held[t], arena, d, z) \/ z = b
    BY <1>3
  <2>2. z \in OwnBlocks(t, d)' <=> InHand(held[t], arena, d, z)
    BY <1>4
  <2> QED BY <1>2, <2>1, <2>2
<1>6. ASSUME NEW e \in Desc, e # d PROVE OwnBlocks(t, e)' = OwnBlocks(t, e)
  <2>1. \A z : z \in OwnBlocks(t, e) <=> InHand(held[t], arena, e, z)
    BY <1>3, <1>6
  <2>2. \A z : z \in OwnBlocks(t, e)' <=> InHand(held[t], arena, e, z)
    BY <1>4
  <2> QED BY <2>1, <2>2
<1>7. \A x \in held'[t] : x[1] = "block" => arena'[x[2]].desc # Nothing
  BY <1>1, HeldPlace DEF BlocksOf
<1> QED BY <1>5, <1>6, <1>7

\* Nobody pops a block of a descriptor nobody has locked.
LEMMA NoPopping ==
  ASSUME MemoryInv, NEW d \in Desc, desc_lock[d] = Nothing, NEW a
  PROVE  ~Popping(d, a)
<1>1. \A u \in Thread : Locks(u) /\ u # Nothing
  BY Here DEF MemoryInv
<1> QED BY <1>1 DEF Popping, Locks

\* What the two ways to put a block back have in common.
Putting(t, d, b, a) ==
  /\ call[t] = Small(d) /\ call[t].desc = d /\ mpc[t] = "put" /\ b = block[t]
  /\ b \in OwnBlocks(t, d) /\ b \in Block /\ free_list[d] \in Seq(Block) /\ desc_lock[d] = Nothing
  /\ a \in Page /\ a \in Arenas(d) /\ a \in ArenaPages /\ b \in ArenaBlocks(d, a)
  /\ arena[a].desc = d /\ arena'[a].desc = d
  /\ arena'[a].free_cnt = arena[a].free_cnt + 1
  /\ (\A i \in Page : i # a => arena'[i] = arena[i])
  /\ (\A i \in Page : arena'[i].desc = arena[i].desc)
  /\ (\A i \in ArenaPages : arena'[i].desc = arena[i].desc)
  /\ b \notin Range(free_list[d]) /\ IsInjective(free_list[d])

\* What free() knows when it has taken the descriptor's lock.
LEMMA PutBlocks ==
  ASSUME MemoryInv, NEW t \in Thread, NEW d, NEW b, put_keep(t, d, b) \/ put_drop(t, d, b)
  PROVE  d \in Desc /\ Putting(t, d, b, b[1])
<1>1. ControlInv
  BY DEF MemoryInv
<1>2. /\ d \in Desc /\ call[t] = Small(d) /\ mpc[t] = "put" /\ b = block[t] /\ b \in Block
      /\ b[1] \in Page /\ arena[b[1]].free_cnt \in Int
      /\ arena' = [arena EXCEPT ![b[1]].free_cnt = arena[b[1]].free_cnt + 1]
      /\ free_list[d] \in Seq(Block) /\ desc_lock[d] = Nothing
  BY <1>1, PutFacts
<1>3. call[t].desc = d
  BY <1>2, Requests
<1>4. b \in OwnBlocks(t, d) /\ b \in AllBlocks(d)
  BY <1>2, <1>3, PutBlock
<1>5. b[1] \in Arenas(d) /\ b[1] \in ArenaPages /\ b \in ArenaBlocks(d, b[1]) /\ arena[b[1]].desc = d
  BY <1>2, <1>4, BlockPlace
<1>6. arena[b[1]].free_cnt + 1 \in Int
  BY <1>2, SMT
<1>7. /\ arena'[b[1]].desc = arena[b[1]].desc /\ arena'[b[1]].free_cnt = arena[b[1]].free_cnt + 1
      /\ \A i \in Page : i # b[1] => arena'[i] = arena[i]
  BY <1>1, <1>2, <1>6, HeaderCount DEF ControlInv, Shared
<1>8. \A i \in Page : arena'[i].desc = arena[i].desc
  BY <1>7
<1>9. \A i \in ArenaPages : arena'[i].desc = arena[i].desc
  BY <1>8, ArenaPagesAre
<1>10. OneBlockOwner(d)
  BY <1>2 DEF MemoryInv, BlockInv
<1>11. b \notin Range(free_list[d]) /\ IsInjective(free_list[d])
  BY <1>4, <1>10 DEF OneBlockOwner
<1> QED BY <1>2, <1>3, <1>4, <1>5, <1>7, <1>8, <1>9, <1>11 DEF Putting

\* An arena of which another block is in use stays.
LEMMA KeepBlocks ==
  ASSUME FiniteFacts, MemoryInv, NEW t \in Thread, Frame(t), NEW d \in Desc, NEW b, put_keep(t, d, b)
  PROVE  BlockInv'
<1>1. Shared /\ Local
  BY Here DEF MemoryInv
<1>a. PICK a : a = b[1] /\ Putting(t, d, b, a)
  BY PutBlocks
<1>2. /\ call[t] = Small(d) /\ call[t].desc = d /\ mpc[t] = "put" /\ b = block[t]
      /\ b \in OwnBlocks(t, d) /\ b \in Block /\ free_list[d] \in Seq(Block) /\ desc_lock[d] = Nothing
      /\ b \notin Range(free_list[d]) /\ IsInjective(free_list[d])
  BY <1>a DEF Putting
<1>3. /\ a \in Page /\ a = b[1] /\ a \in Arenas(d) /\ a \in ArenaPages /\ b \in ArenaBlocks(d, a)
      /\ arena[a].desc = d /\ arena'[a].desc = d
      /\ arena'[a].free_cnt = arena[a].free_cnt + 1
      /\ \A i \in Page : i # a => arena'[i] = arena[i]
  BY <1>a DEF Putting
<1>4. /\ \A i \in Page : arena'[i].desc = arena[i].desc
      /\ \A i \in ArenaPages : arena'[i].desc = arena[i].desc
  BY <1>a DEF Putting
<1>5. /\ mpc'[t] = "idle" /\ held' = held /\ left' = left
      /\ free_list'[d] = <<b>> \o free_list[d]
      /\ (\A e \in Desc : e # d => free_list'[e] = free_list[e])
      /\ ~(arena[a].free_cnt + 1 >= blocks_per_arena[d])
  BY <1>1, <1>2, <1>3 DEF put_keep, Finish, Move, Local, Shared
<1>6. \A i : i \in ArenaPages' <=> i \in ArenaPages
  BY <1>4, <1>5, ArenaPagesAre
<1>7. \A u \in Thread : u # t => BlocksOf(u)' /\ \A e \in Desc : OwnBlocks(u, e)' = OwnBlocks(u, e)
  BY <1>4, OtherBlocks
<1>8. /\ OwnBlocks(t, d)' = OwnBlocks(t, d) \ {b}
      /\ \A e \in Desc : e # d => OwnBlocks(t, e)' = OwnBlocks(t, e)
      /\ \A x \in held'[t] : x[1] = "block" => arena'[x[2]].desc # Nothing
  <2>1. /\ mpc[t] = "put" /\ call[t].desc = d /\ b = block[t] /\ held'[t] = held[t] /\ mpc'[t] # "put"
        /\ \A i \in ArenaPages : arena'[i].desc = arena[i].desc
    BY <1>2, <1>4, <1>5
  <2> QED BY <2>1, PutOwn, SMT
<1>9. ASSUME NEW e \in Desc, e # d PROVE OneBlockOwner(e)' /\ Counted(e)'
  <2>1. \A u \in Thread : OwnBlocks(u, e)' = OwnBlocks(u, e)
    BY <1>7, <1>8, <1>9
  <2>2. free_list'[e] = free_list[e]
    BY <1>5, <1>9
  <2>3. OnlyArena(d, a)
    BY <1>3, <1>6 DEF OnlyArena
  <2> QED BY <1>2, <1>9, <2>1, <2>2, <2>3, OtherDesc
<1>10. OneBlockOwner(d) /\ Counted(d)
  BY <1>2 DEF MemoryInv, BlockInv
<1>11. Range(free_list'[d]) = Range(free_list[d]) \cup {b} /\ IsInjective(free_list'[d])
  <2>1. PICK s \in Seq(Block) : s = free_list[d] /\ b \notin Range(s) /\ IsInjective(s)
    BY <1>2
  <2>2. b \in Block
    BY <1>2
  <2>3. Range(<<b>> \o s) = Range(s) \cup {b} /\ IsInjective(<<b>> \o s)
    BY <2>1, <2>2, ListPush, SMT
  <2> QED BY <1>5, <2>1, <2>3
<1>12. Arenas(d)' = Arenas(d) /\ AllBlocks(d)' = AllBlocks(d)
  <2>1. \A i : i \in Arenas(d)' <=> i \in Arenas(d)
    BY <1>4, <1>6, ArenasOf
  <2>2. Arenas(d)' = Arenas(d)
    BY <2>1
  <2> QED BY <2>2 DEF AllBlocks, ArenaBlocks
<1>13. OneBlockOwner(d)'
  <2>1. Moves(Range(free_list[d]), Range(free_list'[d]), OwnBlocks(t, d), OwnBlocks(t, d)',
              AllBlocks(d), AllBlocks(d)', b, {})
    BY <1>2, <1>8, <1>11, <1>12 DEF Moves, Give
  <2> QED BY <1>2, <1>7, <1>10, <1>11, <2>1, BlocksMove
<1>14. ASSUME NEW c \in Arenas(d)
       PROVE  /\ arena'[c].free_cnt = Cardinality(Range(free_list'[d]) \cap ArenaBlocks(d, c))
              /\ arena'[c].free_cnt < blocks_per_arena[d]
  <2>1. /\ arena[c].free_cnt = Cardinality(Range(free_list[d]) \cap ArenaBlocks(d, c))
        /\ arena[c].free_cnt < blocks_per_arena[d]
    BY <1>2, <1>10, NoPopping DEF Counted
  <2>2. CASE c = a
    <3>1. PICK R : R = Range(free_list[d]) /\ b \notin R /\ b \in ArenaBlocks(d, a)
      BY <1>2, <1>3
    <3>2. Count(d, a, R) \in Nat /\ Count(d, a, R \cup {b}) = Count(d, a, R) + 1
      BY <3>1, CountGive
    <3>3. arena[a].free_cnt = Count(d, a, R)
      BY <2>1, <2>2, <3>1 DEF Count
    <3>4. PICK n, m : n = Count(d, a, R) /\ m = blocks_per_arena[d] /\ n \in Nat /\ m \in Nat
      BY <1>2, <3>2, ArenaCount
    <3>5. ~(n + 1 >= m)
      BY <1>5, <3>3, <3>4
    <3>6. n + 1 < m
      BY <3>4, <3>5, SMT
    <3>7. arena'[c].free_cnt < blocks_per_arena[d] /\ arena'[c].free_cnt = Count(d, a, R \cup {b})
      BY <1>3, <2>2, <3>2, <3>3, <3>4, <3>6
    <3> QED BY <1>11, <2>2, <3>1, <3>7 DEF Count
  <2>3. CASE c # a
    <3>1. c \in Page
      BY DEF Arenas
    <3>2. arena'[c] = arena[c]
      BY <1>3, <2>3, <3>1
    <3>3. b \notin ArenaBlocks(d, c)
      BY <1>2, <1>3, <2>3, ArenaCount
    <3>4. Range(free_list'[d]) \cap ArenaBlocks(d, c) = Range(free_list[d]) \cap ArenaBlocks(d, c)
      BY <1>11, <3>3
    <3> QED BY <2>1, <3>2, <3>4
  <2> QED BY <2>2, <2>3
<1>15. Counted(d)'
  BY <1>12, <1>14 DEF Counted, ArenaBlocks
<1>16. BlocksOf(t)'
  BY <1>5, <1>8 DEF BlocksOf
<1>17. \A u \in Thread : BlocksOf(u)'
  BY <1>7, <1>16
<1>18. \A e \in Desc : OneBlockOwner(e)' /\ Counted(e)'
  BY <1>9, <1>13, <1>15
<1> QED BY <1>17, <1>18 DEF BlockInv

\* The blocks of a descriptor, arena by arena.
LEMMA AllBlocksAre ==
  ASSUME FiniteFacts, NEW d \in Desc, NEW z
  PROVE  /\ z \in AllBlocks(d) <=> z[1] \in Arenas(d) /\ z \in ArenaBlocks(d, z[1])
         /\ z \in AllBlocks(d)' <=> z[1] \in Arenas(d)' /\ z \in ArenaBlocks(d, z[1])
<1>1. \A a : z \in ArenaBlocks(d, a) => z[1] = a
  BY ArenaCount
<1>2. z \in AllBlocks(d) <=> \E a \in Arenas(d) : z \in ArenaBlocks(d, a)
  BY DEF AllBlocks
<1>3. z \in AllBlocks(d)' <=> \E a \in Arenas(d)' : z \in ArenaBlocks(d, a)
  BY DEF AllBlocks, ArenaBlocks
<1> QED BY <1>1, <1>2, <1>3

\* An arena of which no block is in use is taken off the list.
LEMMA DropBlocks ==
  ASSUME FiniteFacts, MemoryInv, NEW t \in Thread, Frame(t), NEW d \in Desc, NEW b, put_drop(t, d, b),
         ArenaPages' = ArenaPages \ {b[1]}
  PROVE  BlockInv'
<1>1. Shared /\ Local
  BY Here DEF MemoryInv
<1>a. PICK a : a = b[1] /\ Putting(t, d, b, a)
  BY PutBlocks
<1>2. /\ call[t] = Small(d) /\ call[t].desc = d /\ mpc[t] = "put" /\ b = block[t]
      /\ b \in OwnBlocks(t, d) /\ b \in Block /\ free_list[d] \in Seq(Block) /\ desc_lock[d] = Nothing
      /\ b \notin Range(free_list[d]) /\ IsInjective(free_list[d])
  BY <1>a DEF Putting
<1>3. /\ a \in Page /\ a = b[1] /\ a \in Arenas(d) /\ a \in ArenaPages /\ b \in ArenaBlocks(d, a)
      /\ arena[a].desc = d /\ arena'[a].desc = d
      /\ arena'[a].free_cnt = arena[a].free_cnt + 1
      /\ \A i \in Page : i # a => arena'[i] = arena[i]
  BY <1>a DEF Putting
<1>4. /\ \A i \in Page : arena'[i].desc = arena[i].desc
      /\ \A i \in ArenaPages : arena'[i].desc = arena[i].desc
  BY <1>a DEF Putting
<1>5. /\ mpc'[t] = "clear" /\ held' = held
      /\ free_list'[d] = Without(<<b>> \o free_list[d], ArenaBlocks(d, a))
      /\ (\A e \in Desc : e # d => free_list'[e] = free_list[e])
      /\ arena[a].free_cnt + 1 >= blocks_per_arena[d]
  BY <1>1, <1>2, <1>3 DEF put_drop, Move, Local, Shared
<1>6. \A i : i \in ArenaPages' <=> i \in ArenaPages /\ i # a
  BY <1>3
<1>7. \A u \in Thread : u # t => BlocksOf(u)' /\ \A e \in Desc : OwnBlocks(u, e)' = OwnBlocks(u, e)
  BY <1>4, OtherBlocks
<1>8. /\ OwnBlocks(t, d)' = OwnBlocks(t, d) \ {b}
      /\ \A e \in Desc : e # d => OwnBlocks(t, e)' = OwnBlocks(t, e)
      /\ \A x \in held'[t] : x[1] = "block" => arena'[x[2]].desc # Nothing
  <2>1. /\ mpc[t] = "put" /\ call[t].desc = d /\ b = block[t] /\ held'[t] = held[t] /\ mpc'[t] # "put"
        /\ \A i \in ArenaPages : arena'[i].desc = arena[i].desc
    BY <1>2, <1>4, <1>5
  <2> QED BY <2>1, PutOwn, SMT
<1>9. ASSUME NEW e \in Desc, e # d PROVE OneBlockOwner(e)' /\ Counted(e)'
  <2>1. \A u \in Thread : OwnBlocks(u, e)' = OwnBlocks(u, e)
    BY <1>7, <1>8, <1>9
  <2>2. free_list'[e] = free_list[e]
    BY <1>5, <1>9
  <2>3. OnlyArena(d, a)
    BY <1>3, <1>6 DEF OnlyArena
  <2> QED BY <1>2, <1>9, <2>1, <2>2, <2>3, OtherDesc
<1>10. OneBlockOwner(d) /\ Counted(d)
  BY DEF MemoryInv, BlockInv
<1>11. PICK R, G : R = Range(free_list[d]) /\ G = ArenaBlocks(d, a)
  OBVIOUS
<1>12. Range(free_list'[d]) = (R \cup {b}) \ G /\ IsInjective(free_list'[d])
  <2>1. PICK s \in Seq(Block) : s = free_list[d] /\ b \notin Range(s) /\ IsInjective(s)
    BY <1>2
  <2>2. b \in Block
    BY <1>2
  <2>3. Range(<<b>> \o s) = Range(s) \cup {b} /\ IsInjective(<<b>> \o s)
    BY <2>1, <2>2, ListPush, SMT
  <2>4. PICK q \in Seq(Block) : q = <<b>> \o s
    <3>1. <<b>> \o s \in Seq(Block)
      BY <2>1, <2>2, SMT
    <3> QED BY <3>1
  <2>5. Range(Without(q, G)) = Range(q) \ G /\ IsInjective(Without(q, G))
    BY <2>3, <2>4, WithoutKeeps
  <2> QED BY <1>5, <1>11, <2>1, <2>3, <2>4, <2>5
<1>13. G \subseteq R \cup {b}
  <2>1. arena[a].free_cnt = Count(d, a, R)
    BY <1>3, <1>10, <1>11 DEF Counted, Count
  <2>2. b \notin R /\ b \in ArenaBlocks(d, a)
    BY <1>2, <1>3, <1>11
  <2>3. Count(d, a, R \cup {b}) = Count(d, a, R) + 1
    BY <2>2, CountGive
  <2>4. Count(d, a, R \cup {b}) >= blocks_per_arena[d]
    BY <1>5, <2>1, <2>3
  <2> QED BY <1>11, <2>4, CountSet
<1>14. \A i : i \in Arenas(d)' <=> i \in Arenas(d) /\ i # a
  BY <1>3, <1>4, <1>6, ArenasOf
<1>15. AllBlocks(d)' = AllBlocks(d) \ G
  <2>1. ASSUME NEW z PROVE z \in AllBlocks(d)' <=> z \in AllBlocks(d) /\ z \notin G
    <3>1. z \in G => z[1] = a
      BY <1>11, ArenaCount
    <3>2. z[1] = a => (z \in G <=> z \in ArenaBlocks(d, z[1]))
      BY <1>11
    <3> QED BY <1>14, <3>1, <3>2, AllBlocksAre
  <2> QED BY <2>1
<1>16. OneBlockOwner(d)'
  <2>1. Moves(Range(free_list[d]), Range(free_list'[d]), OwnBlocks(t, d), OwnBlocks(t, d)',
              AllBlocks(d), AllBlocks(d)', b, G)
    BY <1>2, <1>3, <1>8, <1>11, <1>12, <1>13, <1>15 DEF Moves, Leave
  <2> QED BY <1>7, <1>10, <1>12, <2>1, BlocksMove
<1>17. ASSUME NEW c \in Arenas(d)'
       PROVE  /\ arena'[c].free_cnt = Cardinality(Range(free_list'[d]) \cap ArenaBlocks(d, c))
              /\ arena'[c].free_cnt < blocks_per_arena[d]
  <2>1. c \in Arenas(d) /\ c # a
    BY <1>14
  <2>2. /\ arena[c].free_cnt = Cardinality(Range(free_list[d]) \cap ArenaBlocks(d, c))
        /\ arena[c].free_cnt < blocks_per_arena[d]
    BY <1>2, <1>10, <2>1, NoPopping DEF Counted
  <2>3. c \in Page
    BY <2>1 DEF Arenas
  <2>4. arena'[c] = arena[c]
    BY <1>3, <2>1, <2>3
  <2>5. \A z \in ArenaBlocks(d, c) : z[1] = c
    BY ArenaCount
  <2>6. \A z \in G : z[1] = a
    BY <1>11, ArenaCount
  <2>7. b \notin ArenaBlocks(d, c) /\ G \cap ArenaBlocks(d, c) = {}
    BY <1>3, <2>1, <2>5, <2>6
  <2>8. Range(free_list'[d]) \cap ArenaBlocks(d, c) = Range(free_list[d]) \cap ArenaBlocks(d, c)
    BY <1>11, <1>12, <2>7
  <2> QED BY <2>2, <2>4, <2>8
<1>18. Counted(d)'
  BY <1>17 DEF Counted, ArenaBlocks
<1>19. BlocksOf(t)'
  BY <1>5, <1>8 DEF BlocksOf
<1>20. \A u \in Thread : BlocksOf(u)'
  BY <1>7, <1>19
<1>21. \A e \in Desc : OneBlockOwner(e)' /\ Counted(e)'
  BY <1>9, <1>16, <1>18
<1> QED BY <1>20, <1>21 DEF BlockInv

\* A new arena's blocks are all on the list, which was empty.
LEMMA ArenaStepBlocks ==
  ASSUME FiniteFacts, MemoryInv, NEW t \in Thread, Frame(t), new_arena(t), NEW a \in Page, a = page[t],
         a \notin ArenaPages, ArenaPages' = ArenaPages \cup {a}
  PROVE  BlockInv'
<1>1. Shared /\ Local /\ Control(t) /\ Calling(t) /\ BlocksOf(t)
  BY Here DEF MemoryInv, BlockInv
<1>2. PICK d \in Desc : d = call[t].desc /\ call[t] = Small(d) /\ mpc[t] = "arena" /\ free_list[d] = <<>>
  <2>1. mpc[t] = "arena"
    BY DEF new_arena, At
  <2>2. call[t].kind = "block" /\ call[t].desc \in Desc /\ call[t] = Small(call[t].desc)
    BY <1>1, <2>1, KindOf
  <2> QED BY <1>1, <2>1, <2>2 DEF BlocksOf
<1>3. /\ mpc'[t] = "pop" /\ held' = held /\ call' = call
      /\ free_list'[d] = free_list[d] \o NewBlocks(d, a)
      /\ (\A e \in Desc : e # d => free_list'[e] = free_list[e])
      /\ arena' = [arena EXCEPT ![a] = [desc |-> d, free_cnt |-> blocks_per_arena[d]]]
  <2>1. /\ free_list' = [free_list EXCEPT ![d] = free_list[d] \o NewBlocks(d, a)]
        /\ arena' = [arena EXCEPT ![a] = [desc |-> d, free_cnt |-> blocks_per_arena[d]]]
    BY <1>2 DEF new_arena, NewBlocks
  <2>2. /\ free_list'[d] = free_list[d] \o NewBlocks(d, a)
        /\ \A e \in Desc : e # d => free_list'[e] = free_list[e]
    BY <1>1, <2>1 DEF Shared
  <2>3. mpc' = [mpc EXCEPT ![t] = "pop"] /\ held' = held /\ call' = call
    BY DEF new_arena, Move
  <2>4. mpc'[t] = "pop"
    BY <1>1, <2>3 DEF Local
  <2> QED BY <2>1, <2>2, <2>3, <2>4
<1>4. blocks_per_arena[d] \in Int
  BY MemoryAssumption, SMT
<1>5. /\ arena'[a].desc = d /\ arena'[a].free_cnt = blocks_per_arena[d]
      /\ \A i \in Page : i # a => arena'[i] = arena[i]
  BY <1>1, <1>3, <1>4, HeaderSet DEF Shared
<1>6. \A i \in ArenaPages : i \in Page /\ i # a /\ arena'[i] = arena[i]
  BY <1>5, ArenaPagesAre
<1>7. \A i \in ArenaPages : arena'[i].desc = arena[i].desc
  BY <1>6
<1>8. \A u \in Thread : u # t => BlocksOf(u)' /\ \A e \in Desc : OwnBlocks(u, e)' = OwnBlocks(u, e)
  BY <1>7, OtherBlocks
<1>9. /\ \A e \in Desc : OwnBlocks(t, e)' = OwnBlocks(t, e)
      /\ \A x \in held'[t] : x[1] = "block" => arena'[x[2]].desc # Nothing
  <2>1. /\ \A x : x[1] = "block" => (x \in held'[t] <=> x \in held[t])
        /\ mpc'[t] = "put" <=> mpc[t] = "put"
        /\ mpc[t] = "put" => call'[t] = call[t] /\ block'[t] = block[t]
    BY <1>2, <1>3
  <2> QED BY <1>7, <2>1, OwnSame
<1>10. ASSUME NEW e \in Desc, e # d PROVE OneBlockOwner(e)' /\ Counted(e)'
  <2>1. \A u \in Thread : OwnBlocks(u, e)' = OwnBlocks(u, e)
    BY <1>8, <1>9
  <2>2. free_list'[e] = free_list[e]
    BY <1>3, <1>10
  <2>3. OnlyArena(d, a)
    BY <1>5 DEF OnlyArena
  <2> QED BY <1>2, <1>10, <2>1, <2>2, <2>3, OtherDesc
<1>11. OneBlockOwner(d) /\ Counted(d)
  BY DEF MemoryInv, BlockInv
<1>12. PICK G : G = ArenaBlocks(d, a)
  OBVIOUS
<1>13. /\ Range(free_list'[d]) = G /\ IsInjective(free_list'[d])
       /\ Head(free_list'[d])[1] = a /\ Range(free_list[d]) = {}
  <2>1. free_list'[d] = NewBlocks(d, a)
    BY <1>2, <1>3, NewList
  <2>2. DOMAIN <<>> = {}
    BY SMT
  <2>3. Range(free_list[d]) = {}
    BY <1>2, <2>2 DEF Range
  <2> QED BY <1>12, <2>1, <2>3, NewList
<1>14. \A i : i \in Arenas(d)' <=> i \in Arenas(d) \/ i = a
  BY <1>5, <1>7, ArenasOf, SMT
<1>15. AllBlocks(d)' = AllBlocks(d) \cup G /\ G \cap AllBlocks(d) = {}
  <2>1. ASSUME NEW z PROVE z \in AllBlocks(d)' <=> z \in AllBlocks(d) \/ z \in G
    <3>1. z \in G => z[1] = a
      BY <1>12, ArenaCount
    <3>2. z[1] = a => (z \in G <=> z \in ArenaBlocks(d, z[1]))
      BY <1>12
    <3> QED BY <1>14, <3>1, <3>2, AllBlocksAre
  <2>2. ASSUME NEW z \in G PROVE z \notin AllBlocks(d)
    <3>1. z[1] = a
      BY <1>12, ArenaCount
    <3> QED BY <3>1, BlockPlace
  <2> QED BY <2>1, <2>2
<1>16. OneBlockOwner(d)'
  <2>1. Moves(Range(free_list[d]), Range(free_list'[d]), OwnBlocks(t, d), OwnBlocks(t, d)',
              AllBlocks(d), AllBlocks(d)', Nothing, G)
    BY <1>9, <1>13, <1>15 DEF Moves, Join
  <2> QED BY <1>8, <1>11, <1>13, <2>1, BlocksMove
<1>17. ASSUME NEW c \in Arenas(d)'
       PROVE  /\ arena'[c].free_cnt = Cardinality(Range(free_list'[d]) \cap ArenaBlocks(d, c))
              /\ arena'[c].free_cnt < blocks_per_arena[d] \/ Popping(d, c)'
  <2>1. CASE c = a
    <3>1. Popping(d, c)'
      BY <1>2, <1>3, <1>13, <2>1 DEF Popping, Small
    <3>2. Range(free_list'[d]) \cap ArenaBlocks(d, c) = ArenaBlocks(d, a)
      BY <1>12, <1>13, <2>1
    <3>3. Cardinality(ArenaBlocks(d, a)) = blocks_per_arena[d]
      BY ArenaCount
    <3> QED BY <1>5, <2>1, <3>1, <3>2, <3>3
  <2>2. CASE c # a
    <3>1. c \in Arenas(d) /\ c \in ArenaPages
      BY <1>14, <2>2, ArenasOf
    <3>2. arena'[c] = arena[c]
      BY <1>6, <3>1
    <3>3. ~Popping(d, c)
      <4>1. \A u \in Thread : Control(u)
        BY Here DEF MemoryInv
      <4>2. Small(d).desc = d
        BY Requests
      <4> QED BY <1>2, <4>1, <4>2 DEF Popping, Control
    <3>4. /\ arena[c].free_cnt = Cardinality(Range(free_list[d]) \cap ArenaBlocks(d, c))
          /\ arena[c].free_cnt < blocks_per_arena[d]
      BY <1>11, <3>1, <3>3 DEF Counted
    <3>5. \A z \in ArenaBlocks(d, c) : z[1] = c
      BY ArenaCount
    <3>6. \A z \in G : z[1] = a
      BY <1>12, ArenaCount
    <3>7. Range(free_list'[d]) \cap ArenaBlocks(d, c) = Range(free_list[d]) \cap ArenaBlocks(d, c)
      BY <1>13, <2>2, <3>5, <3>6
    <3> QED BY <3>2, <3>4, <3>7
  <2> QED BY <2>1, <2>2
<1>18. Counted(d)'
  BY <1>17 DEF Counted, ArenaBlocks
<1>19. BlocksOf(t)'
  BY <1>3, <1>9 DEF BlocksOf
<1>20. \A u \in Thread : BlocksOf(u)'
  BY <1>8, <1>19
<1>21. \A e \in Desc : OneBlockOwner(e)' /\ Counted(e)'
  BY <1>10, <1>16, <1>18
<1> QED BY <1>20, <1>21 DEF BlockInv

-----------------------------------------------------------------------------
(* Everything together.                                                    *)

\* Every step keeps the pages and the blocks in order.
LEMMA StepOwned ==
  ASSUME FiniteFacts, MemoryInv, NEW t \in Thread, Steps(t)
  PROVE  MemoryInv'
<1>1. ControlInv /\ ControlInv' /\ Frame(t)
  BY StepControl DEF MemoryInv
<1>2. CASE malloc_lock(t) \/ get_lock(t) \/ scan_none(t) \/ unlock_none(t) \/ free_return(t)
           \/ (\E d \in Desc : malloc(t, d)) \/ (\E n \in BigCounts : malloc_big(t, n))
           \/ (\E n \in PageCounts, p \in Pool : palloc_get_multiple(t, p, n))
  <2>1. PageInv'
    BY <1>1, <1>2, CallPages
  <2>2. BlockInv'
    BY <1>1, <1>2, CallBlocks
  <2> QED BY <1>1, <2>1, <2>2 DEF MemoryInv
<1>3. ASSUME NEW i, scan_found(t, i) PROVE PageInv' /\ BlockInv'
  BY <1>1, <1>3, FoundPages, CallBlocks
<1>4. CASE get_flip(t)
  BY <1>1, <1>4, FlipPages, CallBlocks DEF MemoryInv
<1>5. CASE unlock_arena(t)
  BY <1>1, <1>5, ArenaPagePages, CallBlocks DEF MemoryInv
<1>6. CASE unlock_pages(t)
  BY <1>1, <1>6, UnlockPages, ReturnBlocks DEF MemoryInv
<1>7. CASE new_arena(t)
  <2>1. PageInv' /\ page[t] \in Page /\ page[t] \notin ArenaPages /\ ArenaPages' = ArenaPages \cup {page[t]}
    BY <1>1, <1>7, ArenaStepPages
  <2>2. BlockInv'
    BY <1>1, <1>7, <2>1, ArenaStepBlocks
  <2> QED BY <1>1, <2>1, <2>2 DEF MemoryInv
<1>8. CASE malloc_pop(t)
  BY <1>1, <1>8, PopPages, PopBlocks DEF MemoryInv
<1>9. ASSUME NEW d, NEW b, put_keep(t, d, b) PROVE PageInv' /\ BlockInv'
  <2>1. d \in Desc /\ Putting(t, d, b, b[1])
    BY <1>9, PutBlocks
  <2>2. b[1] \in ArenaPages
    BY <2>1 DEF Putting
  <2>3. PageInv'
    BY <1>1, <1>9, <2>2, KeepPages
  <2>4. BlockInv'
    BY <1>1, <1>9, <2>1, KeepBlocks
  <2> QED BY <2>3, <2>4
<1>10. ASSUME NEW d, NEW b, put_drop(t, d, b) PROVE PageInv' /\ BlockInv'
  <2>1. d \in Desc /\ Putting(t, d, b, b[1])
    BY <1>10, PutBlocks
  <2>2. b[1] \in ArenaPages
    BY <2>1 DEF Putting
  <2>3. PageInv' /\ ArenaPages' = ArenaPages \ {b[1]}
    BY <1>1, <1>10, <2>2, DropPages
  <2>4. BlockInv'
    BY <1>1, <1>10, <2>1, <2>3, DropBlocks
  <2> QED BY <2>3, <2>4
<1>11. ASSUME NEW i, clear_one(t, i) PROVE PageInv' /\ BlockInv'
  BY <1>1, <1>11, ClearPages, ClearBlocks
<1>12. ASSUME NEW x \in held[t], free(t, x) PROVE PageInv' /\ BlockInv'
  <2>1. CASE free_group(t, x)
    BY <1>1, <2>1, FreeGroupPages, FreeGroupBlocks
  <2>2. CASE free_block(t, x)
    BY <1>1, <2>2, FreeBlockPages, FreeBlockBlocks
  <2> QED BY <1>12, <2>1, <2>2, FreeCases
<1> QED BY <1>1, <1>2, <1>3, <1>4, <1>5, <1>6, <1>7, <1>8, <1>9, <1>10, <1>11, <1>12 DEF Steps, MemoryInv

\* At boot nothing is allocated.
LEMMA MemoryInvInit ==
  ASSUME MemInit
  PROVE  MemoryInv
<1>1. /\ used = {} /\ arena = [i \in Page |-> NoArena] /\ free_list = [d \in Desc |-> <<>>]
      /\ mpc = [t \in Thread |-> "idle"] /\ left = [t \in Thread |-> {}] /\ held = [t \in Thread |-> {}]
  BY DEF MemInit
<1>2. NoArena.desc = Nothing
  BY SMT DEF NoArena
<1>3. \A d \in Desc : Arenas(d) = {}
  BY <1>1, <1>2, MemoryAssumption DEF Arenas
<1>4. ArenaPages = {}
  BY <1>3 DEF ArenaPages
<1>5. ASSUME NEW t \in Thread
      PROVE  mpc[t] = "idle" /\ left[t] = {} /\ held[t] = {} /\ Groups(t) = {} /\ HeldPages(t) = {}
             /\ NewPages(t) = {} /\ OwnPages(t) = {}
  <2>1. mpc[t] = "idle" /\ left[t] = {} /\ held[t] = {}
    BY <1>1
  <2>2. Groups(t) = {} /\ NewPages(t) = {}
    BY <2>1 DEF Groups, NewPages
  <2>3. HeldPages(t) = {}
    BY <2>2 DEF HeldPages
  <2> QED BY <2>1, <2>2, <2>3 DEF OwnPages
<1>6. PageInv
  <2>1. OnePageOwner
    BY <1>1, <1>4, <1>5 DEF OnePageOwner
  <2>2. \A t \in Thread : PagesOf(t)
    BY <1>5 DEF PagesOf
  <2> QED BY <1>1, <2>1, <2>2 DEF PageInv
<1>7. \A t \in Thread : BlocksOf(t)
  BY <1>5 DEF BlocksOf
<1>8. ASSUME NEW d \in Desc PROVE OneBlockOwner(d) /\ Counted(d)
  <2>1. free_list[d] = <<>>
    BY <1>1
  <2>2. DOMAIN <<>> = {}
    BY SMT
  <2>3. Range(free_list[d]) = {} /\ IsInjective(free_list[d])
    BY <2>1, <2>2 DEF Range, IsInjective
  <2>4. AllBlocks(d) = {}
    BY <1>3 DEF AllBlocks
  <2>5. \A t \in Thread : OwnBlocks(t, d) = {}
    BY <1>5 DEF OwnBlocks
  <2>6. OneBlockOwner(d)
    BY <2>3, <2>4, <2>5 DEF OneBlockOwner
  <2> QED BY <1>3, <2>6 DEF Counted
<1>9. BlockInv
  BY <1>7, <1>8 DEF BlockInv
<1> QED BY <1>6, <1>9, ControlInvInit DEF MemoryInv

\* Every step keeps every page and every block with one owner.
LEMMA MemoryInvStep ==
  ASSUME FiniteFacts, MemoryInv, [MemNext]_memvars
  PROVE  MemoryInv'
<1>1. CASE MemNext
  BY <1>1, NextSteps, StepOwned
<1>2. CASE UNCHANGED memvars
  <2>1. /\ used' = used /\ arena' = arena /\ free_list' = free_list /\ mpc' = mpc /\ call' = call
        /\ page' = page /\ block' = block /\ left' = left /\ held' = held
    BY <1>2 DEF memvars
  <2>2. \A t \in Thread : Groups(t)' = Groups(t) /\ NewPages(t)' = NewPages(t) /\ HeldBlocks(t)' = HeldBlocks(t)
    BY <2>1 DEF Groups, NewPages, HeldBlocks
  <2>3. \A t \in Thread : HeldPages(t)' = HeldPages(t)
    BY <2>2 DEF HeldPages
  <2>4. \A t \in Thread : OwnPages(t)' = OwnPages(t)
    BY <2>1, <2>2, <2>3 DEF OwnPages
  <2>5. ArenaPages' = ArenaPages /\ \A d \in Desc : Arenas(d)' = Arenas(d)
    <3>1. \A d \in Desc : Arenas(d)' = Arenas(d)
      BY <2>1 DEF Arenas
    <3> QED BY <3>1 DEF ArenaPages
  <2>6. \A t \in Thread : \A d \in Desc : OwnBlocks(t, d)' = OwnBlocks(t, d)
    BY <2>1 DEF OwnBlocks
  <2>7. OnePageOwner'
    <3>1. OnePageOwner
      BY DEF MemoryInv, PageInv
    <3>2. {OwnPages(t)' : t \in Thread} = {OwnPages(t) : t \in Thread}
      BY <2>4
    <3>3. used' = ArenaPages' \cup UNION {OwnPages(t)' : t \in Thread}
      BY <2>1, <2>5, <3>1, <3>2 DEF OnePageOwner
    <3>4. /\ \A t, u \in Thread : t # u => OwnPages(t)' \cap OwnPages(u)' = {}
          /\ \A t \in Thread : OwnPages(t)' \cap ArenaPages' = {}
      BY <2>4, <2>5, <3>1 DEF OnePageOwner
    <3> QED BY <3>3, <3>4 DEF OnePageOwner
  <2>8. ASSUME NEW t \in Thread PROVE PagesOf(t)'
    <3>1. PagesOf(t)
      BY DEF MemoryInv, PageInv
    <3> QED BY <2>1, <2>2, <2>3, <3>1 DEF PagesOf, Group
  <2>9. PageInv'
    BY <2>1, <2>7, <2>8 DEF MemoryInv, PageInv
  <2>10. ASSUME NEW t \in Thread PROVE BlocksOf(t)'
    <3>1. BlocksOf(t)
      BY DEF MemoryInv, BlockInv
    <3> QED BY <2>1, <2>2, <3>1 DEF BlocksOf
  <2>11. ASSUME NEW d \in Desc PROVE OneBlockOwner(d)' /\ Counted(d)'
    <3>1. OneBlockOwner(d) /\ Counted(d)
      BY DEF MemoryInv, BlockInv
    <3>2. /\ \A u \in Thread : mpc[u] = "pop" /\ call[u] = Small(d) => mpc'[u] = "pop" /\ call'[u] = Small(d)
          /\ \A a \in Arenas(d) : arena'[a].free_cnt = arena[a].free_cnt
          /\ free_list'[d] = free_list[d]
      BY <2>1
    <3> QED BY <2>5, <2>6, <3>1, <3>2, DescSame
  <2>12. BlockInv'
    BY <2>10, <2>11 DEF BlockInv
  <2> QED BY <1>2, <2>9, <2>12, ControlInvStep DEF MemoryInv
<1> QED BY <1>1, <1>2

\* The invariant says all that is promised: while nobody has a descriptor
\* locked nobody pops one of its blocks, so none of its arenas is full.
LEMMA MemoryInvImplies ==
  ASSUME MemoryInv
  PROVE  MemoryOwnedOnce
<1>1. PagesOwnedOnce
  BY DEF MemoryInv, PageInv, PagesOf, OnePageOwner, PagesOwnedOnce
<1>2. ASSUME NEW d \in Desc
      PROVE  /\ IsInjective(free_list[d])
             /\ Range(free_list[d]) \cap UNION {OwnBlocks(t, d) : t \in Thread} = {}
             /\ Range(free_list[d]) \cup UNION {OwnBlocks(t, d) : t \in Thread} =
                  UNION {ArenaBlocks(d, a) : a \in Arenas(d)}
             /\ \A t, u \in Thread : t # u => OwnBlocks(t, d) \cap OwnBlocks(u, d) = {}
  <2>1. OneBlockOwner(d)
    BY DEF MemoryInv, BlockInv
  <2>2. ASSUME NEW b \in Range(free_list[d]), b \in UNION {OwnBlocks(t, d) : t \in Thread} PROVE FALSE
    BY <2>1, <2>2 DEF OneBlockOwner
  <2>3. Range(free_list[d]) \cap UNION {OwnBlocks(t, d) : t \in Thread} = {}
    BY <2>2
  <2> QED BY <2>1, <2>3 DEF OneBlockOwner, AllBlocks
<1>3. BlocksOwnedOnce
  <2>1. \A t \in Thread : \A x \in held[t] : x[1] = "block" => arena[x[2]].desc # Nothing
    BY DEF MemoryInv, BlockInv, BlocksOf
  <2> QED BY <1>2, <2>1 DEF BlocksOwnedOnce
<1>4. FreeCountRight
  <2>1. ASSUME NEW d \in Desc, NEW a \in Arenas(d)
        PROVE  /\ arena[a].free_cnt = Cardinality(Range(free_list[d]) \cap ArenaBlocks(d, a))
               /\ desc_lock[d] = Nothing => arena[a].free_cnt < blocks_per_arena[d]
    BY NoPopping DEF MemoryInv, BlockInv, Counted
  <2> QED BY <2>1 DEF FreeCountRight
<1> QED BY <1>1, <1>3, <1>4 DEF MemoryOwnedOnce

-----------------------------------------------------------------------------
INSTANCE FiniteSetTheorems

\* The facts about finite sets.
LEMMA FiniteSetsAreSo == FiniteFacts
<1>1. SubsetFact
  BY FS_CardinalityType, FS_EmptySet, FS_Subset DEF SubsetFact
<1>2. ElementFact
  BY FS_AddElement, FS_RemoveElement DEF ElementFact
<1>3. IntervalFact
  BY FS_Interval, SMT DEF IntervalFact
<1>4. FunctionFact
  BY FS_Bijection, FS_Injection DEF FunctionFact
<1> QED BY <1>1, <1>2, <1>3, <1>4 DEF FiniteFacts

\* Whatever threads allocate and free at the same time, one that waits for a
\* descriptor's lock holds none, one that waits for a pool's lock holds at most
\* its descriptor's, and no lock survives the call that took it.
THEOREM LocksAlwaysOrdered == MemSpec => []LockOrder
<1>1. MemInit => ControlInv
  BY ControlInvInit
<1>2. ControlInv /\ [MemNext]_memvars => ControlInv'
  BY ControlInvStep, FiniteSetsAreSo
<1>3. ControlInv => LockOrder
  BY DEF ControlInv
<1> QED BY <1>1, <1>2, <1>3, PTL DEF MemSpec

\* Whatever threads allocate and free at the same time, no page and no block is
\* ever in two hands and none is lost: every page marked in use has exactly one
\* owner, every block of every arena is on its descriptor's free list once or
\* with one thread, and free_cnt counts the free ones.  palloc_free_multiple()
\* clears its bits without the pool's lock; this holds nevertheless, since a
\* page being given back belongs to the thread that does it.
THEOREM MemoryAlwaysOwnedOnce == MemSpec => []MemoryOwnedOnce
<1>1. MemInit => MemoryInv
  BY MemoryInvInit
<1>2. MemoryInv /\ [MemNext]_memvars => MemoryInv'
  BY MemoryInvStep, FiniteSetsAreSo
<1>3. MemoryInv => MemoryOwnedOnce
  BY MemoryInvImplies
<1> QED BY <1>1, <1>2, <1>3, PTL DEF MemSpec
=============================================================================
