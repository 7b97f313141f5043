------------------------------- MODULE Memory -------------------------------
(***************************************************************************)
(* Kernel memory: the page allocator of threads/palloc.c with its kernel   *)
(* and user pools, and the block allocator of threads/malloc.c on top of   *)
(* the kernel pool.  Threads allocate and free at the same time: a pool's  *)
(* lock is held to allocate but not to free, the bits of a group of pages  *)
(* are changed one after the other when it is freed, and a descriptor's    *)
(* lock is held while a page is fetched or given back.                     *)
(***************************************************************************)
EXTENDS Naturals, Sequences, FiniteSets, Functions

CONSTANTS Thread, Nothing,
          KernelPages, UserPages,   \* sizes of the two pools
          Desc,                     \* malloc()'s descriptors
          blocks_per_arena,         \* how many blocks each makes of a page
          BigCounts, PageCounts     \* group sizes malloc() and others ask for

ASSUME MemoryAssumption ==
  /\ KernelPages \in Nat /\ UserPages \in Nat
  /\ BigCounts \subseteq Nat \ {0} /\ PageCounts \subseteq Nat \ {0}
  /\ blocks_per_arena \in [Desc -> Nat \ {0}]
  /\ Nothing \notin Thread /\ Nothing \notin Desc /\ Nothing \notin Nat

Pool == {"kernel", "user"}
Range0(p) == IF p = "kernel" THEN 0..(KernelPages - 1)
             ELSE KernelPages..(KernelPages + UserPages - 1)
Page == 0..(KernelPages + UserPages - 1)
page_from_pool(a) == IF a \in Range0("kernel") THEN "kernel" ELSE "user"
ArenaBlocks(d, a) == {<<a, i>> : i \in 0..(blocks_per_arena[d] - 1)}
PageGroup(first, n) == first..(first + n - 1)

VARIABLES
  used,                 \* used_map of both pools
  pool_lock,            \* owner of each pool's lock
  arena,                \* header at the start of a page: its desc and free_cnt
  free_list, desc_lock, \* struct desc
  mpc, call,             \* where a thread is in which call
  page,                 \* page_idx
  block,                \* the block being freed
  left,                 \* pages whose bits are still to be cleared
  held                  \* what malloc() and palloc returned to each thread

memvars == <<used, pool_lock, arena, free_list, desc_lock, mpc, call, page, block, left, held>>

NoArena == [desc |-> Nothing, free_cnt |-> 0]
\* What a call works on: blocks of a descriptor, or n pages of a pool; big is
\* malloc() of more than a page, which keeps the page count in an arena header.
NoRequest == [kind |-> "none", desc |-> Nothing, pool |-> "kernel", n |-> 0]
Small(d) == [kind |-> "block", desc |-> d, pool |-> "kernel", n |-> 1]
Big(n) == [kind |-> "big", desc |-> Nothing, pool |-> "kernel", n |-> n]
Pages(p, n) == [kind |-> "pages", desc |-> Nothing, pool |-> p, n |-> n]

MemInit ==
  /\ used = {} /\ pool_lock = [p \in Pool |-> Nothing]
  /\ arena = [a \in Page |-> NoArena]
  /\ free_list = [d \in Desc |-> <<>>] /\ desc_lock = [d \in Desc |-> Nothing]
  /\ mpc = [t \in Thread |-> "idle"] /\ call = [t \in Thread |-> NoRequest]
  /\ page = [t \in Thread |-> Nothing] /\ block = [t \in Thread |-> Nothing]
  /\ left = [t \in Thread |-> {}]
  /\ held = [t \in Thread |-> {}]

At(t, p) == mpc[t] = p
Move(t, p) == mpc' = [mpc EXCEPT ![t] = p]
Finish(t) == Move(t, "idle") /\ call' = [call EXCEPT ![t] = NoRequest]
             /\ page' = [page EXCEPT ![t] = Nothing]

\* malloc() of a block, malloc() of a big block, palloc_get_multiple().
malloc(t, d) ==
  /\ At(t, "idle") /\ call' = [call EXCEPT ![t] = Small(d)] /\ Move(t, "desc")
  /\ UNCHANGED <<used, pool_lock, arena, free_list, desc_lock, page, block, left, held>>
malloc_big(t, n) ==
  /\ At(t, "idle") /\ call' = [call EXCEPT ![t] = Big(n)] /\ Move(t, "get")
  /\ UNCHANGED <<used, pool_lock, arena, free_list, desc_lock, page, block, left, held>>
palloc_get_multiple(t, p, n) ==
  /\ At(t, "idle") /\ call' = [call EXCEPT ![t] = Pages(p, n)] /\ Move(t, "get")
  /\ UNCHANGED <<used, pool_lock, arena, free_list, desc_lock, page, block, left, held>>

\* lock_acquire (&d->lock): there is a free block, or a new arena is fetched.
malloc_lock(t) ==
  LET d == call[t].desc IN
  /\ At(t, "desc") /\ desc_lock[d] = Nothing
  /\ desc_lock' = [desc_lock EXCEPT ![d] = t]
  /\ Move(t, IF free_list[d] = <<>> THEN "get" ELSE "pop")
  /\ UNCHANGED <<used, pool_lock, arena, free_list, call, page, block, left, held>>

\* palloc_get_multiple(): the pool's lock.
get_lock(t) ==
  LET p == call[t].pool IN
  /\ At(t, "get") /\ pool_lock[p] = Nothing
  /\ pool_lock' = [pool_lock EXCEPT ![p] = t] /\ Move(t, "scan")
  /\ UNCHANGED <<used, arena, free_list, desc_lock, call, page, block, left, held>>

\* bitmap_scan() finds the first group of free pages, bitmap_scan_and_flip()
\* then marks it.
Free(p, n) == {i \in Range0(p) : PageGroup(i, n) \subseteq Range0(p) \ used}
get_scan(t) ==
  LET c == call[t]
      found == Free(c.pool, c.n) IN
  /\ At(t, "scan")
  /\ \/ found = {} /\ Move(t, "unlock") /\ UNCHANGED page
     \/ \E i \in found : /\ \A j \in found : i <= j
                         /\ page' = [page EXCEPT ![t] = i] /\ Move(t, "flip")
  /\ UNCHANGED <<used, pool_lock, arena, free_list, desc_lock, call, block, left, held>>
get_flip(t) ==
  /\ At(t, "flip")
  /\ used' = used \cup PageGroup(page[t], call[t].n) /\ Move(t, "unlock")
  /\ UNCHANGED <<pool_lock, arena, free_list, desc_lock, call, page, block, left, held>>

\* Fault: the descriptor stays locked when there is no page.
get_unlock_leak(t) ==
  LET c == call[t]
      a == page[t] IN
  /\ At(t, "unlock")
  /\ pool_lock' = [pool_lock EXCEPT ![c.pool] = Nothing]
  /\ IF c.kind = "block" /\ a # Nothing
     THEN Move(t, "arena") /\ UNCHANGED <<call, page, held, arena>>
     ELSE /\ Finish(t)
          /\ held' = IF a = Nothing THEN held ELSE [held EXCEPT ![t] = @ \cup {<<c.kind, a, c.n>>}]
          /\ arena' = IF c.kind = "big" /\ a # Nothing
                      THEN [arena EXCEPT ![a] = [desc |-> Nothing, free_cnt |-> c.n]] ELSE arena
  /\ UNCHANGED <<used, free_list, desc_lock, block, left>>

\* lock_release (&pool->lock), and back to the caller: a null pointer, the
\* pages, a big block, or the page for a new arena.
get_unlock(t) ==
  LET c == call[t]
      a == page[t] IN
  /\ At(t, "unlock")
  /\ pool_lock' = [pool_lock EXCEPT ![c.pool] = Nothing]
  /\ IF c.kind = "block" /\ a # Nothing
     THEN Move(t, "arena") /\ UNCHANGED <<call, page, held, arena, desc_lock>>
     ELSE /\ Finish(t)
          /\ held' = IF a = Nothing THEN held ELSE [held EXCEPT ![t] = @ \cup {<<c.kind, a, c.n>>}]
          /\ arena' = IF c.kind = "big" /\ a # Nothing
                      THEN [arena EXCEPT ![a] = [desc |-> Nothing, free_cnt |-> c.n]] ELSE arena
          /\ desc_lock' = IF c.kind = "block" THEN [desc_lock EXCEPT ![c.desc] = Nothing]
                          ELSE desc_lock
  /\ UNCHANGED <<used, free_list, block, left>>

\* The new arena's header and blocks.
new_arena(t) ==
  LET d == call[t].desc
      a == page[t] IN
  /\ At(t, "arena")
  /\ arena' = [arena EXCEPT ![a] = [desc |-> d, free_cnt |-> blocks_per_arena[d]]]
  /\ free_list' = [free_list EXCEPT ![d] =
                     @ \o [i \in 1..blocks_per_arena[d] |-> <<a, i - 1>>]]
  /\ Move(t, "pop")
  /\ UNCHANGED <<used, pool_lock, desc_lock, call, page, block, left, held>>

\* The first block of the free list is returned.
malloc_pop(t) ==
  LET d == call[t].desc
      b == Head(free_list[d]) IN
  /\ At(t, "pop")
  /\ free_list' = [free_list EXCEPT ![d] = Tail(@)]
  /\ arena' = [arena EXCEPT ![b[1]].free_cnt = @ - 1]
  /\ desc_lock' = [desc_lock EXCEPT ![d] = Nothing]
  /\ held' = [held EXCEPT ![t] = @ \cup {<<"block", b[1], b[2]>>}]
  /\ Finish(t)
  /\ UNCHANGED <<used, pool_lock, block, left>>

\* free() of what malloc() returned, and palloc_free_multiple(): the call and
\* the pages to clear follow from the arena header, as in the code.
free(t, x) ==
  LET a == x[2]
      c == IF x[1] = "pages" THEN Pages(page_from_pool(a), x[3])
           ELSE IF arena[a].desc = Nothing THEN Big(arena[a].free_cnt) ELSE Small(arena[a].desc)
  IN
  /\ At(t, "idle") /\ x \in held[t]
  /\ held' = [held EXCEPT ![t] = @ \ {x}]
  /\ call' = [call EXCEPT ![t] = c]
  /\ block' = [block EXCEPT ![t] = IF c.kind = "block" THEN <<a, x[3]>> ELSE Nothing]
  /\ Move(t, IF c.kind = "block" THEN "put" ELSE "clear")
  /\ left' = [left EXCEPT ![t] = IF c.kind = "block" THEN {} ELSE PageGroup(a, c.n)]
  /\ UNCHANGED <<used, pool_lock, arena, free_list, desc_lock, page>>

\* Fault: the blocks of a freed arena stay on the free list.
free_put_keep(t) ==
  LET d == call[t].desc
      b == block[t]
      unused == arena[b[1]].free_cnt + 1 >= blocks_per_arena[d] IN
  /\ At(t, "put") /\ desc_lock[d] = Nothing
  /\ arena' = [arena EXCEPT ![b[1]].free_cnt = @ + 1]
  /\ free_list' = [free_list EXCEPT ![d] = <<b>> \o @]
  /\ IF unused
     THEN /\ desc_lock' = [desc_lock EXCEPT ![d] = t]
          /\ left' = [left EXCEPT ![t] = {b[1]}]
          /\ Move(t, "clear") /\ UNCHANGED <<call, page>>
     ELSE Finish(t) /\ UNCHANGED <<desc_lock, left>>
  /\ block' = [block EXCEPT ![t] = Nothing]
  /\ UNCHANGED <<used, pool_lock, held>>

\* What list_remove() leaves of a list s, in its order, when it is called for
\* every element in S.
Without(s, S) ==
  LET kept == {i \in DOMAIN s : s[i] \notin S} IN
  [k \in 1..Cardinality(kept) |->
     s[CHOOSE i \in kept : Cardinality({j \in kept : j <= i}) = k]]

\* Under the descriptor's lock the block goes to the front of the free list; an
\* arena that has no block in use is taken apart and its page is freed.
free_put(t) ==
  LET d == call[t].desc
      b == block[t]
      list == <<b>> \o free_list[d]
      unused == arena[b[1]].free_cnt + 1 >= blocks_per_arena[d] IN
  /\ At(t, "put") /\ desc_lock[d] = Nothing
  /\ arena' = [arena EXCEPT ![b[1]].free_cnt = @ + 1]
  /\ free_list' = [free_list EXCEPT ![d] =
                     IF unused THEN Without(list, ArenaBlocks(d, b[1])) ELSE list]
  /\ IF unused
     THEN /\ desc_lock' = [desc_lock EXCEPT ![d] = t]
          /\ left' = [left EXCEPT ![t] = {b[1]}]
          /\ Move(t, "clear") /\ UNCHANGED <<call, page>>
     ELSE Finish(t) /\ UNCHANGED <<desc_lock, left>>
  /\ block' = [block EXCEPT ![t] = Nothing]
  /\ UNCHANGED <<used, pool_lock, held>>

\* palloc_free_multiple(): the pages are overwritten, then their bits are
\* cleared one after the other, without the pool's lock.
free_clear(t) ==
  /\ At(t, "clear")
  /\ \E i \in left[t] : /\ \A j \in left[t] : i <= j
                       /\ used' = used \ {i} /\ left' = [left EXCEPT ![t] = @ \ {i}]
  /\ arena' = [i \in Page |-> IF i \in left[t] THEN NoArena ELSE arena[i]]
  /\ UNCHANGED <<pool_lock, free_list, desc_lock, mpc, call, page, block, held>>
free_return(t) ==
  /\ At(t, "clear") /\ left[t] = {}
  /\ desc_lock' = IF call[t].kind = "block" THEN [desc_lock EXCEPT ![call[t].desc] = Nothing]
                  ELSE desc_lock
  /\ Finish(t)
  /\ UNCHANGED <<used, pool_lock, arena, free_list, block, left, held>>

step(t) ==
  \/ malloc_lock(t) \/ get_lock(t) \/ get_scan(t) \/ get_flip(t) \/ get_unlock(t)
  \/ new_arena(t) \/ malloc_pop(t) \/ free_put(t) \/ free_clear(t) \/ free_return(t)

MemNext ==
  \E t \in Thread :
    \/ step(t)
    \/ \E d \in Desc : malloc(t, d)
    \/ \E n \in BigCounts : malloc_big(t, n)
    \/ \E n \in PageCounts, p \in Pool : palloc_get_multiple(t, p, n)
    \/ \E x \in held[t] : free(t, x)

MemSpec == MemInit /\ [][MemNext]_memvars
-----------------------------------------------------------------------------
\* Pages a thread owns: those it was given as pages or as a big block, those it
\* has just marked and not yet returned, and those it has yet to give back.
Groups(t) == {x \in held[t] : x[1] # "block"}
Group(x) == PageGroup(x[2], x[3])
HeldPages(t) == UNION {Group(x) : x \in Groups(t)}
NewPages(t) == IF mpc[t] \in {"unlock", "arena"} /\ page[t] # Nothing
               THEN PageGroup(page[t], call[t].n) ELSE {}
OwnPages(t) == HeldPages(t) \cup left[t] \cup NewPages(t)
\* Arenas of a descriptor that are not being taken apart.
Arenas(d) == {a \in Page : arena[a].desc = d /\ \A t \in Thread : a \notin left[t]}
ArenaPages == UNION {Arenas(d) : d \in Desc}

\* No page belongs to two owners, be it two threads or a thread and malloc();
\* a page with an owner is marked in used_map and, since a page leaves the map
\* only when it has none, a marked page has an owner.  palloc_free_multiple()
\* changes the map without the lock palloc_get_multiple() takes.
PagesOwnedOnce ==
  /\ \A t, u \in Thread : t # u => OwnPages(t) \cap OwnPages(u) = {}
  /\ \A t \in Thread : OwnPages(t) \cap ArenaPages = {}
  /\ \A t \in Thread : \A x, y \in Groups(t) : x # y => Group(x) \cap Group(y) = {}
  /\ used = ArenaPages \cup UNION {OwnPages(t) : t \in Thread}

\* ArenaBlocks of a descriptor a thread holds, or is about to put back.
OwnBlocks(t, d) ==
  {<<x[2], x[3]>> : x \in {y \in held[t] : y[1] = "block" /\ arena[y[2]].desc = d}}
  \cup (IF mpc[t] = "put" /\ call[t].desc = d THEN {block[t]} ELSE {})

\* Every block of every arena is on its descriptor's free list exactly once or
\* in the hands of exactly one thread, and a held block's arena still has the
\* header block_to_arena() asserts: malloc() never hands out a block twice and
\* no block is lost when an arena is taken apart.
BlocksOwnedOnce ==
  /\ \A d \in Desc :
       LET fl == free_list[d]
           owned == UNION {OwnBlocks(t, d) : t \in Thread} IN
       /\ IsInjective(fl) /\ Range(fl) \cap owned = {}
       /\ Range(fl) \cup owned = UNION {ArenaBlocks(d, a) : a \in Arenas(d)}
       /\ \A t, u \in Thread : t # u => OwnBlocks(t, d) \cap OwnBlocks(u, d) = {}
  /\ \A t \in Thread : \A x \in held[t] : x[1] = "block" => arena[x[2]].desc # Nothing

\* An arena's free_cnt is the number of its blocks on the free list, and while
\* nobody works on the descriptor every arena has a block in use: free() gives
\* a page back with the last of its blocks, so malloc() keeps none it does not need.
FreeCountRight ==
  \A d \in Desc : \A a \in Arenas(d) :
    /\ arena[a].free_cnt = Cardinality(Range(free_list[d]) \cap ArenaBlocks(d, a))
    /\ desc_lock[d] = Nothing => arena[a].free_cnt < blocks_per_arena[d]

\* All memory is accounted for, page by page and block by block.
MemoryOwnedOnce == PagesOwnedOnce /\ BlocksOwnedOnce /\ FreeCountRight

\* A thread that waits for a descriptor's lock holds no lock, one that waits for
\* a pool's lock holds at most its descriptor's, and one that holds a pool's lock
\* waits for none: no cycle of waiting, and no lock is kept after the call.
LockOrder ==
  \A t \in Thread :
    /\ \A d \in Desc : desc_lock[d] = t <=>
         call[t] = Small(d) /\ mpc[t] \notin {"idle", "desc", "put"}
    /\ \A p \in Pool : pool_lock[p] = t <=>
         call[t].pool = p /\ mpc[t] \in {"scan", "flip", "unlock"}
=============================================================================
