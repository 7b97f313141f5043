-------------------------------- MODULE Load --------------------------------
(***************************************************************************)
(* Loading a program: load() of userprog/process.c with its helpers, the   *)
(* page directories of userprog/pagedir.c under it, and the end of         *)
(* process_exit(), which takes the address space down again.               *)
(*                                                                         *)
(* Pages come from the kernel pool (directories and tables) and from the   *)
(* user pool (what is mapped).  Processes load and exit at the same time:  *)
(* the timer may switch to another one between any two steps, and each     *)
(* switch loads the page directory of the new thread into CR3.  Addresses  *)
(* are integers of Width bits; the byte at offset k of the file of process *)
(* p is <<p, k>>, so that it is known wherever it ends up.                 *)
(***************************************************************************)
EXTENDS Naturals, Sequences, FiniteSets, FiniteSetsExt

CONSTANTS
  Loader, nobody,        \* processes, and the kernel thread that runs otherwise
  PGSIZE, PTSIZE,      \* bytes in a page, entries in a page table
  PHYS_BASE, Width,    \* start of kernel memory, bits in an address
  Nil,
  Setups               \* how a run starts: the executable of each process and
                       \* the free pages of both pools

ASSUME LoadAssumption ==
  /\ nobody \notin Loader
  /\ PGSIZE \in Nat \ {0} /\ PTSIZE \in Nat \ {0} /\ Width \in Nat
  /\ PHYS_BASE % (PGSIZE * PTSIZE) = 0 /\ PHYS_BASE < 2^Width

VARIABLES
  lpc, l,            \* where each process is, and its local variables
  prog,              \* its executable (ehdr, phdrs and length), or Nil
  pagedir,           \* of each struct thread
  cur, cr3,          \* the running thread and the active page directory
  free_kernel, free_user,
  dir, tab,          \* page directories and page tables, by their page
  mem,               \* contents of the user pages
  halted             \* an assertion failed or the kernel faulted

pools == <<free_kernel, free_user>>
space == <<pagedir, dir, tab, mem>>
loadVars == <<lpc, l, prog, cur, cr3, pools, space, halted>>

base_page_dir == 0
Zero == <<"zero">>
Junk == <<"junk">>
add(x, y) == (x + y) % 2^Width
pg_ofs(a) == a % PGSIZE
pg_round_down(a) == a - pg_ofs(a)
ROUND_UP(a) == pg_round_down(add(a, PGSIZE - 1))
is_user_vaddr(a) == a < PHYS_BASE
pd_no(a) == a \div (PGSIZE * PTSIZE)
pt_no(a) == (a \div PGSIZE) % PTSIZE
PdNo == 0..(pd_no(PHYS_BASE) - 1)
Blank(v) == [b \in 0..(PGSIZE - 1) |-> v]
NoTable == [n \in 0..(PTSIZE - 1) |-> Nil]
NoLocals == [i |-> 1, read |-> 0, zero |-> 0, upage |-> 0, pos |-> 0, writable |-> FALSE,
             kpage |-> Nil, pd |-> Nil, success |-> FALSE]

LoadStart(s) ==
  /\ prog = s.prog /\ free_kernel = s.kernel /\ free_user = s.user
  /\ dir = [k \in s.kernel |-> [n \in PdNo |-> Nil]]
  /\ tab = [k \in s.kernel |-> NoTable]
  /\ mem = [u \in s.user |-> Blank(Junk)]
  /\ lpc = [p \in Loader |-> "none"] /\ l = [p \in Loader |-> NoLocals]
  /\ pagedir = [p \in Loader |-> Nil]
  /\ cur = nobody /\ cr3 = base_page_dir /\ halted = FALSE
LoadInit == \E s \in Setups : LoadStart(s)

Go(p, label) == lpc' = [lpc EXCEPT ![p] = label]
Put(p, r) == l' = [l EXCEPT ![p] = r]
-----------------------------------------------------------------------------
\* palloc_get_page() takes the first free page of a pool.
TakeKernel == free_kernel' = free_kernel \ {Min(free_kernel)}
TakeUser   == free_user' = free_user \ {Min(free_user)}

\* pagedir_get_page(): the entry for an address, if there is a page table.
Entry(d, a) == IF dir[d][pd_no(a)] = Nil THEN Nil
               ELSE tab[dir[d][pd_no(a)]][pt_no(a)]

\* pagedir_set_page(): lookup_page() creates the page table when it is missing;
\* the entry must not be present.
pagedir_set_page(d, a, entry) ==
  LET pt == IF dir[d][pd_no(a)] # Nil THEN dir[d][pd_no(a)] ELSE Min(free_kernel)
  IN /\ dir' = [dir EXCEPT ![d][pd_no(a)] = pt]
     /\ halted' = (Entry(d, a) # Nil)
     /\ IF dir[d][pd_no(a)] # Nil
        THEN tab' = [tab EXCEPT ![pt][pt_no(a)] = entry] /\ UNCHANGED free_kernel
        ELSE tab' = [tab EXCEPT ![pt] = [NoTable EXCEPT ![pt_no(a)] = entry]] /\ TakeKernel

\* Fault: nobody looks whether the page is mapped.
CanInstall_over(p) == dir[pagedir[p]][pd_no(l[p].upage)] # Nil \/ free_kernel # {}

\* install_page() of the local kpage at upage; a page that is mapped already,
\* or no memory for a page table, makes it fail, and the caller frees kpage.
CanInstall(p) ==
  /\ Entry(pagedir[p], l[p].upage) = Nil
  /\ dir[pagedir[p]][pd_no(l[p].upage)] # Nil \/ free_kernel # {}

install_page(p, ok, new) ==
  IF ~is_user_vaddr(l[p].upage)
  THEN halted' = TRUE /\ UNCHANGED <<lpc, l, pools, dir, tab, mem>>
  ELSE IF CanInstall(p)
  THEN /\ pagedir_set_page(pagedir[p], l[p].upage,
                           [page |-> l[p].kpage, writable |-> l[p].writable])
       /\ Put(p, new) /\ Go(p, ok)
       /\ UNCHANGED <<free_user, mem>>
  ELSE /\ free_user' = free_user \cup {l[p].kpage}
       /\ mem' = [mem EXCEPT ![l[p].kpage] = Blank(Junk)]
       /\ Put(p, [l[p] EXCEPT !.kpage = Nil]) /\ Go(p, "done")
       /\ UNCHANGED <<free_kernel, dir, tab, halted>>
-----------------------------------------------------------------------------
\* load(): pagedir_create() and process_activate().
pagedir_create(p) ==
  /\ lpc[p] = "none" /\ prog[p] # Nil
  /\ IF free_kernel = {}
     THEN Go(p, "done") /\ UNCHANGED <<pagedir, dir, free_kernel>>
     ELSE /\ pagedir' = [pagedir EXCEPT ![p] = Min(free_kernel)]
          /\ dir' = [dir EXCEPT ![Min(free_kernel)] = [n \in PdNo |-> Nil]]
          /\ TakeKernel /\ Go(p, "activate")
  /\ UNCHANGED <<l, prog, cur, cr3, free_user, tab, mem, halted>>

process_activate(p) ==
  /\ lpc[p] = "activate" /\ Go(p, "stack")
  /\ cr3' = pagedir[p]
  /\ UNCHANGED <<l, prog, cur, pools, space, halted>>

\* setup_stack(): a zeroed page at the top of user memory.  Without one the
\* arguments are pushed below address 0, and the kernel faults.
stack_page(p) ==
  /\ lpc[p] = "stack"
  /\ IF free_user = {}
     THEN halted' = TRUE /\ UNCHANGED <<lpc, l, free_user, mem>>
     ELSE /\ TakeUser /\ mem' = [mem EXCEPT ![Min(free_user)] = Blank(Zero)]
          /\ Put(p, [l[p] EXCEPT !.kpage = Min(free_user), !.writable = TRUE,
                                 !.upage = PHYS_BASE - PGSIZE])
          /\ Go(p, "install_stack") /\ UNCHANGED halted
  /\ UNCHANGED <<prog, cur, cr3, free_kernel, pagedir, dir, tab>>

install_stack(p) ==
  /\ lpc[p] = "install_stack"
  /\ install_page(p, "open", NoLocals)
  /\ UNCHANGED <<prog, cur, cr3, pagedir>>

\* filesys_open(), and the executable header read and verified.
open_executable(p) ==
  /\ lpc[p] = "open" /\ Go(p, IF prog[p].ehdr = "ok" THEN "phdr" ELSE "done")
  /\ UNCHANGED <<l, prog, cur, cr3, pools, space, halted>>

validate_segment(h, length) ==
  /\ pg_ofs(h.offset) = pg_ofs(h.vaddr)
  /\ h.offset <= length
  /\ h.memsz >= h.filesz /\ h.memsz # 0
  /\ is_user_vaddr(h.vaddr) /\ is_user_vaddr(add(h.vaddr, h.memsz))
  /\ add(h.vaddr, h.memsz) >= h.vaddr
  /\ h.vaddr >= PGSIZE

\* Fault: the bytes before the segment in its first page are forgotten.
read_bytes_plain(h) == h.filesz

\* What load_segment() is asked to read from the file and to zero.
read_bytes(h) == IF h.filesz > 0 THEN add(pg_ofs(h.vaddr), h.filesz) ELSE 0
zero_bytes(h) == add(ROUND_UP(add(pg_ofs(h.vaddr), h.memsz)), 2^Width - read_bytes(h))

\* A header that cannot be read, a type that is not supported, a bad segment.
Refused(h, length) == h.type \in {"unreadable", "dynamic"}
                      \/ (h.type = "load" /\ ~validate_segment(h, length))

\* One turn of the loop over the program headers.
read_phdr(p) ==
  LET h == prog[p].phdrs[l[p].i] IN
  /\ lpc[p] = "phdr"
  /\ IF l[p].i > Len(prog[p].phdrs)
     THEN Put(p, [l[p] EXCEPT !.success = TRUE]) /\ Go(p, "done") /\ UNCHANGED halted
     ELSE \/ /\ h.type = "ignored" /\ Put(p, [l[p] EXCEPT !.i = @ + 1])
             /\ UNCHANGED <<lpc, halted>>
          \/ /\ Refused(h, prog[p].length)
             /\ Go(p, "done") /\ UNCHANGED <<l, halted>>
          \/ /\ h.type = "load" /\ validate_segment(h, prog[p].length)
             /\ halted' = (add(read_bytes(h), zero_bytes(h)) % PGSIZE # 0)
             /\ Put(p, [l[p] EXCEPT !.i = @ + 1, !.pos = pg_round_down(h.offset),
                          !.upage = pg_round_down(h.vaddr), !.writable = h.writable,
                          !.read = read_bytes(h), !.zero = zero_bytes(h)])
             /\ Go(p, "segment")
  /\ UNCHANGED <<prog, cur, cr3, pools, space>>

\* load_segment(): a page is allocated, or the segment is complete.
segment_page(p) ==
  /\ lpc[p] = "segment"
  /\ \/ /\ l[p].read = 0 /\ l[p].zero = 0
        /\ Go(p, "phdr") /\ UNCHANGED <<l, free_user>>
     \/ /\ l[p].read + l[p].zero > 0 /\ free_user = {}
        /\ Go(p, "done") /\ UNCHANGED <<l, free_user>>
     \/ /\ l[p].read + l[p].zero > 0 /\ free_user # {}
        /\ TakeUser /\ Put(p, [l[p] EXCEPT !.kpage = Min(free_user)])
        /\ Go(p, "read")
  /\ UNCHANGED <<prog, cur, cr3, free_kernel, space, halted>>

\* file_read() of the page and memset() of its rest; a file that is too short
\* makes the load fail.
read_page(p) ==
  LET n == Min({l[p].read, PGSIZE})                         \* page_read_bytes
      short == n > 0 /\ l[p].pos + n > prog[p].length
      fill == [b \in DOMAIN Blank(Zero) |-> IF b < n THEN <<p, l[p].pos + b>> ELSE Zero]
  IN
  /\ lpc[p] = "read"
  /\ \/ /\ short /\ free_user' = free_user \cup {l[p].kpage}
        /\ Put(p, [l[p] EXCEPT !.kpage = Nil]) /\ Go(p, "done") /\ UNCHANGED mem
     \/ /\ ~short /\ mem' = [mem EXCEPT ![l[p].kpage] = fill]
        /\ Put(p, [l[p] EXCEPT !.pos = @ + n]) /\ Go(p, "install")
        /\ UNCHANGED free_user
  /\ UNCHANGED <<prog, cur, cr3, free_kernel, pagedir, dir, tab, halted>>

install_segment(p) ==
  LET n == Min({l[p].read, PGSIZE}) IN
  /\ lpc[p] = "install"
  /\ install_page(p, "segment",
       [l[p] EXCEPT !.kpage = Nil, !.upage = add(@, PGSIZE), !.read = @ - n,
                    !.zero = add(@, 2^Width - (PGSIZE - n))])
  /\ UNCHANGED <<prog, cur, cr3, pagedir>>

\* The end of load(); after a failure start_process() calls thread_exit().
load_done(p) ==
  /\ lpc[p] = "done" /\ Go(p, IF l[p].success THEN "loaded" ELSE "exit")
  /\ Put(p, NoLocals)
  /\ UNCHANGED <<prog, cur, cr3, pools, space, halted>>
-----------------------------------------------------------------------------
\* The program exits or is killed.
finish(p) ==
  /\ lpc[p] = "loaded" /\ Go(p, "exit")
  /\ UNCHANGED <<l, prog, cur, cr3, pools, space, halted>>

\* Fault: CR3 is changed before the thread forgets its page directory.
exit_forget_late(p) ==
  /\ lpc[p] = "exit" /\ Put(p, [l[p] EXCEPT !.pd = pagedir[p]])
  /\ Go(p, IF pagedir[p] = Nil THEN "dead" ELSE "deactivate")
  /\ UNCHANGED <<prog, cur, cr3, pools, space, halted>>

\* process_exit(): pagedir = NULL, pagedir_activate (NULL), pagedir_destroy().
exit_forget(p) ==
  /\ lpc[p] = "exit" /\ Put(p, [l[p] EXCEPT !.pd = pagedir[p]])
  /\ pagedir' = [pagedir EXCEPT ![p] = Nil]
  /\ Go(p, IF pagedir[p] = Nil THEN "dead" ELSE "deactivate")
  /\ UNCHANGED <<prog, cur, cr3, pools, dir, tab, mem, halted>>

exit_deactivate(p) ==
  /\ lpc[p] = "deactivate" /\ cr3' = base_page_dir /\ Go(p, "destroy")
  /\ UNCHANGED <<l, prog, cur, pools, space, halted>>

\* Fault: the page tables are not freed.
pagedir_destroy_tables(p) ==
  LET d == l[p].pd
      tables == {n \in PdNo : dir[d][n] # Nil}
      n == Min(tables)
      present == {e \in DOMAIN NoTable : tab[dir[d][n]][e] # Nil}
      u == tab[dir[d][n]][Min(present)].page
  IN
  /\ lpc[p] = "destroy"
  /\ \/ /\ tables # {} /\ present # {}
        /\ free_user' = free_user \cup {u} /\ mem' = [mem EXCEPT ![u] = Blank(Junk)]
        /\ tab' = [tab EXCEPT ![dir[d][n]][Min(present)] = Nil]
        /\ UNCHANGED <<lpc, l, free_kernel, dir>>
     \/ /\ tables # {} /\ present = {}
        /\ dir' = [dir EXCEPT ![d][n] = Nil]
        /\ UNCHANGED <<lpc, l, free_user, free_kernel, tab, mem>>
     \/ /\ tables = {} /\ free_kernel' = free_kernel \cup {d}
        /\ Put(p, NoLocals) /\ Go(p, "dead")
        /\ UNCHANGED <<free_user, dir, tab, mem>>
  /\ UNCHANGED <<prog, cur, cr3, pagedir, halted>>

\* pagedir_destroy(), one palloc_free_page() at a time: the pages of each
\* page table, then the table, and at last the directory.
pagedir_destroy(p) ==
  LET d == l[p].pd
      tables == {n \in PdNo : dir[d][n] # Nil}
      n == Min(tables)
      present == {e \in DOMAIN NoTable : tab[dir[d][n]][e] # Nil}
      u == tab[dir[d][n]][Min(present)].page
  IN
  /\ lpc[p] = "destroy"
  /\ \/ /\ tables # {} /\ present # {}
        /\ free_user' = free_user \cup {u} /\ mem' = [mem EXCEPT ![u] = Blank(Junk)]
        /\ tab' = [tab EXCEPT ![dir[d][n]][Min(present)] = Nil]
        /\ UNCHANGED <<lpc, l, free_kernel, dir>>
     \/ /\ tables # {} /\ present = {}
        /\ free_kernel' = free_kernel \cup {dir[d][n]}
        /\ dir' = [dir EXCEPT ![d][n] = Nil]
        /\ UNCHANGED <<lpc, l, free_user, tab, mem>>
     \/ /\ tables = {} /\ free_kernel' = free_kernel \cup {d}
        /\ Put(p, NoLocals) /\ Go(p, "dead")
        /\ UNCHANGED <<free_user, dir, tab, mem>>
  /\ UNCHANGED <<prog, cur, cr3, pagedir, halted>>

\* The timer switches to another thread, and schedule_tail() activates the
\* page directory that the thread has at that moment.
switch(q) ==
  /\ q # cur /\ cur' = q
  /\ cr3' = IF q = nobody \/ pagedir[q] = Nil THEN base_page_dir ELSE pagedir[q]
  /\ UNCHANGED <<lpc, l, prog, pools, space, halted>>
-----------------------------------------------------------------------------
Work(p) ==
  \/ pagedir_create(p) \/ process_activate(p) \/ stack_page(p) \/ install_stack(p)
  \/ open_executable(p) \/ read_phdr(p) \/ segment_page(p) \/ read_page(p)
  \/ install_segment(p) \/ load_done(p)
  \/ finish(p) \/ exit_forget(p) \/ exit_deactivate(p) \/ pagedir_destroy(p)

LoadNext ==
  ~halted /\ (\/ \E p \in Loader : cur = p /\ Work(p)
              \/ \E q \in Loader \cup {nobody} : switch(q))
LoadSpec == LoadInit /\ [][LoadNext]_loadVars
-----------------------------------------------------------------------------
\* The page directory that p still has to give back.
Dirs(p) == {pagedir[p], l[p].pd} \ {Nil}
Tables(p) == UNION {{dir[d][n] : n \in PdNo} : d \in Dirs(p)} \ {Nil}
Entries(p) == UNION {{tab[t][e] : e \in DOMAIN NoTable} : t \in Tables(p)} \ {Nil}
ProcessPages(p) == {e.page : e \in Entries(p)} \cup ({l[p].kpage} \ {Nil})

\* Whatever step a load fails at, and however loads and exits of processes
\* alternate: every page is free or belongs to exactly one process, none
\* twice, and a process that is gone has given all of its pages back.
PagesGivenBack ==
  /\ \A p, q \in Loader : p # q =>
       /\ (Dirs(p) \cup Tables(p)) \cap (Dirs(q) \cup Tables(q)) = {}
       /\ ProcessPages(p) \cap ProcessPages(q) = {}
  /\ \A p \in Loader : Dirs(p) \cap Tables(p) = {}
  /\ free_kernel = DOMAIN dir \ UNION {Dirs(p) \cup Tables(p) : p \in Loader}
  /\ free_user = DOMAIN mem \ UNION {ProcessPages(p) : p \in Loader}

\* A program that was loaded finds its segments in memory: every byte of a
\* segment is mapped, in user memory and outside page 0, with the right
\* protection, and holds the byte of the file or zero.
ImageRight ==
  \A p \in Loader : lpc[p] = "loaded" =>
    \A i \in 1..Len(prog[p].phdrs) : LET h == prog[p].phdrs[i] IN
      h.type = "load" => \A k \in 0..(h.memsz - 1) :
        LET a == h.vaddr + k
            e == Entry(pagedir[p], a)
        IN /\ PGSIZE <= a /\ a < PHYS_BASE /\ e # Nil
           /\ e.writable = h.writable
           /\ mem[e.page][pg_ofs(a)] = IF k < h.filesz THEN <<p, h.offset + k>> ELSE Zero

\* CR3 never points to a page directory that is being freed, even if the
\* timer interrupts process_exit(), and a program runs in its own.
ActivePagedir ==
  /\ \A p \in Loader : lpc[p] = "destroy" => cr3 # l[p].pd
  /\ cr3 # base_page_dir => cr3 \notin free_kernel
  /\ cur # nobody /\ lpc[cur] = "loaded" => cr3 = pagedir[cur]

\* The assertions of load_segment() and pagedir.c hold: the kernel stops only
\* for want of a page for the stack, which setup_stack() goes on without.
\* (Arguments that do not fit the page stop it too: see the module Arguments.)
AssertionsHold == halted => cur # nobody /\ lpc[cur] = "stack" /\ free_user = {}
=============================================================================
