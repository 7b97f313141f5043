------------------------------ MODULE FileSys ------------------------------
(***************************************************************************)
(* The file system: filesys.c, directory.c, inode.c and free-map.c, on one *)
(* disk whose writes are atomic per sector.                                *)
(*                                                                         *)
(* A step ends where the code reads or writes the disk or may be preempted *)
(* between looking at shared memory and changing it: the file system has   *)
(* no lock of its own.  The machine may lose power between any two steps;  *)
(* what is on the disk then stays.  Sizes are in sectors, and the free map *)
(* and the root directory have one data sector each.                       *)
(***************************************************************************)
EXTENDS Integers, Sequences, FiniteSets

CONSTANTS
  Proc,
  Name,       \* file names
  BadName,    \* the ones dir_add() refuses: empty or too long
  Slots,      \* entries in the root directory
  Sectors,    \* sectors of the disk
  Sizes,      \* sizes of new files
  Id,         \* memory for struct inode; there is always one left
  NULL,
  MaxOpen,    \* bound: files a process has open
  MaxCrash    \* bound: times the power is lost

ASSUME FileSysAssumption ==
  /\ Sectors \in Nat /\ Sectors > 4 /\ Slots \in Nat
  /\ Sizes \subseteq Nat /\ MaxCrash \in Nat /\ MaxOpen \in Nat /\ NULL \notin Name
  /\ BadName \subseteq Name

ROOT_DIR_SECTOR == 1
Sector          == 0..(Sectors - 1)
System          == 0..3      \* the two inodes and their data, after do_format()

VARIABLES
  dmap,         \* on disk: the sectors marked in the free map
  dinode,       \* on disk: the struct inode_disk in a sector, or NULL
  ddir,         \* on disk: the entries of the root directory, NULL when free
  free_map,     \* in memory: the sectors marked
  open_inodes,  \* in memory: the list of open inodes
  inode,        \* in memory: struct inode by Id, NULL when not allocated
  pc, loc,      \* where each process is, and the variables of its call
  files,        \* the inodes each process has open, one for each open file
  lost,         \* sectors marked that no file will ever use again
  panicked,     \* an assertion failed, or freed memory was used
  crashes

disk   == <<dmap, dinode, ddir>>
memory == <<free_map, open_inodes, inode>>
vars   == <<disk, memory, pc, loc, files, lost, panicked, crashes>>

Rng(q)       == {q[i] : i \in 1..Len(q)}
Remove(q, x) == SelectSeq(q, LAMBDA y : y # x)
First(S)     == IF S = {} THEN NULL ELSE CHOOSE i \in S : \A j \in S : i <= j

NoCall == [name |-> NULL, size |-> 0, dir |-> NULL, ino |-> NULL, sect |-> NULL,
           start |-> NULL, slot |-> NULL, buf |-> NULL, target |-> NULL, then |-> "user"]

Init ==
  /\ dmap = System
  /\ dinode = [s \in Sector |-> IF s \in {0, 1} THEN [start |-> s + 2, len |-> 1] ELSE NULL]
  /\ ddir = [i \in 1..Slots |-> NULL]
  /\ free_map = System
  /\ open_inodes = <<>>
  /\ inode = [i \in Id |-> NULL]
  /\ pc = [p \in Proc |-> "user"]
  /\ loc = [p \in Proc |-> NoCall]
  /\ files = [p \in Proc |-> <<>>]
  /\ lost = {}
  /\ panicked = FALSE
  /\ crashes = 0

Goto(p, l)  == pc' = [pc EXCEPT ![p] = l]
Set(p, rec)  == loc' = [loc EXCEPT ![p] = rec]
Panic        == panicked' = TRUE /\ UNCHANGED <<disk, memory, pc, loc, files, lost, crashes>>
Same         == UNCHANGED <<panicked, crashes>>

\* Open the inode in sector s, and go on at label l with its Id in loc.ino.
CallOpen(p, rec, s, l) ==
  Set(p, [rec EXCEPT !.target = s, !.then = l]) /\ Goto(p, "open_scan")

\* Close inode i, and go on at label l.
CallClose(p, rec, i, l) ==
  Set(p, [rec EXCEPT !.target = i, !.then = l]) /\ Goto(p, "close_dec")
-----------------------------------------------------------------------------
(***************************************************************************)
(* inode_open() and inode_close().                                         *)
(***************************************************************************)

\* Look for the sector in the list of open inodes.
open_scan(p) ==
  LET hits == {n \in 1..Len(open_inodes) : inode[open_inodes[n]].sector = loc[p].target}
  IN /\ pc[p] = "open_scan"
     /\ Set(p, [loc[p] EXCEPT !.ino = IF hits = {} THEN NULL ELSE open_inodes[First(hits)]])
     /\ Goto(p, IF hits = {} THEN "open_new" ELSE "open_again")
     /\ UNCHANGED <<disk, memory, files, lost>> /\ Same

\* inode_reopen(), whose assertion is that the inode is open.
open_again(p) ==
  LET i == loc[p].ino
  IN /\ pc[p] = "open_again"
     /\ IF inode[i] = NULL \/ inode[i].open_cnt = 0 THEN Panic
        ELSE /\ inode' = [inode EXCEPT ![i].open_cnt = @ + 1]
             /\ Goto(p, loc[p].then)
             /\ UNCHANGED <<disk, free_map, open_inodes, loc, files, lost>> /\ Same

\* A new struct inode goes on the list before its contents are read.
open_new(p) ==
  /\ pc[p] = "open_new"
  /\ \E i \in Id :
       /\ inode[i] = NULL
       /\ inode' = [inode EXCEPT ![i] = [sector |-> loc[p].target, open_cnt |-> 1,
                                         removed |-> FALSE, data |-> NULL]]
       /\ open_inodes' = <<i>> \o open_inodes
       /\ Set(p, [loc[p] EXCEPT !.ino = i])
  /\ Goto(p, "open_read")
  /\ UNCHANGED <<disk, free_map, files, lost>> /\ Same

open_read(p) ==
  LET i == loc[p].ino
  IN /\ pc[p] = "open_read"
     /\ IF inode[i] = NULL THEN Panic
        ELSE /\ inode' = [inode EXCEPT ![i].data = dinode[loc[p].target]]
             /\ Goto(p, loc[p].then)
             /\ UNCHANGED <<disk, free_map, open_inodes, loc, files, lost>> /\ Same

\* inode_close() returns to its caller.
Return(p) ==
  /\ Goto(p, loc[p].then)
  /\ Set(p, IF loc[p].then = "user" THEN NoCall ELSE loc[p])

close_dec(p) ==
  LET i == loc[p].target
  IN /\ pc[p] = "close_dec"
     /\ IF inode[i] = NULL THEN Panic
        ELSE /\ inode' = [inode EXCEPT ![i].open_cnt = @ - 1]
             /\ IF inode[i].open_cnt = 1 THEN Goto(p, "close_unlink") /\ UNCHANGED loc ELSE Return(p)
             /\ UNCHANGED <<disk, free_map, open_inodes, files, lost>> /\ Same

\* list_remove(), and free() unless there are blocks to release.
close_unlink(p) ==
  LET i == loc[p].target
  IN /\ pc[p] = "close_unlink"
     /\ open_inodes' = Remove(open_inodes, i)
     /\ IF inode[i].removed
        THEN Goto(p, "close_inode") /\ UNCHANGED <<inode, loc>>
        ELSE Return(p) /\ inode' = [inode EXCEPT ![i] = NULL]
     /\ UNCHANGED <<disk, free_map, files, lost>> /\ Same

\* free_map_release(): the sectors must be marked; then the map is written to
\* the disk.  bitmap_write() fails where malloc() has no bounce buffer for it,
\* which free_map_release() does not look at.
Release(S) == free_map' = free_map \ S /\ UNCHANGED dmap
bitmap_write == dmap' = free_map
bitmap_write_fails == UNCHANGED dmap

close_inode(p) ==
  LET s == inode[loc[p].target].sector
  IN /\ pc[p] = "close_inode"
     /\ IF s \notin free_map THEN Panic
        ELSE /\ Release({s})
             /\ Goto(p, "close_inode_map")
             /\ UNCHANGED <<dinode, ddir, open_inodes, inode, loc, files, lost>> /\ Same

close_inode_map(p) ==
  /\ pc[p] = "close_inode_map"
  /\ bitmap_write \/ bitmap_write_fails
  /\ Goto(p, "close_data")
  /\ UNCHANGED <<dinode, ddir, memory, loc, files, lost>> /\ Same

Group(s, cnt) == {s + n : n \in 0..(cnt - 1)}
Blocks(i)     == Group(inode[i].data.start, inode[i].data.len)

\* Fault: the data sectors of a removed file are not released.
close_data_keep(p) ==
  /\ pc[p] = "close_data"
  /\ inode' = [inode EXCEPT ![loc[p].target] = NULL]
  /\ Return(p)
  /\ UNCHANGED <<disk, free_map, open_inodes, files, lost>> /\ Same

close_data(p) ==
  LET i == loc[p].target
  IN /\ pc[p] = "close_data"
     /\ IF inode[i].data = NULL \/ ~(Blocks(i) \subseteq free_map) THEN Panic
        ELSE /\ Release(Blocks(i))
             /\ Goto(p, "close_data_map")
             /\ UNCHANGED <<dinode, ddir, open_inodes, inode, loc, files, lost>> /\ Same

\* free (inode), after the map is written.
close_data_map(p) ==
  /\ pc[p] = "close_data_map"
  /\ bitmap_write \/ bitmap_write_fails
  /\ inode' = [inode EXCEPT ![loc[p].target] = NULL]
  /\ Return(p)
  /\ UNCHANGED <<dinode, ddir, free_map, open_inodes, files, lost>> /\ Same
-----------------------------------------------------------------------------
(***************************************************************************)
(* filesys_create().                                                       *)
(***************************************************************************)
\* bitmap_scan(): the first group of cnt sectors that are not marked.
Scan(cnt) == First({s \in Sector : s + cnt <= Sectors /\ \A n \in 0..(cnt - 1) : s + n \notin free_map})

\* free_map_allocate(): mark the sectors that were found; then write the map,
\* and take the marks back if that fails.
Mark(S) == free_map' = free_map \cup S /\ UNCHANGED dmap
Unmark(S) == free_map' = free_map \ S

\* lookup(): the slots whose entry has the name.
Entries(n) == {i \in 1..Slots : ddir[i] # NULL /\ ddir[i].name = n}

filesys_create(p, n, size) ==
  /\ pc[p] = "user"
  /\ CallOpen(p, [NoCall EXCEPT !.name = n, !.size = size], ROOT_DIR_SECTOR, "create_scan")
  /\ UNCHANGED <<disk, memory, files, lost>> /\ Same

\* free_map_allocate (1, &inode_sector).
create_scan(p) ==
  LET s == Scan(1)
      r == [loc[p] EXCEPT !.dir = loc[p].ino, !.sect = s]
  IN /\ pc[p] = "create_scan"
     /\ IF s = NULL THEN CallClose(p, r, r.dir, "user")
                    ELSE Set(p, r) /\ Goto(p, "create_mark")
     /\ UNCHANGED <<disk, memory, files, lost>> /\ Same

create_mark(p) ==
  /\ pc[p] = "create_mark"
  /\ Mark({loc[p].sect})
  /\ Goto(p, "create_map")
  /\ UNCHANGED <<dinode, ddir, open_inodes, inode, loc, files, lost>> /\ Same

create_map(p) ==
  /\ pc[p] = "create_map"
  /\ \/ bitmap_write /\ Goto(p, "create_data_scan") /\ UNCHANGED <<free_map, loc>>
     \/ /\ bitmap_write_fails /\ Unmark({loc[p].sect})
        /\ CallClose(p, loc[p], loc[p].dir, "user")
  /\ UNCHANGED <<dinode, ddir, open_inodes, inode, files, lost>> /\ Same

\* inode_create(): free_map_allocate (sectors, &disk_inode->start).
create_data_scan(p) ==
  LET s == Scan(loc[p].size)
  IN /\ pc[p] = "create_data_scan"
     /\ Set(p, [loc[p] EXCEPT !.start = s])
     /\ Goto(p, IF s = NULL THEN "create_undo" ELSE "create_data_mark")
     /\ UNCHANGED <<disk, memory, files, lost>> /\ Same

create_data_mark(p) ==
  /\ pc[p] = "create_data_mark"
  /\ Mark(Group(loc[p].start, loc[p].size))
  /\ Goto(p, "create_data_map")
  /\ UNCHANGED <<dinode, ddir, open_inodes, inode, loc, files, lost>> /\ Same

\* Fault: nobody looks whether the map was written.
create_data_map_blind(p) ==
  /\ pc[p] = "create_data_map"
  /\ bitmap_write \/ bitmap_write_fails
  /\ Goto(p, "create_write")
  /\ UNCHANGED <<dinode, ddir, memory, loc, files, lost>> /\ Same

create_data_map(p) ==
  /\ pc[p] = "create_data_map"
  /\ \/ bitmap_write /\ Goto(p, "create_write") /\ UNCHANGED free_map
     \/ /\ bitmap_write_fails /\ Unmark(Group(loc[p].start, loc[p].size))
        /\ Goto(p, "create_undo")
  /\ UNCHANGED <<dinode, ddir, open_inodes, inode, loc, files, lost>> /\ Same

\* disk_write() of the inode.  The zeros in the data sectors follow.
create_write(p) ==
  /\ pc[p] = "create_write"
  /\ dinode' = [dinode EXCEPT ![loc[p].sect] = [start |-> loc[p].start, len |-> loc[p].size]]
  /\ Goto(p, "create_lookup")
  /\ UNCHANGED <<dmap, ddir, memory, loc, files, lost>> /\ Same

\* dir_add() fails: the data sectors stay marked.
create_fail(p) ==
  Goto(p, "create_undo") /\ lost' = lost \cup Group(loc[p].start, loc[p].size)

\* dir_add(): the name must be valid and new...
create_lookup(p) ==
  /\ pc[p] = "create_lookup"
  /\ IF loc[p].name \in BadName \/ Entries(loc[p].name) # {}
     THEN create_fail(p)
     ELSE Goto(p, "create_slot") /\ UNCHANGED lost
  /\ UNCHANGED <<disk, memory, loc, files>> /\ Same

\* ... and there must be a free slot: the directory does not grow.
create_slot(p) ==
  LET slot == First({i \in 1..Slots : ddir[i] = NULL})
  IN /\ pc[p] = "create_slot"
     /\ Set(p, [loc[p] EXCEPT !.slot = slot])
     /\ IF slot = NULL THEN create_fail(p) ELSE Goto(p, "create_read") /\ UNCHANGED lost
     /\ UNCHANGED <<disk, memory, files>> /\ Same

\* inode_write_at() of the entry reads the sector, changes it and writes it.
create_read(p) ==
  /\ pc[p] = "create_read"
  /\ Set(p, [loc[p] EXCEPT !.buf = ddir])
  /\ Goto(p, "create_entry")
  /\ UNCHANGED <<disk, memory, files, lost>> /\ Same

create_entry(p) ==
  LET r == loc[p]
  IN /\ pc[p] = "create_entry"
     /\ ddir' = [r.buf EXCEPT ![r.slot] = [name |-> r.name, sect |-> r.sect]]
     /\ CallClose(p, r, r.dir, "user")
     /\ UNCHANGED <<dmap, dinode, memory, files, lost>> /\ Same

\* On failure only the sector of the inode is released.
create_undo(p) ==
  /\ pc[p] = "create_undo"
  /\ IF loc[p].sect \notin free_map THEN Panic
     ELSE /\ Release({loc[p].sect})
          /\ Goto(p, "create_undo_map")
          /\ UNCHANGED <<dinode, ddir, open_inodes, inode, loc, files, lost>> /\ Same

create_undo_map(p) ==
  /\ pc[p] = "create_undo_map"
  /\ bitmap_write \/ bitmap_write_fails
  /\ CallClose(p, loc[p], loc[p].dir, "user")
  /\ UNCHANGED <<dinode, ddir, memory, files, lost>> /\ Same
-----------------------------------------------------------------------------
(***************************************************************************)
(* filesys_open(), filesys_remove() and file_close().                      *)
(***************************************************************************)
filesys_open(p, n) ==
  /\ pc[p] = "user" /\ Len(files[p]) < MaxOpen
  /\ CallOpen(p, [NoCall EXCEPT !.name = n], ROOT_DIR_SECTOR, "open_lookup")
  /\ UNCHANGED <<disk, memory, files, lost>> /\ Same

\* dir_lookup().
open_lookup(p) ==
  LET r == [loc[p] EXCEPT !.dir = loc[p].ino]
      i == First(Entries(r.name))
  IN /\ pc[p] = "open_lookup"
     /\ IF i = NULL THEN CallClose(p, r, r.dir, "user")
                    ELSE CallOpen(p, r, ddir[i].sect, "open_dir_close")
     /\ UNCHANGED <<disk, memory, files, lost>> /\ Same

open_dir_close(p) ==
  /\ pc[p] = "open_dir_close"
  /\ CallClose(p, loc[p], loc[p].dir, "file_open")
  /\ UNCHANGED <<disk, memory, files, lost>> /\ Same

file_open(p) ==
  /\ pc[p] = "file_open"
  /\ files' = [files EXCEPT ![p] = Append(@, loc[p].ino)]
  /\ Goto(p, "user") /\ Set(p, NoCall)
  /\ UNCHANGED <<disk, memory, lost>> /\ Same

file_close(p, n) ==
  /\ pc[p] = "user"
  /\ CallClose(p, NoCall, files[p][n], "user")
  /\ files' = [files EXCEPT ![p] = SubSeq(@, 1, n - 1) \o SubSeq(@, n + 1, Len(@))]
  /\ UNCHANGED <<disk, memory, lost>> /\ Same

filesys_remove(p, n) ==
  /\ pc[p] = "user"
  /\ CallOpen(p, [NoCall EXCEPT !.name = n], ROOT_DIR_SECTOR, "remove_lookup")
  /\ UNCHANGED <<disk, memory, files, lost>> /\ Same

\* dir_remove(): find the entry and open its inode.
remove_lookup(p) ==
  LET i == First(Entries(loc[p].name))
      r == [loc[p] EXCEPT !.dir = loc[p].ino, !.slot = i]
  IN /\ pc[p] = "remove_lookup"
     /\ IF i = NULL THEN CallClose(p, r, r.dir, "user")
                    ELSE CallOpen(p, r, ddir[i].sect, "remove_read")
     /\ UNCHANGED <<disk, memory, files, lost>> /\ Same

remove_read(p) ==
  /\ pc[p] = "remove_read"
  /\ Set(p, [loc[p] EXCEPT !.buf = ddir])
  /\ Goto(p, "remove_erase")
  /\ UNCHANGED <<disk, memory, files, lost>> /\ Same

\* Fault: the blocks are released at once, whoever has the file open.
remove_erase_now(p) ==
  LET r == loc[p]
  IN /\ pc[p] = "remove_erase"
     /\ ddir' = [r.buf EXCEPT ![r.slot] = NULL]
     /\ Release(Blocks(r.ino) \cup {inode[r.ino].sector})
     /\ inode' = [inode EXCEPT ![r.ino].removed = TRUE]
     /\ CallClose(p, r, r.ino, "dir_close")
     /\ UNCHANGED <<dinode, open_inodes, files, lost>> /\ Same

\* Erase the entry, mark the inode removed, and close it.
remove_erase(p) ==
  LET r == loc[p]
  IN /\ pc[p] = "remove_erase"
     /\ IF inode[r.ino] = NULL THEN Panic
        ELSE /\ ddir' = [r.buf EXCEPT ![r.slot] = NULL]
             /\ inode' = [inode EXCEPT ![r.ino].removed = TRUE]
             /\ CallClose(p, r, r.ino, "dir_close")
             /\ UNCHANGED <<dmap, dinode, free_map, open_inodes, files, lost>> /\ Same

\* Fault: dir_close() is missing.
dir_close_skip(p) ==
  /\ pc[p] = "dir_close"
  /\ Goto(p, "user") /\ Set(p, NoCall)
  /\ UNCHANGED <<disk, memory, files, lost>> /\ Same

dir_close(p) ==
  /\ pc[p] = "dir_close"
  /\ CallClose(p, loc[p], loc[p].dir, "user")
  /\ UNCHANGED <<disk, memory, files, lost>> /\ Same
-----------------------------------------------------------------------------
\* The sectors of the inode in sector s.
Extent(s) == {s} \cup Group(dinode[s].start, dinode[s].len)
Named     == {ddir[i].sect : i \in {j \in 1..Slots : ddir[j] # NULL}}
Opened    == {inode[i].sector : i \in Rng(open_inodes)} \ {ROOT_DIR_SECTOR}

\* The power is lost, and filesys_init() mounts the disk as it is.
restart ==
  /\ crashes < MaxCrash
  /\ crashes' = crashes + 1
  /\ free_map' = dmap
  /\ open_inodes' = <<>>
  /\ inode' = [i \in Id |-> NULL]
  /\ pc' = [p \in Proc |-> "user"]
  /\ loc' = [p \in Proc |-> NoCall]
  /\ files' = [p \in Proc |-> <<>>]
  /\ lost' = dmap \ (System \cup UNION {Extent(s) : s \in Named})
  /\ UNCHANGED <<disk, panicked>>

inode_step(p) ==
  \/ open_scan(p) \/ open_again(p) \/ open_new(p) \/ open_read(p)
  \/ close_dec(p) \/ close_unlink(p) \/ close_inode(p) \/ close_inode_map(p)
  \/ close_data(p) \/ close_data_map(p)

create_step(p) ==
  \/ create_scan(p) \/ create_mark(p) \/ create_map(p)
  \/ create_data_scan(p) \/ create_data_mark(p) \/ create_data_map(p)
  \/ create_write(p) \/ create_lookup(p) \/ create_slot(p) \/ create_read(p)
  \/ create_entry(p) \/ create_undo(p) \/ create_undo_map(p)

file_step(p) ==
  \/ open_lookup(p) \/ open_dir_close(p) \/ file_open(p)
  \/ remove_lookup(p) \/ remove_read(p) \/ remove_erase(p) \/ dir_close(p)

Next ==
  /\ ~panicked
  /\ \/ \E p \in Proc :
          \/ \E n \in Name : \/ \E z \in Sizes : filesys_create(p, n, z)
                              \/ filesys_open(p, n) \/ filesys_remove(p, n)
          \/ \E n \in 1..Len(files[p]) : file_close(p, n)
          \/ inode_step(p) \/ create_step(p) \/ file_step(p)
     \/ restart

Spec == Init /\ [][Next]_vars
-----------------------------------------------------------------------------
\* Whenever the power is lost: a name on the disk leads to an inode that was
\* written, all of whose sectors the free map on the disk marks; and no sector
\* belongs to two files, counting the removed files somebody still has open.
NoSharing ==
  LET Live == Named \cup Opened
  IN /\ \A s \in Live : dinode[s] # NULL /\ Extent(s) \subseteq dmap \ (System \cup lost)
     /\ \A s, t \in Live : s # t => Extent(s) \cap Extent(t) = {}

Quiet == \A p \in Proc : pc[p] = "user"

\* Between calls every marked sector belongs to the system, to a file that has
\* a name or is open, or was lost by a create that failed in dir_add() or by a
\* power failure: remove and close give back everything, exactly once.
SpaceAccounted ==
  Quiet => free_map = System \cup lost \cup UNION {Extent(s) : s \in Named \cup Opened}

Uses(i) == Cardinality({<<p, n>> \in Proc \X (1..MaxOpen) :
                          n <= Len(files[p]) /\ files[p][n] = i})

\* Between calls the open inodes are the ones the open files use, and open_cnt
\* is the number of these files; no call leaves the root directory open.
OpenCounts ==
  Quiet => \A i \in Id : /\ (inode[i] # NULL) = (i \in Rng(open_inodes))
                         /\ Uses(i) = (IF inode[i] = NULL THEN 0 ELSE inode[i].open_cnt)

\* No assertion of inode_reopen() or free_map_release() fails, and no struct
\* inode is used after it is freed.
NoPanic == ~panicked

\* inode.c: "List of open inodes, so that opening a single inode twice returns
\* the same `struct inode'": no sector is on the list twice.
SameInode ==
  \A i, j \in Rng(open_inodes) : inode[i].sector = inode[j].sector => i = j

\* filesys_create() "Fails if a file named NAME already exists": no name is in
\* the directory twice.
NamesUnique == \A n \in Name : Cardinality(Entries(n)) <= 1

\* A create that fails gives back what it took (filesys.c:55-56): as long as the
\* power stays on, no sector is marked that no file uses.
NothingLost == crashes = 0 => lost = {}
=============================================================================
