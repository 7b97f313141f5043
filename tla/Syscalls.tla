------------------------------ MODULE Syscalls ------------------------------
(***************************************************************************)
(* System calls on files: syscall_handler() of userprog/syscall.c with the *)
(* descriptor table of struct thread, which thread_create() sets up and    *)
(* thread_exit() takes down.                                               *)
(*                                                                         *)
(* fd_bitmap says which descriptors are taken and file_names[fd] is the    *)
(* struct file behind each.  A struct file comes from malloc(), so that an *)
(* address that one process has freed is handed to the next that opens a   *)
(* file.  Processes take turns between any two steps; a step ends where    *)
(* the handler calls into the file system.                                 *)
(***************************************************************************)
EXTENDS Integers

CONSTANTS
  Caller,        \* pages of struct thread, used for one process after another
  File,        \* addresses of struct file
  Name,        \* files that can be opened
  NoFile,      \* the null pointer
  MapSize,     \* file_map_size, the number of descriptors
  Length,      \* bytes in a file
  Sizes        \* how many bytes a program reads or writes at once

ASSUME SyscallsAssumption ==
  /\ MapSize \in Nat /\ MapSize >= 2 /\ Length \in Nat /\ Sizes \subseteq Nat
  /\ NoFile \notin File /\ NoFile \notin Name

Fd == 0..(MapSize - 1)

VARIABLES
  upc, fd,              \* where each process is, and the handler's local fd
  handle,              \* the handler's local file_handle
  fd_map, file_names,  \* the descriptor table
  inode_of, pos,       \* struct file; inode_of is NoFile while the memory is free
  panicked,            \* the kernel has stopped
  granted, moved       \* what the process was told: the file behind each
                       \* descriptor, and how many bytes went through it

table == <<fd_map, file_names>>
files == <<inode_of, pos>>
told  == <<granted, moved>>
callvars  == <<upc, fd, handle, table, files, panicked, told>>

CallInit ==
  /\ upc = [p \in Caller |-> "none"] /\ fd = [p \in Caller |-> 0]
  /\ handle = [p \in Caller |-> NoFile]
  /\ fd_map = [p \in Caller |-> {}]
  /\ file_names = [p \in Caller |-> [d \in Fd |-> NoFile]]
  /\ inode_of = [f \in File |-> NoFile] /\ pos = [f \in File |-> 0]
  /\ panicked = FALSE
  /\ granted = [p \in Caller |-> [d \in Fd |-> NoFile]]
  /\ moved = [p \in Caller |-> [d \in Fd |-> 0]]

GoOn(p, l) == upc' = [upc EXCEPT ![p] = l]

\* thread_create(): a zeroed page, and a bitmap with 0 and 1 taken; without
\* memory for the bitmap the kernel panics.
thread_create(p) ==
  /\ upc[p] \in {"none", "dead"}
  /\ \/ /\ GoOn(p, "user")
        /\ fd_map' = [fd_map EXCEPT ![p] = {0, 1}]
        /\ file_names' = [file_names EXCEPT ![p] = [d \in Fd |-> NoFile]]
        /\ UNCHANGED panicked
     \/ panicked' = TRUE /\ UNCHANGED <<upc, table>>
  /\ UNCHANGED <<fd, handle, files, told>>

\* fd_ok(): in range, and taken.
fd_ok(p, d) == d < MapSize /\ d >= 0 /\ d \in fd_map[p]
-----------------------------------------------------------------------------
\* Fault: the descriptor is found but not marked.
open_scan_no_flip(p) ==
  /\ upc[p] = "user"
  /\ \E d \in Fd : 
       /\ d \notin fd_map[p] /\ \A e \in Fd : e < d => e \in fd_map[p]
       /\ fd' = [fd EXCEPT ![p] = d]
  /\ GoOn(p, "open")
  /\ UNCHANGED <<handle, table, files, panicked, told>>

\* SYS_OPEN takes the first free descriptor before it looks for the file.
open_scan(p) ==
  /\ upc[p] = "user"
  /\ \E d \in Fd : 
       /\ d \notin fd_map[p] /\ \A e \in Fd : e < d => e \in fd_map[p]
       /\ fd_map' = [fd_map EXCEPT ![p] = @ \cup {d}]
       /\ fd' = [fd EXCEPT ![p] = d]
  /\ GoOn(p, "open")
  /\ UNCHANGED <<handle, file_names, files, panicked, told>>

\* The rest of SYS_OPEN: filesys_open() makes a struct file, or fails, for
\* want of the file or of memory; the descriptor stays taken either way.
open_file(p, n) ==
  /\ upc[p] = "open"
  /\ \/ \E f \in File :
          /\ inode_of[f] = NoFile
          /\ inode_of' = [inode_of EXCEPT ![f] = n] /\ pos' = [pos EXCEPT ![f] = 0]
          /\ file_names' = [file_names EXCEPT ![p][fd[p]] = f]
          /\ granted' = [granted EXCEPT ![p][fd[p]] = n] /\ UNCHANGED moved
     \/ UNCHANGED <<files, file_names, told>>
  /\ GoOn(p, "user") /\ fd' = [fd EXCEPT ![p] = 0]
  /\ UNCHANGED <<handle, fd_map, panicked>>

\* file_read() and file_write() move the position by what was transferred;
\* of a null pointer they make the kernel fault.
Transfer(p, d, size) ==
  LET f == file_names[p][d]
      n == IF size < Length - pos[f] THEN size ELSE Length - pos[f]
  IN \/ /\ f = NoFile /\ panicked' = TRUE
        /\ UNCHANGED <<pos, moved>>
     \/ /\ f # NoFile /\ pos' = [pos EXCEPT ![f] = @ + n]
        /\ moved' = [moved EXCEPT ![p][d] = @ + n]
        /\ UNCHANGED panicked

\* SYS_READ: 0 is the keyboard, 1 and an invalid descriptor give -1.
sys_read(p, d, size) ==
  /\ upc[p] = "user"
  /\ \/ d # 0 /\ d # 1 /\ fd_ok(p, d) /\ Transfer(p, d, size)
     \/ (d \in {0, 1} \/ ~fd_ok(p, d)) /\ UNCHANGED <<pos, moved, panicked>>
  /\ UNCHANGED <<upc, fd, handle, table, inode_of, granted>>

\* SYS_WRITE: 1 is the screen, 0 and an invalid descriptor give -1.
sys_write(p, d, size) ==
  /\ upc[p] = "user"
  /\ \/ (d = 1 \/ d = 0 \/ ~fd_ok(p, d)) /\ UNCHANGED <<pos, moved, panicked>>
     \/ d # 1 /\ d # 0 /\ fd_ok(p, d) /\ Transfer(p, d, size)
  /\ UNCHANGED <<upc, fd, handle, table, inode_of, granted>>

\* SYS_CLOSE empties the descriptor, 0 and 1 too, and then closes the file.
sys_close(p, d) ==
  /\ upc[p] = "user" /\ fd_ok(p, d)
  /\ handle' = [handle EXCEPT ![p] = file_names[p][d]]
  /\ file_names' = [file_names EXCEPT ![p][d] = NoFile]
  /\ fd_map' = [fd_map EXCEPT ![p] = @ \ {d}]
  /\ granted' = [granted EXCEPT ![p][d] = NoFile] /\ moved' = [moved EXCEPT ![p][d] = 0]
  /\ GoOn(p, "close")
  /\ UNCHANGED <<fd, files, panicked>>

\* file_close(), which does nothing for a null pointer.
FreeFile(f) ==
  /\ inode_of' = [g \in File |-> IF g = f THEN NoFile ELSE inode_of[g]]
  /\ pos' = [g \in File |-> IF g = f THEN 0 ELSE pos[g]]

file_close(p) ==
  /\ upc[p] = "close"
  /\ FreeFile(handle[p])
  /\ handle' = [handle EXCEPT ![p] = NoFile] /\ GoOn(p, "user")
  /\ UNCHANGED <<fd, table, panicked, told>>
-----------------------------------------------------------------------------
\* SYS_HALT switches the machine off.
sys_halt(p) ==
  /\ upc[p] = "user" /\ panicked' = TRUE
  /\ UNCHANGED <<upc, fd, handle, table, files, told>>

\* SYS_EXIT, an unknown number, a pointer that fails check_valid_pointer() or
\* check_pagedir(), and an exception in the program all reach thread_exit().
leave(p) ==
  /\ upc[p] = "user"
  /\ fd' = [fd EXCEPT ![p] = 0] /\ GoOn(p, "exit")
  /\ granted' = [granted EXCEPT ![p] = [d \in Fd |-> NoFile]]
  /\ moved' = [moved EXCEPT ![p] = [d \in Fd |-> 0]]
  /\ UNCHANGED <<handle, table, files, panicked>>

\* Fault: the loop stops one descriptor short.
thread_exit_short(p) ==
  /\ upc[p] = "exit" /\ fd[p] < MapSize
  /\ IF fd[p] \in fd_map[p] /\ fd[p] + 1 < MapSize
     THEN FreeFile(file_names[p][fd[p]]) ELSE UNCHANGED files
  /\ fd' = [fd EXCEPT ![p] = @ + 1]
  /\ UNCHANGED <<upc, handle, table, panicked, told>>

\* thread_exit()'s loop: the file of every descriptor that is taken.
thread_exit(p) ==
  /\ upc[p] = "exit" /\ fd[p] < MapSize
  /\ IF fd[p] \in fd_map[p] THEN FreeFile(file_names[p][fd[p]]) ELSE UNCHANGED files
  /\ fd' = [fd EXCEPT ![p] = @ + 1]
  /\ UNCHANGED <<upc, handle, table, panicked, told>>

\* bitmap_destroy(), process_exit() and the end of the thread, whose page is
\* given back.
bitmap_destroy(p) ==
  /\ upc[p] = "exit" /\ fd[p] = MapSize
  /\ fd_map' = [fd_map EXCEPT ![p] = {}]
  /\ file_names' = [file_names EXCEPT ![p] = [d \in Fd |-> NoFile]]
  /\ fd' = [fd EXCEPT ![p] = 0] /\ GoOn(p, "dead")
  /\ UNCHANGED <<handle, files, panicked, told>>
-----------------------------------------------------------------------------
\* What the program does next, and what the kernel must finish.
Call(p) ==
  \/ thread_create(p) \/ open_scan(p) \/ sys_halt(p) \/ leave(p)
  \/ \E d \in -1..MapSize : \/ sys_close(p, d)
                           \/ \E size \in Sizes : sys_read(p, d, size) \/ sys_write(p, d, size)
Resume(p) ==
  \/ \E n \in Name : open_file(p, n)
  \/ file_close(p) \/ thread_exit(p) \/ bitmap_destroy(p)

CallNext == ~panicked /\ \E p \in Caller : Call(p) \/ Resume(p)
CallSpec == CallInit /\ [][CallNext]_callvars
-----------------------------------------------------------------------------
TypeOK ==
  /\ upc \in [Caller -> {"none", "user", "open", "close", "exit", "dead"}]
  /\ fd \in [Caller -> 0..MapSize] /\ handle \in [Caller -> File \cup {NoFile}]
  /\ fd_map \in [Caller -> SUBSET Fd]
  /\ file_names \in [Caller -> [Fd -> File \cup {NoFile}]]
  /\ inode_of \in [File -> Name \cup {NoFile}] /\ pos \in [File -> 0..Length]
  /\ panicked \in BOOLEAN
  /\ granted \in [Caller -> [Fd -> Name \cup {NoFile}]]
  /\ moved \in [Caller -> [Fd -> Nat]]

\* The descriptors through which the kernel will still reach f for p.
Reaches(p, f) ==
  {d \in fd_map[p] : file_names[p][d] = f /\ (upc[p] = "exit" => d >= fd[p])}

\* Every struct file in memory has exactly one owner, a descriptor of one
\* process or a close under way, and nobody will use one that was freed:
\* whatever the order of opens, closes and exits, each is closed exactly once.
FilesOwnedOnce ==
  /\ \A p \in Caller, f \in File :
       Reaches(p, f) # {} \/ handle[p] = f => inode_of[f] # NoFile
  /\ \A p, q \in Caller, f \in File : \A d \in Reaches(p, f), e \in Reaches(q, f) :
       p = q /\ d = e
  /\ \A p, q \in Caller : handle[p] # NoFile =>
       Reaches(q, handle[p]) = {} /\ (handle[p] = handle[q] => p = q)
  /\ \A f \in File : inode_of[f] # NoFile =>
       \E p \in Caller : Reaches(p, f) # {} \/ handle[p] = f

\* A descriptor that SYS_OPEN returned means the file that was opened, at the
\* position the process has moved it to, until the process closes it: no
\* other process and no reuse of memory changes what is behind it.
DescriptorMeansFile ==
  \A p \in Caller, d \in Fd :
    granted[p][d] # NoFile =>
      /\ fd_ok(p, d) /\ file_names[p][d] # NoFile
      /\ inode_of[file_names[p][d]] = granted[p][d]
      /\ pos[file_names[p][d]] = moved[p][d]

\* A read or write of a descriptor "must either fail silently or terminate the
\* process with exit code -1" when it is invalid; it never stops the kernel.
NoNullFile ==
  \A p \in Caller, d \in Fd : upc[p] = "user" /\ fd_ok(p, d) /\ d > 1 => file_names[p][d] # NoFile
=============================================================================
