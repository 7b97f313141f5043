# A TLA+ verification of the Pintos kernel of this repository

The program is a small operating system kernel, under
`src/linuxpintos/src/` (paths below are relative to it). It runs on one CPU;
threads are preempted by the timer, device interrupts run handlers that share
data with threads, and most of what can go wrong in it goes wrong between two
steps of two actors. The modules here model those actors, TLC explores their
interleavings on small instances, and TLAPS proves most of the safety properties
for any number of threads, processes, files, pages, sectors and elements: of the
thread system, the alarm clock, the synchronized list and the linked lists, the
processes and their descriptor tables, the allocators, the transfers of files, the
disk and the serial port.

## The parts of the system

- **Threads** (`threads/thread.c`, `threads/interrupt.c`): creation, blocking,
  yielding, exit and reaping; a round-robin run queue; time slices; an idle
  thread. Everything else runs on it.
- **Synchronization** (`threads/synch.c`): semaphores, which turn interrupts off;
  locks, which are semaphores with a holder; condition variables.
- **Timer** (`devices/timer.c`): `timer_sleep()` and the tick that wakes sleepers.
- **Processes** (`userprog/process.c`, `userprog/exception.c`): exec, wait and
  exit, with one heap record (`struct child_status`) that parent and child share.
- **System calls** (`userprog/syscall.c`): decoding, pointer checks and the table
  of open files of each process.
- **Program loading** (`userprog/process.c`, `userprog/pagedir.c`): ELF segments,
  the argument stack, page directories.
- **Memory** (`threads/palloc.c`, `threads/malloc.c`): two page pools, and blocks
  cut from pages of the kernel pool.
- **File system** (`filesys/`): files of fixed size, one directory, a free map;
  no lock anywhere.
- **Devices**: the IDE disk (`devices/disk.c`), the interrupt queues of the serial
  port and the keyboard (`devices/intq.c`, `serial.c`, `kbd.c`, `input.c`), the
  console (`lib/kernel/console.c`).
- **Libraries** (`lib/`, `lib/kernel/`): linked lists, hash tables, bitmaps, 64-bit
  division, sorting, strings, formatted output.
- Start-up code, user programs and host tools.

`PROJECT.json` lists every part with its status, and the hazards of the code
with the properties that would catch them.

## Modules

| Module | Models | State | Actions |
|---|---|---|---|
| `Threads` | thread.c, semaphores and locks, preemption | status and queue of every thread, semaphore values and wait lists, lock holders, tids, and a point `pc` in the kernel for each thread | one per section that runs with interrupts off; `tick` and `device_interrupt` wherever interrupts are on |
| `MutexSpec` | what a lock promises | the owner of each lock | `Acquire`, `Release` |
| `Timer` | timer_sleep(), timer_interrupt() | the clock, `sleep_list`, each thread's semaphore | the insertion, `sema_init()` and `sema_down()` of a sleeper; the whole interrupt handler |
| `Process` | process_execute/start_process/process_wait/process_exit, exit(), kill() | the shared record of each child (memory state, pid, status, reference count, semaphore, lock), the parent's list | one per access to the record |
| `FileSys` | filesys.c, directory.c, inode.c, free-map.c | on disk: free map, inodes, directory; in memory: free map, open inodes | one per disk access and per test or change of shared memory, so that a change of the free map and its write to disk are two; the write may fail; `restart` is a power failure |
| `FileIO` | file.c, inode_read_at(), inode_write_at() | sectors of one file, its open `struct file`s, the deny-write counter | one per sector transferred |
| `Serial` | intq.c, serial.c, kbd.c, input.c, console.c | the two ring buffers with their lock and sleepers, the port's interrupt enables | the sections of intq_getc/intq_putc, the handlers, polled and queued output, `serial_flush()` |
| `Disk` | disk.c | the channel's registers, lock, `expecting_interrupt`, completion semaphore | one per register protocol step, both waits with their timeouts; the controller is external |
| `Memory` | palloc.c, malloc.c, bitmap_scan_and_flip() | used maps, pool and descriptor locks, arena headers, free lists | lock, scan, mark, unlock; new arena; take and put back a block; clear the bits one by one |
| `Syscalls` | open, read, write, close and halt of syscall.c, thread_create() and thread_exit() as far as the descriptor table goes | `fd_map` and `file_names` of each process, the `struct file`s in memory, the handler's locals | one per access to the table or to a file; exit closes the descriptors one by one |
| `Load` | load(), load_segment(), setup_stack(), install_page(), process_activate() and process_exit() of process.c; pagedir.c | the page directories and page tables by page, the free pages, the contents of user pages, CR3, the running thread | one per header, segment and page; one per table that pagedir_destroy() frees; a switch of threads between any two |
| `Arguments` | how load() cuts the command line and setup_stack() pushes it | the process that was started: its line, its stack or its fault | the start of a process, with any values in the uninitialised elements |
| `Monitor` | cond_wait(), cond_signal(), cond_broadcast() of synch.c, synchlist.c | the lock, the items, the list of waiters, a semaphore for each waiter | one per call that can block or wake; cond_wait() up to the release, the release, the return of `sema_down()` |
| `List`, `ListOrder` | list.c | `prev` and `next` of every node | one per operation, the links changed by the assignments of the code |
| `ListSpec` | what list.h promises | a sequence for each list | the same operations on sequences |
| `Hash` | hash.c | buckets, element count, the memory that may be missing | insert, replace, find, delete, each with its rehash; clear |
| `Bitmap`, `Divide`, `Sort`, `Strings`, `Printf` | bitmap.c, arithmetic.c, stdlib.c, string.c, stdio.c | pure | |
| `Library` | calls of the pure functions | the call that was made | one per function |
| `ThreadsProofs`, `LockProofs` | theorems about `Threads` | | |
| `ListProofs` | theorems about `Timer`, `Monitor` and `List` | | |
| `ProcessProofs`, `UserprogProofs` | theorems about `Process` and `Syscalls` | | |
| `MemoryProofs` | theorems about `Memory` | | |
| `FileProofs` | theorems about `FileIO` | | |
| `DeviceProofs` | theorems about `Disk` and `Serial` | | |

`MC*.tla` instantiate them for TLC. `MCWaits`, `MCFiles` and `MCResources` check
several components in one run: a variable `part` says which of them a behaviour
exercises, and the others stay as they were. Operators whose comment begins with
"Fault:" are broken variants of the operator that follows; they are used by no
specification, and each shows that some property notices the fault.

How the modules fit: only `Threads` has the scheduler. The other modules let any
runnable thread take the next step, which includes every order the scheduler can
produce; their weak fairness of a runnable thread is what `ReadyRuns` and
`NoLostWakeup` of `Threads` justify. They take a semaphore or a lock as one
variable, which is what `MutexRefinement` justifies. `FileSys` and `FileIO` take a
sector transfer as one step, which is what `ReadRight` and `WriteAcknowledged` of
`Disk` justify, as long as every interrupt of the disk answers a command. `Process` and `FileSys` take `malloc()` as a source of fresh
records (`BlocksOwnedOnce` of `Memory`).

Atomicity follows the code: a section with interrupts off is one step, a section
under a lock is one step only where everything it touches is touched under that
lock alone, and otherwise each access to shared state is a step. Handlers run
with interrupts off and are one step each. Uninitialised and freed memory is a
value of its own or, where the code acts on it, a state in which the model stops
(`undefined` in `Process` and `Arguments`, `panicked` and `panic` elsewhere).

What some modules take as given, beyond the constants' assumptions:

- `Disk`: a register that is written while the controller is busy holds any value
  afterwards, a command given too soon is taken or ignored, and data moved in a
  direction the controller does not ask for are anything. The reset at start-up ends
  in time. How long a wait lasts is not modelled: it may give up whenever the
  controller is not ready.
- `Serial`: `acquire_console()` and `release_console()` without the branch that counts
  nested calls in `console_lock_depth`, which needs a `printf()` inside the output of
  another by the same thread; no code does that outside a failed assertion.
- `FileIO`: the buffer of a write holds one character throughout, as in pfs_writer.c,
  so that a wrong offset into the buffer of the caller does not show. `DenyCounts` is
  about an interface: nothing in this kernel calls `file_deny_write()`.
- `Process` does not have the page that holds the copy of the command line, which
  nobody frees (process.c:110).

## Runs

All bounds are constants of the models, named in their declarations.

| Run | Instance | Shows |
|---|---|---|
| `threads_safety` | 5 threads (main, idle and three pages that are used again), a semaphore and a lock besides the kernel's own; threads are created while `next_tid` is at most 4, values to 2; a time slice of 1, so that every tick preempts | `ElemDualPurpose` (no thread in two queues); `NoThreadLost`; `NoLostWakeup`; `TidUnique` |
| `threads_liveness` | 4 threads and a slice of 2 | `ReadyRuns`: a ready thread gets the CPU; `MutexRefinement` |
| `timer` | 3 threads, sleeps of 0 to 2 ticks, clock to 4 | `SleepListOK`, `WakesOnTime` (not early, and not after a tick that saw the time), and `ReadySleeperWakes` for a sleeper whose semaphore exists |
| `waits` | the initial thread and two processes; two consumers, a producer that then destroys the list, and a thread that broadcasts and appends | `RecordFreedOnce`, `ParentSeesChild` and `CallsReturn` for exec and wait, up to the first undefined behaviour; `FirstInFirstOut`, `WaitersOnStack` and `RemoveReturns` for the synchronized list |
| `files` | one process, two names and an invalid one, 8 sectors (4 free for files), 2 directory entries, one power failure; two open files on a file of 3 bytes in sectors of 2 | `NoSharing` at every instant, hence after any crash; `SpaceAccounted`, `OpenCounts`, `NoPanic`; `TransfersExact` while transfers do not overlap, `DenyCounts` |
| `serial` | 2 readers, 2 writers, rings of 3 | `NoByteLost`, `IerRight`, `StringsWhole`, `BytesFlow` |
| `disk` | 2 threads, 2 disks, 2 sectors, one spurious interrupt, any wait may give up | `DiskDataRight`, and `TransferEnds` unless the kernel panics or a wait has given up |
| `resources` | 2 threads, 3 kernel pages, 1 user page, arenas of 2 blocks, big blocks of 2 pages; one process with any segment, or two processes, with pages of 2 bytes and addresses of 4 bits; 2 processes, 2 `struct file`s, 3 descriptors; command lines to 8 characters, 4 places for words, a stack of 36 bytes; arrays to 6 elements, strings to 3 characters, bitmaps to 5 bits in elements of 3, words of 8 bits in halves of 4, a format buffer of 8; 2 lists of 4 elements, two of them with equal keys; a table of up to 7 elements | `MemoryOwnedOnce`, `LockOrder`; `PagesGivenBack`, `ImageRight`, `ActivePagedir`, `AssertionsHold`; `FilesOwnedOnce`, `DescriptorMeansFile`; `ArgumentsRight`; `FunctionsRight`, `LinksMirror`, `ListRefines`, `HashRight` |
| `timer_lost_wakeup` | as `timer` | `SleepEnds` fails |
| `exec_uninitialised` | the processes of `waits` | `NeverUninitialised` fails |
| `sector_twice` | two processes create files | `NoSharing` fails |
| `argv_sentinel` | the command lines of `resources` | `SentinelNull` fails |

Why the bounds are enough to be interesting. Threads: three created threads beside
main and idle are the least for two threads to be inside `allocate_tid()` at the
same time while a third is alive; a woken thread is overtaken by one that never
waited, and pages are reused once a thread has died. Timer: three sleepers allow
an insertion at the front, in the middle and at the end, several sleepers due at
one tick, and a wake-up time that has already passed. Process: a process with a
child of its own, whose parent may leave first. FileSys: two free extents, so that
a create fails for want of sectors, of a directory entry or because of the name.
FileIO: the file ends inside a sector, transfers are shorter and longer than a
sector, positions lie on, before and after the end. Serial: rings that wrap, fill
and empty, with both a sleeping reader and one that waits for the queue's lock.
Disk: the spurious interrupt may come at any step, also as the answer to a command
that another thread is about to give. Memory: pages run out, groups of pages are
split by other owners, and an arena is emptied and its page used for something else;
two things held at once (`MaxHeld`) are enough for that. Arguments: no word, as many
words as there are places, more, and words that just fit the page and that do not.
Printf: precisions fill the buffer and go beyond it. Load: every segment of a small
address space is tried, so that the checks meet every wrap-around and every
overlap with page 0 and the kernel; two processes load, run and exit at the same
time with pools that run out at every step. Syscalls: descriptors run out before
files do and the other way round. Monitor: more wake-ups than items, and a waiter
that is overtaken by a consumer that never waited. List: two lists are enough for
an element to move between them, and four elements for runs of a natural merge.
Hash: the table grows and shrinks by a factor of two, and may have no memory for it.

Deadlock is checked in `threads_safety`, `threads_liveness` and `files`. In the
others the system may stop: the machine is switched off or halts (`timer`,
`serial`, `disk`, `resources`), processes and programs end (`waits`), and a pure
function is called once (`resources`). In `resources`, `LockOrder` excludes a cycle of
waiting in the allocator.

### Fairness

- `Threads`: the CPU executes the running thread's kernel code, and the timer goes
  on ticking. A thread outside the kernel owes nothing.
- `Timer`, `Process`, `Monitor`, `Serial`, `Disk`: a thread that can run inside the kernel does
  (`ReadyRuns`), a raised interrupt is delivered while interrupts are on, the port
  goes on sending and the disk controller answers. Nobody has to call, to type or
  to exit.

## What is proved

Each proof has the same shape: an inductive invariant that implies the property,
one lemma for each action that it is kept, and a theorem that puts them together.
Most leaves are closed by first-order reasoning (`USE Zenon` at the beginning of a
module); the ones that need numbers, records or sequences cite `SMT`. The invariants
themselves were checked by TLC on the instances of the runs before they were proved.

### Threads

For every set of threads, semaphores and locks, every time slice and every bound
on tids and values, under `ConstantsAssumption` (distinct names for the fixed
threads, semaphores and locks, a finite set of threads):

- `TypeCorrect`, `ElemCorrect`, `OneRunningCorrect`, `NoThreadLostCorrect`,
  `MutualExclusionCorrect`, `TidUniqueCorrect`, `NoLostWakeupCorrect`: invariants;
- `StatusStepsCorrect`: the life cycle of a thread, as an action property;
- `MutexRefinementCorrect`: `Threads` implements `MutexSpec` for every lock.

None of the invariants is inductive alone. `IInv` in `Threads.tla` has four layers:

1. `SchedInv`: types, that queues are disjoint and hold each thread once
   (`ElemDualPurpose`), one running thread, what is true before the idle thread has
   announced itself (`StartInv`), and where a thread can be when it is blocked, dying
   or being created (`LifeInv`). Removing a thread from one queue and adding it to
   another keeps this only because nobody is in two.
2. `LockInv`: for every lock, the semaphore's value plus its owners is 1, where a
   thread owns a lock from the moment its `sema_down()` succeeded, before `holder` is
   written, to the moment of `sema_up()`, after `holder` is cleared. This is what
   makes mutual exclusion inductive, since `holder` lags behind.
3. `TidInv`: tids in use are below `next_tid`, and the copy of it that a thread has
   read inside `allocate_tid()` is current; it needs mutual exclusion of `tid_lock`.
4. `NoLostWakeup`: while threads wait on a semaphore, at least as many woken threads
   are on their way to it as it has units. It is inductive relative to the others.

`ThreadsProofs` has the lemmas on queues and on `schedule()` and proves `SchedInv`
inductive; `LockProofs` sorts every step into five kinds by what it does to
semaphores (`StepKinds`), proves `LockInv` and the rest, and draws the theorems.

### Timer

For every set of threads, every set of durations and every width of the integers,
`SleepListAlwaysOK`: the list is ordered as `sleep_less()` says, holds nobody twice
and only threads inside `timer_sleep()`. `SleepersNeverEarly`: nobody returns before
the time. `SleepersWakeOnTime`: with durations that are not negative, no tick leaves
an expired sleeper on the list either; with negative ones that is false
(`MCTimerDepartures`). The invariant adds to `SleepListOK` that a thread whose
semaphore has a value is due and is off the list (`WokenInv`): without it the return
from `sema_down()` could leave a thread on the list that runs on and is inserted
again. The last theorem also needs that times fit the width (`UntilInv`), so that the
unsigned comparison is the one of the clock. `TimerAssumption` says that 2^Width is
a positive number, which the provers do not know by themselves.

### Synchronized list

For every set of threads and every program of appends, removes, broadcasts and a
final destroy, `AlwaysFirstInFirstOut` and `WaitersAlwaysOnStack`. The invariant adds
that the lock is held from the acquire to the release, by a thread that has a call
left (`LockInv`), and that a waiter is listed once, in `cond_wait()`, with a semaphore
of 0 (`WaitInv`). Mutual exclusion is what lets `sl_remove()` rely on its test when it
pops; `sl_destroy()` keeps the invariant because nobody else has a call left.

### Descriptor tables

For every number of processes, files, descriptors and sizes, `FilesAlwaysOwnedOnce`
and `DescriptorAlwaysMeansFile`. The invariant says that every `struct file` in memory
is held by exactly one slot (`OwnerInv`), where a slot is a descriptor or the local
variable of a close under way, and a descriptor that an exit has passed does not
count; that a free descriptor is a null pointer and a running process has been told of
every file it has (`TableInv`); and that what it was told is what the kernel has
(`ToldInv`). Freshness of `malloc()`ed memory is the only thing assumed of the
allocator.

### Linked lists

For every number of lists and elements, `LinksAlwaysMirror`: `next` and `prev` mirror
each other whatever is initialised, inserted and removed. The mirror alone is not
inductive: a head could be linked to the tail of another list, and a pop would remove
that tail. The invariant adds that some function gives every node its list and is
constant along links (`Separate`). `SpliceMirror` is the same for the relinking of
`list_splice()`. The other operations of list.c, sorting included, change links only
through these, but for `list_reverse()`, which swaps the two links of every node
itself (list.c:340-343) and is model-checked (`LinksMirror`, `ListRefines`).

### Processes

For every number of processes and exit statuses, up to the first undefined behaviour
(the model stops there: three departures listed below lead to it),
`RecordAlwaysFreedOnce`, `ParentAlwaysHoldsRecord` and the action property
`ParentAlwaysSeesChild`. The invariant says of every record who still holds it:
`ref_cnt` is the number of the two sides that have not let go (`RefRight`), a record
whose count is 0 is about to be freed by exactly one of them, and a record in memory
is on the list of its parent or on its way there. It says of the semaphore that
exec() and wait() share that its value, plus the unit that exec() has taken, never
exceeds what the child has announced, first the load and then the exit (`SemaRight`):
so exec() does not return before the load and wait() not before the exit.
`ProcessAssumption` says that the values for -1 and for uninitialised memory are
different from tids and numbers.

### Memory

For every number of threads, pages, descriptors and blocks in an arena, under
`MemoryAssumption` (the null pointer is no thread, descriptor or page; an arena has a
block), `LocksAlwaysOrdered` and `MemoryAlwaysOwnedOnce`. The invariant
has three layers, each inductive given the ones before it:

1. `ControlInv`: where a thread can be, with which arguments, and that it holds
   exactly the locks of that place. It gives `LockOrder`.
2. `PageInv`: a page in use is an arena or belongs to one thread, which was given it,
   is about to be, or is clearing its bit. The delicate step is the one between
   scanning the map and marking the pages: pages can only become free there, since
   bits are cleared without the lock but set under it.
3. `BlockInv`: a block of an arena is on the free list or belongs to one thread, and
   `free_cnt` counts those on the list. An arena all of whose blocks are free is one
   that malloc() made or popped from and has not left yet, under the descriptor's lock.

A step of one thread leaves alone what the others own and what a lock of theirs
protects (`Frame`). What the proofs use of finite sets is the formula `FiniteFacts`,
a hypothesis of the lemmas that count and proved from the library's theorems before
the theorems are drawn.

### File transfers

For every number of open files, every length, sector size, size and position,
`TransfersAlwaysExact` and `DenyAlwaysCounts`. The invariant says how far a transfer is
(`Progress`) and, while no transfer has begun during another one, that what was read is
what the file holds and that the bounce buffer is the sector it came from
(`Undisturbed`).

### Devices

`DiskAlwaysRight`, for every number of threads, sectors and values: the channel
belongs to the thread that holds its lock or to `disk_init()` (`ChannelInv`); until a
wait gives up, the registers are at every point of a transfer what that thread believes
them to be (`TransferInv`); and while every interrupt answers a command the semaphore
counts this command's completion and no other (`CompletionInv`), so that the
controller is idle when the next command comes and `wait_until_idle()` does not give
up. The theorem is about these two cases: `wait_until_idle()` only prints when the time
is up (disk.c:496), and after a spurious interrupt a command may then be given to a
busy controller, of which nothing is claimed but that one thread at a time does it.
`disk_write()` returns after the data are on the disk only in the second case
(`WriteStored` below).

`NoByteEverLost`, `IerAlwaysRight` and `StringsAlwaysWhole`, for every number of readers
and writers, every size of the rings and every length of the strings: a ring is
described by its indices and the number of its first byte (`RingOK`), so that one
byte in and one byte out are facts of arithmetic, and the handlers compose them.

## What is only model-checked

Liveness (under fairness) and anything that needs `ENABLED`, which the prover does
not support; the properties of `FileSys` and `Load`; that linked lists implement
sequences (`ListRefines`). What the library's functions compute and what `Hash` finds
(`HashRight`) is checked on bounded inputs: they are recursive, and induction over
data is out of the prover's reach.

## Where the code departs from its own description

Four runs end in a counterexample on purpose; the findings of `PROJECT.json` quote
the lines. The other rows are departures of the same kind. With the configuration
named, or with the property put in the place of those it lists (*), TLC ends in a
counterexample; `tlc -continue` goes on to the next property of a configuration that
lists several. `MCTimer*` belong to `MCTimer`, `MCProcess*` to `Process`, `MCFileSys*` to
`FileSys`, `MCFileIO*` to `FileIO`.

| Configuration | Property | What happens |
|---|---|---|
| `MCTimerSleepEnds` (run) | `SleepEnds` | a tick between the insertion and `sema_init()` is erased; the thread sleeps for ever (timer.c:137-140) |
| `MCTimerDepartures` | `NoPanic` | the same tick on a thread's first sleep finds a zeroed semaphore and fails an assertion |
| `MCTimerDepartures` | `ExpiredWoken` | a negative wake-up time is the largest as unsigned and keeps the tick from looking further (timer.c:42) |
| `MCProcessUninit` (run) | `NeverUninitialised` | the child uses the semaphore before the parent has initialised it (process.c:58-62) |
| `MCProcessDepartures` | `NeverFreed` | one side frees the record while the other still has to use it (process.c:75, 190, 202) |
| `MCProcessCreateFails` | `ExecReturns` | `thread_create()` fails and the parent waits for ever (process.c:67) |
| `MCProcessDepartures` | `WaitUnknownReturns` | waiting for a tid that is no child ends at the tail of the list (process.c:156-170) |
| `MCProcessDepartures` | `KilledReturnsError` | a killed child has no status, though -1 is promised (process.c:134-136) |
| `MCProcessDepartures` | `LoadFailureReported` | the parent overwrites the -1 of a failed load (process.c:64, 114) |
| `MCFileSysNoSharing` (run) | `NoSharing` | two creates are given the same sectors (free-map.c:29) |
| `MCFileSysNoSharing` * | `SameInode` | two opens of one file make two inodes (inode.c:118-135) |
| `MCFileSysNoSharing` * | `NamesUnique` | two creates of one name both succeed (directory.c:154-176) |
| `MCFileSysNoSharing` * | `NothingLost` | a create that fails in `dir_add()` gives back the inode's sector but not the data sectors (filesys.c:55); `SpaceAccounted` counts them as lost |
| `MCFileIOLost` | `BytesLand` | a write of part of a sector undoes another (inode.c:306-310) |
| `MCFileIOMixed` | `SameCharacter` | a read sees half of a write; pfs_reader.c expects it never does |
| `MCSerial` * | `NoPanic` | a reader that waited for the queue's lock does not look at the queue again before `wait()`, whose assertion fails (intq.c:47) |
| `MCSyscallsNull` (module `Syscalls`) | `NoNullFile` | a descriptor whose file did not open stays allocated with a null pointer, and a read or write of it stops the kernel (syscall.c:125), though tests/userprog/read-bad-fd.c expects a read of a bad descriptor to "fail silently or terminate the process with exit code -1" |
| `MCDisk` * | `WriteStored` | `expecting_interrupt` is never cleared, so that an interrupt that no command asked for counts as the completion of a write, which "Returns after the disk has acknowledged receiving the data" (disk.c:240) |
| `MCArguments` (run) | `SentinelNull` | `argv[argc]` is an element that nothing was assigned to (process.c:662, 713), and so is the return address |
| `MCArguments` * | `LineDefined` | `load()` does not end `arguments` with a null pointer, and the loop at process.c:666 looks for one; a line of no word leaves `argc` unassigned, and one of 32 words goes past the arrays |
| `MCResources` * | `RemaindersRight` | `umod64()` returns 32 bits of the remainder (arithmetic.c:130) |
| `MCResources` * | `MovesReturnDst` | `memmove()` returns the end of the destination when it copies forwards (string.c:45; "Returns DST") |
| `MCResources` * | `FlipsOfNothing` | `bitmap_scan_and_flip()` of no bit returns `start` (bitmap.c:317 says 0) |

Met on the way, with no run: disk.c:74 says that `expecting_interrupt` is false "if any
interrupt would be spurious", and nothing sets it back; the loop of
`wait_until_idle()` ends after 1000 times 10 microseconds, and its comment says ten
seconds; `SYS_OPEN` keeps the descriptor when the file does not open (syscall.c:125).
`close(0)` and `close(1)` free the console's descriptors, and a later open may return
them (syscall.c:135). `setup_stack()` goes on without a page for the stack and faults
(`AssertionsHold` allows this one stop), and faults as well when the words of the line
need more than the page ("fault" in `Arguments`). An integer with both `-` and `0` is
padded on both sides (stdio.c:532-546).

## What is not modelled

- Calibration of the delay loop and the short delays of `real_time_sleep()`: they
  measure CPU time, which no module has.
- Accessed and dirty bits of page tables, priorities, `calloc()`, `realloc()` and
  `dir_readdir()`: no code of the kernel depends on what they do.
- `malloc()` that fails inside `sl_append()`, which does not look at its result, or
  inside the file system, where it takes the error path of a failed open. A write of
  the free map that fails is modelled (`bitmap_write_fails`).
- The bytes of a file and its sectors are modelled apart from names and inodes
  (`FileIO` and `FileSys`), and so are the allocator and the loader (`Memory`, `Load`):
  each takes the other's promise, listed above, as given.

Not modelled by choice: the loader, interrupt stubs and descriptor tables (machine
code and data); VGA output; the utilities of `fsutil.c`, which are sequences of
modelled calls; the bounded buffer, whose functions are empty; `slist.c`,
`random.c` and the reports of `debug.c`; user programs and host tools.
