------------------------------ MODULE Process ------------------------------
(***************************************************************************)
(* Processes: process_execute(), start_process(), process_wait() and       *)
(* process_exit() of userprog/process.c, with exit() of userprog/syscall.c *)
(* and kill() of userprog/exception.c.                                     *)
(*                                                                         *)
(* Parent and child share a struct child_status on the heap.  It counts    *)
(* the two references in ref_cnt (under cs_lock), carries the exit status, *)
(* and its semaphore sema_exec says first that the child has been loaded   *)
(* and later that it has exited.  A step is a stretch of code between two  *)
(* accesses of that record; any runnable process takes the next one.       *)
(* Touching a record that was never initialised or is freed is undefined   *)
(* behaviour; the memory then holds 0xcc or zeros, the list code trips an  *)
(* assertion or a page fault in the kernel, and the model stops there.     *)
(***************************************************************************)
EXTENDS Integers, Sequences

CONSTANTS
  Proc,          \* threads; a child's tid is the child itself
  root,          \* the initial thread, which has no parent
  ExitStatus,    \* arguments of exit()
  CreateFails,   \* whether thread_create() may fail
  TID_ERROR,     \* -1 as a tid
  Error,         \* -1 as an exit status
  Garbage        \* memory that malloc() returned and nobody has written

ASSUME ProcessAssumption ==
  /\ root \in Proc /\ CreateFails \in BOOLEAN
  /\ TID_ERROR \notin Proc
  /\ Error # Garbage /\ Garbage \notin ExitStatus /\ Garbage \notin Nat

VARIABLES
  pc, arg,       \* where each process is, and the child it deals with there
  parent,
  cs_list,       \* the child_status records of each process, by child
  heap,          \* "none", "live" or "freed", for the record of each child
  pid, exit_status, ref_cnt,
  sema,          \* value of sema_exec
  lock_ok,       \* lock_init() has run on cs_lock
  found,         \* process_wait() found the tid
  doomed,        \* process_exit()'s list children_to_delete
  next,          \* the place in cs_list of its loop
  fate,          \* how each child ends: "ok", "exit", "killed", "no_load"
  undefined      \* "no", or the undefined behaviour that was reached

record == <<heap, pid, exit_status, ref_cnt, sema, lock_ok>>
local  == <<found, doomed, next>>
vars   == <<pc, arg, parent, cs_list, record, local, fate, undefined>>

Rng(q)       == {q[i] : i \in 1..Len(q)}
\* list_remove() of the record of c.
Unlink(q, c) ==
  LET k == CHOOSE i \in 1..Len(q) : q[i] = c
  IN [i \in 1..(Len(q) - 1) |-> IF i < k THEN q[i] ELSE q[i + 1]]
Goto(p, l)   == pc' = [pc EXCEPT ![p] = l]
Child        == Proc \ {root}

Start ==
  /\ arg = [p \in Proc |-> root]
  /\ parent = [p \in Proc |-> root]
  /\ cs_list = [p \in Proc |-> <<>>]
  /\ heap = [c \in Proc |-> "none"]
  /\ pid = [c \in Proc |-> Garbage]
  /\ exit_status = [c \in Proc |-> Garbage]
  /\ ref_cnt = [c \in Proc |-> 0]
  /\ sema = [c \in Proc |-> Garbage]
  /\ lock_ok = [c \in Proc |-> FALSE]
  /\ found = [p \in Proc |-> FALSE]
  /\ doomed = [p \in Proc |-> {}]
  /\ next = [p \in Proc |-> 1]
  /\ fate = [c \in Proc |-> "ok"]
  /\ undefined = "no"
Init == Start /\ pc = [p \in Proc |-> IF p = root THEN "user" ELSE "none"]
\* A kernel that never runs a program.
ProcessUnused == Start /\ pc = [p \in Proc |-> "none"]
-----------------------------------------------------------------------------
(***************************************************************************)
(* Access to the record of c.  Undef(why) replaces the rest of a step.     *)
(***************************************************************************)
Undef(why) ==
  /\ undefined' = why
  /\ UNCHANGED <<pc, arg, parent, cs_list, record, local, fate>>

\* sema_up (&cs->sema_exec).
SemaUp(p, c, then) ==
  \/ heap[c] = "freed" /\ Undef("freed")
  \/ heap[c] = "live" /\ sema[c] = Garbage /\ Undef("uninit")
  \/ /\ heap[c] = "live" /\ sema[c] # Garbage
     /\ sema' = [sema EXCEPT ![c] = @ + 1]
     /\ Goto(p, then)
     /\ UNCHANGED <<arg, parent, cs_list, heap, pid, exit_status, ref_cnt, lock_ok,
                    local, fate, undefined>>

\* lock_acquire (&cs->cs_lock): the uses of the lock are single steps.
LockUsable(c) == heap[c] = "live" /\ lock_ok[c]
LockBroken(c) ==
  \/ heap[c] = "freed" /\ Undef("freed")
  \/ heap[c] = "live" /\ ~lock_ok[c] /\ Undef("uninit")

free(S) == heap' = [c \in Proc |-> IF c \in S THEN "freed" ELSE heap[c]]
-----------------------------------------------------------------------------
(***************************************************************************)
(* process_execute() and start_process().                                  *)
(***************************************************************************)
\* malloc() of the record and thread_create(), after which the child runs.
\* When there is no page for the file name it returns TID_ERROR before that.
process_execute(p, c) ==
  /\ pc[p] = "user" /\ pc[c] = "none" /\ c # root
  /\ heap' = [heap EXCEPT ![c] = "live"]
  /\ ref_cnt' = [ref_cnt EXCEPT ![c] = 2]
  /\ parent' = [parent EXCEPT ![c] = p]
  /\ arg' = [arg EXCEPT ![p] = c]
  /\ \E ok \in {TRUE, ~CreateFails} :
       pc' = [pc EXCEPT ![p] = "exec_sema", ![c] = IF ok THEN "start" ELSE "never"]
  /\ UNCHANGED <<cs_list, pid, exit_status, sema, lock_ok, local, fate, undefined>>

\* malloc() returns NULL, and cs->ref_cnt = 2 writes through it.
process_execute_no_memory(p) == pc[p] = "user" /\ Undef("null")

exec_sema(p) ==
  /\ pc[p] = "exec_sema"
  /\ sema' = [sema EXCEPT ![arg[p]] = 0]
  /\ Goto(p, "exec_lock")
  /\ UNCHANGED <<arg, parent, cs_list, heap, pid, exit_status, ref_cnt, lock_ok, local,
                 fate, undefined>>

exec_lock(p) ==
  /\ pc[p] = "exec_lock"
  /\ lock_ok' = [lock_ok EXCEPT ![arg[p]] = TRUE]
  /\ cs_list' = [cs_list EXCEPT ![p] = <<arg[p]>> \o @]
  /\ Goto(p, "exec_pid")
  /\ UNCHANGED <<arg, parent, heap, pid, exit_status, ref_cnt, sema, local, fate,
                 undefined>>

exec_pid(p) ==
  /\ pc[p] = "exec_pid"
  /\ pid' = [pid EXCEPT ![arg[p]] = IF pc[arg[p]] = "never" THEN TID_ERROR ELSE arg[p]]
  /\ Goto(p, "exec_down")
  /\ UNCHANGED <<arg, parent, cs_list, heap, exit_status, ref_cnt, sema, lock_ok, local,
                 fate, undefined>>

exec_down(p) ==
  /\ pc[p] = "exec_down" /\ sema[arg[p]] > 0
  /\ sema' = [sema EXCEPT ![arg[p]] = @ - 1]
  /\ Goto(p, "exec_done")
  /\ UNCHANGED <<arg, parent, cs_list, heap, pid, exit_status, ref_cnt, lock_ok, local,
                 fate, undefined>>

exec_done(p) ==
  LET c == arg[p]
  IN /\ pc[p] = "exec_done"
     /\ IF pid[c] = TID_ERROR
        THEN cs_list' = [cs_list EXCEPT ![p] = Unlink(@, c)] /\ free({c})
        ELSE UNCHANGED <<cs_list, heap>>
     /\ Goto(p, "user")
     /\ UNCHANGED <<arg, parent, pid, exit_status, ref_cnt, sema, lock_ok, local, fate,
                    undefined>>

\* load() succeeds or not; a failure is written to cs->pid.
start_process(c) ==
  /\ pc[c] = "start"
  /\ \/ /\ Goto(c, "loaded")
        /\ UNCHANGED <<pid, fate>>
     \/ /\ pid' = [pid EXCEPT ![c] = TID_ERROR]
        /\ fate' = [fate EXCEPT ![c] = "no_load"]
        /\ Goto(c, "not_loaded")
  /\ UNCHANGED <<arg, parent, cs_list, heap, exit_status, ref_cnt, sema, lock_ok, local,
                 undefined>>

loaded(c)     == pc[c] = "loaded" /\ SemaUp(c, c, "user")
not_loaded(c) == pc[c] = "not_loaded" /\ SemaUp(c, c, "exit_ref")
-----------------------------------------------------------------------------
(***************************************************************************)
(* process_wait().                                                         *)
(***************************************************************************)
\* The search leaves cs at the last record when no pid matches.  Without
\* children process_wait() returns -1 at once and changes nothing.
process_wait(p, t) ==
  LET q    == cs_list[p]
      hits == {i \in 1..Len(q) : pid[q[i]] = t}
  IN /\ pc[p] = "user"
     /\ q # <<>>
     /\ \/ hits = {} /\ arg' = [arg EXCEPT ![p] = q[Len(q)]]
        \/ \E i \in hits : /\ \A j \in hits : i <= j
                           /\ arg' = [arg EXCEPT ![p] = q[i]]
     /\ found' = [found EXCEPT ![p] = hits # {}]
     /\ Goto(p, "wait_lock")
     /\ UNCHANGED <<parent, cs_list, record, doomed, next, fate, undefined>>

\* Fault: the child is taken for dead while it runs.
wait_lock_no_sema(p) ==
  /\ pc[p] = "wait_lock"
  /\ Goto(p, "wait_done")
  /\ UNCHANGED <<arg, parent, cs_list, record, local, fate, undefined>>

\* The semaphore is for a child that still has its reference.
wait_lock(p) ==
  /\ pc[p] = "wait_lock"
  /\ \/ LockBroken(arg[p])
     \/ /\ LockUsable(arg[p])
        /\ Goto(p, IF ref_cnt[arg[p]] = 2 THEN "wait_down" ELSE "wait_done")
        /\ UNCHANGED <<arg, parent, cs_list, record, local, fate, undefined>>

wait_down(p) ==
  /\ pc[p] = "wait_down" /\ sema[arg[p]] > 0
  /\ sema' = [sema EXCEPT ![arg[p]] = @ - 1]
  /\ Goto(p, "wait_done")
  /\ UNCHANGED <<arg, parent, cs_list, heap, pid, exit_status, ref_cnt, lock_ok, local,
                 fate, undefined>>

\* Without a match list_remove() gets the tail of the list and panics.
wait_done(p) ==
  LET c == arg[p]
  IN /\ pc[p] = "wait_done"
     /\ \/ ~found[p] /\ Undef("tail")
        \/ /\ found[p]
           /\ cs_list' = [cs_list EXCEPT ![p] = Unlink(@, c)]
           /\ free({c})
           /\ Goto(p, "user")
           /\ UNCHANGED <<arg, parent, pid, exit_status, ref_cnt, sema, lock_ok, local,
                          fate, undefined>>
-----------------------------------------------------------------------------
(***************************************************************************)
(* exit(), kill() and process_exit().                                      *)
(***************************************************************************)
exit(c, s) ==
  /\ pc[c] = "user" /\ c # root
  /\ \/ heap[c] = "freed" /\ Undef("freed")
     \/ /\ heap[c] = "live"
        /\ exit_status' = [exit_status EXCEPT ![c] = s]
        /\ fate' = [fate EXCEPT ![c] = "exit"]
        /\ Goto(c, "exit_ref")
        /\ UNCHANGED <<arg, parent, cs_list, heap, pid, ref_cnt, sema, lock_ok, local,
                       undefined>>

\* An exception in user code ends in thread_exit(), not in exit().
kill(c) ==
  /\ pc[c] = "user" /\ c # root
  /\ fate' = [fate EXCEPT ![c] = "killed"]
  /\ Goto(c, "exit_ref")
  /\ UNCHANGED <<arg, parent, cs_list, record, local, undefined>>

\* The initial thread ends too; it has no record to give back.
root_exit ==
  /\ pc[root] = "user"
  /\ Goto(root, "exit_children")
  /\ UNCHANGED <<arg, parent, cs_list, record, local, fate, undefined>>

\* The child's reference, under cs_lock.
exit_ref(c) ==
  /\ pc[c] = "exit_ref"
  /\ \/ LockBroken(c)
     \/ /\ LockUsable(c)
        /\ ref_cnt' = [ref_cnt EXCEPT ![c] = @ - 1]
        /\ Goto(c, IF ref_cnt[c] = 1 THEN "exit_free" ELSE "exit_up")
        /\ UNCHANGED <<arg, parent, cs_list, heap, pid, exit_status, sema, lock_ok, local,
                       fate, undefined>>

\* Fault: the last one to leave forgets the record.
exit_free_leak(c) ==
  /\ pc[c] = "exit_free"
  /\ Goto(c, "exit_children")
  /\ UNCHANGED <<arg, parent, cs_list, record, local, fate, undefined>>

exit_free(c) ==
  /\ pc[c] = "exit_free"
  /\ free({c})
  /\ Goto(c, "exit_children")
  /\ UNCHANGED <<arg, parent, cs_list, pid, exit_status, ref_cnt, sema, lock_ok, local,
                 fate, undefined>>

\* Fault: the parent that waits is not woken.
exit_up_skip(c) ==
  /\ pc[c] = "exit_up"
  /\ Goto(c, "exit_children")
  /\ UNCHANGED <<arg, parent, cs_list, record, local, fate, undefined>>

\* sema_up (&cs_parent->sema_exec), after lock_release().
exit_up(c) == pc[c] = "exit_up" /\ SemaUp(c, c, "exit_children")

\* One round of the loop over the records of the children.  The malloc() of
\* the list element is not checked either.
exit_child(p) ==
  LET c == cs_list[p][next[p]]
  IN /\ pc[p] = "exit_children" /\ next[p] <= Len(cs_list[p])
     /\ \/ LockBroken(c)
        \/ LockUsable(c) /\ ref_cnt[c] = 1 /\ Undef("null")
        \/ /\ LockUsable(c)
           /\ ref_cnt' = [ref_cnt EXCEPT ![c] = @ - 1]
           /\ doomed' = [doomed EXCEPT ![p] = IF ref_cnt[c] = 1 THEN @ \cup {c} ELSE @]
           /\ next' = [next EXCEPT ![p] = @ + 1]
           /\ UNCHANGED <<pc, arg, parent, cs_list, heap, pid, exit_status, sema, lock_ok,
                          found, fate, undefined>>

\* The records whose count reached zero go, the last one first; the others
\* stay for the child.
exit_delete(p) ==
  /\ pc[p] = "exit_children" /\ next[p] > Len(cs_list[p])
  /\ \E i \in 1..Len(cs_list[p]) :
       /\ cs_list[p][i] \in doomed[p]
       /\ \A j \in (i + 1)..Len(cs_list[p]) : cs_list[p][j] \notin doomed[p]
       /\ cs_list' = [cs_list EXCEPT ![p] = Unlink(@, cs_list[p][i])]
       /\ free({cs_list[p][i]})
       /\ doomed' = [doomed EXCEPT ![p] = @ \ {cs_list[p][i]}]
  /\ UNCHANGED <<pc, arg, parent, pid, exit_status, ref_cnt, sema, lock_ok, found, next,
                 fate, undefined>>

\* The rest of thread_exit().
exit_done(p) ==
  /\ pc[p] = "exit_children" /\ next[p] > Len(cs_list[p]) /\ doomed[p] = {}
  /\ Goto(p, "dead")
  /\ UNCHANGED <<arg, parent, cs_list, record, local, fate, undefined>>
-----------------------------------------------------------------------------
Exec(p) == \/ exec_sema(p) \/ exec_lock(p) \/ exec_pid(p) \/ exec_down(p) \/ exec_done(p)
           \/ start_process(p) \/ loaded(p) \/ not_loaded(p)
Wait(p) == wait_lock(p) \/ wait_down(p) \/ wait_done(p)
Exit(p) == \/ exit_ref(p) \/ exit_free(p) \/ exit_up(p)
           \/ exit_child(p) \/ exit_delete(p) \/ exit_done(p)
Step(p) == undefined = "no" /\ (Exec(p) \/ Wait(p) \/ Exit(p))

User(p) ==
  /\ undefined = "no"
  /\ \/ \E c \in Child : process_execute(p, c)
     \/ process_execute_no_memory(p)
     \/ \E t \in Child \cup {TID_ERROR} : process_wait(p, t)
     \/ \E s \in ExitStatus : exit(p, s)
     \/ kill(p)
     \/ p = root /\ root_exit

Next == \E p \in Proc : Step(p) \/ User(p)
Spec == Init /\ [][Next]_vars

\* Every process that can run inside the kernel does.
ProcessFair == \A p \in Proc : WF_vars(Step(p))
FairSpec == Spec /\ ProcessFair
-----------------------------------------------------------------------------
Gone(c) == pc[c] \in {"exit_free", "exit_up", "exit_children", "dead"}

\* p has passed the record of c in the loop of process_exit().
LetGo(p, c) ==
  /\ pc[p] \in {"exit_children", "dead"}
  /\ \E i \in 1..(next[p] - 1) : i <= Len(cs_list[p]) /\ cs_list[p][i] = c

\* ref_cnt counts the sides that still hold the record, whichever of parent
\* and child exits first or in between.
RefCounts ==
  \A c \in Child : heap[c] = "live" =>
    ref_cnt[c] = (IF Gone(c) THEN 0 ELSE 1) + (IF LetGo(parent[c], c) THEN 0 ELSE 1)

\* Once parent and child are gone the record is freed, by one of them.
NoLeak ==
  \A c \in Child : pc[c] = "dead" /\ pc[parent[c]] = "dead" => heap[c] = "freed"

\* Parent and child, which leave in any order, free the record exactly once.
RecordFreedOnce == RefCounts /\ NoLeak

\* What process_execute() and process_wait() return when they are done.
ExecResult(p) == pid[arg[p]]
WaitResult(p) == exit_status[arg[p]]

\* process_execute() returns after the load, and reports TID_ERROR only if
\* the load failed.
ExecSeesLoad ==
  [][\A p \in Proc : pc[p] = "exec_done" /\ pc'[p] = "user" =>
       /\ pc[arg[p]] \notin {"start", "loaded", "not_loaded"}
       /\ ExecResult(p) = TID_ERROR => fate[arg[p]] = "no_load"]_vars

\* process_wait() returns only after the child has exited, and gives the
\* status the child passed to exit().
WaitSeesExit ==
  [][\A p \in Proc : pc[p] = "wait_done" /\ pc'[p] = "user" =>
       /\ Gone(arg[p])
       /\ fate[arg[p]] = "exit" => WaitResult(p) \in ExitStatus]_vars

\* What the parent is told about its child, by exec and by wait, is true.
ParentSeesChild == ExecSeesLoad /\ WaitSeesExit

\* process_execute() returns: the new thread, or its failure, wakes it.
ExecReturns ==
  \A p \in Proc : pc[p] = "exec_down" ~> pc[p] = "exec_done" \/ undefined # "no"

\* A parent that waits for a child that exits gets to run again.
WaitReturns ==
  \A p \in Proc, c \in Child :
    pc[p] = "wait_down" /\ arg[p] = c /\ pc[c] = "exit_ref"
      ~> pc[p] = "user" \/ undefined # "no"

\* Neither exec nor wait sleeps for ever: both are woken by one semaphore, the
\* first time by the load and the second time by the exit of the child.
CallsReturn == ExecReturns /\ WaitReturns

\* "The new thread may be scheduled (and may even exit) before
\* process_execute() returns": it never meets a record without semaphore or
\* lock.
NeverUninitialised == undefined # "uninit"

\* No use after free of a struct child_status.
NeverFreed == undefined # "freed"

\* process_wait() for a tid that is no child "returns -1 immediately".
WaitUnknownReturns == undefined # "tail"

\* "If it was terminated by the kernel (i.e. killed due to an exception),
\* returns -1."
KilledReturnsError ==
  [][\A p \in Proc : pc[p] = "wait_done" /\ pc'[p] = "user" /\ fate[arg[p]] = "killed" =>
       WaitResult(p) = Error]_vars

\* A failed load is reported: "The exec system call must return -1."
LoadFailureReported ==
  [][\A p \in Proc : pc[p] = "exec_done" /\ pc'[p] = "user" /\ fate[arg[p]] = "no_load" =>
       ExecResult(p) = TID_ERROR]_vars
=============================================================================
