------------------------------ MODULE Threads ------------------------------
(***************************************************************************)
(* The kernel thread system: threads/thread.c, the semaphores and locks of *)
(* threads/synch.c, and the preemption that threads/interrupt.c and        *)
(* devices/timer.c drive.                                                  *)
(*                                                                         *)
(* The machine has one CPU.  Only the running thread `cur' takes steps and *)
(* only an interrupt can take the CPU from it, so code that runs with      *)
(* interrupts off is one atomic step and everything else may be cut by a   *)
(* tick between any two steps.  A thread is identified with the page that  *)
(* holds its struct thread: a page can be freed and used again.            *)
(***************************************************************************)
EXTENDS Integers, Sequences, FiniteSets

CONSTANTS
  Thread,        \* pages that can hold a struct thread
  main,          \* initial_thread, whose page is not from palloc
  idle,          \* the page thread_start() gives to the idle thread
  NULL,          \* the null pointer
  Sema,          \* semaphores that are not part of a lock
  idle_started,  \* the semaphore of thread_start()
  Lock,          \* locks, identified with the semaphore inside them
  tid_lock,      \* the lock of allocate_tid()
  TIME_SLICE,    \* ticks a thread may run before it is preempted
  MaxTid,        \* bound: no thread is created after this tid is used
  MaxValue       \* bound: callers raise no semaphore above this value

ASSUME ConstantsAssumption ==
  /\ main \in Thread /\ idle \in Thread /\ main # idle
  /\ NULL \notin Thread
  /\ idle_started \in Sema /\ tid_lock \in Lock
  /\ Sema \cap Lock = {}
  /\ TIME_SLICE \in Nat \ {0}
  /\ MaxTid \in Nat /\ MaxValue \in Nat \ {0}
  /\ IsFiniteSet(Thread)

VARIABLES
  status,        \* enum thread_status, "FREE" for a page without a thread
  ready_list,    \* the run queue
  cur,           \* the thread whose stack the CPU is on
  thread_ticks,  \* ticks since the last thread switch
  idle_thread,   \* NULL until idle() has run
  value,         \* semaphore values, those inside locks included
  waiters,       \* semaphore wait lists
  holder,        \* lock holders
  pc,            \* the point each thread has reached in the kernel
  arg,           \* the semaphore or lock of the call it is in
  child,         \* the thread it is creating
  reg,           \* its copy of next_tid inside allocate_tid()
  tid,           \* thread identifiers, 0 when not assigned yet
  next_tid

sched == <<status, ready_list, cur, thread_ticks>>
sync  == <<value, waiters, holder>>
alloc == <<child, reg, tid, next_tid>>
vars  == <<sched, idle_thread, sync, pc, arg, alloc>>

AllSema == Sema \cup Lock
Status  == {"FREE", "BLOCKED", "READY", "RUNNING", "DYING"}
Point   == {"boot", "start", "run", "down", "acquired", "releasing",
            "create", "tid_read", "tid_write", "unblock",
            "idle", "idle_up", "loop", "hlt"}
Rng(q)  == {q[i] : i \in 1..Len(q)}

At(p)   == pc[cur] = p
Goto(p) == pc' = [pc EXCEPT ![cur] = p]

\* Interrupts are off during start-up and between the return of
\* thread_block() and the second look at the value in sema_down().
IntrOn == ~At("boot") /\ ~At("down")
-----------------------------------------------------------------------------
Init ==
  /\ status = [t \in Thread |-> IF t = main THEN "RUNNING" ELSE "FREE"]
  /\ ready_list = <<>>
  /\ cur = main
  /\ thread_ticks = 0
  /\ idle_thread = NULL
  /\ value = [s \in AllSema |-> IF s \in Lock THEN 1 ELSE 0]
  /\ waiters = [s \in AllSema |-> <<>>]
  /\ holder = [l \in Lock |-> NULL]
  /\ pc = [t \in Thread |-> IF t = main THEN "boot" ELSE "run"]
  /\ arg = [t \in Thread |-> idle_started]
  /\ child = [t \in Thread |-> NULL]
  /\ reg = [t \in Thread |-> 0]
  /\ tid = [t \in Thread |-> IF t = main THEN 1 ELSE 0]
  /\ next_tid = 2
-----------------------------------------------------------------------------
(***************************************************************************)
(* Scheduler.                                                              *)
(***************************************************************************)
next_thread_to_run(queue) == IF queue = <<>> THEN idle_thread ELSE Head(queue)

\* schedule() and schedule_tail(): st and queue are the statuses and the run
\* queue at the call, when the caller has changed the status of cur.  A dying
\* thread's page is freed by the thread that runs next.
schedule(st, queue) ==
  LET next   == next_thread_to_run(queue)
      reaped == IF st[cur] = "DYING" /\ cur # main
                THEN [st EXCEPT ![cur] = "FREE"] ELSE st
  IN /\ cur' = next
     /\ ready_list' = IF queue = <<>> THEN queue ELSE Tail(queue)
     /\ status' = [reaped EXCEPT ![next] = "RUNNING"]
     /\ thread_ticks' = 0

thread_block == schedule([status EXCEPT ![cur] = "BLOCKED"], ready_list)

thread_unblock(t) ==
  /\ ready_list' = Append(ready_list, t)
  /\ status' = [status EXCEPT ![t] = "READY"]

\* Fault: the idle thread is queued like any other.
thread_yield_idle_too ==
  schedule([status EXCEPT ![cur] = "READY"], Append(ready_list, cur))

\* Fault: list_push_front instead of list_push_back.
thread_yield_front ==
  schedule([status EXCEPT ![cur] = "READY"],
           IF cur # idle_thread THEN <<cur>> \o ready_list ELSE ready_list)

thread_yield ==
  schedule([status EXCEPT ![cur] = "READY"],
           IF cur # idle_thread THEN Append(ready_list, cur) ELSE ready_list)
-----------------------------------------------------------------------------
(***************************************************************************)
(* Semaphores.  SemaDown and SemaUp are the bodies that run with           *)
(* interrupts off; the actions below call them.                            *)
(***************************************************************************)
AfterDown(s) == IF s \in Lock THEN "acquired" ELSE "run"

\* One turn of the loop in sema_down(): sleep, or take the value and go on.
SemaDown(s) ==
  /\ arg' = [arg EXCEPT ![cur] = s]
  /\ \/ /\ value[s] = 0
        /\ waiters' = [waiters EXCEPT ![s] = Append(@, cur)]
        /\ Goto("down")
        /\ thread_block
        /\ UNCHANGED value
     \/ /\ value[s] > 0
        /\ value' = [value EXCEPT ![s] = @ - 1]
        /\ Goto(AfterDown(s))
        /\ UNCHANGED <<waiters, sched>>

\* Fault: a waiter is woken only when the value was zero.
SemaUp_when_zero(s) ==
  /\ value' = [value EXCEPT ![s] = @ + 1]
  /\ \/ /\ waiters[s] = <<>> \/ value[s] > 0
        /\ UNCHANGED <<waiters, status, ready_list>>
     \/ /\ waiters[s] # <<>> /\ value[s] = 0
        /\ waiters' = [waiters EXCEPT ![s] = Tail(@)]
        /\ thread_unblock(Head(waiters[s]))
  /\ UNCHANGED <<cur, thread_ticks>>

SemaUp(s) ==
  /\ value' = [value EXCEPT ![s] = @ + 1]
  /\ \/ /\ waiters[s] = <<>>
        /\ UNCHANGED <<waiters, status, ready_list>>
     \/ /\ waiters[s] # <<>>
        /\ waiters' = [waiters EXCEPT ![s] = Tail(@)]
        /\ thread_unblock(Head(waiters[s]))
  /\ UNCHANGED <<cur, thread_ticks>>

\* The sleeping thread has been woken and scheduled: it looks again.
sema_down_again ==
  /\ At("down")
  /\ SemaDown(arg[cur])
  /\ UNCHANGED <<idle_thread, holder, alloc>>

sema_down(s) ==
  /\ At("run")
  /\ SemaDown(s)
  /\ UNCHANGED <<idle_thread, holder, alloc>>

sema_up(s) ==
  /\ At("run") /\ value[s] < MaxValue
  /\ SemaUp(s)
  /\ UNCHANGED <<idle_thread, holder, pc, arg, alloc>>

sema_try_down(s) ==
  /\ At("run") /\ value[s] > 0
  /\ value' = [value EXCEPT ![s] = @ - 1]
  /\ UNCHANGED <<sched, idle_thread, waiters, holder, pc, arg, alloc>>
-----------------------------------------------------------------------------
(***************************************************************************)
(* Locks.  The holder is written after the semaphore is taken and cleared  *)
(* before it is given back, with interrupts on.                            *)
(***************************************************************************)
lock_acquire(l) ==
  /\ At("run") /\ holder[l] # cur
  /\ SemaDown(l)
  /\ UNCHANGED <<idle_thread, holder, alloc>>

lock_try_acquire(l) ==
  /\ At("run") /\ holder[l] # cur /\ value[l] > 0
  /\ value' = [value EXCEPT ![l] = @ - 1]
  /\ arg' = [arg EXCEPT ![cur] = l]
  /\ Goto("acquired")
  /\ UNCHANGED <<sched, idle_thread, waiters, holder, alloc>>

\* lock->holder = thread_current ().  allocate_tid() goes on with next_tid.
set_holder ==
  /\ At("acquired")
  /\ holder' = [holder EXCEPT ![arg[cur]] = cur]
  /\ Goto(IF arg[cur] = tid_lock THEN "tid_read" ELSE "run")
  /\ UNCHANGED <<sched, idle_thread, value, waiters, arg, alloc>>

\* Fault: a thread that is not the holder can release.
lock_release_any(l) ==
  /\ At("run") /\ holder[l] # NULL
  /\ holder' = [holder EXCEPT ![l] = NULL]
  /\ arg' = [arg EXCEPT ![cur] = l]
  /\ Goto("releasing")
  /\ UNCHANGED <<sched, idle_thread, value, waiters, alloc>>

lock_release(l) ==
  /\ At("run") /\ holder[l] = cur
  /\ holder' = [holder EXCEPT ![l] = NULL]
  /\ arg' = [arg EXCEPT ![cur] = l]
  /\ Goto("releasing")
  /\ UNCHANGED <<sched, idle_thread, value, waiters, alloc>>

release_sema ==
  /\ At("releasing")
  /\ SemaUp(arg[cur])
  /\ Goto(IF arg[cur] = tid_lock THEN "unblock" ELSE "run")
  /\ UNCHANGED <<idle_thread, holder, arg, alloc>>
-----------------------------------------------------------------------------
(***************************************************************************)
(* Thread creation and exit.                                               *)
(***************************************************************************)
\* thread_create() up to the call of allocate_tid().  When no page is free
\* it returns TID_ERROR and changes nothing.
thread_create(n) ==
  /\ At("run") /\ status[n] = "FREE" /\ next_tid <= MaxTid
  /\ status' = [status EXCEPT ![n] = "BLOCKED"]
  /\ child' = [child EXCEPT ![cur] = n]
  /\ tid' = [tid EXCEPT ![n] = 0]
  /\ pc' = [pc EXCEPT ![cur] = "create", ![n] = "run"]
  /\ UNCHANGED <<ready_list, cur, thread_ticks, idle_thread, sync, arg, reg,
                 next_tid>>

\* Fault: next_tid is used without tid_lock.
allocate_tid_unlocked ==
  /\ At("create")
  /\ Goto("tid_read")
  /\ UNCHANGED <<sched, idle_thread, sync, arg, alloc>>

allocate_tid ==
  /\ At("create")
  /\ SemaDown(tid_lock)
  /\ UNCHANGED <<idle_thread, holder, alloc>>

\* tid = next_tid++ reads and writes next_tid in two instructions.
tid_read ==
  /\ At("tid_read")
  /\ reg' = [reg EXCEPT ![cur] = next_tid]
  /\ Goto("tid_write")
  /\ UNCHANGED <<sched, idle_thread, sync, arg, child, tid, next_tid>>

\* The store to next_tid and the first half of lock_release (&tid_lock).
tid_write ==
  /\ At("tid_write")
  /\ next_tid' = reg[cur] + 1
  /\ holder' = [holder EXCEPT ![tid_lock] = NULL]
  /\ arg' = [arg EXCEPT ![cur] = tid_lock]
  /\ Goto("releasing")
  /\ UNCHANGED <<sched, idle_thread, value, waiters, child, reg, tid>>

\* Fault: thread_create() returns without thread_unblock().
unblock_child_forgotten ==
  /\ At("unblock")
  /\ tid' = [tid EXCEPT ![child[cur]] = reg[cur]]
  /\ child' = [child EXCEPT ![cur] = NULL]
  /\ Goto("run")
  /\ UNCHANGED <<sched, idle_thread, sync, arg, reg, next_tid>>

\* The rest of thread_create(): the tid, then the run queue.
unblock_child ==
  /\ At("unblock")
  /\ tid' = [tid EXCEPT ![child[cur]] = reg[cur]]
  /\ thread_unblock(child[cur])
  /\ child' = [child EXCEPT ![cur] = NULL]
  /\ Goto("run")
  /\ UNCHANGED <<cur, thread_ticks, idle_thread, sync, arg, reg, next_tid>>

\* A thread gives its locks back before it exits.
thread_exit ==
  /\ At("run") /\ \A l \in Lock : holder[l] # cur
  /\ schedule([status EXCEPT ![cur] = "DYING"], ready_list)
  /\ UNCHANGED <<idle_thread, sync, pc, arg, alloc>>

yield ==
  /\ At("run")
  /\ thread_yield
  /\ UNCHANGED <<idle_thread, sync, pc, arg, alloc>>
-----------------------------------------------------------------------------
(***************************************************************************)
(* Start-up and the idle thread.                                           *)
(***************************************************************************)
\* thread_start(): the idle thread is created with interrupts still off, so
\* thread_create() is one step here.
thread_start ==
  /\ At("boot")
  /\ tid' = [tid EXCEPT ![idle] = next_tid]
  /\ next_tid' = next_tid + 1
  /\ thread_unblock(idle)
  /\ pc' = [pc EXCEPT ![main] = "start", ![idle] = "idle"]
  /\ UNCHANGED <<cur, thread_ticks, idle_thread, sync, arg, child, reg>>

wait_idle_started ==
  /\ At("start")
  /\ SemaDown(idle_started)
  /\ UNCHANGED <<idle_thread, holder, alloc>>

idle_begin ==
  /\ At("idle")
  /\ idle_thread' = cur
  /\ Goto("idle_up")
  /\ UNCHANGED <<sched, sync, arg, alloc>>

idle_up ==
  /\ At("idle_up")
  /\ SemaUp(idle_started)
  /\ Goto("loop")
  /\ UNCHANGED <<idle_thread, holder, arg, alloc>>

\* The idle thread blocks; when it is chosen again it waits in `sti; hlt'
\* for the next interrupt.
idle_block ==
  /\ At("loop")
  /\ thread_block
  /\ Goto("hlt")
  /\ UNCHANGED <<idle_thread, sync, arg, alloc>>
-----------------------------------------------------------------------------
(***************************************************************************)
(* External interrupts.  An interrupt ends the `hlt' of the idle thread.   *)
(***************************************************************************)
WakeHlt == IF At("hlt") THEN Goto("loop") ELSE UNCHANGED pc

\* The timer interrupt: thread_tick(), and thread_yield() on return from
\* intr_handler() when the time slice is over.
tick ==
  /\ IntrOn
  /\ WakeHlt
  /\ IF thread_ticks + 1 >= TIME_SLICE
     THEN thread_yield
     ELSE thread_ticks' = thread_ticks + 1 /\ UNCHANGED <<status, ready_list, cur>>
  /\ UNCHANGED <<idle_thread, sync, arg, alloc>>

\* A device interrupt handler that calls sema_up().
device_interrupt(s) ==
  /\ IntrOn /\ value[s] < MaxValue
  /\ WakeHlt
  /\ SemaUp(s)
  /\ UNCHANGED <<idle_thread, holder, arg, alloc>>
-----------------------------------------------------------------------------
Client ==
  \/ \E s \in Sema \ {idle_started} : sema_down(s) \/ sema_up(s) \/ sema_try_down(s)
  \/ \E l \in Lock \ {tid_lock} : lock_acquire(l) \/ lock_try_acquire(l) \/ lock_release(l)
  \/ \E n \in Thread : thread_create(n)
  \/ thread_exit
  \/ yield

\* Steps the running thread takes inside the kernel.
Kernel ==
  \/ sema_down_again
  \/ set_holder
  \/ release_sema
  \/ allocate_tid \/ tid_read \/ tid_write \/ unblock_child
  \/ thread_start \/ wait_idle_started
  \/ idle_begin \/ idle_up \/ idle_block

Interrupt == tick \/ \E s \in Sema \ {idle_started} : device_interrupt(s)

Next == Client \/ Kernel \/ Interrupt

Spec == Init /\ [][Next]_vars

\* A thread that holds the CPU executes, and the timer goes on ticking.
Fairness == WF_vars(Kernel) /\ WF_vars(tick)
FairSpec == Spec /\ Fairness
-----------------------------------------------------------------------------
(***************************************************************************)
(* Properties.                                                             *)
(***************************************************************************)
TypeOK ==
  /\ status \in [Thread -> Status]
  /\ ready_list \in Seq(Thread)
  /\ cur \in Thread
  /\ thread_ticks \in 0..(TIME_SLICE - 1)
  /\ idle_thread \in {NULL, idle}
  /\ value \in [AllSema -> Nat]
  /\ waiters \in [AllSema -> Seq(Thread)]
  /\ holder \in [Lock -> Thread \cup {NULL}]
  /\ pc \in [Thread -> Point]
  /\ arg \in [Thread -> AllSema]
  /\ child \in [Thread -> Thread \cup {NULL}]
  /\ reg \in [Thread -> Nat]
  /\ tid \in [Thread -> Nat]
  /\ next_tid \in Nat

NoDup(q) == \A i, j \in 1..Len(q) : q[i] = q[j] => i = j

\* thread.h on `elem': "only a thread in the ready state is on the run queue,
\* whereas only a thread in the blocked state is on a semaphore wait list".
\* Both ways round: a thread is on the run queue exactly when it is ready
\* (the idle thread apart, which never is), on the list of exactly the
\* semaphore it sleeps on, and on no list twice.
ElemDualPurpose ==
  /\ NoDup(ready_list)
  /\ \A t \in Thread :
       t \in Rng(ready_list) <=> status[t] = "READY" /\ t # idle_thread
  /\ \A s \in AllSema :
       /\ NoDup(waiters[s])
       /\ \A t \in Thread : t \in Rng(waiters[s]) <=>
            status[t] = "BLOCKED" /\ pc[t] = "down" /\ arg[t] = s

\* schedule() always finds a thread to switch to, and thread_current()'s
\* assertions hold: the thread on the CPU is the one that is RUNNING.
OneRunning == cur \in Thread /\ \A t \in Thread : status[t] = "RUNNING" <=> t = cur

\* No thread is lost: a blocked thread that sleeps on no semaphore is the
\* idle thread or is still being created, by exactly one thread.
NoThreadLost ==
  \A t \in Thread : status[t] = "BLOCKED" /\ pc[t] # "down" =>
    \/ t = idle_thread
    \/ \E u \in Thread : /\ child[u] = t /\ status[u] \notin {"FREE", "DYING"}
                        /\ \A v \in Thread : child[v] = t => v = u

\* A thread owns a lock from the moment it has taken the semaphore until it
\* gives it back, whatever lock->holder says in between.
Owns(t, l) ==
  \/ holder[l] = t
  \/ pc[t] \in {"acquired", "releasing"} /\ arg[t] = l

\* "A lock can be held by at most a single thread at any given time", no
\* thread that is gone owns one, and the semaphore in the lock says whether
\* it is free.
MutualExclusion ==
  \A l \in Lock :
    /\ value[l] = 1 <=> \A t \in Thread : ~Owns(t, l)
    /\ value[l] <= 1
    /\ \A t, u \in Thread : Owns(t, l) /\ Owns(u, l) => t = u
    /\ \A t \in Thread : Owns(t, l) => status[t] \notin {"FREE", "DYING"}

\* The locks of synch.c implement the abstract lock.
Mutex == INSTANCE MutexSpec WITH owner <- [l \in Lock |-> {t \in Thread : Owns(t, l)}]

\* Every step of the kernel is, seen as ownership of locks, an acquisition of
\* a free lock, a release by the owner, or no change.
MutexRefinement == Mutex!Spec

\* Threads that sema_up(s) has taken off the wait list and that have not
\* looked at the value again.
Woken(s) == {t \in Thread : pc[t] = "down" /\ arg[t] = s /\ status[t] # "BLOCKED"}

\* No wake-up is lost: while threads still sleep on s, every unit of its
\* value has a woken thread on its way to take it, even though running
\* threads can overtake the woken ones.
NoLostWakeup ==
  \A s \in AllSema : waiters[s] # <<>> => Cardinality(Woken(s)) >= value[s]

\* allocate_tid() gives no tid twice: the threads alive have different tids.
TidUnique ==
  \A t, u \in Thread :
    status[t] # "FREE" /\ status[u] # "FREE" /\ tid[t] = tid[u] /\ tid[t] # 0 => t = u

\* Only thread_unblock() ends a wait: a blocked thread (but for the idle
\* thread) never gets the CPU directly, and a dead one never comes back
\* except as a new thread that is being created.
StatusSteps ==
  [][\A t \in Thread :
       /\ status[t] = "BLOCKED" /\ status'[t] # "BLOCKED" =>
            status'[t] = "READY" \/ t = idle_thread
       /\ status[t] = "READY" => status'[t] \in {"READY", "RUNNING"}
       /\ status[t] = "DYING" => status'[t] = "DYING"]_vars

\* Round robin: every thread that is ready gets the CPU.
ReadyRuns == \A t \in Thread : status[t] = "READY" /\ t # idle_thread ~> cur = t
-----------------------------------------------------------------------------
(***************************************************************************)
(* The inductive invariant.                                                *)
(***************************************************************************)
IdlePoint == {"idle", "idle_up", "loop", "hlt"}

\* Threads inside thread_create(), between the allocation of the page and
\* thread_unblock().
CreatingAt(p, s) ==
  \/ p \in {"create", "tid_read", "tid_write", "unblock"}
  \/ p \in {"down", "acquired", "releasing"} /\ s = tid_lock
Creating(u) == CreatingAt(pc[u], arg[u])

\* Start-up: until the idle thread has announced itself only main and it
\* exist, and main waits for it; from then on it is always there to run.
StartInv ==
  /\ \A t \in Thread : t # idle => pc[t] \notin IdlePoint
  /\ \A t \in Thread : pc[t] \in {"boot", "start"} => t = main
  /\ pc[main] # "boot" => pc[idle] \in IdlePoint
  /\ pc[main] = "boot" => status[idle] = "FREE" /\ pc[idle] = "run" /\ cur = main
  /\ pc[main] # "boot" => status[idle] \notin {"FREE", "DYING"}
  /\ idle_thread = idle <=> pc[idle] \in {"idle_up", "loop", "hlt"}
  /\ idle_thread = NULL =>
       /\ status[idle] # "BLOCKED"
       /\ \A t \in Thread \ {main, idle} : status[t] = "FREE"
       /\ \/ pc[main] \in {"boot", "start"} /\ status[main] # "BLOCKED"
          \/ pc[main] = "down" /\ arg[main] = idle_started /\ status[main] = "BLOCKED"
       /\ value[idle_started] = 0

\* Threads that are gone, and threads that are being created.
LifeInv ==
  /\ \A t \in Thread : status[t] \in {"FREE", "DYING"} => pc[t] = "run"
  /\ \A t \in Thread : status[t] = "BLOCKED" => pc[t] \in {"run", "down", "hlt"}
  /\ \A u \in Thread : child[u] # NULL <=> Creating(u)
  /\ \A u \in Thread : child[u] # NULL =>
       status[child[u]] = "BLOCKED" /\ pc[child[u]] = "run"
  /\ \A u, v \in Thread : child[u] # NULL /\ child[u] = child[v] => u = v
  /\ \A t \in Thread : status[t] = "BLOCKED" /\ pc[t] = "run" =>
       \E u \in Thread : child[u] = t

SchedInv == TypeOK /\ ElemDualPurpose /\ OneRunning /\ StartInv /\ LifeInv

\* Locks: a thread between the two halves of an acquisition or a release
\* owns the lock alone although holder is NULL.
LockInv ==
  /\ MutualExclusion
  /\ \A t \in Thread : pc[t] \in {"acquired", "releasing"} =>
       arg[t] \in Lock /\ holder[arg[t]] = NULL
  /\ \A t \in Thread : pc[t] \in {"tid_read", "tid_write"} <=> holder[tid_lock] = t

\* Tids: the ones in use and the ones on their way to t->tid are all
\* different and below next_tid.
HasNewTid(t) == pc[t] = "unblock" \/ (pc[t] = "releasing" /\ arg[t] = tid_lock)
TidInv ==
  /\ next_tid > 0
  /\ \A t \in Thread : tid[t] < next_tid
  /\ \A t, u \in Thread : tid[t] = tid[u] /\ tid[t] # 0 => t = u
  /\ \A t \in Thread : pc[t] = "tid_write" => reg[t] = next_tid
  /\ \A t \in Thread : HasNewTid(t) =>
       /\ reg[t] < next_tid /\ reg[t] # 0
       /\ \A u \in Thread : tid[u] # reg[t]
       /\ \A u \in Thread : HasNewTid(u) /\ reg[u] = reg[t] => u = t

IInv == SchedInv /\ LockInv /\ TidInv /\ NoLostWakeup
=============================================================================
