------------------------------ MODULE Monitor ------------------------------
(***************************************************************************)
(* Condition variables (threads/synch.c) and the synchronized list that    *)
(* is built on them (threads/synchlist.c).  The lock is the one of         *)
(* MutexSpec and the list is a sequence (ListSpec).  A waiter owns a       *)
(* semaphore on its stack, which is only there during cond_wait().         *)
(* malloc() is taken to succeed: sl_append() does not look at its value.   *)
(***************************************************************************)
EXTENDS Naturals, Sequences, Functions

CONSTANTS
  Worker,        \* threads
  Program,       \* the calls every thread makes, in order
  NoWorker

ASSUME MonitorAssumption ==
  /\ Program \in [Worker -> Seq({"append", "remove", "broadcast", "destroy"})]
  /\ NoWorker \notin Worker

VARIABLES
  wpc, calls,    \* where a thread is, and how many calls it has finished
  sl_lock,       \* the holder of the lock
  sl_list,       \* the items
  sl_empty,      \* the waiters of the condition variable
  waiter,        \* the semaphore of every thread that is in cond_wait()
  appended, removed   \* history: every item, in the order it came and went
mvars == <<wpc, calls, sl_lock, sl_list, sl_empty, waiter, appended, removed>>
-----------------------------------------------------------------------------
Continue(t, place) == wpc' = [wpc EXCEPT ![t] = place]
Operation(t) == Program[t][calls[t] + 1]

\* sl_init() was called before the threads started.
MonitorStart ==
  /\ wpc = [t \in Worker |-> "idle"]
  /\ sl_lock = NoWorker /\ sl_list = <<>> /\ sl_empty = <<>>
  /\ waiter = [t \in Worker |-> 0] /\ appended = <<>> /\ removed = <<>>
MonitorInit == MonitorStart /\ calls = [t \in Worker |-> 0]
\* Workers that have nothing to do.
MonitorUnused == MonitorStart /\ calls = [t \in Worker |-> Len(Program[t])]

call(t) ==
  /\ wpc[t] = "idle" /\ calls[t] < Len(Program[t]) /\ Operation(t) # "destroy"
  /\ Continue(t, "lock")
  /\ UNCHANGED <<calls, sl_lock, sl_list, sl_empty, waiter, appended, removed>>

\* Fault: sl_remove() does not test again, `if' instead of `while'.
sl_acquire_once(t) ==
  /\ wpc[t] \in {"lock", "relock"} /\ sl_lock = NoWorker
  /\ sl_lock' = t
  /\ Continue(t, IF wpc[t] = "relock" THEN "pop"
             ELSE CASE Operation(t) = "append" -> "push" [] Operation(t) = "remove" -> "test"
                    [] Operation(t) = "broadcast" -> "broadcast")
  /\ UNCHANGED <<calls, sl_list, sl_empty, waiter, appended, removed>>

sl_acquire(t) ==
  /\ wpc[t] \in {"lock", "relock"} /\ sl_lock = NoWorker
  /\ sl_lock' = t
  /\ Continue(t, IF wpc[t] = "relock" THEN "test"
             ELSE CASE Operation(t) = "append" -> "push" [] Operation(t) = "remove" -> "test"
                    [] Operation(t) = "broadcast" -> "broadcast")
  /\ UNCHANGED <<calls, sl_list, sl_empty, waiter, appended, removed>>

lock_release(t) ==
  /\ wpc[t] = "unlock" /\ sl_lock' = NoWorker
  /\ Continue(t, "idle") /\ calls' = [calls EXCEPT ![t] = @ + 1]
  /\ UNCHANGED <<sl_list, sl_empty, waiter, appended, removed>>

sl_append(t) ==
  LET item == <<t, calls[t]>> IN
  /\ wpc[t] = "push"
  /\ sl_list' = Append(sl_list, item) /\ appended' = Append(appended, item)
  /\ Continue(t, "signal")
  /\ UNCHANGED <<calls, sl_lock, sl_empty, waiter, removed>>

\* Fault: a waiter is woken only if the list was empty.
cond_signal_once(t) ==
  /\ wpc[t] = "signal"
  /\ IF sl_empty = <<>> \/ Len(sl_list) > 1 THEN UNCHANGED <<sl_empty, waiter>>
     ELSE /\ waiter' = [waiter EXCEPT ![Head(sl_empty)] = @ + 1]
          /\ sl_empty' = Tail(sl_empty)
  /\ Continue(t, "unlock")
  /\ UNCHANGED <<calls, sl_lock, sl_list, appended, removed>>

cond_signal(t) ==
  /\ wpc[t] = "signal"
  /\ IF sl_empty = <<>> THEN UNCHANGED <<sl_empty, waiter>>
     ELSE /\ waiter' = [waiter EXCEPT ![Head(sl_empty)] = @ + 1]
          /\ sl_empty' = Tail(sl_empty)
  /\ Continue(t, "unlock")
  /\ UNCHANGED <<calls, sl_lock, sl_list, appended, removed>>

\* Fault: the waiters are woken but stay in the list.
cond_broadcast_keep(t) ==
  /\ wpc[t] = "broadcast" /\ Continue(t, "unlock")
  /\ waiter' = [w \in Worker |-> IF w \in Range(sl_empty) THEN waiter[w] + 1 ELSE waiter[w]]
  /\ UNCHANGED <<calls, sl_lock, sl_list, sl_empty, appended, removed>>

\* One cond_signal() for every waiter; the woken ones cannot get the lock yet.
cond_broadcast(t) ==
  /\ wpc[t] = "broadcast"
  /\ IF sl_empty = <<>> THEN Continue(t, "unlock") /\ UNCHANGED <<sl_empty, waiter>>
     ELSE /\ waiter' = [waiter EXCEPT ![Head(sl_empty)] = @ + 1]
          /\ sl_empty' = Tail(sl_empty) /\ UNCHANGED wpc
  /\ UNCHANGED <<calls, sl_lock, sl_list, appended, removed>>

\* while (list_empty (&sl->sl_list)) cond_wait ...; then list_pop_front(),
\* which asserts that the list is not empty.
sl_remove(t) ==
  /\ wpc[t] = "test" /\ Continue(t, IF sl_list = <<>> THEN "wait" ELSE "pop")
  /\ UNCHANGED <<calls, sl_lock, sl_list, sl_empty, waiter, appended, removed>>
sl_pop(t) ==
  /\ wpc[t] = "pop" /\ sl_list # <<>>
  /\ removed' = Append(removed, Head(sl_list)) /\ sl_list' = Tail(sl_list)
  /\ Continue(t, "unlock")
  /\ UNCHANGED <<calls, sl_lock, sl_empty, waiter, appended>>

\* cond_wait(), up to the call of lock_release(); then the release, after
\* which anyone may signal; then sema_down() on the own semaphore.
cond_wait(t) ==
  /\ wpc[t] = "wait"
  /\ waiter' = [waiter EXCEPT ![t] = 0] /\ sl_empty' = Append(sl_empty, t)
  /\ Continue(t, "wait_release")
  /\ UNCHANGED <<calls, sl_lock, sl_list, appended, removed>>
wait_release(t) ==
  /\ wpc[t] = "wait_release" /\ sl_lock' = NoWorker /\ Continue(t, "down")
  /\ UNCHANGED <<calls, sl_list, sl_empty, waiter, appended, removed>>
cond_down(t) ==
  /\ wpc[t] = "down" /\ waiter[t] > 0
  /\ waiter' = [waiter EXCEPT ![t] = @ - 1] /\ Continue(t, "relock")
  /\ UNCHANGED <<calls, sl_lock, sl_list, sl_empty, appended, removed>>

\* sl_destroy(), called when no other thread uses the list any more.
sl_destroy(t) ==
  /\ wpc[t] = "idle" /\ calls[t] < Len(Program[t]) /\ Operation(t) = "destroy"
  /\ \A w \in Worker \ {t} : calls[w] = Len(Program[w])
  /\ sl_list' = <<>> /\ removed' = removed \o sl_list
  /\ calls' = [calls EXCEPT ![t] = @ + 1]
  /\ UNCHANGED <<wpc, sl_lock, sl_empty, waiter, appended>>

WorkerStep(t) ==
  \/ call(t) \/ sl_acquire(t) \/ lock_release(t) \/ sl_append(t) \/ cond_signal(t)
  \/ cond_broadcast(t) \/ sl_remove(t) \/ sl_pop(t) \/ cond_wait(t) \/ wait_release(t) \/ cond_down(t)
  \/ sl_destroy(t)
MonitorNext == \E t \in Worker : WorkerStep(t)
MonitorSpec == MonitorInit /\ [][MonitorNext]_mvars
MonitorFair == \A t \in Worker : WF_mvars(WorkerStep(t))
-----------------------------------------------------------------------------
\* First in, first out: what sl_remove() took out and what is in the list is
\* all that sl_append() put in, in order, whatever spurious wakeups
\* cond_broadcast() causes, and nobody pops from an empty list.
FirstInFirstOut ==
  /\ appended = removed \o sl_list
  /\ \A t \in Worker : wpc[t] = "pop" => sl_list # <<>>

\* The semaphore that cond_signal() ups is there: a thread in the list of
\* waiters is still in cond_wait(), is listed once and was not woken yet.
WaitersOnStack ==
  /\ \A i \in 1..Len(sl_empty) : /\ wpc[sl_empty[i]] \in {"wait_release", "down"}
                                 /\ waiter[sl_empty[i]] = 0
  /\ IsInjective(sl_empty)
  /\ \A t \in Worker : wpc[t] \in {"push", "signal", "test", "pop", "wait", "unlock", "broadcast"} =>
                         sl_lock = t

\* No wakeup is lost: if as many items are appended as are removed, every
\* sl_remove() returns.
Removers == {t \in Worker : \E i \in DOMAIN Program[t] : Program[t][i] = "remove"}
RemoveReturns == \A t \in Removers : wpc[t] = "test" ~> wpc[t] = "idle"
=============================================================================
