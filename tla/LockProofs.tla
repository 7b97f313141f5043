----------------------------- MODULE LockProofs -----------------------------
(***************************************************************************)
(* Proofs about Threads: from the scheduler's invariant to locks, tids and *)
(* wake-ups, and the theorems about Spec.  Every step is of one of five    *)
(* kinds; each kind keeps mutual exclusion.                                *)
(***************************************************************************)
EXTENDS ThreadsProofs

(* First-order reasoning closes most leaves; the ones about numbers,       *)
(* records and sequences cite SMT.                                         *)
USE Zenon

\* Nothing but thread_exit() takes a living thread away, whoever is chosen
\* to run: what schedule() does to the statuses when cur gets status x.
LEMMA SwitchStatus ==
  ASSUME ConstantsAssumption, SchedInv, pc[main] # "boot",
         NEW x \in {"BLOCKED", "READY", "DYING"},
         idle_thread = NULL => x = "READY" \/ cur = main,
         schedule([status EXCEPT ![cur] = x],
                  IF x = "READY" /\ cur # idle_thread
                  THEN Append(ready_list, cur) ELSE ready_list)
  PROVE  \A t \in Thread :
           /\ status[t] = "BLOCKED" => status'[t] = "BLOCKED" \/ t = idle_thread
           /\ status[t] = "READY" => status'[t] \in {"READY", "RUNNING"}
           /\ status[t] \in {"FREE", "DYING"} => status'[t] = status[t]
           /\ t = cur => status'[t] \in {x, "RUNNING"} \/ x = "DYING"
           /\ status[t] = "RUNNING" => t = cur
<1>0. /\ \A t \in Thread : status[t] = "RUNNING" <=> t = cur
      /\ cur \in Thread /\ status \in [Thread -> Status]
      /\ idle_thread # NULL => idle_thread = idle /\ status[idle] \notin {"FREE", "DYING"}
      /\ NULL \notin Thread
  BY DEF SchedInv, OneRunning, TypeOK, StartInv, ConstantsAssumption
<1>1. /\ cur' \in Thread
      /\ \/ cur' = idle_thread
         \/ cur' # cur /\ status[cur'] = "READY"
         \/ cur' = cur /\ x = "READY"
      /\ \A t \in Thread : status'[t] =
           IF t = cur' THEN "RUNNING"
           ELSE IF t = cur THEN (IF x = "DYING" /\ cur # main THEN "FREE" ELSE x)
           ELSE status[t]
  BY SwitchLemma
<1> QED BY <1>0, <1>1

\* The two outcomes of one turn of the loop in sema_down().
LEMMA DownEffect ==
  ASSUME ConstantsAssumption, SchedInv, NEW s \in AllSema, DownCall(s)
  PROVE  /\ arg' = [arg EXCEPT ![cur] = s]
         /\ UNCHANGED <<idle_thread, holder, child, reg, tid, next_tid>>
         /\ \/ /\ value[s] = 0 /\ UNCHANGED value
               /\ waiters' = [waiters EXCEPT ![s] = Append(@, cur)]
               /\ pc' = [pc EXCEPT ![cur] = "down"]
               /\ \A t \in Thread :
                    /\ status[t] = "BLOCKED" => status'[t] = "BLOCKED" \/ t = idle_thread
                    /\ status[t] = "READY" => status'[t] \in {"READY", "RUNNING"}
                    /\ status[t] \in {"FREE", "DYING"} => status'[t] = status[t]
                    /\ t = cur => status'[t] \in {"BLOCKED", "RUNNING"}
            \/ /\ value[s] > 0 /\ UNCHANGED <<waiters, status, cur>>
               /\ value' = [value EXCEPT ![s] = @ - 1]
               /\ pc' = [pc EXCEPT ![cur] = AfterDown(s)]
<1>1. CASE value[s] = 0
  <2>1. /\ waiters' = [waiters EXCEPT ![s] = Append(@, cur)]
        /\ UNCHANGED value /\ Goto("down") /\ thread_block
    BY <1>1, SMT DEF DownCall, SemaDown
  <2>2. /\ pc[main] # "boot"
        /\ idle_thread = NULL => cur = main
    BY DownCaller
  <2>3. schedule([status EXCEPT ![cur] = "BLOCKED"],
                 IF "BLOCKED" = "READY" /\ cur # idle_thread
                 THEN Append(ready_list, cur) ELSE ready_list)
    BY <2>1 DEF thread_block
  <2>4. \A t \in Thread :
          /\ status[t] = "BLOCKED" => status'[t] = "BLOCKED" \/ t = idle_thread
          /\ status[t] = "READY" => status'[t] \in {"READY", "RUNNING"}
          /\ status[t] \in {"FREE", "DYING"} => status'[t] = status[t]
          /\ t = cur => status'[t] \in {"BLOCKED", "RUNNING"}
    BY <2>2, <2>3, SwitchStatus
  <2> QED BY <1>1, <2>1, <2>4 DEF DownCall, SemaDown, Goto, alloc
<1>2. CASE value[s] # 0
  BY <1>2 DEF DownCall, SemaDown, Goto, alloc, sched
<1> QED BY <1>1, <1>2

(***************************************************************************)
(* The steps of Next that do not touch a lock, a tid or a semaphore's      *)
(* sleepers fall into three kinds.                                         *)
(***************************************************************************)
QuietPc == \A t \in Thread : pc'[t] = pc[t] \/ (pc[t] \in IdlePoint /\ pc'[t] \in IdlePoint)

\* sema_up() called by a thread, by the idle thread or by a device.
QuietUp(s) ==
  /\ SemaUp(s) /\ QuietPc
  /\ UNCHANGED <<idle_thread, holder, arg, child, reg, tid, next_tid>>

\* A switch in which cur gets status x.
Switching(x) ==
  /\ schedule([status EXCEPT ![cur] = x],
              IF x = "READY" /\ cur # idle_thread
              THEN Append(ready_list, cur) ELSE ready_list)
  /\ pc[main] # "boot"
  /\ idle_thread = NULL => x = "READY" \/ cur = main
  /\ x = "DYING" => pc[cur] = "run" /\ \A l \in Lock : holder[l] # cur
  /\ x = "BLOCKED" => pc[cur] \in IdlePoint
  /\ pc[cur] # "down" /\ QuietPc
  /\ UNCHANGED <<idle_thread, value, waiters, holder, arg, child, reg, tid, next_tid>>

Still ==
  /\ QuietPc
  /\ UNCHANGED <<status, value, waiters, holder, arg, child, reg, tid, next_tid>>

\* The steps with an effect of their own.
OwnStep ==
  \/ \E s \in Sema \ {idle_started} : sema_try_down(s)
  \/ \E l \in Lock \ {tid_lock} : lock_try_acquire(l) \/ lock_release(l)
  \/ \E n \in Thread : thread_create(n)
  \/ set_holder \/ release_sema \/ tid_read \/ tid_write \/ unblock_child \/ thread_start

\* Every step of the kernel is a sema_down, a sema_up, a switch of threads, a step
\* that leaves threads and semaphores alone, or a step of the running thread only.
LEMMA StepKinds ==
  ASSUME ConstantsAssumption, SchedInv, [Next]_vars
  PROVE  \/ \E s \in AllSema : DownCall(s)
         \/ \E s \in Sema : QuietUp(s)
         \/ \E x \in {"BLOCKED", "READY", "DYING"} : Switching(x)
         \/ Still
         \/ OwnStep
<1> DEFINE G == \/ \E s \in AllSema : DownCall(s)
                \/ \E s \in Sema : QuietUp(s)
                \/ \E x \in {"BLOCKED", "READY", "DYING"} : Switching(x)
                \/ Still
<1>0. /\ TypeOK /\ StartInv /\ cur \in Thread /\ idle_started \in Sema
      /\ \A t \in Thread : t # idle => pc[t] \notin IdlePoint
      /\ pc \in [Thread -> Point]
  BY DEF SchedInv, TypeOK, StartInv, ConstantsAssumption
<1>1. ASSUME sema_down_again \/ allocate_tid \/ wait_idle_started PROVE G
  BY <1>1, DownCallers
<1>2. ASSUME NEW s \in Sema \ {idle_started}, sema_down(s) PROVE G
  BY <1>2, DownCallers
<1>3. ASSUME NEW l \in Lock \ {tid_lock}, lock_acquire(l) PROVE G
  BY <1>3, DownCallers
<1>4. ASSUME NEW s \in Sema \ {idle_started}, sema_up(s) PROVE G
  <2>1. QuietUp(s)
    BY <1>4 DEF sema_up, QuietUp, QuietPc, alloc
  <2> QED BY <2>1
<1>5. ASSUME idle_up PROVE G
  <2>1. QuietUp(idle_started)
    BY <1>0, <1>5 DEF idle_up, At, Goto, QuietUp, QuietPc, alloc, IdlePoint
  <2> QED BY <1>0, <2>1
<1>6. ASSUME NEW s \in Sema \ {idle_started}, device_interrupt(s) PROVE G
  <2>1. QuietUp(s)
    BY <1>0, <1>6 DEF device_interrupt, WakeHlt, At, Goto, QuietUp, QuietPc, alloc, IdlePoint
  <2> QED BY <2>1
<1>7. ASSUME thread_exit PROVE G
  <2>1. idle_thread = idle /\ pc[main] # "boot" /\ pc[cur] = "run"
    BY <1>7, IdleKnown DEF thread_exit, At
  <2>2. Switching("DYING")
    BY <1>7, <2>1 DEF thread_exit, Switching, QuietPc, sync, alloc, ConstantsAssumption
  <2> QED BY <2>2
<1>8. ASSUME yield PROVE G
  <2>1. pc[main] # "boot" /\ pc[cur] = "run"
    BY <1>8, IdleKnown DEF yield, At
  <2>2. Switching("READY")
    BY <1>8, <2>1 DEF yield, thread_yield, Switching, QuietPc, sync, alloc
  <2> QED BY <2>2
<1>9. ASSUME idle_block PROVE G
  <2>1. idle_thread = idle /\ pc[main] # "boot" /\ pc[cur] = "loop"
    BY <1>9, IdleKnown DEF idle_block, At
  <2>2. QuietPc
    BY <1>0, <1>9, <2>1 DEF idle_block, Goto, QuietPc, IdlePoint
  <2>3. Switching("BLOCKED")
    BY <1>9, <2>1, <2>2 DEF idle_block, thread_block, Switching, sync, alloc,
       ConstantsAssumption, IdlePoint
  <2> QED BY <2>3
<1>10. ASSUME tick PROVE G
  <2>1. /\ pc[cur] \notin {"boot", "down"} /\ QuietPc
        /\ UNCHANGED <<idle_thread, value, waiters, holder, arg, child, reg, tid, next_tid>>
    BY <1>0, <1>10 DEF tick, IntrOn, WakeHlt, At, Goto, QuietPc, sync, alloc, IdlePoint
  <2>2. pc[main] # "boot"
    BY <1>0, <2>1 DEF StartInv
  <2>3. CASE thread_yield
    <3>1. Switching("READY")
      BY <2>1, <2>2, <2>3 DEF thread_yield, Switching
    <3> QED BY <3>1
  <2>4. CASE UNCHANGED status
    <3>1. Still
      BY <2>1, <2>4 DEF Still
    <3> QED BY <3>1
  <2> QED BY <1>10, <2>3, <2>4 DEF tick
<1>11. ASSUME idle_begin \/ UNCHANGED vars PROVE G
  <2>1. Still
    BY <1>0, <1>11 DEF idle_begin, At, Goto, Still, QuietPc, vars, sched, sync, alloc, IdlePoint
  <2> QED BY <2>1
<1> QED BY <1>1, <1>2, <1>3, <1>4, <1>5, <1>6, <1>7, <1>8, <1>9, <1>10, <1>11
        DEF Next, Client, Kernel, Interrupt, OwnStep

\* The thread that sema_up() takes off the wait list slept on this semaphore.
LEMMA UpEffect ==
  ASSUME ConstantsAssumption, SchedInv, NEW s \in AllSema, SemaUp(s)
  PROVE  /\ value' = [value EXCEPT ![s] = @ + 1] /\ cur' = cur
         /\ \/ waiters[s] = <<>> /\ UNCHANGED <<waiters, status>>
            \/ /\ waiters[s] # <<>>
               /\ waiters' = [waiters EXCEPT ![s] = Tail(@)]
               /\ \E w \in Thread : /\ status[w] = "BLOCKED" /\ pc[w] = "down" /\ arg[w] = s
                                    /\ status' = [status EXCEPT ![w] = "READY"]
<1>1. CASE waiters[s] = <<>>
  BY <1>1 DEF SemaUp
<1>2. CASE waiters[s] # <<>>
  <2>1. waiters[s] \in Seq(Thread)
    BY DEF SchedInv, TypeOK
  <2>2. Head(waiters[s]) \in Thread /\ Head(waiters[s]) \in Rng(waiters[s])
    BY <1>2, <2>1, SMT DEF Rng
  <2>3. LET w == Head(waiters[s]) IN
          status[w] = "BLOCKED" /\ pc[w] = "down" /\ arg[w] = s
    BY <2>2 DEF SchedInv, ElemDualPurpose
  <2> QED BY <1>2, <2>2, <2>3 DEF SemaUp, thread_unblock
<1> QED BY <1>1, <1>2

\* What a step may do to the status of a thread.
LEMMA StatusNext ==
  ASSUME ConstantsAssumption, SchedInv, [Next]_vars, NEW t \in Thread
  PROVE  /\ status[t] = "BLOCKED" => status'[t] \in {"BLOCKED", "READY"} \/ t = idle_thread
         /\ status[t] = "READY" => status'[t] \in {"READY", "RUNNING"}
         /\ status[t] = "DYING" => status'[t] = "DYING"
         /\ status'[t] \in {"FREE", "DYING"} =>
              status[t] \in {"FREE", "DYING"} \/ (pc[t] = "run" /\ \A l \in Lock : holder[l] # t)
<1>0. /\ TypeOK /\ status \in [Thread -> Status] /\ cur \in Thread
      /\ \A u \in Thread : status[u] = "RUNNING" <=> u = cur
      /\ idle_thread # NULL => idle_thread = idle /\ status[idle] \notin {"FREE", "DYING"}
  BY DEF SchedInv, TypeOK, OneRunning, StartInv
<1> DEFINE G == /\ status[t] = "BLOCKED" => status'[t] \in {"BLOCKED", "READY"} \/ t = idle_thread
                /\ status[t] = "READY" => status'[t] \in {"READY", "RUNNING"}
                /\ status[t] = "DYING" => status'[t] = "DYING"
                /\ status'[t] \in {"FREE", "DYING"} =>
                     status[t] \in {"FREE", "DYING"} \/ (pc[t] = "run" /\ \A l \in Lock : holder[l] # t)
<1>1. ASSUME NEW s \in AllSema, DownCall(s) PROVE G
  <2>1. CASE UNCHANGED status
    BY <2>1
  <2>2. CASE ~UNCHANGED status
    <3>1. /\ status[t] = "BLOCKED" => status'[t] = "BLOCKED" \/ t = idle_thread
          /\ status[t] = "READY" => status'[t] \in {"READY", "RUNNING"}
          /\ status[t] \in {"FREE", "DYING"} => status'[t] = status[t]
          /\ t = cur => status'[t] \in {"BLOCKED", "RUNNING"}
      BY <1>1, <2>2, DownEffect
    <3>2. status'[idle] \notin {"FREE", "DYING"} \/ idle_thread = NULL
      <4>1. SchedInv'
        BY <1>1, DownStep
      <4> QED BY <1>0, <1>1, <4>1, DownEffect DEF SchedInv, StartInv, TypeOK
    <3> QED BY <1>0, <3>1, <3>2 DEF Status, ConstantsAssumption
  <2> QED BY <2>1, <2>2
<1>2. ASSUME NEW s \in Sema, QuietUp(s) PROVE G
  <2>1. s \in AllSema
    BY DEF AllSema
  <2>2. \/ UNCHANGED status
        \/ \E w \in Thread : status[w] = "BLOCKED" /\ status' = [status EXCEPT ![w] = "READY"]
    BY <1>2, <2>1, UpEffect DEF QuietUp
  <2> QED BY <1>0, <2>2
<1>3. ASSUME NEW x \in {"BLOCKED", "READY", "DYING"}, Switching(x) PROVE G
  <2>1. /\ status[t] = "BLOCKED" => status'[t] = "BLOCKED" \/ t = idle_thread
        /\ status[t] = "READY" => status'[t] \in {"READY", "RUNNING"}
        /\ status[t] \in {"FREE", "DYING"} => status'[t] = status[t]
        /\ t = cur => status'[t] \in {x, "RUNNING"} \/ x = "DYING"
    BY <1>3, SwitchStatus DEF Switching
  <2>2. x = "DYING" => pc[cur] = "run" /\ \A l \in Lock : holder[l] # cur
    BY <1>3 DEF Switching
  <2>3. status'[idle] \notin {"FREE", "DYING"} \/ idle_thread = NULL
    <3>1. SchedInv' /\ idle_thread' = idle_thread
      BY <1>3, SchedInvNext DEF Switching
    <3> QED BY <1>0, <3>1 DEF SchedInv, StartInv, TypeOK, ConstantsAssumption
  <2> QED BY <1>0, <2>1, <2>2, <2>3 DEF Status, ConstantsAssumption
<1>4. ASSUME Still PROVE G
  BY <1>4 DEF Still
<1>5. ASSUME OwnStep PROVE G
  <2>1. ASSUME release_sema PROVE G
    <3>1. SemaUp(arg[cur]) /\ arg[cur] \in AllSema
      BY <1>0, <2>1 DEF release_sema, TypeOK
    <3>2. \/ UNCHANGED status
          \/ \E w \in Thread : status[w] = "BLOCKED" /\ status' = [status EXCEPT ![w] = "READY"]
      BY <3>1, UpEffect
    <3> QED BY <1>0, <3>2
  <2>2. ASSUME NEW n \in Thread, thread_create(n) PROVE G
    BY <1>0, <2>2 DEF thread_create
  <2>3. ASSUME unblock_child PROVE G
    <3>1. child[cur] \in Thread /\ status[child[cur]] = "BLOCKED"
      BY <1>0, <2>3, SMT DEF unblock_child, At, SchedInv, LifeInv, Creating, CreatingAt, TypeOK
    <3> QED BY <1>0, <2>3, <3>1 DEF unblock_child, thread_unblock
  <2>4. ASSUME thread_start PROVE G
    <3>1. status[idle] = "FREE"
      BY <1>0, <2>4 DEF thread_start, At, SchedInv, StartInv
    <3> QED BY <1>0, <2>4, <3>1 DEF thread_start, thread_unblock
  <2>5. CASE UNCHANGED status
    BY <2>5
  <2> QED BY <1>5, <2>1, <2>2, <2>3, <2>4, <2>5 DEF OwnStep, sema_try_down, lock_try_acquire,
             lock_release, set_holder, tid_read, tid_write, sched
<1> QED BY <1>1, <1>2, <1>3, <1>4, <1>5, StepKinds

(***************************************************************************)
(* Locks.                                                                  *)
(***************************************************************************)
OwnersSame ==
  /\ \A t \in Thread, l \in Lock : Owns(t, l)' <=> Owns(t, l)
  /\ \A l \in Lock : value'[l] = value[l]

Taken(l) ==
  /\ value[l] > 0 /\ value'[l] = value[l] - 1 /\ status' = status
  /\ \A k \in Lock \ {l} : value'[k] = value[k]
  /\ \A t \in Thread, k \in Lock : Owns(t, k)' <=> Owns(t, k) \/ (t = cur /\ k = l)

GivenBack(l) ==
  /\ Owns(cur, l) /\ value'[l] = value[l] + 1
  /\ \A k \in Lock \ {l} : value'[k] = value[k]
  /\ \A t \in Thread, k \in Lock : Owns(t, k)' <=> Owns(t, k) /\ ~(t = cur /\ k = l)

\* Seen as ownership a step takes one lock, gives one back, or does nothing.
LEMMA OwnsStep ==
  ASSUME ConstantsAssumption, SchedInv, LockInv, [Next]_vars
  PROVE  OwnersSame \/ \E l \in Lock : Taken(l) \/ GivenBack(l)
<1>0. /\ TypeOK /\ cur \in Thread /\ Sema \cap Lock = {} /\ tid_lock \in Lock
      /\ value \in [AllSema -> Nat] /\ holder \in [Lock -> Thread \cup {NULL}]
      /\ pc \in [Thread -> Point] /\ arg \in [Thread -> AllSema]
      /\ NULL \notin Thread /\ idle \in Thread /\ main \in Thread
      /\ \A l \in Lock : l \in AllSema
  BY DEF SchedInv, TypeOK, ConstantsAssumption, AllSema
<1>1. ASSUME NEW s \in AllSema, DownCall(s)
      PROVE  OwnersSame \/ \E l \in Lock : Taken(l)
  <2>1. /\ arg' = [arg EXCEPT ![cur] = s] /\ holder' = holder
        /\ pc[cur] \notin {"acquired", "releasing"}
    BY <1>1, DownEffect DEF DownCall
  <2>2. CASE value[s] = 0
    <3>1. value' = value /\ pc' = [pc EXCEPT ![cur] = "down"]
      BY <1>1, <2>2, DownEffect, SMT
    <3>2. OwnersSame
      BY <1>0, <2>1, <3>1 DEF OwnersSame, Owns
    <3> QED BY <3>2
  <2>3. CASE value[s] # 0
    <3>1. /\ value' = [value EXCEPT ![s] = @ - 1] /\ value[s] > 0
          /\ pc' = [pc EXCEPT ![cur] = AfterDown(s)] /\ status' = status
      BY <1>1, <2>3, DownEffect
    <3>2. CASE s \in Lock
      <4>1. Taken(s)
        BY <1>0, <2>1, <3>1, <3>2 DEF Taken, Owns, AfterDown
      <4> QED BY <3>2, <4>1
    <3>3. CASE s \notin Lock
      <4>1. OwnersSame
        BY <1>0, <2>1, <3>1, <3>3 DEF OwnersSame, Owns, AfterDown
      <4> QED BY <4>1
    <3> QED BY <3>2, <3>3
  <2> QED BY <2>2, <2>3
<1>2. ASSUME NEW s \in Sema, QuietUp(s) PROVE OwnersSame
  BY <1>0, <1>2 DEF QuietUp, SemaUp, QuietPc, IdlePoint, OwnersSame, Owns, AllSema
<1>3. ASSUME NEW x \in {"BLOCKED", "READY", "DYING"}, Switching(x) PROVE OwnersSame
  BY <1>0, <1>3 DEF Switching, QuietPc, IdlePoint, OwnersSame, Owns
<1>4. ASSUME Still PROVE OwnersSame
  BY <1>0, <1>4 DEF Still, QuietPc, IdlePoint, OwnersSame, Owns
<1>5. ASSUME OwnStep PROVE OwnersSame \/ \E l \in Lock : Taken(l) \/ GivenBack(l)
  <2>1. ASSUME NEW s \in Sema \ {idle_started}, sema_try_down(s) PROVE OwnersSame
    BY <1>0, <2>1 DEF sema_try_down, OwnersSame, Owns, AllSema
  <2>2. ASSUME NEW l \in Lock \ {tid_lock}, lock_try_acquire(l) PROVE Taken(l)
    BY <1>0, <2>2 DEF lock_try_acquire, At, Goto, Taken, Owns, sched
  <2>3. ASSUME NEW l \in Lock \ {tid_lock}, lock_release(l) PROVE OwnersSame
    BY <1>0, <2>3 DEF lock_release, At, Goto, OwnersSame, Owns
  <2>4. ASSUME set_holder PROVE OwnersSame
    <3>1. arg[cur] \in Lock /\ holder[arg[cur]] = NULL
      BY <1>0, <2>4 DEF set_holder, At, LockInv
    <3> QED BY <1>0, <2>4, <3>1 DEF set_holder, At, Goto, OwnersSame, Owns
  <2>5. ASSUME release_sema PROVE GivenBack(arg[cur]) /\ arg[cur] \in Lock
    <3>1. arg[cur] \in Lock /\ holder[arg[cur]] = NULL
      BY <1>0, <2>5 DEF release_sema, At, LockInv
    <3> QED BY <1>0, <2>5, <3>1 DEF release_sema, SemaUp, At, Goto, GivenBack, Owns
  <2>6. ASSUME NEW n \in Thread, thread_create(n) PROVE OwnersSame
    <3>1. pc[n] = "run"
      BY <2>6 DEF thread_create, SchedInv, LifeInv
    <3> QED BY <1>0, <2>6, <3>1 DEF thread_create, At, sync, OwnersSame, Owns
  <2>7. ASSUME tid_write PROVE OwnersSame
    <3>1. holder[tid_lock] = cur
      BY <1>0, <2>7 DEF tid_write, At, LockInv
    <3> QED BY <1>0, <2>7, <3>1 DEF tid_write, At, Goto, OwnersSame, Owns
  <2>8. ASSUME tid_read \/ unblock_child PROVE OwnersSame
    BY <1>0, <2>8 DEF tid_read, unblock_child, At, Goto, sync, OwnersSame, Owns
  <2>9. ASSUME thread_start PROVE OwnersSame
    <3>1. pc[idle] = "run" /\ pc[main] = "boot"
      BY <1>0, <2>9 DEF thread_start, At, SchedInv, StartInv
    <3> QED BY <1>0, <2>9, <3>1 DEF thread_start, sync, OwnersSame, Owns
  <2> QED BY <1>5, <2>1, <2>2, <2>3, <2>4, <2>5, <2>6, <2>7, <2>8, <2>9 DEF OwnStep
<1> QED BY <1>1, <1>2, <1>3, <1>4, <1>5, StepKinds

\* thread_init() and lock_init() leave every lock free.
LEMMA LockInvInit == ConstantsAssumption /\ Init => LockInv
<1> SUFFICES ASSUME ConstantsAssumption, Init PROVE LockInv
  OBVIOUS
<1>1. \A t \in Thread, l \in Lock : ~Owns(t, l)
  BY DEF Init, Owns, ConstantsAssumption
<1>2. \A l \in Lock : value[l] = 1
  BY DEF Init, AllSema
<1>3. MutualExclusion
  BY <1>1, <1>2, SMT DEF MutualExclusion
<1>4. \A t \in Thread : pc[t] \in {"boot", "run"} /\ holder[tid_lock] # t
  BY DEF Init, ConstantsAssumption
<1> QED BY <1>3, <1>4 DEF LockInv

\* No step gives a lock to a second thread.
LEMMA MutualExclusionNext ==
  ASSUME ConstantsAssumption, SchedInv, LockInv, [Next]_vars
  PROVE  MutualExclusion'
<1>0. /\ MutualExclusion /\ cur \in Thread /\ status[cur] = "RUNNING"
      /\ \A l \in Lock : value[l] \in Nat
  BY DEF LockInv, SchedInv, TypeOK, OneRunning, AllSema
<1>1. ASSUME NEW t \in Thread, NEW l \in Lock, Owns(t, l)
      PROVE  status'[t] \notin {"FREE", "DYING"}
  <2>1. status[t] \notin {"FREE", "DYING"}
    BY <1>0, <1>1 DEF MutualExclusion
  <2> QED BY <1>1, <2>1, StatusNext DEF Owns
<1>2. CASE OwnersSame
  BY <1>0, <1>1, <1>2 DEF OwnersSame, MutualExclusion
<1>3. ASSUME NEW l \in Lock, Taken(l) PROVE MutualExclusion'
  BY <1>0, <1>1, <1>3, SMT DEF Taken, MutualExclusion
<1>4. ASSUME NEW l \in Lock, GivenBack(l) PROVE MutualExclusion'
  BY <1>0, <1>1, <1>4, SMT DEF GivenBack, MutualExclusion
<1> QED BY <1>2, <1>3, <1>4, OwnsStep

\* No step of the kernel breaks the invariant about locks and their holders.
LEMMA LockInvNext ==
  ASSUME ConstantsAssumption, SchedInv, LockInv, [Next]_vars
  PROVE  LockInv'
<1> DEFINE Half(p, t) == p[t] \in {"acquired", "releasing"}
           InTid(p, t) == p[t] \in {"tid_read", "tid_write"}
           G == /\ \A t \in Thread : Half(pc', t) => arg'[t] \in Lock /\ holder'[arg'[t]] = NULL
                /\ \A t \in Thread : InTid(pc', t) <=> holder'[tid_lock] = t
<1>0. /\ TypeOK /\ cur \in Thread /\ Sema \cap Lock = {} /\ tid_lock \in Lock
      /\ value \in [AllSema -> Nat] /\ holder \in [Lock -> Thread \cup {NULL}]
      /\ pc \in [Thread -> Point] /\ arg \in [Thread -> AllSema]
      /\ NULL \notin Thread /\ idle \in Thread /\ main \in Thread
      /\ \A l \in Lock : l \in AllSema
  BY DEF SchedInv, TypeOK, ConstantsAssumption, AllSema
<1>1. /\ \A t \in Thread : Half(pc, t) => arg[t] \in Lock /\ holder[arg[t]] = NULL
      /\ \A t \in Thread : InTid(pc, t) <=> holder[tid_lock] = t
      /\ \A t, u \in Thread : Half(pc, t) /\ Half(pc, u) /\ arg[t] = arg[u] => t = u
  BY SMT DEF LockInv, MutualExclusion, Owns
<1>2. \A l \in Lock : value[l] > 0 => holder[l] = NULL
  BY <1>0, SMT DEF LockInv, MutualExclusion, Owns
<1>3. ASSUME NEW s \in AllSema, DownCall(s) PROVE G
  <2>1. /\ arg' = [arg EXCEPT ![cur] = s] /\ holder' = holder
        /\ pc[cur] \in {"run", "down", "create", "start"}
        /\ \/ pc' = [pc EXCEPT ![cur] = "down"]
           \/ pc' = [pc EXCEPT ![cur] = AfterDown(s)] /\ value[s] > 0
    BY <1>3, DownEffect DEF DownCall
  <2> QED BY <1>0, <1>1, <1>2, <2>1, SMT DEF AfterDown
<1>4. ASSUME QuietPc, UNCHANGED <<holder, arg>> PROVE G
  BY <1>0, <1>1, <1>4 DEF QuietPc, IdlePoint
<1>5. ASSUME OwnStep PROVE G
  <2>1. ASSUME NEW s \in Sema \ {idle_started}, sema_try_down(s) PROVE G
    BY <1>0, <1>1, <2>1 DEF sema_try_down
  <2>2. ASSUME NEW l \in Lock \ {tid_lock}, lock_try_acquire(l) PROVE G
    BY <1>0, <1>1, <1>2, <2>2, SMT DEF lock_try_acquire, At, Goto
  <2>3. ASSUME NEW l \in Lock \ {tid_lock}, lock_release(l) PROVE G
    BY <1>0, <1>1, <2>3, SMT DEF lock_release, At, Goto
  <2>4. ASSUME set_holder PROVE G
    <3>1. /\ arg[cur] \in Lock /\ holder[arg[cur]] = NULL /\ pc[cur] = "acquired"
          /\ pc' = [pc EXCEPT ![cur] = IF arg[cur] = tid_lock THEN "tid_read" ELSE "run"]
          /\ holder' = [holder EXCEPT ![arg[cur]] = cur] /\ arg' = arg
      BY <1>0, <1>1, <2>4 DEF set_holder, At, Goto
    <3>2. \A t \in Thread : Half(pc', t) => arg'[t] \in Lock /\ holder'[arg'[t]] = NULL
      BY <1>0, <1>1, <3>1, SMT
    <3>3. \A t \in Thread : InTid(pc', t) <=> holder'[tid_lock] = t
      <4>1. CASE arg[cur] = tid_lock
        BY <1>0, <1>1, <3>1, <4>1
      <4>2. CASE arg[cur] # tid_lock
        BY <1>0, <1>1, <3>1, <4>2, SMT
      <4> QED BY <4>1, <4>2
    <3> QED BY <3>2, <3>3
  <2>5. ASSUME release_sema PROVE G
    BY <1>0, <1>1, <2>5, SMT DEF release_sema, At, Goto
  <2>6. ASSUME NEW n \in Thread, thread_create(n) PROVE G
    <3>1. pc[n] = "run"
      BY <2>6 DEF thread_create, SchedInv, LifeInv
    <3> QED BY <1>0, <1>1, <2>6, <3>1, SMT DEF thread_create, At, sync
  <2>7. ASSUME tid_write PROVE G
    BY <1>0, <1>1, <2>7, SMT DEF tid_write, At, Goto
  <2>8. ASSUME tid_read \/ unblock_child PROVE G
    BY SMTT(30), <1>0, <1>1, <2>8 DEF tid_read, unblock_child, At, Goto, sync
  <2>9. ASSUME thread_start PROVE G
    <3>1. pc[idle] = "run" /\ pc[main] = "boot"
      BY <1>0, <2>9 DEF thread_start, At, SchedInv, StartInv
    <3> QED BY <1>0, <1>1, <2>9, <3>1, SMT DEF thread_start, sync
  <2> QED BY <1>5, <2>1, <2>2, <2>3, <2>4, <2>5, <2>6, <2>7, <2>8, <2>9 DEF OwnStep
<1>6. G
  BY <1>3, <1>4, <1>5, StepKinds DEF QuietUp, Switching, Still
<1> QED BY <1>6, MutualExclusionNext DEF LockInv

\* Every step is an acquisition, a release or a stuttering step of the
\* abstract lock.
LEMMA MutexStep ==
  ASSUME ConstantsAssumption, SchedInv, LockInv, [Next]_vars
  PROVE  [Mutex!Next]_([l \in Lock |-> {t \in Thread : Owns(t, l)}])
<1> DEFINE O == [l \in Lock |-> {t \in Thread : Owns(t, l)}]
           P == [l \in Lock |-> {t \in Thread : Owns(t, l)'}]
<1>0. MutualExclusion /\ cur \in Thread /\ O' = P
  BY DEF LockInv, SchedInv, TypeOK
<1>1. CASE OwnersSame
  BY <1>0, <1>1 DEF OwnersSame
<1>2. ASSUME NEW l \in Lock, Taken(l) PROVE Mutex!Acquire(cur, l)
  <2>1. \A t \in Thread : ~Owns(t, l)
    <3>1. value[l] > 0 /\ value[l] <= 1 /\ value[l] \in Nat
      BY <1>0, <1>2, SMT DEF Taken, MutualExclusion, SchedInv, TypeOK, AllSema
    <3> QED BY <1>0, <3>1, SMT DEF MutualExclusion
  <2>2. O[l] = {}
    BY <2>1
  <2>3. P = [O EXCEPT ![l] = {cur}]
    <3>1. \A k \in Lock : P[k] = IF k = l THEN {cur} ELSE O[k]
      BY <1>0, <1>2, <2>1 DEF Taken
    <3> QED BY <3>1
  <2> QED BY <1>0, <2>2, <2>3 DEF Mutex!Acquire
<1>3. ASSUME NEW l \in Lock, GivenBack(l) PROVE Mutex!Release(cur, l)
  <2>1. \A t \in Thread : Owns(t, l) <=> t = cur
    BY <1>0, <1>3 DEF GivenBack, MutualExclusion
  <2>2. O[l] = {cur}
    BY <1>0, <2>1
  <2>3. P = [O EXCEPT ![l] = {}]
    <3>1. \A k \in Lock : P[k] = IF k = l THEN {} ELSE O[k]
      BY <1>0, <1>3, <2>1 DEF GivenBack
    <3> QED BY <3>1
  <2> QED BY <1>0, <2>2, <2>3 DEF Mutex!Release
<1> QED BY <1>0, <1>1, <1>2, <1>3, OwnsStep DEF Mutex!Next

-----------------------------------------------------------------------------
(***************************************************************************)
(* Tids.                                                                   *)
(***************************************************************************)
\* thread_init() leaves no tid in use twice.
LEMMA TidInvInit == ConstantsAssumption /\ Init => TidInv
<1> SUFFICES ASSUME ConstantsAssumption, Init PROVE TidInv
  OBVIOUS
<1>1. \A t \in Thread : pc[t] \in {"boot", "run"}
  BY DEF Init
<1>2. \A t \in Thread : tid[t] = IF t = main THEN 1 ELSE 0
  BY DEF Init
<1> QED BY <1>1, <1>2, SMT DEF Init, TidInv, HasNewTid

\* A step that leaves the tids alone and moves no thread into or out of the
\* end of allocate_tid().
LEMMA TidFrame ==
  ASSUME TidInv, UNCHANGED <<tid, reg, next_tid>>,
         \A t \in Thread : /\ HasNewTid(t)' <=> HasNewTid(t)
                           /\ pc'[t] = "tid_write" => pc[t] = "tid_write"
  PROVE  TidInv'
BY DEF TidInv

\* No step of the kernel, allocate_tid() above all, breaks the invariant about tids.
LEMMA TidInvNext ==
  ASSUME ConstantsAssumption, SchedInv, LockInv, TidInv, [Next]_vars
  PROVE  TidInv'
<1> DEFINE Same == \A t \in Thread : /\ HasNewTid(t)' <=> HasNewTid(t)
                                     /\ pc'[t] = "tid_write" => pc[t] = "tid_write"
<1>0. /\ TypeOK /\ cur \in Thread /\ idle \in Thread /\ main \in Thread /\ main # idle
      /\ pc \in [Thread -> Point] /\ arg \in [Thread -> AllSema]
      /\ reg \in [Thread -> Nat] /\ tid \in [Thread -> Nat] /\ next_tid \in Nat
  BY DEF SchedInv, TypeOK, ConstantsAssumption
<1>1. ASSUME NEW s \in AllSema, DownCall(s) PROVE TidInv'
  <2>1. /\ arg' = [arg EXCEPT ![cur] = s] /\ UNCHANGED <<tid, reg, next_tid>>
        /\ pc[cur] \in {"run", "down", "create", "start"}
        /\ pc' = [pc EXCEPT ![cur] = "down"] \/ pc' = [pc EXCEPT ![cur] = AfterDown(s)]
    BY <1>1, DownEffect DEF DownCall
  <2>2. Same
    BY <1>0, <2>1 DEF HasNewTid, AfterDown
  <2> QED BY <2>1, <2>2, TidFrame
<1>2. ASSUME QuietPc, UNCHANGED <<arg, tid, reg, next_tid>> PROVE TidInv'
  <2>1. Same
    BY <1>0, <1>2 DEF QuietPc, IdlePoint, HasNewTid
  <2> QED BY <1>2, <2>1, TidFrame
<1>3. ASSUME OwnStep PROVE TidInv'
  <2>1. ASSUME \/ \E s \in Sema \ {idle_started} : sema_try_down(s)
               \/ \E l \in Lock \ {tid_lock} : lock_try_acquire(l) \/ lock_release(l)
               \/ set_holder \/ release_sema
        PROVE  TidInv'
    <3>1. UNCHANGED <<tid, reg, next_tid>>
      BY <2>1 DEF sema_try_down, lock_try_acquire, lock_release, set_holder, release_sema, alloc
    <3>2. Same
      BY <1>0, <2>1 DEF sema_try_down, lock_try_acquire, lock_release, set_holder,
         release_sema, At, Goto, HasNewTid
    <3> QED BY <3>1, <3>2, TidFrame
  <2>2. ASSUME NEW n \in Thread, thread_create(n) PROVE TidInv'
    <3>1. pc[n] = "run"
      BY <2>2 DEF thread_create, SchedInv, LifeInv
    <3>2. Same
      BY <1>0, <2>2, <3>1 DEF thread_create, At, HasNewTid
    <3>3. tid' = [tid EXCEPT ![n] = 0] /\ UNCHANGED <<reg, next_tid>>
      BY <2>2 DEF thread_create
    <3> QED BY <1>0, <3>2, <3>3, SMT DEF TidInv
  <2>3. ASSUME tid_read PROVE TidInv'
    <3>1. /\ pc[cur] = "tid_read" /\ pc' = [pc EXCEPT ![cur] = "tid_write"] /\ arg' = arg
          /\ reg' = [reg EXCEPT ![cur] = next_tid] /\ UNCHANGED <<tid, next_tid>>
      BY <2>3 DEF tid_read, At, Goto
    <3>2. \A t \in Thread : HasNewTid(t)' => HasNewTid(t) /\ t # cur
      BY <1>0, <3>1 DEF HasNewTid
    <3> QED BY <1>0, <3>1, <3>2 DEF TidInv
  <2>4. ASSUME tid_write PROVE TidInv'
    <3>1. /\ pc[cur] = "tid_write" /\ pc' = [pc EXCEPT ![cur] = "releasing"]
          /\ arg' = [arg EXCEPT ![cur] = tid_lock]
          /\ next_tid' = reg[cur] + 1 /\ UNCHANGED <<tid, reg>>
      BY <2>4 DEF tid_write, At, Goto
    <3>2. reg[cur] = next_tid
      BY <1>0, <3>1 DEF TidInv
    <3>3. \A t \in Thread : pc'[t] # "tid_write"
      BY <1>0, <3>1, SMT DEF LockInv
    <3>4. \A t \in Thread : HasNewTid(t)' => HasNewTid(t) \/ t = cur
      BY <1>0, <3>1 DEF HasNewTid
    <3> QED BY <1>0, <3>1, <3>2, <3>3, <3>4, SMT DEF TidInv
  <2>5. ASSUME unblock_child PROVE TidInv'
    <3>1. /\ pc[cur] = "unblock" /\ pc' = [pc EXCEPT ![cur] = "run"] /\ arg' = arg
          /\ tid' = [tid EXCEPT ![child[cur]] = reg[cur]] /\ UNCHANGED <<reg, next_tid>>
      BY <2>5 DEF unblock_child, At, Goto
    <3>2. child[cur] \in Thread
      BY SMTT(60), <1>0, <3>1 DEF SchedInv, LifeInv, Creating, CreatingAt, TypeOK
    <3>3. /\ HasNewTid(cur)
          /\ \A t \in Thread : HasNewTid(t)' => HasNewTid(t) /\ t # cur
          /\ \A t \in Thread : pc'[t] = "tid_write" => pc[t] = "tid_write"
      BY <1>0, <3>1 DEF HasNewTid
    <3> QED BY <1>0, <3>1, <3>2, <3>3, SMT DEF TidInv
  <2>6. ASSUME thread_start PROVE TidInv'
    <3>1. /\ pc[idle] = "run" /\ pc[main] = "boot" /\ idle_thread = NULL
          /\ \A t \in Thread \ {main} : status[t] = "FREE"
      BY <1>0, <2>6 DEF thread_start, At, SchedInv, StartInv, ConstantsAssumption, TypeOK, IdlePoint
    <3>2. \A t \in Thread \ {main} : pc[t] = "run"
      BY <3>1 DEF SchedInv, LifeInv
    <3>3. \A t \in Thread : pc'[t] \in {"run", "start", "idle"}
      BY <1>0, <2>6, <3>1, <3>2 DEF thread_start
    <3>4. tid' = [tid EXCEPT ![idle] = next_tid] /\ next_tid' = next_tid + 1 /\ reg' = reg
      BY <2>6 DEF thread_start
    <3> QED BY <1>0, <3>3, <3>4, SMT DEF TidInv, HasNewTid
  <2> QED BY <1>3, <2>1, <2>2, <2>3, <2>4, <2>5, <2>6 DEF OwnStep
<1> QED BY <1>1, <1>2, <1>3, StepKinds DEF QuietUp, Switching, Still

(***************************************************************************)
(* Wake-ups.                                                               *)
(***************************************************************************)
INSTANCE FiniteSetTheorems

\* A set of threads is finite.
LEMMA WokenFinite ==
  ASSUME ConstantsAssumption, NEW S \in SUBSET Thread
  PROVE  IsFiniteSet(S) /\ Cardinality(S) \in Nat
BY FS_Subset, FS_CardinalityType DEF ConstantsAssumption

\* Steps that leave semaphores alone and wake no sleeper.
LEMMA WakeFrame ==
  ASSUME ConstantsAssumption, NoLostWakeup, value \in [AllSema -> Nat], NEW s \in AllSema,
         waiters'[s] = waiters[s], value'[s] \in Nat, value'[s] <= value[s],
         \A t \in Thread : t \in Woken(s)' <=> t \in Woken(s)
  PROVE  waiters'[s] # <<>> => Cardinality(Woken(s)') >= value'[s]
<1>1. Woken(s)' = Woken(s)
  BY DEF Woken
<1>2. Cardinality(Woken(s)) \in Nat
  BY WokenFinite DEF Woken
<1> QED BY <1>1, <1>2, SMT DEF NoLostWakeup

\* sema_up() wakes one thread for the unit it adds.
LEMMA WakeUp ==
  ASSUME ConstantsAssumption, SchedInv, NoLostWakeup, NEW s \in AllSema, SemaUp(s), arg' = arg,
         \A t \in Thread : pc'[t] = "down" <=> pc[t] = "down"
  PROVE  NoLostWakeup'
<1>0. value \in [AllSema -> Nat] /\ status \in [Thread -> Status]
      /\ waiters \in [AllSema -> Seq(Thread)]
  BY DEF SchedInv, TypeOK
<1> SUFFICES ASSUME NEW r \in AllSema
             PROVE  waiters'[r] # <<>> => Cardinality(Woken(r)') >= value'[r]
  BY DEF NoLostWakeup
<1>1. value' = [value EXCEPT ![s] = @ + 1]
  BY UpEffect
<1>2. CASE waiters[s] = <<>>
  <2>1. UNCHANGED <<waiters, status>>
    BY <1>2, UpEffect
  <2>2. CASE r = s
    BY <1>2, <2>1, <2>2
  <2>3. CASE r # s
    <3>1. \A t \in Thread : t \in Woken(r)' <=> t \in Woken(r)
      BY <2>1 DEF Woken
    <3> QED BY SMTT(60), <1>0, <1>1, <2>1, <2>3, <3>1, WakeFrame
  <2> QED BY <2>2, <2>3
<1>3. CASE waiters[s] # <<>>
  <2>1. PICK w \in Thread : /\ status[w] = "BLOCKED" /\ pc[w] = "down" /\ arg[w] = s
                            /\ status' = [status EXCEPT ![w] = "READY"]
    BY <1>3, UpEffect
  <2>2. waiters' = [waiters EXCEPT ![s] = Tail(@)]
    BY <1>3, UpEffect
  <2>3. CASE r = s
    <3>1. w \notin Woken(s) /\ Woken(s)' = Woken(s) \cup {w}
      BY <1>0, <2>1 DEF Woken
    <3>2. IsFiniteSet(Woken(s)) /\ Cardinality(Woken(s)) \in Nat
      BY WokenFinite DEF Woken
    <3>3. Cardinality(Woken(s)') = Cardinality(Woken(s)) + 1
      BY <3>1, <3>2, FS_AddElement
    <3>4. Cardinality(Woken(s)) >= value[s]
      BY <1>3 DEF NoLostWakeup
    <3> QED BY SMTT(60), <1>0, <1>1, <2>3, <3>2, <3>3, <3>4
  <2>4. CASE r # s
    <3>1. \A t \in Thread : t \in Woken(r)' <=> t \in Woken(r)
      BY <1>0, <2>1, <2>4 DEF Woken
    <3> QED BY SMTT(60), <1>0, <1>1, <2>2, <2>4, <3>1, WakeFrame
  <2> QED BY <2>3, <2>4
<1> QED BY <1>2, <1>3

\* A thread that goes to sleep found the value at zero; one that does not
\* takes one unit, and if it had been woken for it leaves the woken ones.
LEMMA WakeDown ==
  ASSUME ConstantsAssumption, SchedInv, NoLostWakeup, NEW s \in AllSema, DownCall(s)
  PROVE  NoLostWakeup'
<1>0. /\ value \in [AllSema -> Nat] /\ status \in [Thread -> Status]
      /\ waiters \in [AllSema -> Seq(Thread)] /\ cur \in Thread
      /\ pc \in [Thread -> Point] /\ arg \in [Thread -> AllSema]
      /\ status[cur] = "RUNNING" /\ idle \in Thread
      /\ idle_thread \in {NULL, idle} /\ NULL \notin Thread
      /\ idle_thread = idle => pc[idle] # "down"
  BY DEF SchedInv, TypeOK, OneRunning, StartInv, ConstantsAssumption
<1>1. /\ pc[cur] = "down" => s = arg[cur]
      /\ arg' = [arg EXCEPT ![cur] = s]
  BY <1>0, DownEffect DEF DownCall
<1> SUFFICES ASSUME NEW r \in AllSema
             PROVE  waiters'[r] # <<>> => Cardinality(Woken(r)') >= value'[r]
  BY DEF NoLostWakeup
<1>2. CASE value[s] = 0
  <2>1. /\ UNCHANGED value /\ waiters' = [waiters EXCEPT ![s] = Append(@, cur)]
        /\ pc' = [pc EXCEPT ![cur] = "down"]
        /\ \A t \in Thread :
             /\ status[t] = "BLOCKED" => status'[t] = "BLOCKED" \/ t = idle_thread
             /\ status[t] = "READY" => status'[t] \in {"READY", "RUNNING"}
             /\ status[t] \in {"FREE", "DYING"} => status'[t] = status[t]
    BY <1>2, DownEffect, SMT
  <2>2. CASE r = s
    <3>1. Cardinality(Woken(s)') \in Nat
      BY WokenFinite DEF Woken
    <3> QED BY <1>2, <2>1, <2>2, <3>1, SMT
  <2>3. CASE r # s
    <3>1. \A t \in Thread : status[t] = "RUNNING" <=> t = cur
      BY DEF SchedInv, OneRunning
    <3>2. \A t \in Thread : t # cur /\ pc[t] = "down" =>
            (status'[t] = "BLOCKED" <=> status[t] = "BLOCKED")
      BY <1>0, <2>1, <3>1 DEF Status
    <3>3. \A t \in Thread : t \in Woken(r)' <=> t \in Woken(r)
      BY <1>0, <1>1, <2>1, <2>3, <3>2 DEF Woken
    <3> QED BY SMTT(60), <1>0, <2>1, <2>3, <3>3, WakeFrame
  <2> QED BY <2>2, <2>3
<1>3. CASE value[s] # 0
  <2>1. /\ UNCHANGED <<waiters, status>> /\ value' = [value EXCEPT ![s] = @ - 1]
        /\ pc' = [pc EXCEPT ![cur] = AfterDown(s)] /\ value[s] > 0
    BY <1>3, DownEffect
  <2>2. CASE r = s /\ pc[cur] = "down"
    <3>1. cur \in Woken(s) /\ Woken(s)' = Woken(s) \ {cur}
      BY <1>0, <1>1, <2>1, <2>2 DEF Woken, AfterDown
    <3>2. IsFiniteSet(Woken(s)) /\ Cardinality(Woken(s)) \in Nat
      BY WokenFinite DEF Woken
    <3>3. Cardinality(Woken(s)') = Cardinality(Woken(s)) - 1
      BY ZenonT(60), <3>1, <3>2, FS_RemoveElement, SMT
    <3> QED BY <1>0, <2>1, <2>2, <3>2, <3>3, SMT DEF NoLostWakeup
  <2>3. CASE ~(r = s /\ pc[cur] = "down")
    <3>1. \A t \in Thread : t \in Woken(r)' <=> t \in Woken(r)
      BY <1>0, <1>1, <2>1, <2>3 DEF Woken, AfterDown
    <3>2. value'[r] \in Nat /\ value'[r] <= value[r]
      BY <1>0, <2>1, SMT
    <3> QED BY <1>0, <2>1, <3>1, <3>2, WakeFrame
  <2> QED BY <2>2, <2>3
<1> QED BY <1>2, <1>3

\* sema_init() leaves no waiters.
LEMMA WakeInit == ConstantsAssumption /\ Init => NoLostWakeup
BY SMT DEF Init, NoLostWakeup

\* No step of the kernel loses a wake-up.
LEMMA WakeNext ==
  ASSUME ConstantsAssumption, SchedInv, LockInv, NoLostWakeup, [Next]_vars
  PROVE  NoLostWakeup'
<1>0. /\ value \in [AllSema -> Nat] /\ status \in [Thread -> Status] /\ cur \in Thread
      /\ pc \in [Thread -> Point] /\ arg \in [Thread -> AllSema]
      /\ idle \in Thread /\ main \in Thread /\ status[cur] = "RUNNING"
      /\ idle_thread \in {NULL, idle} /\ NULL \notin Thread
      /\ idle_thread = idle => pc[idle] # "down"
      /\ \A t \in Thread : status[t] = "RUNNING" <=> t = cur
  BY DEF SchedInv, TypeOK, ConstantsAssumption, OneRunning, StartInv
<1>1. ASSUME UNCHANGED waiters,
             \A s \in AllSema : value'[s] \in Nat /\ value'[s] <= value[s],
             \A s \in AllSema, t \in Thread : t \in Woken(s)' <=> t \in Woken(s)
      PROVE  NoLostWakeup'
  <2> SUFFICES ASSUME NEW s \in AllSema
               PROVE  waiters'[s] # <<>> => Cardinality(Woken(s)') >= value'[s]
    BY DEF NoLostWakeup
  <2> QED BY <1>0, <1>1, WakeFrame
<1>2. ASSUME UNCHANGED <<value, waiters, status, arg>>,
             \A t \in Thread : pc'[t] = "down" <=> pc[t] = "down"
      PROVE  NoLostWakeup'
  <2>1. \A s \in AllSema, t \in Thread : t \in Woken(s)' <=> t \in Woken(s)
    BY <1>2 DEF Woken
  <2> QED BY <1>0, <1>1, <1>2, <2>1, SMT
<1>3. ASSUME QuietPc PROVE \A t \in Thread : pc'[t] = "down" <=> pc[t] = "down"
  BY <1>3 DEF QuietPc, IdlePoint
<1>4. ASSUME NEW s \in Sema, QuietUp(s) PROVE NoLostWakeup'
  BY <1>3, <1>4, WakeUp DEF QuietUp, AllSema
<1>5. ASSUME NEW x \in {"BLOCKED", "READY", "DYING"}, Switching(x) PROVE NoLostWakeup'
  <2>1. /\ pc[cur] # "down" /\ UNCHANGED <<value, waiters, arg>>
        /\ \A t \in Thread : pc'[t] = "down" <=> pc[t] = "down"
    BY <1>3, <1>5 DEF Switching
  <2>2. \A t \in Thread :
          /\ status[t] = "BLOCKED" => status'[t] = "BLOCKED" \/ t = idle_thread
          /\ status[t] = "READY" => status'[t] \in {"READY", "RUNNING"}
          /\ status[t] \in {"FREE", "DYING"} => status'[t] = status[t]
    BY <1>5, SwitchStatus DEF Switching
  <2>3. \A t \in Thread : pc[t] = "down" => (status'[t] = "BLOCKED" <=> status[t] = "BLOCKED")
    BY <1>0, <2>1, <2>2, SMT DEF Status
  <2>4. \A s \in AllSema, t \in Thread : t \in Woken(s)' <=> t \in Woken(s)
    BY <2>1, <2>3 DEF Woken
  <2> QED BY <1>0, <1>1, <2>1, <2>4, SMT
<1>6. ASSUME Still PROVE NoLostWakeup'
  BY <1>2, <1>3, <1>6 DEF Still
<1>7. ASSUME OwnStep PROVE NoLostWakeup'
  <2>1. ASSUME NEW s \in Sema \ {idle_started}, sema_try_down(s) PROVE NoLostWakeup'
    <3>1. /\ \A r \in AllSema : value'[r] \in Nat /\ value'[r] <= value[r]
          /\ UNCHANGED <<waiters, status, pc, arg>>
      BY <1>0, <2>1, SMT DEF sema_try_down, sched, AllSema
    <3>2. \A r \in AllSema, t \in Thread : t \in Woken(r)' <=> t \in Woken(r)
      BY <3>1 DEF Woken
    <3> QED BY <1>1, <3>1, <3>2
  <2>2. ASSUME NEW l \in Lock \ {tid_lock}, lock_try_acquire(l) PROVE NoLostWakeup'
    <3>1. /\ \A r \in AllSema : value'[r] \in Nat /\ value'[r] <= value[r]
          /\ UNCHANGED <<waiters, status>> /\ pc[cur] = "run"
          /\ arg' = [arg EXCEPT ![cur] = l] /\ pc' = [pc EXCEPT ![cur] = "acquired"]
      BY <1>0, <2>2, SMT DEF lock_try_acquire, At, Goto, sched, AllSema
    <3>2. \A r \in AllSema, t \in Thread : t \in Woken(r)' <=> t \in Woken(r)
      BY <1>0, <3>1 DEF Woken
    <3> QED BY <1>1, <3>1, <3>2
  <2>3. ASSUME \/ \E l \in Lock \ {tid_lock} : lock_release(l)
               \/ tid_write
        PROVE  NoLostWakeup'
    <3>1. /\ UNCHANGED <<value, waiters, status>> /\ pc[cur] # "down"
          /\ \A t \in Thread : pc'[t] = "down" <=> pc[t] = "down"
          /\ \A t \in Thread : t # cur => arg'[t] = arg[t]
      BY <1>0, <2>3 DEF lock_release, tid_write, At, Goto, sched
    <3>2. \A r \in AllSema, t \in Thread : t \in Woken(r)' <=> t \in Woken(r)
      BY <3>1 DEF Woken
    <3> QED BY SMTT(60), <1>0, <1>1, <3>1, <3>2
  <2>4. ASSUME set_holder \/ tid_read PROVE NoLostWakeup'
    BY <1>0, <1>2, <2>4 DEF set_holder, tid_read, At, Goto, sched, sync
  <2>5. ASSUME release_sema PROVE NoLostWakeup'
    <3>1. /\ arg[cur] \in AllSema /\ SemaUp(arg[cur]) /\ arg' = arg
          /\ \A t \in Thread : pc'[t] = "down" <=> pc[t] = "down"
      BY <1>0, <2>5 DEF release_sema, At, Goto
    <3> QED BY <3>1, WakeUp
  <2>6. ASSUME NEW n \in Thread, thread_create(n) PROVE NoLostWakeup'
    <3>1. pc[n] = "run" /\ pc[cur] = "run" /\ n # cur
      BY <1>0, <2>6 DEF thread_create, At, SchedInv, LifeInv
    <3>2. /\ status' = [status EXCEPT ![n] = "BLOCKED"] /\ UNCHANGED <<value, waiters, arg>>
          /\ \A t \in Thread : pc'[t] = "down" <=> pc[t] = "down"
      BY <1>0, <2>6, <3>1 DEF thread_create, sync
    <3>3. \A r \in AllSema, t \in Thread : t \in Woken(r)' <=> t \in Woken(r)
      BY <1>0, <3>1, <3>2 DEF Woken
    <3> QED BY <1>0, <1>1, <3>2, <3>3, SMT
  <2>7. ASSUME unblock_child PROVE NoLostWakeup'
    <3>1. child[cur] \in Thread /\ pc[child[cur]] = "run"
      BY SMTT(60), <1>0, <2>7 DEF unblock_child, At, SchedInv, LifeInv, Creating, CreatingAt, TypeOK
    <3>2. /\ status' = [status EXCEPT ![child[cur]] = "READY"] /\ UNCHANGED <<value, waiters, arg>>
          /\ \A t \in Thread : pc'[t] = "down" <=> pc[t] = "down"
      BY <1>0, <2>7 DEF unblock_child, thread_unblock, At, Goto, sync
    <3>3. \A r \in AllSema, t \in Thread : t \in Woken(r)' <=> t \in Woken(r)
      BY <1>0, <3>1, <3>2 DEF Woken
    <3> QED BY SMTT(60), <1>0, <1>1, <3>2, <3>3
  <2>8. ASSUME thread_start PROVE NoLostWakeup'
    <3>1. pc[idle] = "run" /\ pc[main] = "boot"
      BY <1>0, <2>8 DEF thread_start, At, SchedInv, StartInv
    <3>2. /\ status' = [status EXCEPT ![idle] = "READY"] /\ UNCHANGED <<value, waiters, arg>>
          /\ \A t \in Thread : pc'[t] = "down" <=> pc[t] = "down"
      BY <1>0, <2>8, <3>1 DEF thread_start, thread_unblock, sync
    <3>3. \A r \in AllSema, t \in Thread : t \in Woken(r)' <=> t \in Woken(r)
      BY <1>0, <3>1, <3>2 DEF Woken
    <3> QED BY <1>0, <1>1, <3>2, <3>3, SMT
  <2> QED BY <1>7, <2>1, <2>2, <2>3, <2>4, <2>5, <2>6, <2>7, <2>8 DEF OwnStep
<1> QED BY <1>4, <1>5, <1>6, <1>7, StepKinds, WakeDown

(***************************************************************************)
(* The theorems.                                                           *)
(***************************************************************************)
\* The inductive invariant holds in every reachable state.
THEOREM Invariance == Spec => []IInv
<1>1. Init => IInv
  BY ConstantsAssumption, SchedInvInit, LockInvInit, TidInvInit, WakeInit DEF IInv
<1>2. IInv /\ [Next]_vars => IInv'
  BY ConstantsAssumption, SchedInvNext, LockInvNext, TidInvNext, WakeNext DEF IInv
<1> QED BY <1>1, <1>2, PTL DEF Spec

\* The variables of thread.c and synch.c keep their types.
THEOREM TypeCorrect == Spec => []TypeOK
<1>1. IInv => TypeOK
  BY DEF IInv, SchedInv
<1> QED BY <1>1, Invariance, PTL

\* The list element of struct thread is on the run queue exactly while the
\* thread is ready and on a wait list exactly while it sleeps there.
THEOREM ElemCorrect == Spec => []ElemDualPurpose
<1>1. IInv => ElemDualPurpose
  BY DEF IInv, SchedInv
<1> QED BY <1>1, Invariance, PTL

\* schedule() always finds a thread, and exactly that thread is RUNNING.
THEOREM OneRunningCorrect == Spec => []OneRunning
<1>1. IInv => OneRunning
  BY DEF IInv, SchedInv
<1> QED BY <1>1, Invariance, PTL

\* Every blocked thread sleeps on a semaphore, is the idle thread, or has
\* one creator that has still to unblock it.
THEOREM NoThreadLostCorrect == Spec => []NoThreadLost
<1>1. IInv => NoThreadLost
  <2> SUFFICES ASSUME IInv, NEW t \in Thread, status[t] = "BLOCKED", pc[t] # "down",
                      t # idle_thread
               PROVE  \E u \in Thread : /\ child[u] = t /\ status[u] \notin {"FREE", "DYING"}
                                        /\ \A v \in Thread : child[v] = t => v = u
    BY DEF NoThreadLost
  <2>1. pc[t] \in {"run", "hlt"} /\ NULL \notin Thread
    BY ConstantsAssumption DEF IInv, SchedInv, LifeInv, ConstantsAssumption
  <2>2. pc[t] = "run"
    BY <2>1 DEF IInv, SchedInv, StartInv, IdlePoint
  <2>3. PICK u \in Thread : child[u] = t
    BY <2>2 DEF IInv, SchedInv, LifeInv
  <2>4. Creating(u) /\ \A v \in Thread : child[v] = t => v = u
    BY <2>1, <2>3, SMT DEF IInv, SchedInv, LifeInv
  <2>5. status[u] \notin {"FREE", "DYING"}
    BY <2>4 DEF IInv, SchedInv, LifeInv, Creating, CreatingAt
  <2> QED BY <2>3, <2>4, <2>5
<1> QED BY <1>1, Invariance, PTL

\* At most one thread owns a lock, whatever the preemption between the
\* semaphore and lock->holder.
THEOREM MutualExclusionCorrect == Spec => []MutualExclusion
<1>1. IInv => MutualExclusion
  BY DEF IInv, LockInv
<1> QED BY <1>1, Invariance, PTL

\* Threads that exist at the same time have different tids.
THEOREM TidUniqueCorrect == Spec => []TidUnique
<1>1. IInv => TidUnique
  BY DEF IInv, TidInv, TidUnique
<1> QED BY <1>1, Invariance, PTL

\* sema_up() wakes enough threads: a value above zero is never left to
\* sleeping threads.
THEOREM NoLostWakeupCorrect == Spec => []NoLostWakeup
<1>1. IInv => NoLostWakeup
  BY DEF IInv
<1> QED BY <1>1, Invariance, PTL

\* Blocked threads become ready before they run, and dead ones stay dead.
THEOREM StatusStepsCorrect == Spec => StatusSteps
<1> DEFINE A == \A t \in Thread :
                  /\ status[t] = "BLOCKED" /\ status'[t] # "BLOCKED" =>
                       status'[t] = "READY" \/ t = idle_thread
                  /\ status[t] = "READY" => status'[t] \in {"READY", "RUNNING"}
                  /\ status[t] = "DYING" => status'[t] = "DYING"
<1>1. IInv /\ [Next]_vars => A
  BY ConstantsAssumption, StatusNext DEF IInv
<1>2. IInv /\ [Next]_vars => [A]_vars
  BY <1>1
<1> QED BY <1>2, Invariance, PTL DEF Spec, StatusSteps

\* The locks of synch.c implement the abstract lock of MutexSpec.
THEOREM MutexRefinementCorrect == Spec => MutexRefinement
<1> DEFINE O == [l \in Lock |-> {t \in Thread : Owns(t, l)}]
<1>1. Init => Mutex!Init
  <2> SUFFICES ASSUME Init PROVE O = [l \in Lock |-> {}]
    BY DEF Mutex!Init
  <2>1. \A t \in Thread, l \in Lock : ~Owns(t, l)
    BY ConstantsAssumption DEF Init, Owns, ConstantsAssumption
  <2> QED BY <2>1
<1>2. IInv /\ [Next]_vars => [Mutex!Next]_O
  BY ConstantsAssumption, MutexStep DEF IInv
<1> QED BY <1>1, <1>2, Invariance, PTL DEF Spec, MutexRefinement, Mutex!Spec
=============================================================================
