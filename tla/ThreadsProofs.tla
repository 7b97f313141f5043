--------------------------- MODULE ThreadsProofs ----------------------------
(***************************************************************************)
(* Proofs about the thread system for any number of threads, semaphores    *)
(* and locks: queues, what schedule() does, the steps that call it, and    *)
(* that no step of the kernel breaks the scheduler's invariant.            *)
(***************************************************************************)
EXTENDS Threads, TLAPS

(* First-order reasoning closes most leaves; the ones about numbers,       *)
(* records and sequences cite SMT.                                         *)
USE Zenon

(***************************************************************************)
(* Queues: what list_push_back() and list_pop_front() do to the elements.  *)
(***************************************************************************)
\* list_push_back() of an element that is not on the list keeps the elements
\* distinct and adds just this one.
LEMMA AppendQueue ==
  ASSUME NEW S, NEW q \in Seq(S), NEW e \in S
  PROVE  /\ Append(q, e) \in Seq(S)
         /\ Append(q, e) # <<>>
         /\ Rng(Append(q, e)) = Rng(q) \cup {e}
         /\ NoDup(q) /\ e \notin Rng(q) => NoDup(Append(q, e))
<1>1. /\ Append(q, e) \in Seq(S)
      /\ Len(Append(q, e)) = Len(q) + 1
      /\ \A i \in 1..Len(q) : Append(q, e)[i] = q[i]
      /\ Append(q, e)[Len(q) + 1] = e
      /\ Len(q) \in Nat
  BY SMT
<1>2. Append(q, e) # <<>>
  BY <1>1, SMT
<1>3. Rng(Append(q, e)) = Rng(q) \cup {e}
  <2> DEFINE r == Append(q, e)
  <2>1. ASSUME NEW x \in Rng(r) PROVE x \in Rng(q) \cup {e}
    <3>1. PICK i \in 1..Len(r) : x = r[i]
      BY <2>1 DEF Rng
    <3>2. CASE i = Len(q) + 1
      BY <3>1, <3>2, <1>1
    <3>3. CASE i \in 1..Len(q)
      BY <3>1, <3>3, <1>1 DEF Rng
    <3> QED BY <3>2, <3>3, <1>1, SMT
  <2>2. ASSUME NEW x \in Rng(q) \cup {e} PROVE x \in Rng(r)
    <3>1. CASE x = e
      BY <3>1, <1>1, SMT DEF Rng
    <3>2. CASE x \in Rng(q)
      <4>1. PICK i \in 1..Len(q) : x = q[i]
        BY <3>2 DEF Rng
      <4>2. i \in 1..Len(r) /\ r[i] = x
        BY <4>1, <1>1, SMT
      <4> QED BY <4>2 DEF Rng
    <3> QED BY <2>2, <3>1, <3>2
  <2> QED BY <2>1, <2>2
<1>4. ASSUME NoDup(q), e \notin Rng(q) PROVE NoDup(Append(q, e))
  BY <1>1, <1>4, SMT DEF NoDup, Rng
<1> QED BY <1>1, <1>2, <1>3, <1>4

\* list_pop_front() takes just the front element off a list of distinct
\* elements.
LEMMA TailQueue ==
  ASSUME NEW S, NEW q \in Seq(S), q # <<>>
  PROVE  /\ Head(q) \in S
         /\ Head(q) \in Rng(q)
         /\ Tail(q) \in Seq(S)
         /\ NoDup(q) => NoDup(Tail(q)) /\ Rng(Tail(q)) = Rng(q) \ {Head(q)}
<1>1. /\ Len(q) \in Nat \ {0}
      /\ Tail(q) \in Seq(S)
      /\ Len(Tail(q)) = Len(q) - 1
      /\ \A i \in 1..(Len(q) - 1) : Tail(q)[i] = q[i + 1]
      /\ Head(q) = q[1]
  BY SMT
<1>2. Head(q) \in S /\ Head(q) \in Rng(q)
  BY <1>1, SMT DEF Rng
<1>3. ASSUME NoDup(q) PROVE NoDup(Tail(q)) /\ Rng(Tail(q)) = Rng(q) \ {Head(q)}
  <2>1. NoDup(Tail(q))
    BY <1>1, <1>3, SMT DEF NoDup
  <2>2. ASSUME NEW x \in Rng(Tail(q)) PROVE x \in Rng(q) \ {Head(q)}
    <3>1. PICK i \in 1..Len(Tail(q)) : x = Tail(q)[i]
      BY <2>2 DEF Rng
    <3>2. i + 1 \in 1..Len(q) /\ x = q[i + 1] /\ 1 \in 1..Len(q) /\ i + 1 # 1
      BY <3>1, <1>1, SMT
    <3>3. x \in Rng(q)
      BY <3>2 DEF Rng
    <3>4. x # Head(q)
      BY <3>2, <1>1, <1>3 DEF NoDup
    <3> QED BY <3>3, <3>4
  <2>3. ASSUME NEW x \in Rng(q) \ {Head(q)} PROVE x \in Rng(Tail(q))
    <3>1. PICK i \in 1..Len(q) : x = q[i]
      BY <2>3 DEF Rng
    <3>2. i # 1
      BY <3>1, <2>3, <1>1
    <3>3. i - 1 \in 1..Len(Tail(q)) /\ Tail(q)[i - 1] = x
      BY <3>1, <3>2, <1>1, SMT
    <3> QED BY <3>3 DEF Rng
  <2> QED BY <2>1, <2>2, <2>3
<1> QED BY <1>1, <1>2, <1>3

\* An empty list has no elements.
LEMMA EmptyQueue == NoDup(<<>>) /\ Rng(<<>>) = {}
  BY SMT DEF NoDup, Rng

\* A list has an element exactly when it is not empty.
LEMMA QueueNonEmpty ==
  ASSUME NEW S, NEW q \in Seq(S)
  PROVE  q # <<>> <=> Rng(q) # {}
<1>1. q # <<>> => Rng(q) # {}
  BY TailQueue
<1>2. q = <<>> => Rng(q) = {}
  BY EmptyQueue
<1> QED BY <1>1, <1>2
-----------------------------------------------------------------------------
(***************************************************************************)
(* Thread switches.                                                        *)
(***************************************************************************)
\* The run queue holds each ready thread once, the idle thread apart.
RunQueue(q, st) ==
  /\ q \in Seq(Thread)
  /\ NoDup(q)
  /\ \A t \in Thread : t \in Rng(q) <=> st[t] = "READY" /\ t # idle_thread

\* schedule() takes a thread from the run queue, or the idle thread, and
\* leaves a run queue that again holds each ready thread once.
LEMMA ScheduleLemma ==
  ASSUME ConstantsAssumption, cur \in Thread, idle_thread \in {NULL, idle},
         NEW st \in [Thread -> Status], NEW q,
         RunQueue(q, st),
         \A t \in Thread : st[t] # "RUNNING",
         q = <<>> => idle_thread = idle,
         schedule(st, q)
  PROVE  /\ cur' \in Thread
         /\ cur' = idle_thread \/ st[cur'] = "READY"
         /\ status' \in [Thread -> Status]
         /\ \A t \in Thread : status'[t] =
              IF t = cur' THEN "RUNNING"
              ELSE IF t = cur /\ st[cur] = "DYING" /\ cur # main THEN "FREE"
              ELSE st[t]
         /\ RunQueue(ready_list', status')
         /\ thread_ticks' = 0
<1> DEFINE reaped == IF st[cur] = "DYING" /\ cur # main
                     THEN [st EXCEPT ![cur] = "FREE"] ELSE st
<1>1. /\ cur' = next_thread_to_run(q)
      /\ ready_list' = IF q = <<>> THEN q ELSE Tail(q)
      /\ status' = [reaped EXCEPT ![cur'] = "RUNNING"]
      /\ thread_ticks' = 0
  BY DEF schedule
<1>2. /\ cur' \in Thread
      /\ cur' = idle_thread \/ (q # <<>> /\ cur' = Head(q) /\ st[cur'] = "READY")
      /\ q = <<>> => cur' = idle_thread
      /\ q # <<>> => cur' = Head(q) /\ Head(q) \in Rng(q)
  BY <1>1, TailQueue, ConstantsAssumption, SMT DEF next_thread_to_run, RunQueue
<1>3. reaped \in [Thread -> Status]
  BY DEF Status
<1>4. /\ status' \in [Thread -> Status]
      /\ \A t \in Thread : status'[t] =
           IF t = cur' THEN "RUNNING"
           ELSE IF t = cur /\ st[cur] = "DYING" /\ cur # main THEN "FREE"
           ELSE st[t]
  <2> HIDE DEF reaped
  <2>1. status' \in [Thread -> Status]
    BY <1>1, <1>2, <1>3 DEF Status
  <2>2. \A t \in Thread : status'[t] = IF t = cur' THEN "RUNNING" ELSE reaped[t]
    BY <1>1, <1>2, <1>3
  <2> QED BY <2>1, <2>2 DEF reaped
<1>5. /\ ready_list' \in Seq(Thread)
      /\ NoDup(ready_list')
      /\ Rng(ready_list') = Rng(q) \ {cur'}
  <2>1. CASE q = <<>>
    BY <2>1, <1>1, EmptyQueue DEF RunQueue
  <2>2. CASE q # <<>>
    BY <2>2, <1>1, <1>2, TailQueue DEF RunQueue
  <2> QED BY <2>1, <2>2
<1>6. \A t \in Thread : t \in Rng(ready_list') <=> status'[t] = "READY" /\ t # idle_thread
  <2> SUFFICES ASSUME NEW t \in Thread
               PROVE t \in Rng(ready_list') <=> status'[t] = "READY" /\ t # idle_thread
    OBVIOUS
  <2>1. t \in Rng(q) <=> st[t] = "READY" /\ t # idle_thread
    BY DEF RunQueue
  <2>2. t \in Rng(ready_list') <=> t \in Rng(q) /\ t # cur'
    BY <1>5
  <2>3. status'[t] = "READY" <=> t # cur' /\ st[t] = "READY"
    BY <1>4
  <2> QED BY <2>1, <2>2, <2>3
<1> HIDE DEF reaped
<1>7. RunQueue(ready_list', status')
  BY <1>5, <1>6 DEF RunQueue
<1> QED BY <1>1, <1>2, <1>4, <1>7

\* The three ways the running thread gives up the CPU: thread_block(),
\* thread_yield() and thread_exit().
LEMMA SwitchLemma ==
  ASSUME ConstantsAssumption, SchedInv, pc[main] # "boot",
         NEW x \in {"BLOCKED", "READY", "DYING"},
         idle_thread = NULL => x = "READY" \/ cur = main,
         schedule([status EXCEPT ![cur] = x],
                  IF x = "READY" /\ cur # idle_thread
                  THEN Append(ready_list, cur) ELSE ready_list)
  PROVE  /\ cur' \in Thread
         /\ \/ cur' = idle_thread
            \/ cur' # cur /\ status[cur'] = "READY"
            \/ cur' = cur /\ x = "READY"
         /\ status' \in [Thread -> Status]
         /\ \A t \in Thread : status'[t] =
              IF t = cur' THEN "RUNNING"
              ELSE IF t = cur THEN (IF x = "DYING" /\ cur # main THEN "FREE" ELSE x)
              ELSE status[t]
         /\ RunQueue(ready_list', status')
         /\ thread_ticks' = 0
<1> DEFINE st == [status EXCEPT ![cur] = x]
           q  == IF x = "READY" /\ cur # idle_thread
                 THEN Append(ready_list, cur) ELSE ready_list
<1>1. /\ cur \in Thread /\ idle_thread \in {NULL, idle}
      /\ status \in [Thread -> Status] /\ ready_list \in Seq(Thread)
      /\ RunQueue(ready_list, status)
      /\ \A t \in Thread : status[t] = "RUNNING" <=> t = cur
  BY DEF SchedInv, TypeOK, ElemDualPurpose, OneRunning, RunQueue
<1>2. /\ st \in [Thread -> Status]
      /\ \A t \in Thread : st[t] = IF t = cur THEN x ELSE status[t]
      /\ \A t \in Thread : st[t] # "RUNNING"
  BY <1>1 DEF Status
<1>3. cur \notin Rng(ready_list)
  BY <1>1 DEF RunQueue
<1>4. RunQueue(q, st)
  <2>1. CASE x = "READY" /\ cur # idle_thread
    <3>1. q = Append(ready_list, cur)
      BY <2>1
    <3>2. q \in Seq(Thread) /\ NoDup(q) /\ Rng(q) = Rng(ready_list) \cup {cur}
      BY <3>1, <1>1, <1>3, AppendQueue, SMT DEF RunQueue
    <3> HIDE DEF q, st
    <3> QED BY <3>2, <2>1, <1>1, <1>2 DEF RunQueue
  <2>2. CASE ~(x = "READY" /\ cur # idle_thread)
    <3>1. q = ready_list
      BY <2>2
    <3> HIDE DEF q, st
    <3> QED BY <3>1, <2>2, <1>1, <1>2, <1>3 DEF RunQueue
  <2> QED BY <2>1, <2>2
<1>5. q = <<>> => idle_thread = idle
  <2> SUFFICES ASSUME idle_thread = NULL PROVE q # <<>>
    BY <1>1
  <2>1. CASE x = "READY"
    BY <2>1, <1>1, AppendQueue, ConstantsAssumption
  <2>2. CASE x # "READY"
    <3>1. cur = main /\ q = ready_list
      BY <2>2
    <3>2. status[idle] \notin {"BLOCKED", "FREE", "DYING", "RUNNING"} /\ idle \in Thread
      BY <3>1, <1>1, ConstantsAssumption DEF SchedInv, StartInv
    <3>3. idle \in Rng(ready_list)
      BY <3>2, <1>1, ConstantsAssumption DEF RunQueue, Status
    <3> QED BY <3>1, <3>3, <1>1, EmptyQueue
  <2> QED BY <2>1, <2>2
<1>6. schedule(st, q)
  OBVIOUS
<1> HIDE DEF st, q
<1>7. /\ cur' \in Thread
      /\ cur' = idle_thread \/ st[cur'] = "READY"
      /\ status' \in [Thread -> Status]
      /\ \A t \in Thread : status'[t] =
           IF t = cur' THEN "RUNNING"
           ELSE IF t = cur /\ st[cur] = "DYING" /\ cur # main THEN "FREE"
           ELSE st[t]
      /\ RunQueue(ready_list', status')
      /\ thread_ticks' = 0
  BY <1>1, <1>2, <1>4, <1>5, <1>6, ScheduleLemma
<1> QED BY <1>1, <1>2, <1>7
-----------------------------------------------------------------------------
(***************************************************************************)
(* The scheduler's part of the invariant.                                  *)
(***************************************************************************)
\* Start-up establishes the scheduler's part of the invariant.
LEMMA SchedInvInit == ConstantsAssumption /\ Init => SchedInv
<1> SUFFICES ASSUME ConstantsAssumption, Init PROVE SchedInv
  OBVIOUS
<1>1. TypeOK
  BY SMT DEF ConstantsAssumption, Init, TypeOK, Status, Point, AllSema
<1>2. ElemDualPurpose
  BY EmptyQueue DEF ConstantsAssumption, Init, ElemDualPurpose, AllSema
<1>3. OneRunning
  BY DEF ConstantsAssumption, Init, OneRunning
<1>4. StartInv
  BY DEF ConstantsAssumption, Init, StartInv, IdlePoint, AllSema
<1>5. LifeInv
  BY DEF ConstantsAssumption, Init, LifeInv, Creating, CreatingAt
<1> QED BY <1>1, <1>2, <1>3, <1>4, <1>5 DEF SchedInv

\* Points of a thread other than the idle thread, outside start-up and not
\* in the loop of sema_down().
CallPoint == Point \ (IdlePoint \cup {"boot", "start", "down"})

\* The idle thread after it has announced itself.
IdleLoop == {"idle_up", "loop", "hlt"}

\* What a step does to the points of the threads when it stays inside one
\* call: only the running thread moves, and it neither enters nor leaves
\* thread_create() or the idle loop, nor enters sema_down() or start-up.
LocalPc ==
  /\ \A t \in Thread : t # cur => pc'[t] = pc[t] /\ arg'[t] = arg[t]
  /\ \/ pc'[cur] = pc[cur] /\ arg'[cur] = arg[cur]
     \/ pc[cur] \in CallPoint /\ pc'[cur] \in CallPoint
     \/ pc[cur] \in {"start", "down"} /\ pc'[cur] \in CallPoint /\ idle_thread = idle
     \/ pc[cur] \in IdleLoop /\ pc'[cur] \in IdleLoop
  /\ CreatingAt(pc'[cur], arg'[cur]) <=> CreatingAt(pc[cur], arg[cur])

\* The part of the type invariant that is not about the scheduler.
RestType ==
  /\ idle_thread \in {NULL, idle}
  /\ value \in [AllSema -> Nat]
  /\ waiters \in [AllSema -> Seq(Thread)]
  /\ holder \in [Lock -> Thread \cup {NULL}]
  /\ pc \in [Thread -> Point]
  /\ arg \in [Thread -> AllSema]
  /\ child \in [Thread -> Thread \cup {NULL}]
  /\ reg \in [Thread -> Nat]
  /\ tid \in [Thread -> Nat]
  /\ next_tid \in Nat

\* The thread that thread_create() is building is blocked and has not run.
LEMMA ChildFacts ==
  ASSUME SchedInv, NEW u \in Thread, child[u] # NULL
  PROVE  child[u] \in Thread /\ status[child[u]] = "BLOCKED" /\ pc[child[u]] = "run"
<1>1. child[u] \in Thread
  BY DEF SchedInv, TypeOK
<1>2. status[child[u]] = "BLOCKED" /\ pc[child[u]] = "run"
  BY DEF SchedInv, LifeInv
<1> QED BY <1>1, <1>2

\* A step of the running thread within a call, or an interrupt that does not
\* wake anybody, keeps the scheduler's part of the invariant.
LEMMA LocalStep ==
  ASSUME ConstantsAssumption, SchedInv, RestType', LocalPc,
         UNCHANGED <<status, ready_list, cur, waiters, idle_thread, child>>,
         thread_ticks' \in 0..(TIME_SLICE - 1),
         value'[idle_started] = value[idle_started] \/ idle_thread = idle
  PROVE  SchedInv'
<1>0. /\ TypeOK /\ ElemDualPurpose /\ OneRunning /\ StartInv /\ LifeInv
      /\ cur \in Thread /\ status[cur] = "RUNNING"
  BY DEF SchedInv, TypeOK, OneRunning
<1>1. OneRunning' /\ TypeOK'
  BY <1>0 DEF OneRunning, RestType, TypeOK
<1>2. ElemDualPurpose'
  <2>1. \A t \in Thread, s \in AllSema :
          (status[t] = "BLOCKED" /\ pc[t] = "down" /\ arg[t] = s) <=>
          (status'[t] = "BLOCKED" /\ pc'[t] = "down" /\ arg'[t] = s)
    BY <1>0 DEF LocalPc
  <2> QED BY <1>0, <2>1, SMT DEF ElemDualPurpose
<1>3. StartInv'
  BY <1>0, SMT DEF StartInv, CallPoint, IdlePoint, IdleLoop, LocalPc, ConstantsAssumption
<1>4. LifeInv'
  <2>1. \A u \in Thread : Creating(u)' <=> Creating(u)
    BY <1>0 DEF Creating, LocalPc
  <2>2. \A t \in Thread : status[t] # "RUNNING" => pc'[t] = pc[t]
    BY <1>0 DEF LocalPc
  <2>3. \A u \in Thread : child[u] # NULL =>
          child[u] \in Thread /\ status[child[u]] = "BLOCKED" /\ pc'[child[u]] = "run"
    BY <2>2, ChildFacts
  <2> QED BY <1>0, <2>1, <2>2, <2>3, SMT DEF LifeInv
<1> QED BY <1>1, <1>2, <1>3, <1>4 DEF SchedInv

\* sema_up() moves the first waiter, if any, from the wait list to the run
\* queue and keeps the scheduler's part of the invariant.
LEMMA UpStep ==
  ASSUME ConstantsAssumption, SchedInv, RestType', LocalPc,
         NEW s \in AllSema, SemaUp(s),
         UNCHANGED <<idle_thread, child>>,
         s = idle_started => idle_thread = idle
  PROVE  SchedInv'
<1>0. /\ TypeOK /\ ElemDualPurpose /\ OneRunning /\ StartInv /\ LifeInv
      /\ cur \in Thread /\ status[cur] = "RUNNING" /\ UNCHANGED <<cur, thread_ticks>>
      /\ value'[idle_started] = value[idle_started] \/ idle_thread = idle
  BY DEF SchedInv, TypeOK, OneRunning, SemaUp, ConstantsAssumption, AllSema
<1>1. CASE waiters[s] = <<>>
  BY <1>0, <1>1, LocalStep DEF SemaUp, TypeOK
<1>2. CASE waiters[s] # <<>>
  <2> DEFINE w == Head(waiters[s])
  <2>1. /\ w \in Thread /\ w \in Rng(waiters[s])
        /\ Tail(waiters[s]) \in Seq(Thread) /\ NoDup(Tail(waiters[s]))
        /\ Rng(Tail(waiters[s])) = Rng(waiters[s]) \ {w}
    BY <1>0, <1>2, TailQueue, SMT DEF TypeOK, ElemDualPurpose
  <2> HIDE DEF w
  <2>2. status[w] = "BLOCKED" /\ pc[w] = "down" /\ arg[w] = s /\ w # cur /\ w # idle
    BY <1>0, <2>1, SMT DEF ElemDualPurpose, StartInv, IdlePoint, ConstantsAssumption
  <2>3. idle_thread = idle
    BY <1>0, <2>1, <2>2 DEF StartInv, TypeOK
  <2>4. /\ waiters' = [waiters EXCEPT ![s] = Tail(@)]
        /\ ready_list' = Append(ready_list, w)
        /\ status' = [status EXCEPT ![w] = "READY"]
    BY <1>2 DEF SemaUp, thread_unblock, w
  <2>5. /\ status' \in [Thread -> Status] /\ ready_list' \in Seq(Thread)
        /\ \A t \in Thread : status'[t] = IF t = w THEN "READY" ELSE status[t]
        /\ \A r \in AllSema : waiters'[r] = IF r = s THEN Tail(waiters[s]) ELSE waiters[r]
    BY <1>0, <2>1, <2>4, AppendQueue DEF TypeOK, Status
  <2>6. TypeOK'
    BY <1>0, <2>5 DEF TypeOK, RestType
  <2>7. OneRunning'
    BY <1>0, <2>2, <2>5 DEF OneRunning
  <2>8. /\ NoDup(ready_list')
        /\ \A t \in Thread : t \in Rng(ready_list') <=> status'[t] = "READY" /\ t # idle_thread
    <3>1. w \notin Rng(ready_list)
      BY <1>0, <2>1, <2>2 DEF ElemDualPurpose
    <3>2. NoDup(ready_list') /\ Rng(ready_list') = Rng(ready_list) \cup {w}
      BY SMTT(60), <1>0, <2>1, <2>4, <3>1, AppendQueue DEF TypeOK, ElemDualPurpose
    <3> QED BY <1>0, <2>2, <2>3, <2>5, <3>2, SMT DEF ElemDualPurpose
  <2>9. ASSUME NEW r \in AllSema
        PROVE /\ NoDup(waiters'[r])
              /\ \A t \in Thread : t \in Rng(waiters'[r]) <=>
                   status'[t] = "BLOCKED" /\ pc'[t] = "down" /\ arg'[t] = r
    <3>1. NoDup(waiters'[r]) /\ Rng(waiters'[r]) = Rng(waiters[r]) \ (IF r = s THEN {w} ELSE {})
      BY <1>0, <2>1, <2>5, SMT DEF ElemDualPurpose
    <3>2. \A t \in Thread : (status'[t] = "BLOCKED" /\ pc'[t] = "down" /\ arg'[t] = r) <=>
            (t # w /\ status[t] = "BLOCKED" /\ pc[t] = "down" /\ arg[t] = r)
      BY <1>0, <2>5 DEF LocalPc
    <3> QED BY <1>0, <2>2, <3>1, <3>2, SMT DEF ElemDualPurpose
  <2>10. ElemDualPurpose'
    BY <2>8, <2>9 DEF ElemDualPurpose
  <2>11. StartInv'
    BY SMTT(30), <1>0, <2>2, <2>3, <2>5
    DEF StartInv, CallPoint, IdlePoint, IdleLoop, LocalPc, ConstantsAssumption
  <2>12. LifeInv'
    <3>1. \A u \in Thread : Creating(u)' <=> Creating(u)
      BY <1>0 DEF Creating, LocalPc
    <3>2. \A t \in Thread : status[t] # "RUNNING" => pc'[t] = pc[t]
      BY <1>0 DEF LocalPc
    <3>3. \A u \in Thread : child[u] # NULL =>
            /\ child[u] \in Thread /\ child[u] # w
            /\ status'[child[u]] = "BLOCKED" /\ pc'[child[u]] = "run"
      BY <2>2, <2>5, <3>2, ChildFacts
    <3> QED BY SMTT(60), <1>0, <2>2, <2>5, <3>1, <3>2, <3>3 DEF LifeInv
  <2> QED BY <2>6, <2>7, <2>10, <2>11, <2>12 DEF SchedInv
<1> QED BY <1>1, <1>2

\* What else happens in a step in which the running thread gets status x and
\* gives up the CPU: only its own point moves, and it waits at most in one queue.
SwitchFrame(x) ==
  /\ UNCHANGED <<idle_thread, child>>
  /\ value'[idle_started] = value[idle_started]
  /\ \A t \in Thread : t # cur => pc'[t] = pc[t] /\ arg'[t] = arg[t]
  /\ CreatingAt(pc'[cur], arg'[cur]) <=> CreatingAt(pc[cur], arg[cur])
  /\ x = "BLOCKED" => pc'[cur] \in {"down", "hlt"}
  /\ x = "DYING" => pc'[cur] = "run"
  /\ pc'[cur] \in {"boot", "start", "idle"} => pc'[cur] = pc[cur]
  /\ pc[cur] = "idle" => pc'[cur] = "idle"
  /\ pc'[cur] \in IdleLoop <=> pc[cur] \in IdleLoop
  /\ idle_thread = NULL =>
       \/ x = "READY" /\ pc'[cur] = pc[cur]
       \/ cur = main /\ x = "BLOCKED" /\ pc'[cur] = "down" /\ arg'[cur] = idle_started
  /\ \A s \in AllSema :
       /\ NoDup(waiters'[s])
       /\ Rng(waiters'[s]) = Rng(waiters[s]) \cup
            IF x = "BLOCKED" /\ pc'[cur] = "down" /\ arg'[cur] = s THEN {cur} ELSE {}

\* A time slice lasts at least one tick.
LEMMA ZeroTick == ConstantsAssumption => 0 \in 0..(TIME_SLICE - 1)
  BY SMT DEF ConstantsAssumption

\* Any step in which the running thread gives up the CPU, with the points it
\* stops at, keeps the scheduler's part of the invariant.
LEMMA SwitchStep ==
  ASSUME ConstantsAssumption, SchedInv, RestType', pc[main] # "boot",
         NEW x \in {"BLOCKED", "READY", "DYING"},
         schedule([status EXCEPT ![cur] = x],
                  IF x = "READY" /\ cur # idle_thread
                  THEN Append(ready_list, cur) ELSE ready_list),
         SwitchFrame(x)
  PROVE  SchedInv'
<1>0. /\ TypeOK /\ ElemDualPurpose /\ OneRunning /\ StartInv /\ LifeInv
      /\ cur \in Thread /\ status[cur] = "RUNNING"
      /\ \A t \in Thread : status[t] = "RUNNING" <=> t = cur
  BY DEF SchedInv, TypeOK, OneRunning
<1>8. /\ UNCHANGED <<idle_thread, child>>
      /\ \A t \in Thread : t # cur => pc'[t] = pc[t] /\ arg'[t] = arg[t]
  BY DEF SwitchFrame
<1>9. /\ x = "BLOCKED" => pc'[cur] \in {"down", "hlt"}
      /\ x = "DYING" => pc'[cur] = "run"
      /\ pc'[cur] \in {"boot", "start", "idle"} => pc'[cur] = pc[cur]
      /\ pc[cur] = "idle" => pc'[cur] = "idle"
      /\ pc'[cur] \in IdleLoop <=> pc[cur] \in IdleLoop
  BY DEF SwitchFrame
<1>1. /\ cur' \in Thread
      /\ \/ cur' = idle_thread
         \/ cur' # cur /\ status[cur'] = "READY"
         \/ cur' = cur /\ x = "READY"
      /\ status' \in [Thread -> Status]
      /\ \A t \in Thread : status'[t] =
           IF t = cur' THEN "RUNNING"
           ELSE IF t = cur THEN (IF x = "DYING" /\ cur # main THEN "FREE" ELSE x)
           ELSE status[t]
      /\ RunQueue(ready_list', status')
      /\ thread_ticks' = 0
  <2>1. idle_thread = NULL => x = "READY" \/ cur = main
    BY DEF SwitchFrame
  <2> QED BY <2>1, SwitchLemma
<1>2. TypeOK'
  <2>1. thread_ticks' \in 0..(TIME_SLICE - 1)
    BY <1>1, ZeroTick
  <2> QED BY <1>1, <2>1 DEF TypeOK, RestType, RunQueue
<1>3. OneRunning'
  BY <1>0, <1>1 DEF OneRunning
<1>4. cur' = idle_thread => cur' = idle /\ pc[idle] \in IdleLoop /\ pc'[idle] \in IdleLoop
  <2>1. cur' = idle_thread => idle_thread = idle
    BY <1>0, <1>1 DEF TypeOK, ConstantsAssumption
  <2>2. idle_thread = idle => pc[idle] \in IdleLoop
    BY <1>0 DEF StartInv, IdleLoop
  <2>3. idle \in Thread /\ (pc[idle] \in IdleLoop => pc'[idle] \in IdleLoop)
    BY <1>8, <1>9 DEF ConstantsAssumption
  <2> QED BY <2>1, <2>2, <2>3
<1>5. ElemDualPurpose'
  <2>1. ASSUME NEW s \in AllSema, NEW t \in Thread
        PROVE t \in Rng(waiters'[s]) <=>
                status'[t] = "BLOCKED" /\ pc'[t] = "down" /\ arg'[t] = s
    <3>1. t \in Rng(waiters[s]) <=> status[t] = "BLOCKED" /\ pc[t] = "down" /\ arg[t] = s
      BY <1>0 DEF ElemDualPurpose
    <3>2. Rng(waiters'[s]) = Rng(waiters[s]) \cup
            IF x = "BLOCKED" /\ pc'[cur] = "down" /\ arg'[cur] = s THEN {cur} ELSE {}
      BY DEF SwitchFrame
    <3>3. CASE t = cur
      <4>1. status'[cur] = "BLOCKED" /\ pc'[cur] = "down" <=> x = "BLOCKED" /\ pc'[cur] = "down"
        BY <1>0, <1>1, <1>4 DEF IdleLoop
      <4> QED BY <1>0, <3>1, <3>2, <3>3, <4>1
    <3>4. CASE t # cur
      <4>1. /\ pc'[t] = pc[t] /\ arg'[t] = arg[t]
            /\ status'[t] = "BLOCKED" /\ pc[t] = "down" <=> status[t] = "BLOCKED" /\ pc[t] = "down"
        BY <1>8, <1>1, <1>4, <3>4 DEF IdleLoop
      <4> QED BY <3>1, <3>2, <3>4, <4>1
    <3> QED BY <3>3, <3>4
  <2>2. \A s \in AllSema : NoDup(waiters'[s])
    BY DEF SwitchFrame
  <2> QED BY <1>1, <1>8, <2>1, <2>2 DEF ElemDualPurpose, RunQueue
<1>6. StartInv'
  <2>1. \A t \in Thread : t # idle => pc'[t] \notin IdlePoint
    BY <1>0, <1>8, <1>9, SMT DEF StartInv, IdlePoint, IdleLoop
  <2>2. \A t \in Thread : pc'[t] \in {"boot", "start"} => t = main
    BY <1>0, <1>8, <1>9 DEF StartInv
  <2>3. pc'[idle] \in IdlePoint /\ pc'[main] # "boot"
    BY <1>0, <1>8, <1>9 DEF StartInv, IdlePoint, IdleLoop, ConstantsAssumption
  <2>4. status'[idle] \notin {"FREE", "DYING"}
    BY <1>0, <1>9, <1>1, <2>3 DEF StartInv, IdlePoint, ConstantsAssumption
  <2>5. idle_thread' = idle <=> pc'[idle] \in {"idle_up", "loop", "hlt"}
    BY <1>0, <1>8, <1>9 DEF StartInv, IdleLoop, ConstantsAssumption
  <2>6. ASSUME idle_thread' = NULL
        PROVE /\ status'[idle] # "BLOCKED"
              /\ \A t \in Thread \ {main, idle} : status'[t] = "FREE"
              /\ \/ pc'[main] \in {"boot", "start"} /\ status'[main] # "BLOCKED"
                 \/ /\ pc'[main] = "down" /\ arg'[main] = idle_started
                    /\ status'[main] = "BLOCKED"
              /\ value'[idle_started] = 0
    <3>1. idle_thread = NULL /\ cur' # idle_thread /\ main # idle
          /\ main \in Thread /\ idle \in Thread
      BY <2>6, <1>8, <1>1 DEF ConstantsAssumption
    <3>2. /\ status[idle] # "BLOCKED"
          /\ \A t \in Thread \ {main, idle} : status[t] = "FREE"
          /\ \/ pc[main] \in {"boot", "start"} /\ status[main] # "BLOCKED"
             \/ pc[main] = "down" /\ arg[main] = idle_started /\ status[main] = "BLOCKED"
          /\ value[idle_started] = 0
      BY <1>0, <3>1 DEF StartInv
    <3>3. cur \in {main, idle} /\ cur' \in {main, idle}
      BY <1>0, <1>1, <3>1, <3>2
    <3>4. /\ value'[idle_started] = value[idle_started]
          /\ \/ x = "READY" /\ pc'[cur] = pc[cur]
             \/ cur = main /\ x = "BLOCKED" /\ pc'[cur] = "down" /\ arg'[cur] = idle_started
      BY <3>1 DEF SwitchFrame
    <3>5. CASE x = "READY" /\ pc'[cur] = pc[cur]
      BY <1>0, <1>8, <1>1, <3>1, <3>2, <3>3, <3>4, <3>5, SMT
    <3>6. CASE cur = main /\ x = "BLOCKED" /\ pc'[cur] = "down" /\ arg'[cur] = idle_started
      BY <1>0, <1>1, <3>1, <3>2, <3>3, <3>4, <3>6, SMT
    <3> QED BY <3>4, <3>5, <3>6
  <2> QED BY <2>1, <2>2, <2>3, <2>4, <2>5, <2>6 DEF StartInv
<1>7. LifeInv'
  <2>1. \A u \in Thread : Creating(u)' <=> Creating(u)
    BY <1>0, <1>8 DEF Creating, SwitchFrame
  <2>2. \A u \in Thread : child[u] # NULL =>
          /\ child[u] \in Thread
          /\ status'[child[u]] = "BLOCKED" /\ pc'[child[u]] = "run"
    <3> SUFFICES ASSUME NEW u \in Thread, child[u] # NULL
                 PROVE /\ child[u] \in Thread
                       /\ status'[child[u]] = "BLOCKED" /\ pc'[child[u]] = "run"
      OBVIOUS
    <3>1. child[u] \in Thread /\ status[child[u]] = "BLOCKED" /\ pc[child[u]] = "run"
      BY ChildFacts
    <3> QED BY <3>1, <1>0, <1>8, <1>1, <1>4 DEF IdleLoop
  <2>3. ASSUME NEW t \in Thread
        PROVE  /\ status'[t] \in {"FREE", "DYING"} => pc'[t] = "run"
               /\ status'[t] = "BLOCKED" => pc'[t] \in {"run", "down", "hlt"}
               /\ status'[t] = "BLOCKED" /\ pc'[t] = "run" => \E u \in Thread : child[u] = t
    <3>1. /\ status[t] \in {"FREE", "DYING"} => pc[t] = "run"
          /\ status[t] = "BLOCKED" => pc[t] \in {"run", "down", "hlt"}
          /\ status[t] = "BLOCKED" /\ pc[t] = "run" => \E u \in Thread : child[u] = t
      BY <1>0 DEF LifeInv
    <3>2. status'[t] = IF t = cur' THEN "RUNNING"
                       ELSE IF t = cur THEN (IF x = "DYING" /\ cur # main THEN "FREE" ELSE x)
                       ELSE status[t]
      BY <1>1
    <3>3. CASE t = cur
      BY <1>9, <3>2, <3>3
    <3>4. CASE t # cur
      BY <1>8, <3>1, <3>2, <3>4
    <3> QED BY <3>3, <3>4
  <2> QED BY SMTT(60), <1>0, <1>8, <2>1, <2>2, <2>3 DEF LifeInv
<1> QED BY <1>2, <1>3, <1>5, <1>6, <1>7 DEF SchedInv

-----------------------------------------------------------------------------
(***************************************************************************)
(* No step of the kernel breaks the scheduler's invariant: one lemma for   *)
(* each kind of step, on top of what schedule() and the queues do.         *)
(***************************************************************************)

\* A thread at an ordinary point of a call runs only after the idle thread
\* has announced itself.
LEMMA IdleKnown ==
  ASSUME ConstantsAssumption, SchedInv, pc[cur] \notin {"boot", "start", "down", "idle"}
  PROVE  idle_thread = idle /\ pc[main] # "boot"
<1>0. /\ TypeOK /\ StartInv /\ cur \in Thread /\ main \in Thread /\ idle \in Thread
      /\ status[cur] = "RUNNING" /\ \A t \in Thread : status[t] = "RUNNING" <=> t = cur
      /\ NULL # idle /\ main # idle
  BY DEF SchedInv, TypeOK, OneRunning, ConstantsAssumption
<1>1. pc[main] # "boot"
  BY <1>0 DEF StartInv
<1>2. SUFFICES ASSUME idle_thread = NULL PROVE FALSE
  BY <1>0, <1>1 DEF TypeOK
<1>3. cur \in {main, idle}
  BY <1>0, <1>2 DEF StartInv
<1>4. cur # main
  BY <1>0, <1>2 DEF StartInv
<1>5. pc[idle] \in IdlePoint /\ pc[idle] \notin {"idle_up", "loop", "hlt"}
  BY <1>0, <1>1, <1>2 DEF StartInv
<1> QED BY <1>3, <1>4, <1>5 DEF IdlePoint

\* The callers of sema_down(): a thread waits for tid_lock exactly when it is
\* inside thread_create().
DownCall(s) ==
  /\ SemaDown(s)
  /\ UNCHANGED <<idle_thread, holder, alloc>>
  /\ pc[cur] \in {"run", "down", "create", "start"}
  /\ CreatingAt(pc[cur], arg[cur]) <=> s = tid_lock
  /\ pc[cur] = "start" => s = idle_started
  /\ pc[cur] = "down" => s = arg[cur]

\* A thread can block in sema_down() only when there is a thread to switch
\* to: the idle thread is known, or main waits for it.
LEMMA DownCaller ==
  ASSUME ConstantsAssumption, SchedInv, NEW s \in AllSema, DownCall(s)
  PROVE  /\ pc[main] # "boot"
         /\ idle_thread = NULL => cur = main /\ s = idle_started /\ value[s] = 0
<1>0. TypeOK /\ StartInv /\ cur \in Thread /\ status[cur] = "RUNNING"
  BY DEF SchedInv, TypeOK, OneRunning
<1>1. CASE pc[cur] \in {"run", "create"}
  BY <1>1, <1>0, IdleKnown DEF ConstantsAssumption
<1>2. CASE pc[cur] \in {"start", "down"}
  <2>1. pc[main] # "boot"
    BY <1>0, <1>2 DEF StartInv
  <2>2. ASSUME idle_thread = NULL PROVE cur = main /\ s = idle_started /\ value[s] = 0
    <3>1. cur \in {main, idle}
      BY <1>0, <2>2 DEF StartInv
    <3>2. cur = main
      BY <1>0, <1>2, <2>1, <3>1 DEF StartInv, IdlePoint
    <3> QED BY <1>0, <1>2, <2>2, <3>2 DEF StartInv, DownCall
  <2> QED BY <2>1, <2>2
<1> QED BY <1>1, <1>2 DEF DownCall

\* One turn of the loop in sema_down() keeps the scheduler's part of the
\* invariant, for each of its callers.
LEMMA DownStep ==
  ASSUME ConstantsAssumption, SchedInv, NEW s \in AllSema, DownCall(s)
  PROVE  SchedInv'
<1> USE DEF alloc, DownCall
<1>0. /\ TypeOK /\ ElemDualPurpose /\ OneRunning /\ StartInv /\ LifeInv
      /\ cur \in Thread /\ status[cur] = "RUNNING"
      /\ arg' = [arg EXCEPT ![cur] = s]
  BY DEF SchedInv, TypeOK, OneRunning, SemaDown
<1>1. /\ pc[main] # "boot"
      /\ idle_thread = NULL => cur = main /\ s = idle_started /\ value[s] = 0
  BY DownCaller
<1>2. CASE value[s] = 0
  <2>1. /\ waiters' = [waiters EXCEPT ![s] = Append(@, cur)]
        /\ pc' = [pc EXCEPT ![cur] = "down"]
        /\ schedule([status EXCEPT ![cur] = "BLOCKED"], ready_list)
        /\ value' = value
    BY <1>0, <1>2, SMT DEF SemaDown, Goto, thread_block
  <2>2. cur \notin Rng(waiters[s])
    BY <1>0 DEF ElemDualPurpose
  <2>3. /\ Append(waiters[s], cur) \in Seq(Thread)
        /\ NoDup(Append(waiters[s], cur))
        /\ Rng(Append(waiters[s], cur)) = Rng(waiters[s]) \cup {cur}
    BY <1>0, <2>2, AppendQueue, SMT DEF TypeOK, ElemDualPurpose
  <2>4. RestType'
    BY <1>0, <2>1, <2>3 DEF TypeOK, RestType, Point
  <2>5. pc'[cur] = "down" /\ arg'[cur] = s
        /\ \A t \in Thread : t # cur => pc'[t] = pc[t] /\ arg'[t] = arg[t]
    BY <1>0, <2>1 DEF TypeOK
  <2>6. \A r \in AllSema :
          /\ NoDup(waiters'[r])
          /\ Rng(waiters'[r]) = Rng(waiters[r]) \cup IF s = r THEN {cur} ELSE {}
    BY SMTT(60), <1>0, <2>1, <2>3 DEF TypeOK, ElemDualPurpose
  <2>7. CreatingAt(pc'[cur], arg'[cur]) <=> CreatingAt(pc[cur], arg[cur])
    BY <2>5 DEF CreatingAt
  <2>8. pc'[cur] \in IdleLoop <=> pc[cur] \in IdleLoop
    BY <2>5 DEF IdleLoop
  <2> QED
    BY <1>0, <1>1, <2>1, <2>4, <2>5, <2>6, <2>7, <2>8, SwitchStep DEF SwitchFrame
<1>3. CASE value[s] > 0
  <2>1. /\ value' = [value EXCEPT ![s] = @ - 1]
        /\ pc' = [pc EXCEPT ![cur] = AfterDown(s)]
        /\ UNCHANGED <<waiters, status, ready_list, cur, thread_ticks>>
    BY SMTT(60), <1>0, <1>3 DEF SemaDown, Goto, sched, TypeOK
  <2>2. RestType'
    <3>1. value' \in [AllSema -> Nat]
      BY SMTT(60), <1>0, <1>3, <2>1 DEF TypeOK
    <3>2. pc' \in [Thread -> Point] /\ arg' \in [Thread -> AllSema]
      BY <1>0, <2>1 DEF TypeOK, Point, AfterDown
    <3> QED BY <1>0, <2>1, <3>1, <3>2 DEF TypeOK, RestType
  <2>3. idle_thread = idle
    BY <1>0, <1>1, <1>3, SMT DEF TypeOK
  <2>4. pc'[cur] = AfterDown(s) /\ arg'[cur] = s
        /\ \A t \in Thread : t # cur => pc'[t] = pc[t] /\ arg'[t] = arg[t]
    BY <1>0, <2>1 DEF TypeOK
  <2>5. CreatingAt(pc'[cur], arg'[cur]) <=> CreatingAt(pc[cur], arg[cur])
    BY <2>4 DEF CreatingAt, AfterDown, ConstantsAssumption
  <2>6. LocalPc
    BY <2>3, <2>4, <2>5 DEF LocalPc, CallPoint, Point, IdlePoint, AfterDown
  <2> QED BY <1>0, <2>1, <2>2, <2>3, <2>6, LocalStep DEF TypeOK
<1> QED BY <1>0, <1>2, <1>3, SMT DEF TypeOK

\* thread_create() up to allocate_tid().
LEMMA CreateStep ==
  ASSUME ConstantsAssumption, SchedInv, NEW n \in Thread, thread_create(n)
  PROVE  SchedInv'
<1>0. /\ TypeOK /\ ElemDualPurpose /\ OneRunning /\ StartInv /\ LifeInv
      /\ cur \in Thread /\ status[cur] = "RUNNING"
      /\ pc[cur] = "run" /\ status[n] = "FREE" /\ n # cur
      /\ UNCHANGED <<ready_list, cur, thread_ticks, idle_thread, value, waiters, holder,
                     arg, reg, next_tid>>
  BY DEF SchedInv, TypeOK, OneRunning, thread_create, At, sync
<1>1. idle_thread = idle /\ pc[main] # "boot" /\ idle # NULL
  BY <1>0, IdleKnown DEF ConstantsAssumption
<1>2. pc[n] = "run" /\ n # idle
  BY <1>0, <1>1 DEF LifeInv, StartInv
<1>3. /\ status' = [status EXCEPT ![n] = "BLOCKED"]
      /\ child' = [child EXCEPT ![cur] = n]
      /\ tid' = [tid EXCEPT ![n] = 0]
      /\ pc' = [pc EXCEPT ![cur] = "create", ![n] = "run"]
  BY DEF thread_create
<1>4. /\ \A t \in Thread : status'[t] = IF t = n THEN "BLOCKED" ELSE status[t]
      /\ \A t \in Thread : child'[t] = IF t = cur THEN n ELSE child[t]
      /\ \A t \in Thread : pc'[t] = IF t = cur THEN "create" ELSE pc[t]
  BY <1>0, <1>2, <1>3 DEF TypeOK
<1>5. TypeOK'
  <2>1. status' \in [Thread -> Status] /\ child' \in [Thread -> Thread \cup {NULL}]
        /\ tid' \in [Thread -> Nat]
    BY <1>0, <1>3 DEF TypeOK, Status
  <2>2. pc' \in [Thread -> Point]
    BY <1>0, <1>3 DEF TypeOK, Point
  <2> QED BY <1>0, <2>1, <2>2 DEF TypeOK
<1>6. OneRunning'
  BY <1>0, <1>4 DEF OneRunning
<1>7. ElemDualPurpose'
  <2>1. \A t \in Thread : status'[t] = "READY" <=> status[t] = "READY"
    BY <1>0, <1>4
  <2>2. \A t \in Thread, s \in AllSema :
          (status[t] = "BLOCKED" /\ pc[t] = "down" /\ arg[t] = s) <=>
          (status'[t] = "BLOCKED" /\ pc'[t] = "down" /\ arg'[t] = s)
    BY <1>0, <1>2, <1>4
  <2> QED BY <1>0, <2>1, <2>2, SMT DEF ElemDualPurpose
<1>8. StartInv'
  BY <1>0, <1>1, <1>2, <1>4 DEF StartInv, IdlePoint, ConstantsAssumption
<1>9. LifeInv'
  <2>1. ~Creating(cur) /\ child[cur] = NULL
    BY <1>0 DEF Creating, CreatingAt, LifeInv
  <2>2. \A u \in Thread : child[u] # n
    BY <1>0, <1>2, ChildFacts DEF ConstantsAssumption
  <2>3. \A u \in Thread : child'[u] # NULL <=> Creating(u)'
    BY SMTT(60), <1>0, <1>4 DEF Creating, CreatingAt, LifeInv, ConstantsAssumption
  <2>4. ASSUME NEW u \in Thread, child'[u] # NULL
        PROVE status'[child'[u]] = "BLOCKED" /\ pc'[child'[u]] = "run"
    <3>1. CASE u = cur
      BY <3>1, <1>0, <1>2, <1>4
    <3>2. CASE u # cur
      <4>1. child'[u] = child[u] /\ child[u] \in Thread /\ status[child[u]] = "BLOCKED"
            /\ pc[child[u]] = "run"
        BY <3>2, <2>4, <1>4, ChildFacts
      <4> QED BY <4>1, <1>0, <1>4
    <3> QED BY <3>1, <3>2
  <2>5. \A u, v \in Thread : child'[u] # NULL /\ child'[u] = child'[v] => u = v
    BY <1>0, <1>4, <2>2, SMT DEF LifeInv
  <2>6. \A t \in Thread : status'[t] = "BLOCKED" /\ pc'[t] = "run" =>
          \E u \in Thread : child'[u] = t
    <3> SUFFICES ASSUME NEW t \in Thread, status'[t] = "BLOCKED", pc'[t] = "run"
                 PROVE \E u \in Thread : child'[u] = t
      OBVIOUS
    <3>1. CASE t = n
      BY <3>1, <1>0, <1>4
    <3>2. CASE t # n
      <4>1. status[t] = "BLOCKED" /\ pc[t] = "run"
        BY <3>2, <1>0, <1>4
      <4>2. PICK u \in Thread : child[u] = t
        BY <4>1, <1>0 DEF LifeInv
      <4>3. child'[u] = t
        BY <4>2, <2>1, <1>4, <1>0 DEF ConstantsAssumption
      <4> QED BY <4>3
    <3> QED BY <3>1, <3>2
  <2>7. \A t \in Thread : status'[t] \in {"FREE", "DYING"} => pc'[t] = "run"
    BY <1>0, <1>4, SMT DEF LifeInv
  <2>8. \A t \in Thread : status'[t] = "BLOCKED" => pc'[t] \in {"run", "down", "hlt"}
    BY <1>0, <1>2, <1>4, SMT DEF LifeInv
  <2> QED BY <2>3, <2>4, <2>5, <2>6, <2>7, <2>8 DEF LifeInv
<1> QED BY <1>5, <1>6, <1>7, <1>8, <1>9 DEF SchedInv

\* The end of thread_create(): the new thread goes on the run queue.
LEMMA UnblockStep ==
  ASSUME ConstantsAssumption, SchedInv, unblock_child
  PROVE  SchedInv'
<1> DEFINE c == child[cur]
<1>0. /\ TypeOK /\ ElemDualPurpose /\ OneRunning /\ StartInv /\ LifeInv
      /\ cur \in Thread /\ status[cur] = "RUNNING" /\ pc[cur] = "unblock"
      /\ UNCHANGED <<cur, thread_ticks, idle_thread, value, waiters, holder, arg, reg, next_tid>>
  BY DEF SchedInv, TypeOK, OneRunning, unblock_child, At, sync
<1>1. idle_thread = idle /\ pc[main] # "boot" /\ pc[idle] \in IdlePoint
  BY <1>0, IdleKnown DEF StartInv
<1>2. c # NULL
  BY <1>0 DEF LifeInv, Creating, CreatingAt
<1>3. c \in Thread /\ status[c] = "BLOCKED" /\ pc[c] = "run" /\ c # cur /\ c # idle
  BY <1>0, <1>1, <1>2, ChildFacts DEF IdlePoint
<1>4. /\ ready_list' = Append(ready_list, c)
      /\ status' = [status EXCEPT ![c] = "READY"]
      /\ tid' = [tid EXCEPT ![c] = reg[cur]]
      /\ child' = [child EXCEPT ![cur] = NULL]
      /\ pc' = [pc EXCEPT ![cur] = "run"]
  BY DEF unblock_child, thread_unblock, Goto
<1> HIDE DEF c
<1>5. /\ \A t \in Thread : status'[t] = IF t = c THEN "READY" ELSE status[t]
      /\ \A t \in Thread : child'[t] = IF t = cur THEN NULL ELSE child[t]
      /\ \A t \in Thread : pc'[t] = IF t = cur THEN "run" ELSE pc[t]
  BY <1>0, <1>3, <1>4 DEF TypeOK
<1>6. /\ ready_list' \in Seq(Thread) /\ NoDup(ready_list')
      /\ Rng(ready_list') = Rng(ready_list) \cup {c}
  <2>1. c \notin Rng(ready_list)
    BY <1>0, <1>3 DEF ElemDualPurpose
  <2> QED BY <2>1, <1>0, <1>3, <1>4, AppendQueue, SMT DEF TypeOK, ElemDualPurpose
<1>7. TypeOK'
  <2>1. status' \in [Thread -> Status] /\ child' \in [Thread -> Thread \cup {NULL}]
        /\ tid' \in [Thread -> Nat]
    BY <1>0, <1>3, <1>4 DEF TypeOK, Status
  <2>2. pc' \in [Thread -> Point]
    BY <1>0, <1>4 DEF TypeOK, Point
  <2> QED BY <1>0, <1>6, <2>1, <2>2 DEF TypeOK
<1>8. OneRunning'
  BY <1>0, <1>3, <1>5 DEF OneRunning
<1>9. ElemDualPurpose'
  <2>1. \A t \in Thread, s \in AllSema :
          (status[t] = "BLOCKED" /\ pc[t] = "down" /\ arg[t] = s) <=>
          (status'[t] = "BLOCKED" /\ pc'[t] = "down" /\ arg'[t] = s)
    BY <1>0, <1>3, <1>5
  <2>2. \A t \in Thread : t \in Rng(ready_list') <=> status'[t] = "READY" /\ t # idle_thread'
    BY <1>0, <1>1, <1>3, <1>5, <1>6, SMT DEF ElemDualPurpose
  <2> QED BY <1>0, <1>6, <2>1, <2>2, SMT DEF ElemDualPurpose
<1>10. StartInv'
  BY <1>0, <1>1, <1>3, <1>5, SMT DEF StartInv, IdlePoint, ConstantsAssumption
<1>11. LifeInv'
  <2>1. \A u \in Thread : child'[u] # NULL <=> Creating(u)'
    BY SMTT(60), <1>0, <1>5 DEF Creating, CreatingAt, LifeInv
  <2>2. ASSUME NEW u \in Thread, child'[u] # NULL
        PROVE status'[child'[u]] = "BLOCKED" /\ pc'[child'[u]] = "run"
    <3>1. u # cur /\ child'[u] = child[u]
      BY <2>2, <1>5
    <3>2. child[u] \in Thread /\ status[child[u]] = "BLOCKED" /\ pc[child[u]] = "run"
      BY <2>2, <3>1, ChildFacts
    <3>3. child[u] # c
      BY <2>2, <3>1, <1>0, <1>2 DEF LifeInv, c
    <3> QED BY <3>1, <3>2, <3>3, <1>0, <1>5, SMT
  <2>3. \A u, v \in Thread : child'[u] # NULL /\ child'[u] = child'[v] => u = v
    BY SMTT(60), <1>0, <1>5 DEF LifeInv
  <2>4. ASSUME NEW t \in Thread, status'[t] = "BLOCKED", pc'[t] = "run"
        PROVE \E u \in Thread : child'[u] = t
    <3>1. t # c /\ status[t] = "BLOCKED" /\ pc[t] = "run"
      BY <2>4, <1>0, <1>5
    <3>2. PICK u \in Thread : child[u] = t
      BY <3>1, <1>0 DEF LifeInv
    <3>3. u # cur
      BY <3>1, <3>2 DEF c
    <3> QED BY <3>2, <3>3, <1>5
  <2>5. \A t \in Thread : status'[t] \in {"FREE", "DYING"} => pc'[t] = "run"
    BY SMTT(60), <1>0, <1>5 DEF LifeInv
  <2>6. \A t \in Thread : status'[t] = "BLOCKED" => pc'[t] \in {"run", "down", "hlt"}
    BY <1>0, <1>5, SMT DEF LifeInv
  <2> QED BY <2>1, <2>2, <2>3, <2>4, <2>5, <2>6 DEF LifeInv
<1> QED BY <1>7, <1>8, <1>9, <1>10, <1>11 DEF SchedInv

\* thread_start() puts the idle thread on the run queue.
LEMMA StartStep ==
  ASSUME ConstantsAssumption, SchedInv, thread_start
  PROVE  SchedInv'
<1>0. /\ TypeOK /\ ElemDualPurpose /\ OneRunning /\ StartInv /\ LifeInv
      /\ cur \in Thread /\ status[cur] = "RUNNING" /\ pc[cur] = "boot"
      /\ main \in Thread /\ idle \in Thread /\ main # idle /\ NULL \notin Thread
      /\ UNCHANGED <<cur, thread_ticks, idle_thread, value, waiters, holder, arg, child, reg>>
  BY DEF SchedInv, TypeOK, OneRunning, thread_start, At, sync, ConstantsAssumption
<1>1. cur = main /\ status[idle] = "FREE" /\ pc[idle] = "run" /\ idle_thread = NULL
  BY <1>0 DEF StartInv, TypeOK
<1>2. /\ \A t \in Thread \ {main, idle} : status[t] = "FREE"
      /\ status[main] = "RUNNING"
      /\ value[idle_started] = 0
  BY <1>0, <1>1 DEF StartInv
<1>3. /\ ready_list' = Append(ready_list, idle)
      /\ status' = [status EXCEPT ![idle] = "READY"]
      /\ pc' = [pc EXCEPT ![main] = "start", ![idle] = "idle"]
      /\ tid' = [tid EXCEPT ![idle] = next_tid]
      /\ next_tid' = next_tid + 1
  BY DEF thread_start, thread_unblock
<1>4. /\ \A t \in Thread : status'[t] = IF t = idle THEN "READY" ELSE status[t]
      /\ \A t \in Thread : pc'[t] = IF t = main THEN "start"
                                    ELSE IF t = idle THEN "idle" ELSE pc[t]
  BY <1>0, <1>3 DEF TypeOK
<1>5. /\ ready_list' \in Seq(Thread) /\ NoDup(ready_list')
      /\ Rng(ready_list') = Rng(ready_list) \cup {idle}
  <2>1. idle \notin Rng(ready_list)
    BY <1>0, <1>1 DEF ElemDualPurpose
  <2> QED BY <2>1, <1>0, <1>3, AppendQueue, SMT DEF TypeOK, ElemDualPurpose
<1>6. TypeOK'
  <2>1. status' \in [Thread -> Status] /\ tid' \in [Thread -> Nat] /\ next_tid' \in Nat
    BY <1>0, <1>3, SMT DEF TypeOK, Status
  <2>2. pc' \in [Thread -> Point]
    BY <1>0, <1>3 DEF TypeOK, Point
  <2> QED BY <1>0, <1>5, <2>1, <2>2 DEF TypeOK
<1>7. OneRunning'
  BY <1>0, <1>1, <1>4 DEF OneRunning
<1>8. ElemDualPurpose'
  <2>1. \A t \in Thread, s \in AllSema :
          (status[t] = "BLOCKED" /\ pc[t] = "down" /\ arg[t] = s) <=>
          (status'[t] = "BLOCKED" /\ pc'[t] = "down" /\ arg'[t] = s)
    BY <1>0, <1>1, <1>2, <1>4
  <2>2. \A t \in Thread : t \in Rng(ready_list') <=> status'[t] = "READY" /\ t # idle_thread'
    BY SMTT(60), <1>0, <1>1, <1>4, <1>5 DEF ElemDualPurpose
  <2> QED BY SMTT(60), <1>0, <1>5, <2>1, <2>2 DEF ElemDualPurpose
<1>9. StartInv'
  BY <1>0, <1>1, <1>2, <1>4, SMT DEF StartInv, IdlePoint
<1>10. LifeInv'
  <2>1. \A u \in Thread : Creating(u)' <=> Creating(u)
    BY <1>0, <1>1, <1>4 DEF Creating, CreatingAt
  <2>2. \A u \in Thread : child[u] = NULL
    BY <1>0, <1>1, <1>2, ChildFacts
  <2>3. \A t \in Thread : status'[t] # "BLOCKED"
    BY <1>1, <1>2, <1>4
  <2>4. \A t \in Thread : status'[t] \in {"FREE", "DYING"} => pc'[t] = "run"
    <3>1. \A t \in Thread : status[t] \in {"FREE", "DYING"} => pc[t] = "run"
      BY <1>0 DEF LifeInv
    <3> QED BY <1>0, <1>2, <1>4, <3>1, SMT
  <2>5. \A u \in Thread : child'[u] = NULL /\ ~Creating(u)'
    <3>1. \A u \in Thread : ~Creating(u)
      BY <1>0, <2>2 DEF LifeInv
    <3> QED BY <1>0, <2>1, <2>2, <3>1
  <2> QED BY <2>3, <2>4, <2>5 DEF LifeInv
<1> QED BY <1>6, <1>7, <1>8, <1>9, <1>10 DEF SchedInv

\* idle() announces itself.
LEMMA IdleBeginStep ==
  ASSUME ConstantsAssumption, SchedInv, idle_begin
  PROVE  SchedInv'
<1>0. /\ TypeOK /\ ElemDualPurpose /\ OneRunning /\ StartInv /\ LifeInv
      /\ cur \in Thread /\ status[cur] = "RUNNING" /\ pc[cur] = "idle"
      /\ main \in Thread /\ idle \in Thread /\ main # idle /\ NULL \notin Thread
      /\ UNCHANGED <<status, ready_list, cur, thread_ticks, value, waiters, holder, arg,
                     child, reg, tid, next_tid>>
      /\ idle_thread' = cur
      /\ pc' = [pc EXCEPT ![cur] = "idle_up"]
  BY DEF SchedInv, TypeOK, OneRunning, idle_begin, At, Goto, sync, sched, alloc, ConstantsAssumption
<1>1. cur = idle /\ pc[main] # "boot"
  BY <1>0 DEF StartInv, IdlePoint
<1>2. \A t \in Thread : pc'[t] = IF t = idle THEN "idle_up" ELSE pc[t]
  BY <1>0, <1>1 DEF TypeOK
<1>3. TypeOK'
  BY <1>0, <1>1 DEF TypeOK, Point
<1>4. OneRunning'
  BY <1>0 DEF OneRunning
<1>5. ElemDualPurpose'
  <2>1. \A t \in Thread, s \in AllSema :
          (status[t] = "BLOCKED" /\ pc[t] = "down" /\ arg[t] = s) <=>
          (status'[t] = "BLOCKED" /\ pc'[t] = "down" /\ arg'[t] = s)
    BY <1>0, <1>1, <1>2, SMT
  <2>2. \A t \in Thread : t \in Rng(ready_list') <=> status'[t] = "READY" /\ t # idle_thread'
    BY <1>0, <1>1, <1>2, SMT DEF ElemDualPurpose, TypeOK
  <2> QED BY SMTT(60), <1>0, <2>1, <2>2 DEF ElemDualPurpose
<1>6. StartInv'
  BY SMTT(60), <1>0, <1>1, <1>2 DEF StartInv, IdlePoint
<1>7. LifeInv'
  <2>1. ASSUME NEW u \in Thread PROVE Creating(u)' <=> Creating(u)
    <3>1. arg'[u] = arg[u] /\ pc'[u] = (IF u = idle THEN "idle_up" ELSE pc[u])
          /\ pc[idle] = "idle"
      BY <1>0, <1>1, <1>2
    <3>2. CreatingAt(pc'[u], arg'[u]) <=> CreatingAt(pc[u], arg[u])
      BY <3>1 DEF CreatingAt
    <3> QED BY <3>2 DEF Creating
  <2>2. ASSUME NEW u \in Thread, child[u] # NULL
        PROVE status'[child[u]] = "BLOCKED" /\ pc'[child[u]] = "run"
    BY <2>2, <1>0, <1>1, <1>2, ChildFacts, SMT
  <2> QED BY SMTT(60), <1>0, <1>1, <1>2, <2>1, <2>2 DEF LifeInv
<1> QED BY <1>3, <1>4, <1>5, <1>6, <1>7 DEF SchedInv

\* What sema_up() leaves in the semaphores is well typed.
LEMMA UpTypes ==
  ASSUME TypeOK, NEW s \in AllSema, SemaUp(s)
  PROVE  value' \in [AllSema -> Nat] /\ waiters' \in [AllSema -> Seq(Thread)]
<1>1. value \in [AllSema -> Nat] /\ waiters \in [AllSema -> Seq(Thread)]
  BY DEF TypeOK
<1>2. value' \in [AllSema -> Nat]
  BY <1>1, SMT DEF SemaUp
<1>3. CASE waiters[s] = <<>>
  BY <1>1, <1>2, <1>3 DEF SemaUp
<1>4. CASE waiters[s] # <<>>
  <2>1. Tail(waiters[s]) \in Seq(Thread)
    BY <1>1, <1>4, TailQueue
  <2>2. waiters' = [waiters EXCEPT ![s] = Tail(waiters[s])]
    BY <1>4 DEF SemaUp
  <2> QED BY <1>1, <1>2, <2>1, <2>2
<1> QED BY <1>3, <1>4

\* The five callers of sema_down().
LEMMA DownCallers ==
  ASSUME ConstantsAssumption, SchedInv
  PROVE  /\ \A s \in Sema \ {idle_started} : sema_down(s) => s \in AllSema /\ DownCall(s)
         /\ \A l \in Lock \ {tid_lock} : lock_acquire(l) => l \in AllSema /\ DownCall(l)
         /\ sema_down_again => arg[cur] \in AllSema /\ DownCall(arg[cur])
         /\ allocate_tid => tid_lock \in AllSema /\ DownCall(tid_lock)
         /\ wait_idle_started => idle_started \in AllSema /\ DownCall(idle_started)
<1>0. /\ idle_started \in Sema /\ tid_lock \in Lock /\ Sema \cap Lock = {}
      /\ cur \in Thread /\ arg[cur] \in AllSema
  BY DEF ConstantsAssumption, SchedInv, TypeOK
<1> QED BY <1>0 DEF sema_down, lock_acquire, sema_down_again, allocate_tid,
                    wait_idle_started, DownCall, At, CreatingAt, AllSema

\* Every step keeps the scheduler's part of the invariant.
LEMMA SchedInvNext == ConstantsAssumption /\ SchedInv /\ [Next]_vars => SchedInv'
<1> SUFFICES ASSUME ConstantsAssumption, SchedInv, [Next]_vars PROVE SchedInv'
  OBVIOUS
<1>0. /\ TypeOK /\ ElemDualPurpose /\ OneRunning /\ StartInv /\ LifeInv
      /\ cur \in Thread /\ status[cur] = "RUNNING" /\ arg[cur] \in AllSema
      /\ idle_started \in Sema /\ tid_lock \in Lock /\ Sema \cap Lock = {}
      /\ idle_started \in AllSema /\ tid_lock \in AllSema /\ idle_started # tid_lock
      /\ idle \in Thread /\ NULL \notin Thread
  BY DEF SchedInv, TypeOK, OneRunning, ConstantsAssumption, AllSema
<1>1. ASSUME NEW s \in Sema \ {idle_started}, sema_down(s) PROVE SchedInv'
  BY <1>0, <1>1, DownCallers, DownStep
<1>2. ASSUME NEW s \in Sema \ {idle_started}, sema_up(s) PROVE SchedInv'
  <2>1. s \in AllSema /\ SemaUp(s)
        /\ UNCHANGED <<idle_thread, holder, pc, arg, child, reg, tid, next_tid>>
    BY <1>2 DEF AllSema, sema_up, alloc
  <2>2. LocalPc
    BY <2>1 DEF LocalPc
  <2>3. RestType'
    BY <2>1, <1>0, UpTypes DEF TypeOK, RestType
  <2> QED BY <2>1, <2>2, <2>3, <1>2, UpStep
<1>3. ASSUME NEW s \in Sema \ {idle_started}, sema_try_down(s) PROVE SchedInv'
  <2>1. LocalPc
    BY <1>3 DEF LocalPc, sema_try_down
  <2>2. RestType' /\ value'[idle_started] = value[idle_started]
    <3>1. value' = [value EXCEPT ![s] = @ - 1] /\ value[s] > 0 /\ s \in AllSema
          /\ UNCHANGED <<idle_thread, waiters, holder, pc, arg, child, reg, tid, next_tid>>
      BY <1>3 DEF sema_try_down, alloc, AllSema
    <3>2. value \in [AllSema -> Nat]
      BY <1>0 DEF TypeOK
    <3>3. value' \in [AllSema -> Nat] /\ value'[idle_started] = value[idle_started]
      <4>1. value[s] \in Nat /\ s # idle_started /\ idle_started \in AllSema
        BY <1>0, <3>1, <3>2
      <4> QED BY <3>1, <3>2, <4>1, SMT
    <3> QED BY <1>0, <3>1, <3>3 DEF TypeOK, RestType
  <2> QED BY <1>0, <1>3, <2>1, <2>2, LocalStep DEF sema_try_down, sched, alloc, TypeOK
<1>4. ASSUME NEW l \in Lock \ {tid_lock}, lock_acquire(l) PROVE SchedInv'
  BY <1>0, <1>4, DownCallers, DownStep
<1>5. ASSUME NEW l \in Lock \ {tid_lock}, lock_try_acquire(l) PROVE SchedInv'
  <2>1. /\ pc[cur] = "run" /\ pc'[cur] = "acquired" /\ arg'[cur] = l /\ l \in AllSema
        /\ \A t \in Thread : t # cur => pc'[t] = pc[t] /\ arg'[t] = arg[t]
    BY <1>0, <1>5 DEF lock_try_acquire, At, Goto, TypeOK, AllSema
  <2>2. LocalPc
    BY <2>1, <1>5 DEF LocalPc, CallPoint, Point, IdlePoint, CreatingAt
  <2>3. value' \in [AllSema -> Nat] /\ value'[idle_started] = value[idle_started]
    <3>1. value' = [value EXCEPT ![l] = @ - 1] /\ value[l] > 0 /\ l \in AllSema
      BY <1>5, <2>1 DEF lock_try_acquire
    <3>2. value \in [AllSema -> Nat] /\ l # idle_started /\ idle_started \in AllSema
      BY <1>0 DEF TypeOK, AllSema
    <3>3. value[l] \in Nat
      BY <3>1, <3>2
    <3> QED BY <3>1, <3>2, <3>3, SMT
  <2>4. pc' \in [Thread -> Point] /\ arg' \in [Thread -> AllSema]
    BY <1>0, <1>5, <2>1 DEF TypeOK, lock_try_acquire, Goto, Point
  <2>5. RestType'
    BY <1>0, <1>5, <2>3, <2>4 DEF TypeOK, RestType, lock_try_acquire, alloc
  <2> QED BY <1>0, <1>5, <2>2, <2>3, <2>5, LocalStep
          DEF lock_try_acquire, sched, alloc, TypeOK
<1>6. ASSUME NEW l \in Lock \ {tid_lock}, lock_release(l) PROVE SchedInv'
  <2>1. /\ pc[cur] = "run" /\ pc'[cur] = "releasing" /\ arg'[cur] = l /\ l \in AllSema
        /\ \A t \in Thread : t # cur => pc'[t] = pc[t] /\ arg'[t] = arg[t]
    BY <1>0, <1>6 DEF lock_release, At, Goto, TypeOK, AllSema
  <2>2. LocalPc
    BY <2>1, <1>6 DEF LocalPc, CallPoint, Point, IdlePoint, CreatingAt
  <2>3. holder' \in [Lock -> Thread \cup {NULL}]
    BY <1>0, <1>6 DEF TypeOK, lock_release
  <2>4. pc' \in [Thread -> Point] /\ arg' \in [Thread -> AllSema]
    BY <1>0, <1>6, <2>1 DEF TypeOK, lock_release, Goto, Point
  <2>5. RestType'
    BY <1>0, <1>6, <2>3, <2>4 DEF TypeOK, RestType, lock_release, alloc
  <2> QED BY <1>0, <1>6, <2>2, <2>5, LocalStep DEF lock_release, sched, alloc, TypeOK
<1>7. ASSUME NEW n \in Thread, thread_create(n) PROVE SchedInv'
  BY <1>7, CreateStep
<1>8. ASSUME thread_exit PROVE SchedInv'
  <2>1. /\ pc[cur] = "run" /\ idle_thread = idle /\ pc[main] # "boot"
        /\ UNCHANGED <<idle_thread, value, waiters, holder, pc, arg, child, reg, tid, next_tid>>
        /\ schedule([status EXCEPT ![cur] = "DYING"], ready_list)
    BY <1>0, <1>8, IdleKnown DEF thread_exit, At, sync, alloc
  <2>2. RestType'
    BY <1>0, <2>1 DEF TypeOK, RestType
  <2>3. \A s \in AllSema : NoDup(waiters'[s]) /\ Rng(waiters'[s]) = Rng(waiters[s])
    BY <1>0, <2>1 DEF ElemDualPurpose
  <2> QED BY <1>0, <2>1, <2>2, <2>3, SwitchStep DEF SwitchFrame
<1>9. ASSUME yield PROVE SchedInv'
  <2>1. /\ pc[cur] = "run" /\ idle_thread = idle /\ pc[main] # "boot"
        /\ UNCHANGED <<idle_thread, value, waiters, holder, pc, arg, child, reg, tid, next_tid>>
        /\ schedule([status EXCEPT ![cur] = "READY"],
                    IF "READY" = "READY" /\ cur # idle_thread
                    THEN Append(ready_list, cur) ELSE ready_list)
    BY <1>0, <1>9, IdleKnown DEF yield, thread_yield, At, sync, alloc
  <2>2. RestType'
    BY <1>0, <2>1 DEF TypeOK, RestType
  <2>3. \A s \in AllSema : NoDup(waiters'[s]) /\ Rng(waiters'[s]) = Rng(waiters[s])
    BY <1>0, <2>1 DEF ElemDualPurpose
  <2> QED BY <1>0, <2>1, <2>2, <2>3, SwitchStep DEF SwitchFrame
<1>10. ASSUME sema_down_again PROVE SchedInv'
  BY <1>0, <1>10, DownCallers, DownStep
<1>11. ASSUME set_holder PROVE SchedInv'
  <2>1. /\ pc[cur] = "acquired" /\ arg' = arg
        /\ pc'[cur] = IF arg[cur] = tid_lock THEN "tid_read" ELSE "run"
        /\ \A t \in Thread : t # cur => pc'[t] = pc[t]
        /\ pc' \in [Thread -> Point]
    BY <1>0, <1>11 DEF set_holder, At, Goto, TypeOK, Point
  <2>2. LocalPc
    BY <2>1 DEF LocalPc, CallPoint, Point, IdlePoint, CreatingAt
  <2>3. holder' \in [Lock -> Thread \cup {NULL}]
    BY <1>0, <1>11 DEF TypeOK, set_holder
  <2>4. RestType'
    BY <1>0, <1>11, <2>1, <2>3 DEF TypeOK, RestType, set_holder, alloc
  <2> QED BY <1>0, <1>11, <2>2, <2>4, LocalStep DEF set_holder, sched, alloc, TypeOK
<1>12. ASSUME release_sema PROVE SchedInv'
  <2>1. /\ pc[cur] = "releasing" /\ arg' = arg /\ SemaUp(arg[cur])
        /\ pc'[cur] = IF arg[cur] = tid_lock THEN "unblock" ELSE "run"
        /\ \A t \in Thread : t # cur => pc'[t] = pc[t]
        /\ pc' \in [Thread -> Point]
        /\ UNCHANGED <<idle_thread, holder, child, reg, tid, next_tid>>
    BY <1>0, <1>12 DEF release_sema, At, Goto, TypeOK, Point, alloc
  <2>2. LocalPc
    BY <2>1 DEF LocalPc, CallPoint, Point, IdlePoint, CreatingAt
  <2>3. value' \in [AllSema -> Nat] /\ waiters' \in [AllSema -> Seq(Thread)]
    BY <1>0, <2>1, UpTypes
  <2>4. RestType'
    BY <1>0, <2>1, <2>3 DEF TypeOK, RestType
  <2>5. idle_thread = idle
    BY <1>0, <2>1, IdleKnown
  <2> QED BY <1>0, <2>1, <2>2, <2>4, <2>5, UpStep
<1>13. ASSUME allocate_tid PROVE SchedInv'
  BY <1>0, <1>13, DownCallers, DownStep
<1>14. ASSUME tid_read PROVE SchedInv'
  <2>1. /\ pc[cur] = "tid_read" /\ arg' = arg /\ pc'[cur] = "tid_write"
        /\ \A t \in Thread : t # cur => pc'[t] = pc[t]
        /\ pc' \in [Thread -> Point] /\ reg' \in [Thread -> Nat]
    BY <1>0, <1>14 DEF tid_read, At, Goto, TypeOK, Point
  <2>2. LocalPc
    BY <2>1 DEF LocalPc, CallPoint, Point, IdlePoint, CreatingAt
  <2>3. RestType'
    BY <1>0, <1>14, <2>1 DEF TypeOK, RestType, tid_read, sync
  <2> QED BY <1>0, <1>14, <2>2, <2>3, LocalStep DEF tid_read, sched, sync, TypeOK
<1>15. ASSUME tid_write PROVE SchedInv'
  <2>1. /\ pc[cur] = "tid_write" /\ arg'[cur] = tid_lock /\ pc'[cur] = "releasing"
        /\ \A t \in Thread : t # cur => pc'[t] = pc[t] /\ arg'[t] = arg[t]
        /\ pc' \in [Thread -> Point] /\ arg' \in [Thread -> AllSema]
    BY <1>0, <1>15 DEF tid_write, At, Goto, TypeOK, Point
  <2>2. LocalPc
    BY <2>1 DEF LocalPc, CallPoint, Point, IdlePoint, CreatingAt
  <2>3. holder' \in [Lock -> Thread \cup {NULL}] /\ next_tid' \in Nat
    BY SMTT(60), <1>0, <1>15 DEF TypeOK, tid_write
  <2>4. RestType'
    BY <1>0, <1>15, <2>1, <2>3 DEF TypeOK, RestType, tid_write
  <2> QED BY <1>0, <1>15, <2>2, <2>4, LocalStep DEF tid_write, sched, TypeOK
<1>16. ASSUME unblock_child PROVE SchedInv'
  BY <1>16, UnblockStep
<1>17. ASSUME thread_start PROVE SchedInv'
  BY <1>17, StartStep
<1>18. ASSUME wait_idle_started PROVE SchedInv'
  BY <1>0, <1>18, DownCallers, DownStep
<1>19. ASSUME idle_begin PROVE SchedInv'
  BY <1>19, IdleBeginStep
<1>20. ASSUME idle_up PROVE SchedInv'
  <2>1. /\ pc[cur] = "idle_up" /\ arg' = arg /\ SemaUp(idle_started)
        /\ pc'[cur] = "loop"
        /\ \A t \in Thread : t # cur => pc'[t] = pc[t]
        /\ pc' \in [Thread -> Point]
        /\ UNCHANGED <<idle_thread, holder, child, reg, tid, next_tid>>
    BY <1>0, <1>20 DEF idle_up, At, Goto, TypeOK, Point, alloc
  <2>2. LocalPc
    BY <2>1 DEF LocalPc, IdleLoop, CreatingAt
  <2>3. value' \in [AllSema -> Nat] /\ waiters' \in [AllSema -> Seq(Thread)]
    BY <1>0, <2>1, UpTypes
  <2>4. RestType'
    BY <1>0, <2>1, <2>3 DEF TypeOK, RestType
  <2>5. idle_thread = idle
    BY <1>0, <2>1, IdleKnown
  <2> QED BY <1>0, <2>1, <2>2, <2>4, <2>5, UpStep
<1>21. ASSUME idle_block PROVE SchedInv'
  <2>1. /\ pc[cur] = "loop" /\ arg' = arg /\ pc'[cur] = "hlt"
        /\ \A t \in Thread : t # cur => pc'[t] = pc[t]
        /\ pc' \in [Thread -> Point]
        /\ UNCHANGED <<idle_thread, value, waiters, holder, child, reg, tid, next_tid>>
        /\ schedule([status EXCEPT ![cur] = "BLOCKED"], ready_list)
    BY <1>0, <1>21 DEF idle_block, thread_block, At, Goto, TypeOK, Point, alloc, sync
  <2>2. idle_thread = idle /\ pc[main] # "boot"
    BY <2>1, <1>0, IdleKnown
  <2>3. RestType'
    BY <1>0, <2>1 DEF TypeOK, RestType
  <2>4. \A s \in AllSema : NoDup(waiters'[s]) /\ Rng(waiters'[s]) = Rng(waiters[s])
    BY <1>0, <2>1 DEF ElemDualPurpose
  <2>5. CreatingAt(pc'[cur], arg'[cur]) <=> CreatingAt(pc[cur], arg[cur])
    BY <2>1 DEF CreatingAt
  <2> QED BY <1>0, <2>1, <2>2, <2>3, <2>4, <2>5, SwitchStep DEF IdleLoop, SwitchFrame
<1>22. ASSUME tick PROVE SchedInv'
  <2>1. /\ pc[cur] \notin {"boot", "down"} /\ arg' = arg
        /\ pc'[cur] = IF pc[cur] = "hlt" THEN "loop" ELSE pc[cur]
        /\ \A t \in Thread : t # cur => pc'[t] = pc[t]
        /\ pc' \in [Thread -> Point]
        /\ UNCHANGED <<idle_thread, value, waiters, holder, child, reg, tid, next_tid>>
    BY <1>0, <1>22 DEF tick, IntrOn, WakeHlt, At, Goto, TypeOK, Point, alloc, sync
  <2>2. RestType'
    BY <1>0, <2>1 DEF TypeOK, RestType
  <2>3. CreatingAt(pc'[cur], arg'[cur]) <=> CreatingAt(pc[cur], arg[cur])
    BY <2>1 DEF CreatingAt
  <2>4. CASE thread_ticks + 1 >= TIME_SLICE
    <3>1. schedule([status EXCEPT ![cur] = "READY"],
                   IF "READY" = "READY" /\ cur # idle_thread
                   THEN Append(ready_list, cur) ELSE ready_list)
      BY <1>22, <2>4 DEF tick, thread_yield
    <3>2. pc[main] # "boot" /\ (idle_thread = NULL => pc'[cur] = pc[cur])
      BY <1>0, <2>1 DEF StartInv, IdlePoint, ConstantsAssumption
    <3>3. \A s \in AllSema : NoDup(waiters'[s]) /\ Rng(waiters'[s]) = Rng(waiters[s])
      BY <1>0, <2>1 DEF ElemDualPurpose
    <3> QED BY <1>0, <2>1, <2>2, <2>3, <3>1, <3>2, <3>3, SwitchStep DEF IdleLoop, SwitchFrame
  <2>5. CASE ~(thread_ticks + 1 >= TIME_SLICE)
    <3>1. /\ UNCHANGED <<status, ready_list, cur>>
          /\ thread_ticks' \in 0..(TIME_SLICE - 1)
      BY <1>0, <1>22, <2>5, SMT DEF tick, TypeOK, ConstantsAssumption
    <3>2. LocalPc
      BY <2>1, <2>3 DEF LocalPc, IdleLoop
    <3> QED BY <1>0, <2>1, <2>2, <3>1, <3>2, LocalStep
  <2> QED BY <2>4, <2>5
<1>23. ASSUME NEW s \in Sema \ {idle_started}, device_interrupt(s) PROVE SchedInv'
  <2>1. /\ pc[cur] \notin {"boot", "down"} /\ arg' = arg
        /\ pc'[cur] = IF pc[cur] = "hlt" THEN "loop" ELSE pc[cur]
        /\ \A t \in Thread : t # cur => pc'[t] = pc[t]
        /\ pc' \in [Thread -> Point]
        /\ SemaUp(s) /\ s \in AllSema
        /\ UNCHANGED <<idle_thread, holder, child, reg, tid, next_tid>>
    BY <1>0, <1>23 DEF device_interrupt, IntrOn, WakeHlt, At, Goto, TypeOK, Point, alloc, AllSema
  <2>2. LocalPc
    BY <2>1 DEF LocalPc, IdleLoop, CreatingAt
  <2>3. value' \in [AllSema -> Nat] /\ waiters' \in [AllSema -> Seq(Thread)]
    BY <1>0, <2>1, UpTypes
  <2>4. RestType'
    BY <1>0, <2>1, <2>3 DEF TypeOK, RestType
  <2> QED BY <1>0, <1>23, <2>1, <2>2, <2>4, UpStep
<1>24. ASSUME UNCHANGED vars PROVE SchedInv'
  <2>1. UNCHANGED <<status, ready_list, cur, thread_ticks, idle_thread, value, waiters,
                    holder, pc, arg, child, reg, tid, next_tid>>
    BY <1>24 DEF vars, sched, sync, alloc
  <2> QED BY <1>0, <2>1, LocalStep DEF TypeOK, RestType, LocalPc
<1> QED BY <1>1, <1>2, <1>3, <1>4, <1>5, <1>6, <1>7, <1>8, <1>9, <1>10, <1>11, <1>12,
           <1>13, <1>14, <1>15, <1>16, <1>17, <1>18, <1>19, <1>20, <1>21, <1>22, <1>23,
           <1>24 DEF Next, Client, Kernel, Interrupt
=============================================================================
