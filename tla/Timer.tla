------------------------------- MODULE Timer -------------------------------
(***************************************************************************)
(* The alarm clock: timer_sleep() and the timer interrupt handler of       *)
(* devices/timer.c.  Each thread has a private semaphore sleep_sema and a  *)
(* place in the global sleep_list, which is ordered by wake-up time.       *)
(*                                                                         *)
(* Any runnable thread may take the next step (the scheduler is the        *)
(* subject of Threads), and the timer may interrupt between any two of     *)
(* them.  The insertion runs with interrupts off, so it is one step.       *)
(***************************************************************************)
EXTENDS Integers, Sequences

CONSTANTS
  Thread,
  Zeroed,      \* sleep_sema as init_thread() leaves it: filled with zeros, so
               \* that its wait list is not even an empty list
  Durations,   \* the arguments of timer_sleep()
  Width,       \* bits of the integers that sleep_less() compares
  MaxTicks     \* bound: the clock stops here, the interrupts go on

ASSUME TimerAssumption ==
  /\ Durations \subseteq Int /\ Zeroed \notin Nat
  /\ Width \in Nat /\ 2^Width \in Nat \ {0} /\ MaxTicks \in Nat /\ MaxTicks < 2^Width

VARIABLES
  ticks,
  sleep_list,
  sleep_until,
  sema,        \* value of sleep_sema, or Zeroed before its first sema_init()
  waiting,     \* the thread is on the wait list of its sleep_sema
  pc,
  panicked     \* an assertion failed: the machine has halted

vars == <<ticks, sleep_list, sleep_until, sema, waiting, pc, panicked>>

\* sleep_less() converts both times to uint64_t.
Unsigned(x) == x % 2^Width

Rng(q) == {q[i] : i \in 1..Len(q)}
First(S, default) == IF S = {} THEN default ELSE CHOOSE i \in S : \A j \in S : i <= j

\* Fault: the new element goes to the front.
list_insert_front(q, t) == <<t>> \o q

\* Before the first element that it is less than, or at the end.
list_insert_ordered(q, t) ==
  LET i == First({j \in 1..Len(q) : Unsigned(sleep_until[t]) < Unsigned(sleep_until[q[j]])},
                 Len(q) + 1)
  IN SubSeq(q, 1, i - 1) \o <<t>> \o SubSeq(q, i, Len(q))

Init ==
  /\ ticks = 0
  /\ sleep_list = <<>>
  /\ sleep_until = [t \in Thread |-> 0]
  /\ sema = [t \in Thread |-> Zeroed]
  /\ waiting = [t \in Thread |-> FALSE]
  /\ pc = [t \in Thread |-> "run"]
  /\ panicked = FALSE
-----------------------------------------------------------------------------
Goto(t, p) == pc' = [pc EXCEPT ![t] = p]

\* The call of timer_sleep (d), up to intr_disable().
timer_sleep(t, d) ==
  /\ pc[t] = "run" /\ ticks + d <= MaxTicks
  /\ sleep_until' = [sleep_until EXCEPT ![t] = d + ticks]
  /\ Goto(t, "insert")
  /\ UNCHANGED <<ticks, sleep_list, sema, waiting, panicked>>

insert(t) ==
  /\ pc[t] = "insert"
  /\ sleep_list' = list_insert_ordered(sleep_list, t)
  /\ Goto(t, "init")
  /\ UNCHANGED <<ticks, sleep_until, sema, waiting, panicked>>

\* sema_init (&th->sleep_sema, 0), after the thread is on sleep_list.
init_sema(t) ==
  /\ pc[t] = "init"
  /\ sema' = [sema EXCEPT ![t] = 0]
  /\ Goto(t, "down")
  /\ UNCHANGED <<ticks, sleep_list, sleep_until, waiting, panicked>>

\* sema_down (&th->sleep_sema): block, or take the value and return.
down(t) ==
  /\ pc[t] = "down" /\ ~waiting[t]
  /\ \/ /\ sema[t] = 0
        /\ waiting' = [waiting EXCEPT ![t] = TRUE]
        /\ UNCHANGED <<sema, pc>>
     \/ /\ sema[t] > 0
        /\ sema' = [sema EXCEPT ![t] = @ - 1]
        /\ Goto(t, "run")
        /\ UNCHANGED waiting
  /\ UNCHANGED <<ticks, sleep_list, sleep_until, panicked>>

\* The sleepers at the front of the list whose time has come at time now.
Due(now) == First({i \in 1..Len(sleep_list) : now < sleep_until[sleep_list[i]]},
                  Len(sleep_list) + 1) - 1

\* Fault: at most one thread is woken at each tick.
timer_interrupt_one ==
  LET now   == IF ticks < MaxTicks THEN ticks + 1 ELSE ticks
      n     == IF Due(now) > 1 THEN 1 ELSE Due(now)
      woken == {sleep_list[i] : i \in 1..n}
  IN /\ ticks' = now
     /\ panicked' = \E t \in woken : sema[t] = Zeroed
     /\ sema' = [t \in Thread |-> IF t \in woken /\ sema[t] # Zeroed
                                 THEN sema[t] + 1 ELSE sema[t]]
     /\ waiting' = [t \in Thread |-> waiting[t] /\ t \notin woken]
     /\ sleep_list' = SubSeq(sleep_list, n + 1, Len(sleep_list))
     /\ UNCHANGED <<sleep_until, pc>>

\* Fault: a woken thread is taken off the list only when it waits.
timer_interrupt_no_value ==
  LET now   == IF ticks < MaxTicks THEN ticks + 1 ELSE ticks
      woken == {sleep_list[i] : i \in 1..Due(now)}
  IN /\ ticks' = now
     /\ panicked' = \E t \in woken : sema[t] = Zeroed
     /\ waiting' = [t \in Thread |-> waiting[t] /\ t \notin woken]
     /\ sleep_list' = SubSeq(sleep_list, Due(now) + 1, Len(sleep_list))
     /\ UNCHANGED <<sleep_until, pc, sema>>

\* The whole handler: the tick, and sema_up() for every sleeper that is due.
\* sema_up() of a zeroed semaphore fails an assertion in list_remove().
timer_interrupt ==
  LET now   == IF ticks < MaxTicks THEN ticks + 1 ELSE ticks
      woken == {sleep_list[i] : i \in 1..Due(now)}
  IN /\ ticks' = now
     /\ panicked' = \E t \in woken : sema[t] = Zeroed
     /\ sema' = [t \in Thread |-> IF t \in woken /\ sema[t] # Zeroed
                                 THEN sema[t] + 1 ELSE sema[t]]
     /\ waiting' = [t \in Thread |-> waiting[t] /\ t \notin woken]
     /\ sleep_list' = SubSeq(sleep_list, Due(now) + 1, Len(sleep_list))
     /\ UNCHANGED <<sleep_until, pc>>
-----------------------------------------------------------------------------
Step(t) == ~panicked /\ (insert(t) \/ init_sema(t) \/ down(t))
Call    == ~panicked /\ \E t \in Thread, d \in Durations : timer_sleep(t, d)
Tick    == ~panicked /\ timer_interrupt

Next == Call \/ Tick \/ \E t \in Thread : Step(t)
Spec == Init /\ [][Next]_vars

\* The timer goes on interrupting, and every runnable thread gets the CPU.
Fairness == WF_vars(Tick) /\ \A t \in Thread : WF_vars(Step(t))
FairSpec == Spec /\ Fairness
-----------------------------------------------------------------------------
\* sleep_list_elem is on the list at most once and never while its thread
\* can insert it again, and the list is in the order of sleep_less().
SleepListOK ==
  /\ \A i, j \in 1..Len(sleep_list) : i < j =>
       /\ sleep_list[i] # sleep_list[j]
       /\ Unsigned(sleep_until[sleep_list[i]]) <= Unsigned(sleep_until[sleep_list[j]])
  /\ \A t \in Rng(sleep_list) : pc[t] \in {"init", "down"}

\* timer_sleep() does not return before the time it was asked for.
NeverEarly ==
  [][\A t \in Thread : pc[t] = "down" /\ pc'[t] = "run" => ticks >= sleep_until[t]]_vars

\* No sleeper whose time has come is left on the list by the interrupt.
ExpiredWoken ==
  [][ticks' # ticks => \A t \in Rng(sleep_list') : sleep_until[t] > ticks']_vars

\* Sleepers wake neither early nor, once a tick has seen their time, late.
WakesOnTime == NeverEarly /\ ExpiredWoken

\* A thread that is on sleep_list once its semaphore is ready is woken.
ReadySleeperWakes ==
  \A t \in Thread :
    pc[t] = "down" /\ t \in Rng(sleep_list) ~> pc[t] = "run" \/ panicked

\* "Suspends execution for approximately TICKS timer ticks": timer_sleep()
\* returns (or the machine has halted).
SleepEnds == \A t \in Thread : pc[t] # "run" ~> pc[t] = "run" \/ panicked

\* "Only requirement is that it not crash": sleeping never trips an
\* assertion of the kernel.
NoPanic == ~panicked
=============================================================================
