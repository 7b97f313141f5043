----------------------------- MODULE ListProofs -----------------------------
(***************************************************************************)
(* Lists and what is built on them: the sleep list of devices/timer.c, the *)
(* synchronized list of threads/synchlist.c, and the links of              *)
(* lib/kernel/list.c itself.                                               *)
(*                                                                         *)
(* First the timer: sleep_list stays ordered and holds a thread at most    *)
(* once, no sleeper wakes early and, if no one sleeps for a negative time, *)
(* no tick leaves an expired sleeper on the list.                          *)
(***************************************************************************)
EXTENDS Timer, Monitor, List, WellFoundedInduction, TLAPS

TimerType ==
  /\ ticks \in Nat /\ ticks <= MaxTicks
  /\ sleep_list \in Seq(Thread) /\ sleep_until \in [Thread -> Int]
  /\ sema \in [Thread -> Nat \cup {Zeroed}]
  /\ pc \in [Thread -> {"run", "insert", "init", "down"}]

\* A semaphore in use has a value, and who has one to take is due and is not
\* on the list any more.
WokenInv ==
  \A t \in Thread : pc[t] = "down" =>
    /\ sema[t] \in Nat
    /\ sema[t] > 0 => ticks >= sleep_until[t] /\ t \notin Rng(sleep_list)

TimerInv == TimerType /\ SleepListOK /\ WokenInv

\* The wake-up times are ones that sleep_less() compares rightly.
UntilInv == \A t \in Thread : sleep_until[t] \in 0..MaxTicks
-----------------------------------------------------------------------------
(* First-order reasoning closes most leaves; the ones about numbers,       *)
(* records and sequences cite SMT.                                         *)
USE Zenon

\* First(): the search loops stop at the least index, or behind the last one.
LEMMA FirstFacts ==
  ASSUME NEW n \in Nat, NEW S, S \subseteq 1..n
  PROVE  /\ First(S, n + 1) \in 1..(n + 1)
         /\ First(S, n + 1) <= n => First(S, n + 1) \in S
         /\ \A j \in S : First(S, n + 1) <= j
<1>1. CASE S = {}
  BY <1>1, SMT DEF First
<1>2. CASE S # {}
  <2>1. \E x \in S : \A y \in S : x <= y
    <3>1. PICK x \in S : \A y \in S : ~(<<y, x>> \in OpToRel(<, Nat))
      <4>1. S \subseteq Nat
        BY SMT
      <4>2. QED BY <1>2, <4>1, NatLessThanWellFounded, WFMin, Zenon
    <3>2. ASSUME NEW y \in S PROVE x <= y
      <4>1. x \in Nat /\ y \in Nat
        BY SMT
      <4>2. ~(y < x)
        BY <3>1, <4>1 DEF OpToRel
      <4>3. QED BY <4>1, <4>2, SMT
    <3>3. QED BY <3>2
  <2>2. First(S, n + 1) = CHOOSE i \in S : \A j \in S : i <= j
    BY <1>2 DEF First
  <2>3. First(S, n + 1) \in S /\ \A j \in S : First(S, n + 1) <= j
    BY <2>1, <2>2, Zenon
  <2>4. First(S, n + 1) \in 1..n
    BY <2>3
  <2>5. QED BY <2>3, <2>4, SMT
<1>3. QED BY <1>1, <1>2

\* uint64_t values are natural numbers, and what is in range is unchanged.
LEMMA UnsignedFacts ==
  ASSUME NEW x \in Int
  PROVE  Unsigned(x) \in Nat /\ (x \in 0..MaxTicks => Unsigned(x) = x)
<1> DEFINE m == 2^Width
<1>1. m \in Nat \ {0} /\ MaxTicks \in Nat /\ MaxTicks < m /\ Unsigned(x) = x % m
  BY TimerAssumption DEF Unsigned
<1> HIDE DEF m
<1>2. x % m \in 0..(m - 1)
  BY <1>1, SMT
<1>3. x \in 0..MaxTicks => x % m = x
  BY <1>1, SMT
<1>4. QED BY <1>1, <1>2, <1>3, SMT

\* What list_insert_ordered() returns when it stops at place i: the elements
\* before the place, the new one, and the elements behind the place.
Inserted(q, t, i) == SubSeq(q, 1, i - 1) \o <<t>> \o SubSeq(q, i, Len(q))

\* The element at each place of the list after an insertion.
LEMMA InsertFacts ==
  ASSUME NEW q \in Seq(Thread), NEW t \in Thread, NEW i \in 1..(Len(q) + 1)
  PROVE  /\ Inserted(q, t, i) \in Seq(Thread) /\ Len(Inserted(q, t, i)) = Len(q) + 1
         /\ Inserted(q, t, i)[i] = t
         /\ \A k \in 1..(Len(q) + 1) : /\ k < i => Inserted(q, t, i)[k] = q[k]
                                       /\ k > i => Inserted(q, t, i)[k] = q[k - 1]
<1> DEFINE a == SubSeq(q, 1, i - 1)
           b == a \o <<t>>
           c == SubSeq(q, i, Len(q))
           r == b \o c
<1>0. Len(q) \in Nat /\ \A k \in 1..Len(q) : q[k] \in Thread
  BY SMT
<1>1. a \in Seq(Thread) /\ Len(a) = i - 1 /\ \A k \in 1..(i - 1) : a[k] = q[k]
  BY <1>0, SMT
<1>2. c \in Seq(Thread) /\ Len(c) = Len(q) - i + 1 /\ \A k \in 1..(Len(q) - i + 1) : c[k] = q[i + k - 1]
  BY <1>0, SMT
<1> HIDE DEF a, c
<1>3. b \in Seq(Thread) /\ Len(b) = i /\ b[i] = t /\ \A k \in 1..(i - 1) : b[k] = q[k]
  BY <1>0, <1>1, SMT
<1> HIDE DEF b
<1>4. /\ r \in Seq(Thread) /\ Len(r) = Len(q) + 1
      /\ \A k \in 1..i : r[k] = b[k]
      /\ \A k \in (i + 1)..(Len(q) + 1) : r[k] = c[k - i]
  BY <1>0, <1>2, <1>3, SMT
<1> HIDE DEF r
<1>5. r[i] = t
  BY <1>0, <1>3, <1>4, SMT
<1>6. ASSUME NEW k \in 1..(Len(q) + 1)
      PROVE  (k < i => r[k] = q[k]) /\ (k > i => r[k] = q[k - 1])
  <2>1. ASSUME k < i PROVE r[k] = q[k]
    BY <1>0, <1>3, <1>4, <2>1, SMT
  <2>2. ASSUME k > i PROVE r[k] = q[k - 1]
    <3>1. k \in (i + 1)..(Len(q) + 1)
      BY <1>0, <2>2, SMT
    <3>2. PICK j \in 1..(Len(q) - i + 1) : j = k - i /\ i + j - 1 = k - 1
      BY <1>0, <2>2, SMT
    <3>3. r[k] = c[j]
      BY <1>4, <3>1, <3>2, Zenon
    <3>4. c[j] = q[k - 1]
      BY <1>2, <3>2, Zenon
    <3>5. QED BY <3>3, <3>4
  <2>3. QED BY <2>1, <2>2
<1>7. r = Inserted(q, t, i)
  BY DEF r, b, a, c, Inserted
<1>8. QED BY <1>4, <1>5, <1>6, <1>7

\* An insertion keeps the order and the elements of the list.
LEMMA InsertStep ==
  ASSUME TimerInv, NEW t \in Thread, insert(t)
  PROVE  TimerInv'
<1>0. TimerType /\ SleepListOK /\ WokenInv
  BY DEF TimerInv
<1> DEFINE q == sleep_list
           n == Len(q)
           u == [x \in Thread |-> Unsigned(sleep_until[x])]
           S == {j \in 1..n : u[t] < u[q[j]]}
           i == First(S, n + 1)
<1>1. q \in Seq(Thread) /\ n \in Nat /\ \A k \in 1..n : q[k] \in Thread
  BY <1>0, SMT DEF TimerType
<1>2. u \in [Thread -> Nat]
  BY <1>0, UnsignedFacts DEF TimerType
<1>3. /\ pc[t] = "insert" /\ pc' = [pc EXCEPT ![t] = "init"]
      /\ UNCHANGED <<ticks, sleep_until, sema>>
      /\ sleep_list' = Inserted(q, t, i)
  <2>1. S = {j \in 1..n : Unsigned(sleep_until[t]) < Unsigned(sleep_until[q[j]])}
    BY <1>1
  <2>2. sleep_list' = list_insert_ordered(sleep_list, t)
    BY DEF insert
  <2>3. sleep_list' = Inserted(q, t, i)
    BY <2>1, <2>2 DEF list_insert_ordered, Inserted
  <2>4. QED BY <2>3 DEF insert, Goto
<1>4. /\ i \in 1..(n + 1) /\ (i <= n => u[t] < u[q[i]])
      /\ \A k \in 1..n : k < i => ~(u[t] < u[q[k]])
  <2>1. S \subseteq 1..n
    OBVIOUS
  <2> HIDE DEF S
  <2>2. i \in 1..(n + 1) /\ (i <= n => i \in S) /\ \A j \in S : i <= j
    BY <1>1, <2>1, FirstFacts
  <2> HIDE DEF i
  <2>3. ASSUME NEW k \in 1..n, k < i PROVE ~(u[t] < u[q[k]])
    <3>1. k \notin S
      BY <1>1, <2>2, <2>3, SMT
    <3>2. QED BY <3>1 DEF S
  <2>4. i <= n => u[t] < u[q[i]]
    BY <2>2 DEF S
  <2>5. QED BY <2>2, <2>3, <2>4
<1>5. /\ \A k, l \in 1..n : k < l => q[k] # q[l] /\ u[q[k]] <= u[q[l]]
      /\ \A k \in 1..n : pc[q[k]] \in {"init", "down"}
  BY <1>0, <1>1 DEF SleepListOK, Rng
<1>6. ASSUME NEW k \in 1..n PROVE q[k] # t
  BY <1>3, <1>5
<1> HIDE DEF i, S, n, u, q
<1> DEFINE r == sleep_list'
<1>7. /\ r \in Seq(Thread) /\ Len(r) = n + 1 /\ r[i] = t
      /\ \A k \in 1..(n + 1) : (k < i => r[k] = q[k]) /\ (k > i => r[k] = q[k - 1])
  <2>1. q \in Seq(Thread) /\ i \in 1..(Len(q) + 1) /\ r = Inserted(q, t, i)
    BY <1>1, <1>3, <1>4 DEF n
  <2> HIDE DEF r
  <2>2. /\ Inserted(q, t, i) \in Seq(Thread) /\ Len(Inserted(q, t, i)) = Len(q) + 1
        /\ Inserted(q, t, i)[i] = t
        /\ \A k \in 1..(Len(q) + 1) : /\ k < i => Inserted(q, t, i)[k] = q[k]
                                      /\ k > i => Inserted(q, t, i)[k] = q[k - 1]
    BY <2>1, InsertFacts, Zenon
  <2>3. QED BY <2>1, <2>2, Zenon DEF n
<1> HIDE DEF r
<1>8. ASSUME NEW k \in 1..(n + 1), NEW l \in 1..(n + 1), k < l
      PROVE  r[k] # r[l] /\ u[r[k]] <= u[r[l]]
  <2>1. CASE l < i
    <3>1. k \in 1..n /\ l \in 1..n /\ r[k] = q[k] /\ r[l] = q[l]
      BY <1>1, <1>4, <1>7, <1>8, <2>1, SMT
    <3>2. QED BY <1>5, <1>8, <3>1
  <2>2. CASE l = i
    <3>1. k \in 1..n /\ r[k] = q[k] /\ r[l] = t /\ ~(u[t] < u[q[k]])
      BY <1>1, <1>4, <1>7, <1>8, <2>2, SMT
    <3>2. u[t] \in Nat /\ u[q[k]] \in Nat
      BY <1>1, <1>2, <3>1
    <3>3. QED BY <1>6, <3>1, <3>2, SMT
  <2>3. CASE l > i /\ k < i
    <3>1. k \in 1..n /\ l - 1 \in 1..n /\ k < l - 1 /\ r[k] = q[k] /\ r[l] = q[l - 1]
      BY <1>1, <1>4, <1>7, <2>3, SMT
    <3>2. QED BY <1>5, <3>1
  <2>4. CASE l > i /\ k = i
    <3>1. i \in 1..n /\ l - 1 \in 1..n /\ i <= l - 1 /\ r[k] = t /\ r[l] = q[l - 1] /\ u[t] < u[q[i]]
      BY <1>1, <1>4, <1>7, <2>4, SMT
    <3>2. u[t] \in Nat /\ u[q[i]] \in Nat /\ u[q[l - 1]] \in Nat
      BY <1>1, <1>2, <3>1
    <3>3. i = l - 1 \/ u[q[i]] <= u[q[l - 1]]
      BY <1>5, <3>1, SMT
    <3>4. QED BY <1>6, <3>1, <3>2, <3>3, SMT
  <2>5. CASE l > i /\ k > i
    <3>1. k - 1 \in 1..n /\ l - 1 \in 1..n /\ k - 1 < l - 1 /\ r[k] = q[k - 1] /\ r[l] = q[l - 1]
      BY <1>1, <1>4, <1>7, <1>8, <2>5, SMT
    <3>2. QED BY <1>5, <3>1
  <2>6. QED BY <1>1, <1>4, <1>8, <2>1, <2>2, <2>3, <2>4, <2>5, SMT
<1>9. ASSUME NEW k \in 1..(n + 1)
      PROVE  /\ r[k] \in Thread /\ pc'[r[k]] \in {"init", "down"}
             /\ r[k] = t \/ \E j \in 1..n : r[k] = q[j]
  <2>1. r[k] = t \/ \E j \in 1..n : r[k] = q[j]
    BY <1>1, <1>4, <1>7, SMT
  <2>2. QED BY <1>0, <1>1, <1>3, <1>5, <2>1 DEF TimerType
<1>10. SleepListOK'
  <2>1. \A k \in 1..(n + 1) : Unsigned(sleep_until'[r[k]]) = u[r[k]]
    BY <1>3, <1>9 DEF u
  <2>2. QED BY <1>7, <1>8, <1>9, <2>1, SMT DEF SleepListOK, Rng, r
<1>11. TimerType'
  BY <1>0, <1>3, <1>7 DEF TimerType, r
<1>12. WokenInv'
  <2>1. Rng(sleep_list') \subseteq Rng(sleep_list) \cup {t}
    BY <1>7, <1>9, SMT DEF Rng, r, q, n
  <2>2. QED BY <1>0, <1>3, <2>1 DEF WokenInv, TimerType
<1>13. QED BY <1>10, <1>11, <1>12 DEF TimerInv

\* timer_sleep() sets the time of a thread that is not on the list.
LEMMA SleepStep ==
  ASSUME TimerInv, NEW t \in Thread, NEW d \in Durations, timer_sleep(t, d)
  PROVE  TimerInv'
<1>0. TimerType /\ SleepListOK /\ WokenInv
  BY DEF TimerInv
<1>1. /\ pc[t] = "run" /\ pc' = [pc EXCEPT ![t] = "insert"] /\ d + ticks \in Int
      /\ sleep_until' = [sleep_until EXCEPT ![t] = d + ticks]
      /\ UNCHANGED <<ticks, sleep_list, sema>>
  BY <1>0, TimerAssumption, SMT DEF TimerType, timer_sleep, Goto
<1>2. ASSUME NEW k \in 1..Len(sleep_list)
      PROVE  /\ sleep_list[k] \in Thread /\ sleep_list[k] # t
             /\ sleep_until'[sleep_list[k]] = sleep_until[sleep_list[k]]
             /\ pc'[sleep_list[k]] = pc[sleep_list[k]]
  <2>1. sleep_list[k] \in Thread
    BY <1>0, SMT DEF TimerType
  <2>2. sleep_list[k] # t
    BY <1>0, <1>1 DEF SleepListOK, Rng
  <2>3. QED BY <1>0, <1>1, <2>1, <2>2 DEF TimerType
<1>3. SleepListOK'
  BY <1>0, <1>1, <1>2, SMT DEF SleepListOK, Rng
<1>4. TimerType'
  BY <1>0, <1>1 DEF TimerType
<1>5. WokenInv'
  BY <1>0, <1>1 DEF WokenInv, TimerType
<1>6. QED BY <1>3, <1>4, <1>5 DEF TimerInv

\* sema_init() and sema_down() move a thread that stays where it is on the list.
LEMMA SemaStep ==
  ASSUME TimerInv, NEW t \in Thread, init_sema(t) \/ down(t)
  PROVE  TimerInv'
<1>0. TimerType /\ SleepListOK /\ WokenInv
  BY DEF TimerInv
<1>1. CASE init_sema(t)
  <2>1. /\ pc[t] = "init" /\ pc' = [pc EXCEPT ![t] = "down"] /\ sema' = [sema EXCEPT ![t] = 0]
        /\ UNCHANGED <<ticks, sleep_list, sleep_until>>
    BY <1>1 DEF init_sema, Goto
  <2>2. TimerType' /\ WokenInv'
    BY <1>0, <2>1, SMT DEF TimerType, WokenInv
  <2>3. ASSUME NEW k \in 1..Len(sleep_list) PROVE pc'[sleep_list[k]] \in {"init", "down"}
    <3>1. sleep_list[k] \in Thread
      BY <1>0, SMT DEF TimerType
    <3>2. pc[sleep_list[k]] \in {"init", "down"}
      BY <1>0 DEF SleepListOK, Rng
    <3>3. QED BY <1>0, <2>1, <3>1, <3>2 DEF TimerType
  <2>4. SleepListOK'
    BY <1>0, <2>1, <2>3 DEF SleepListOK, Rng
  <2>5. QED BY <2>2, <2>4 DEF TimerInv
<1>2. CASE down(t)
  <2>0. pc[t] = "down" /\ sema[t] \in Nat
    BY <1>0, <1>2 DEF down, WokenInv
  <2>1. CASE UNCHANGED <<sema, pc>>
    BY <1>0, <1>2, <2>1, SMT DEF down, TimerInv, TimerType, WokenInv, SleepListOK, Rng, Unsigned
  <2>2. CASE sema[t] > 0 /\ sema' = [sema EXCEPT ![t] = @ - 1] /\ pc' = [pc EXCEPT ![t] = "run"]
    <3>1. UNCHANGED <<ticks, sleep_list, sleep_until>>
      BY <1>2 DEF down
    <3>2. TimerType' /\ WokenInv'
      BY <1>0, <2>0, <2>2, <3>1, SMT DEF TimerType, WokenInv
    <3>3. SleepListOK'
      <4>1. t \notin Rng(sleep_list)
        BY <1>0, <2>0, <2>2 DEF WokenInv
      <4>2. ASSUME NEW x \in Rng(sleep_list) PROVE pc'[x] = pc[x]
        BY <1>0, <2>2, <4>1, SMT DEF TimerType, Rng
      <4>3. QED BY <1>0, <3>1, <4>2 DEF SleepListOK, Rng
    <3>4. QED BY <3>2, <3>3 DEF TimerInv
  <2>3. QED BY <1>2, <2>1, <2>2 DEF down, Goto
<1>3. QED BY <1>1, <1>2

\* What the search of timer_interrupt() finds: who is due, and why it stops.
LEMMA DueFacts ==
  ASSUME TimerType, NEW now \in Nat
  PROVE  /\ Due(now) \in 0..Len(sleep_list)
         /\ \A k \in 1..Due(now) : now >= sleep_until[sleep_list[k]]
         /\ Due(now) < Len(sleep_list) => now < sleep_until[sleep_list[Due(now) + 1]]
<1> DEFINE n == Len(sleep_list)
           S == {i \in 1..n : now < sleep_until[sleep_list[i]]}
           f == First(S, n + 1)
<1>1. n \in Nat /\ S \subseteq 1..n /\ Due(now) = f - 1
  BY SMT DEF TimerType, Due
<1>2. \A k \in 1..n : sleep_until[sleep_list[k]] \in Int
  BY SMT DEF TimerType
<1> HIDE DEF S
<1>3. f \in 1..(n + 1) /\ (f <= n => f \in S) /\ \A j \in S : f <= j
  BY <1>1, FirstFacts
<1> HIDE DEF f, n
<1>4. ASSUME NEW k \in 1..(f - 1) PROVE now >= sleep_until[sleep_list[k]]
  <2>1. k \in 1..n /\ k \notin S
    BY <1>1, <1>3, SMT
  <2>2. QED BY <1>2, <2>1, SMT DEF S
<1>5. f <= n => now < sleep_until[sleep_list[f]]
  BY <1>3 DEF S
<1>6. Due(now) < n => f <= n
  BY <1>1, <1>3, SMT
<1>7. f - 1 \in 0..n /\ (f - 1) + 1 = f
  BY <1>1, <1>3, SMT
<1>8. QED BY <1>1, <1>4, <1>5, <1>6, <1>7 DEF n

\* What a tick does to the clock, the list and the semaphores.
LEMMA TickFacts ==
  ASSUME TimerInv, timer_interrupt
  PROVE  /\ ticks' \in Nat /\ ticks <= ticks' /\ ticks' <= MaxTicks
         /\ UNCHANGED <<pc, sleep_until>>
         /\ sleep_list' \in Seq(Thread)
         /\ Len(sleep_list') = Len(sleep_list) - Due(ticks')
         /\ Due(ticks') \in 0..Len(sleep_list)
         /\ \A k \in 1..Len(sleep_list') : sleep_list'[k] = sleep_list[Due(ticks') + k]
         /\ sema' = [t \in Thread |->
                       IF t \in {sleep_list[i] : i \in 1..Due(ticks')} /\ sema[t] # Zeroed
                       THEN sema[t] + 1 ELSE sema[t]]
<1>1. TimerType /\ MaxTicks \in Nat
  BY TimerAssumption DEF TimerInv
<1>2. ticks' \in Nat /\ ticks <= ticks' /\ ticks' <= MaxTicks
  BY <1>1, SMT DEF TimerType, timer_interrupt
<1>3. /\ sleep_list' = SubSeq(sleep_list, Due(ticks') + 1, Len(sleep_list))
      /\ UNCHANGED <<pc, sleep_until>>
      /\ sema' = [t \in Thread |->
                    IF t \in {sleep_list[i] : i \in 1..Due(ticks')} /\ sema[t] # Zeroed
                    THEN sema[t] + 1 ELSE sema[t]]
  BY DEF timer_interrupt
<1> DEFINE d == Due(ticks')
           n == Len(sleep_list)
<1>4. d \in 0..n /\ n \in Nat /\ \A k \in 1..n : sleep_list[k] \in Thread
  BY <1>1, <1>2, DueFacts, SMT DEF TimerType
<1> HIDE DEF d, n
<1>5. \A k \in (d + 1)..n : sleep_list[k] \in Thread
  BY <1>4, SMT
<1>6. /\ SubSeq(sleep_list, d + 1, n) \in Seq(Thread)
      /\ Len(SubSeq(sleep_list, d + 1, n)) = IF d + 1 <= n THEN n - (d + 1) + 1 ELSE 0
      /\ \A k \in 1..(n - (d + 1) + 1) : SubSeq(sleep_list, d + 1, n)[k] = sleep_list[(d + 1) + k - 1]
  BY <1>4, <1>5, SMT
<1>7. /\ (IF d + 1 <= n THEN n - (d + 1) + 1 ELSE 0) = n - d /\ n - (d + 1) + 1 = n - d
      /\ \A k \in 1..(n - d) : (d + 1) + k - 1 = d + k
  BY <1>4, SMT
<1>8. sleep_list' = SubSeq(sleep_list, d + 1, n)
  BY <1>3 DEF d, n
<1>9. Len(sleep_list') = n - d /\ \A k \in 1..Len(sleep_list') : sleep_list'[k] = sleep_list[d + k]
  BY <1>6, <1>7, <1>8
<1>10. QED BY <1>2, <1>3, <1>4, <1>6, <1>8, <1>9 DEF d, n

\* The timer interrupt takes the sleepers that are due off the front.
LEMMA TickStep ==
  ASSUME TimerInv, timer_interrupt
  PROVE  TimerInv'
<1>0. TimerType /\ SleepListOK /\ WokenInv
  BY DEF TimerInv
<1> DEFINE d == Due(ticks')
           n == Len(sleep_list)
           woken == {sleep_list[i] : i \in 1..d}
<1>1. /\ ticks' \in Nat /\ ticks <= ticks' /\ ticks' <= MaxTicks
      /\ UNCHANGED <<pc, sleep_until>> /\ sleep_list' \in Seq(Thread)
      /\ Len(sleep_list') = n - d /\ d \in 0..n /\ n \in Nat
      /\ \A k \in 1..Len(sleep_list') : sleep_list'[k] = sleep_list[d + k]
      /\ sema' = [t \in Thread |-> IF t \in woken /\ sema[t] # Zeroed THEN sema[t] + 1 ELSE sema[t]]
  BY <1>0, TickFacts, SMT DEF TimerType
<1>2. \A k \in 1..d : ticks' >= sleep_until[sleep_list[k]]
  BY <1>0, <1>1, DueFacts
<1> HIDE DEF d, n
<1>3. ASSUME NEW k \in 1..Len(sleep_list')
      PROVE  d + k \in 1..n /\ sleep_list'[k] = sleep_list[d + k]
  BY <1>1, SMT
<1>4. TimerType'
  <2>1. ASSUME NEW t \in Thread PROVE sema'[t] \in Nat \cup {Zeroed}
    BY <1>0, <1>1, SMT DEF TimerType
  <2>2. QED BY <1>0, <1>1, <2>1 DEF TimerType
<1>5. SleepListOK'
  <2>1. ASSUME NEW i \in 1..Len(sleep_list'), NEW j \in 1..Len(sleep_list'), i < j
        PROVE  /\ sleep_list'[i] # sleep_list'[j]
               /\ Unsigned(sleep_until'[sleep_list'[i]]) <= Unsigned(sleep_until'[sleep_list'[j]])
    <3>1. d + i \in 1..n /\ d + j \in 1..n /\ d + i < d + j
      BY <1>1, <1>3, <2>1, SMT
    <3>2. /\ sleep_list[d + i] # sleep_list[d + j]
          /\ Unsigned(sleep_until[sleep_list[d + i]]) <= Unsigned(sleep_until[sleep_list[d + j]])
      BY <1>0, <3>1 DEF SleepListOK, n
    <3>3. sleep_list'[i] = sleep_list[d + i] /\ sleep_list'[j] = sleep_list[d + j]
      BY <1>3
    <3>4. sleep_until' = sleep_until
      BY <1>1
    <3>5. QED BY <3>2, <3>3, <3>4
  <2>2. ASSUME NEW t \in Rng(sleep_list') PROVE pc'[t] \in {"init", "down"}
    <3>1. PICK k \in 1..Len(sleep_list') : t = sleep_list'[k]
      BY DEF Rng
    <3>2. t \in Rng(sleep_list) /\ pc' = pc
      BY <1>1, <1>3, <3>1 DEF Rng, n
    <3>3. QED BY <1>0, <3>2 DEF SleepListOK
  <2>3. QED BY <2>1, <2>2 DEF SleepListOK
<1>6. WokenInv'
  <2> SUFFICES ASSUME NEW t \in Thread, pc[t] = "down"
               PROVE  /\ sema'[t] \in Nat
                      /\ sema'[t] > 0 => ticks' >= sleep_until[t] /\ t \notin Rng(sleep_list')
    BY <1>1 DEF WokenInv
  <2>1. /\ sema[t] \in Nat /\ sema[t] # Zeroed /\ sleep_until[t] \in Int /\ ticks \in Nat
        /\ sema[t] > 0 => ticks >= sleep_until[t] /\ t \notin Rng(sleep_list)
    BY <1>0, TimerAssumption DEF WokenInv, TimerType
  <2>2. CASE t \in woken
    <3>1. PICK k \in 1..d : t = sleep_list[k]
      BY <2>2
    <3>2. ASSUME NEW j \in 1..Len(sleep_list') PROVE sleep_list'[j] # t
      <4>1. k \in 1..n /\ d + j \in 1..n /\ k < d + j
        BY <1>1, <1>3, SMT
      <4>2. QED BY <1>0, <1>3, <3>1, <4>1 DEF SleepListOK, n
    <3>3. sema'[t] \in Nat
      BY <1>1, <2>1, <2>2, SMT
    <3>4. t \notin Rng(sleep_list')
      BY <3>2 DEF Rng
    <3>5. QED BY <1>2, <3>1, <3>3, <3>4
  <2>3. CASE t \notin woken
    <3>1. sema'[t] = sema[t]
      BY <1>1, <2>3
    <3>2. Rng(sleep_list') \subseteq Rng(sleep_list)
      BY <1>3 DEF Rng, n
    <3>3. QED BY <1>1, <2>1, <3>1, <3>2, SMT
  <2>4. QED BY <2>2, <2>3
<1>7. QED BY <1>4, <1>5, <1>6 DEF TimerInv
-----------------------------------------------------------------------------
\* Before the first call nobody sleeps.
LEMMA TimerInvInit == Init => TimerInv
BY TimerAssumption, SMT DEF Init, TimerInv, TimerType, SleepListOK, WokenInv, Rng

\* Every step of a thread and of the timer keeps the invariant.
LEMMA TimerInvStep == TimerInv /\ [Next]_vars => TimerInv'
<1> SUFFICES ASSUME TimerInv, [Next]_vars PROVE TimerInv'
  OBVIOUS
<1>1. CASE UNCHANGED vars
  BY <1>1, SMT DEF vars, TimerInv, TimerType, SleepListOK, WokenInv, Rng, Unsigned
<1>2. CASE Call
  BY <1>2, SleepStep DEF Call
<1>3. CASE Tick
  BY <1>3, TickStep DEF Tick
<1>4. ASSUME NEW t \in Thread, Step(t) PROVE TimerInv'
  BY <1>4, InsertStep, SemaStep DEF Step
<1>5. QED BY <1>1, <1>2, <1>3, <1>4 DEF Next

\* sleep_list is ordered as sleep_less() says, holds no thread twice and only
\* threads that are still in timer_sleep().
THEOREM SleepListAlwaysOK == Spec => []SleepListOK
<1>1. TimerInv => SleepListOK
  BY DEF TimerInv
<1>2. QED BY <1>1, TimerInvInit, TimerInvStep, PTL DEF Spec

\* timer_sleep() returns only with a value of the semaphore, and that is there
\* only when the time has come.
LEMMA ReturnIsDue ==
  ASSUME TimerInv, [Next]_vars, NEW t \in Thread, pc[t] = "down", pc'[t] = "run"
  PROVE  ticks >= sleep_until[t]
<1>0. TimerType /\ WokenInv
  BY DEF TimerInv
<1>1. CASE UNCHANGED vars \/ Tick
  BY <1>1 DEF vars, Tick, timer_interrupt
<1>2. CASE Call
  BY <1>0, <1>2 DEF Call, timer_sleep, Goto, TimerType
<1>3. ASSUME NEW x \in Thread, Step(x) PROVE ticks >= sleep_until[t]
  <2>1. x = t
    BY <1>0, <1>3 DEF Step, insert, init_sema, down, Goto, TimerType
  <2>2. sema[t] > 0
    BY <1>0, <1>3, <2>1 DEF Step, insert, init_sema, down, Goto, TimerType
  <2>3. QED BY <1>0, <2>2 DEF WokenInv
<1>4. QED BY <1>1, <1>2, <1>3 DEF Next

\* No sleeper returns from timer_sleep() before its time, not even one that
\* asks for a negative one.
THEOREM SleepersNeverEarly == Spec => NeverEarly
<1>1. TimerInv /\ [Next]_vars =>
        [\A t \in Thread : pc[t] = "down" /\ pc'[t] = "run" => ticks >= sleep_until[t]]_vars
  BY ReturnIsDue
<1>2. QED BY <1>1, TimerInvInit, TimerInvStep, PTL DEF Spec, NeverEarly

\* If no one sleeps for a negative time, the times are in range.
LEMMA UntilInvStep ==
  ASSUME Durations \subseteq Nat
  PROVE  /\ Init => UntilInv
         /\ TimerInv /\ UntilInv /\ [Next]_vars => UntilInv'
<1>1. Init => UntilInv
  <2>1. 0 \in 0..MaxTicks
    <3>1. MaxTicks \in Nat
      BY TimerAssumption
    <3>2. QED BY <3>1, SMT
  <2>2. QED BY <2>1 DEF Init, UntilInv
<1>2. ASSUME TimerInv, UntilInv, [Next]_vars PROVE UntilInv'
  <2>1. CASE UNCHANGED sleep_until
    BY <1>2, <2>1 DEF UntilInv
  <2>2. CASE Call
    <3>1. PICK t \in Thread, d \in Durations :
            sleep_until' = [sleep_until EXCEPT ![t] = d + ticks] /\ ticks + d <= MaxTicks
      BY <2>2 DEF Call, timer_sleep
    <3>2. ticks \in Nat /\ d \in Nat /\ MaxTicks \in Nat /\ sleep_until \in [Thread -> Int]
      BY <1>2, TimerAssumption DEF TimerInv, TimerType
    <3>3. QED BY <1>2, <3>1, <3>2, SMT DEF UntilInv
  <2>3. QED BY <1>2, <2>1, <2>2 DEF Next, Step, Tick, vars, insert, init_sema, down, timer_interrupt
<1>3. QED BY <1>1, <1>2

\* Behind the first sleeper that is not due there is none that is.
LEMMA RestNotDue ==
  ASSUME TimerInv, UntilInv, timer_interrupt, NEW t \in Rng(sleep_list')
  PROVE  sleep_until[t] > ticks'
<1>0. TimerType /\ SleepListOK
  BY DEF TimerInv
<1> DEFINE d == Due(ticks')
           n == Len(sleep_list)
<1>1. /\ ticks' \in Nat /\ Len(sleep_list') = n - d /\ d \in 0..n /\ n \in Nat
      /\ \A k \in 1..Len(sleep_list') : sleep_list'[k] = sleep_list[d + k]
  BY <1>0, TickFacts, SMT DEF TimerType
<1>2. d < n => ticks' < sleep_until[sleep_list[d + 1]]
  BY <1>0, <1>1, DueFacts
<1> HIDE DEF d
<1>3. PICK k \in 1..Len(sleep_list') : t = sleep_list[d + k]
  BY <1>1 DEF Rng
<1>4. d < n /\ d + 1 \in 1..n /\ d + k \in 1..n /\ (d + 1 < d + k \/ d + 1 = d + k)
  BY <1>1, SMT
<1>5. \A j \in 1..n : /\ sleep_until[sleep_list[j]] \in 0..MaxTicks
                      /\ Unsigned(sleep_until[sleep_list[j]]) = sleep_until[sleep_list[j]]
  <2>1. ASSUME NEW j \in 1..n PROVE sleep_until[sleep_list[j]] \in 0..MaxTicks
    BY <1>0, SMT DEF UntilInv, TimerType
  <2>2. MaxTicks \in Nat
    BY TimerAssumption
  <2>3. ASSUME NEW x \in 0..MaxTicks PROVE Unsigned(x) = x
    <3>1. x \in Int
      BY <2>2, SMT
    <3>2. QED BY <3>1, UnsignedFacts
  <2>4. QED BY <2>1, <2>3
<1>6. sleep_until[sleep_list[d + 1]] <= sleep_until[sleep_list[d + k]]
  <2>1. d + 1 < d + k =>
          Unsigned(sleep_until[sleep_list[d + 1]]) <= Unsigned(sleep_until[sleep_list[d + k]])
    BY <1>0, <1>4 DEF SleepListOK
  <2>2. /\ Unsigned(sleep_until[sleep_list[d + 1]]) = sleep_until[sleep_list[d + 1]]
        /\ Unsigned(sleep_until[sleep_list[d + k]]) = sleep_until[sleep_list[d + k]]
        /\ sleep_until[sleep_list[d + 1]] \in Int
    BY <1>4, <1>5, SMT
  <2>3. QED BY <1>4, <2>1, <2>2, SMT
<1>7. sleep_until[sleep_list[d + 1]] \in Int /\ sleep_until[t] \in Int
  BY <1>3, <1>4, <1>5, SMT
<1>8. QED BY <1>1, <1>2, <1>3, <1>4, <1>6, <1>7, SMT

\* Nobody returns from timer_sleep() early, and a tick leaves no sleeper on the
\* list whose time has come, if no one calls timer_sleep() with a negative
\* argument (which sleep_less() takes for a large one).
THEOREM SleepersWakeOnTime ==
  ASSUME Durations \subseteq Nat
  PROVE  Spec => WakesOnTime
<1>1. TimerInv /\ UntilInv /\ [Next]_vars =>
        [ticks' # ticks => \A t \in Rng(sleep_list') : sleep_until[t] > ticks']_vars
  <2> SUFFICES ASSUME TimerInv, UntilInv, [Next]_vars, ticks' # ticks,
                      NEW t \in Rng(sleep_list')
               PROVE  sleep_until[t] > ticks'
    OBVIOUS
  <2>1. timer_interrupt
    BY DEF Next, Call, Step, Tick, vars, timer_sleep, insert, init_sema, down
  <2>2. QED BY <2>1, RestNotDue
<1>2. (Init => UntilInv) /\ (TimerInv /\ UntilInv /\ [Next]_vars => UntilInv')
  BY UntilInvStep
<1>3. Spec => ExpiredWoken
  BY <1>1, <1>2, TimerInvInit, TimerInvStep, PTL DEF Spec, ExpiredWoken
<1>4. QED BY <1>3, SleepersNeverEarly, PTL DEF WakesOnTime

-----------------------------------------------------------------------------
(***************************************************************************)
(* The synchronized list of threads/synchlist.c on the condition variables *)
(* of threads/synch.c, for any number of threads and any programs: items   *)
(* leave the list in the order they came, and cond_signal() finds every    *)
(* waiter's semaphore on the stack of a thread that is in cond_wait().     *)
(***************************************************************************)

Item == Worker \X Nat
Places == {"idle", "lock", "relock", "push", "signal", "broadcast", "test", "pop", "unlock",
           "wait", "wait_release", "down"}
Inside == {"push", "signal", "broadcast", "test", "pop", "unlock", "wait", "wait_release"}

MonitorType ==
  /\ wpc \in [Worker -> Places] /\ calls \in [Worker -> Nat]
  /\ sl_lock \in Worker \cup {NoWorker}
  /\ sl_list \in Seq(Item) /\ appended \in Seq(Item) /\ removed \in Seq(Item)
  /\ sl_empty \in Seq(Worker) /\ waiter \in [Worker -> Nat]

\* Between the acquire and the release a thread holds the lock, and it is in
\* a call of its program that is not sl_destroy().
LockInv ==
  \A t \in Worker : /\ wpc[t] \in Inside => sl_lock = t
                    /\ wpc[t] # "idle" => calls[t] < Len(Program[t]) /\ Operation(t) # "destroy"

\* A listed thread is in cond_wait() and was not signalled yet.
WaitInv ==
  /\ \A i \in 1..Len(sl_empty) : /\ wpc[sl_empty[i]] \in {"wait_release", "down"}
                                 /\ waiter[sl_empty[i]] = 0
  /\ \A i, j \in 1..Len(sl_empty) : sl_empty[i] = sl_empty[j] => i = j

MonitorInv == MonitorType /\ LockInv /\ WaitInv /\ FirstInFirstOut
-----------------------------------------------------------------------------

\* A removed item was the first of those that were in the list.
LEMMA PopInOrder ==
  ASSUME NEW S, NEW r \in Seq(S), NEW s \in Seq(S), s # <<>>
  PROVE  r \o s = Append(r, Head(s)) \o Tail(s)
<1>1. /\ Head(s) \in S /\ Tail(s) \in Seq(S) /\ Len(Tail(s)) = Len(s) - 1
      /\ \A i \in 1..Len(Tail(s)) : Tail(s)[i] = s[i + 1]
  BY SMT
<1>2. Append(r, Head(s)) \in Seq(S) /\ Len(Append(r, Head(s))) = Len(r) + 1
  BY <1>1, SMT
<1> DEFINE a == r \o s
           b == Append(r, Head(s)) \o Tail(s)
<1>3. a \in Seq(S) /\ Len(a) = Len(r) + Len(s)
  BY SMT
<1>4. b \in Seq(S) /\ Len(b) = Len(r) + Len(s)
  <2>1. b \in Seq(S) /\ Len(b) = Len(Append(r, Head(s))) + Len(Tail(s))
    BY <1>1, <1>2, SMT
  <2>2. QED BY <1>1, <1>2, <2>1, SMT
<1>5. ASSUME NEW i \in 1..Len(a) PROVE a[i] = b[i]
  <2>1. CASE i <= Len(r)
    BY <1>1, <1>2, <1>3, <1>4, <2>1, SMT
  <2>2. CASE i = Len(r) + 1
    BY <1>1, <1>2, <1>3, <1>4, <2>2, SMT
  <2>3. CASE i > Len(r) + 1
    BY <1>1, <1>2, <1>3, <1>4, <2>3, SMT
  <2>4. QED BY <2>1, <2>2, <2>3, <1>3, SMT
<1> HIDE DEF a, b
<1>6. a = b
  BY <1>3, <1>4, <1>5, SMT
<1>7. QED BY <1>6 DEF a, b

\* An appended item becomes the last of those that are in the list.
LEMMA PushInOrder ==
  ASSUME NEW r \in Seq(Item), NEW s \in Seq(Item), NEW x \in Item
  PROVE  Append(r \o s, x) = r \o Append(s, x)
<1> DEFINE a == Append(r \o s, x)
           b == r \o Append(s, x)
<1>1. a \in Seq(Item) /\ Len(a) = Len(r) + Len(s) + 1
  BY SMT
<1>2. b \in Seq(Item) /\ Len(b) = Len(r) + Len(s) + 1
  BY SMT
<1>3. ASSUME NEW i \in 1..Len(a) PROVE a[i] = b[i]
  BY <1>1, <1>2, SMT
<1> HIDE DEF a, b
<1>4. a = b
  BY <1>1, <1>2, <1>3, SMT
<1>5. QED BY <1>4 DEF a, b

\* The invariant implies what the run checks.
LEMMA MonitorInvImplies == MonitorInv => FirstInFirstOut /\ WaitersOnStack
<1> SUFFICES ASSUME MonitorInv PROVE FirstInFirstOut /\ WaitersOnStack
  OBVIOUS
<1>1. DOMAIN sl_empty = 1..Len(sl_empty)
  BY SMT DEF MonitorInv, MonitorType
<1>2. IsInjective(sl_empty)
  BY <1>1 DEF MonitorInv, WaitInv, IsInjective
<1>3. QED BY <1>2 DEF MonitorInv, LockInv, WaitInv, WaitersOnStack, Inside

\* At the start nobody is in a call and the list is empty.
LEMMA MonitorInvInit == MonitorInit => MonitorInv
<1> SUFFICES ASSUME MonitorInit PROVE MonitorInv
  OBVIOUS
<1>1. MonitorType
  BY SMT DEF MonitorInit, MonitorStart, MonitorType, Places
<1>2. LockInv /\ WaitInv
  BY SMT DEF MonitorInit, MonitorStart, LockInv, WaitInv, Inside
<1>3. FirstInFirstOut
  BY SMT DEF MonitorInit, MonitorStart, FirstInFirstOut
<1>4. QED BY <1>1, <1>2, <1>3 DEF MonitorInv
-----------------------------------------------------------------------------
\* A thread that is not in cond_wait() goes on without touching the waiters.
LEMMA WaitKept ==
  ASSUME MonitorType, WaitInv, NEW t \in Worker, wpc[t] \notin {"wait_release", "down"},
         NEW place, wpc' = [wpc EXCEPT ![t] = place], UNCHANGED <<sl_empty, waiter>>
  PROVE  WaitInv'
<1>1. ASSUME NEW i \in 1..Len(sl_empty) PROVE sl_empty[i] \in Worker /\ sl_empty[i] # t
  BY SMT DEF MonitorType, WaitInv
<1>2. ASSUME NEW i \in 1..Len(sl_empty) PROVE wpc'[sl_empty[i]] = wpc[sl_empty[i]]
  BY <1>1 DEF MonitorType
<1>3. QED BY <1>2 DEF WaitInv

\* A thread begins its next call.
LEMMA CallStep ==
  ASSUME MonitorInv, NEW t \in Worker, call(t)
  PROVE  MonitorInv'
<1>0. MonitorType /\ LockInv /\ WaitInv /\ FirstInFirstOut
  BY DEF MonitorInv
<1>1. MonitorType'
  BY <1>0 DEF MonitorType, Places, call, Continue
<1>2. LockInv'
  BY <1>0, MonitorAssumption DEF MonitorType, LockInv, Inside, Operation, call, Continue
<1>3. WaitInv'
  BY <1>0, WaitKept DEF call, Continue
<1>4. FirstInFirstOut'
  BY <1>0 DEF MonitorType, FirstInFirstOut, call, Continue
<1>5. QED BY <1>1, <1>2, <1>3, <1>4 DEF MonitorInv

\* lock_acquire(), at the start of a call and at the end of cond_wait().
LEMMA AcquireStep ==
  ASSUME MonitorInv, NEW t \in Worker, sl_acquire(t)
  PROVE  MonitorInv'
<1>0. MonitorType /\ LockInv /\ WaitInv /\ FirstInFirstOut
  BY DEF MonitorInv
<1>1. /\ wpc[t] \in {"lock", "relock"} /\ calls[t] < Len(Program[t]) /\ Operation(t) # "destroy"
      /\ sl_lock = NoWorker /\ sl_lock' = t
      /\ UNCHANGED <<calls, sl_list, sl_empty, waiter, appended, removed>>
  BY <1>0 DEF LockInv, sl_acquire
<1>2. Operation(t) \in {"append", "remove", "broadcast"}
  <2>1. Program[t] \in Seq({"append", "remove", "broadcast", "destroy"}) /\ calls[t] \in Nat
    BY <1>0, MonitorAssumption DEF MonitorType
  <2>2. calls[t] + 1 \in 1..Len(Program[t])
    BY <1>1, <2>1, SMT
  <2>3. QED BY <1>1, <2>1, <2>2, SMT DEF Operation
<1>3. PICK place \in {"test", "push", "broadcast"} : wpc' = [wpc EXCEPT ![t] = place]
  BY <1>2 DEF sl_acquire, Continue
<1>4. MonitorType'
  BY <1>0, <1>1, <1>3 DEF MonitorType, Places
<1>5. LockInv'
  BY <1>0, <1>1, <1>3, MonitorAssumption DEF MonitorType, LockInv, Inside, Operation
<1>6. WaitInv'
  BY <1>0, <1>1, <1>3, WaitKept
<1>7. FirstInFirstOut'
  BY <1>0, <1>1, <1>3 DEF MonitorType, FirstInFirstOut
<1>8. QED BY <1>4, <1>5, <1>6, <1>7 DEF MonitorInv

\* lock_release() at the end of a call.
LEMMA ReleaseStep ==
  ASSUME MonitorInv, NEW t \in Worker, lock_release(t)
  PROVE  MonitorInv'
<1>0. MonitorType /\ LockInv /\ WaitInv /\ FirstInFirstOut
  BY DEF MonitorInv
<1>1. MonitorType'
  BY <1>0, SMT DEF MonitorType, Places, lock_release, Continue
<1>2. LockInv'
  BY <1>0, MonitorAssumption DEF MonitorType, LockInv, Inside, Operation, lock_release, Continue
<1>3. WaitInv'
  BY <1>0, WaitKept DEF lock_release, Continue
<1>4. FirstInFirstOut'
  BY <1>0 DEF MonitorType, FirstInFirstOut, lock_release, Continue
<1>5. QED BY <1>1, <1>2, <1>3, <1>4 DEF MonitorInv

\* The test of sl_remove() for an empty list.
LEMMA TestStep ==
  ASSUME MonitorInv, NEW t \in Worker, sl_remove(t)
  PROVE  MonitorInv'
<1>0. MonitorType /\ LockInv /\ WaitInv /\ FirstInFirstOut
  BY DEF MonitorInv
<1>1. MonitorType'
  BY <1>0 DEF MonitorType, Places, sl_remove, Continue
<1>2. LockInv'
  BY <1>0, MonitorAssumption DEF MonitorType, LockInv, Inside, Operation, sl_remove, Continue
<1>3. WaitInv'
  BY <1>0, WaitKept DEF sl_remove, Continue
<1>4. FirstInFirstOut'
  BY <1>0 DEF MonitorType, FirstInFirstOut, sl_remove, Continue
<1>5. QED BY <1>1, <1>2, <1>3, <1>4 DEF MonitorInv

\* lock_release() in cond_wait().
LEMMA WaitReleaseStep ==
  ASSUME MonitorInv, NEW t \in Worker, wait_release(t)
  PROVE  MonitorInv'
<1>0. MonitorType /\ LockInv /\ WaitInv /\ FirstInFirstOut
  BY DEF MonitorInv
<1>1. MonitorType'
  BY <1>0 DEF MonitorType, Places, wait_release, Continue
<1>2. LockInv'
  BY <1>0, MonitorAssumption DEF MonitorType, LockInv, Inside, Operation, wait_release, Continue
<1>3. WaitInv'
  BY <1>0, SMT DEF MonitorType, WaitInv, wait_release, Continue
<1>4. FirstInFirstOut'
  BY <1>0 DEF MonitorType, FirstInFirstOut, wait_release, Continue
<1>5. QED BY <1>1, <1>2, <1>3, <1>4 DEF MonitorInv

\* list_push_back() in sl_append().
LEMMA AppendStep ==
  ASSUME MonitorInv, NEW t \in Worker, sl_append(t)
  PROVE  MonitorInv'
<1>0. MonitorType /\ LockInv /\ WaitInv /\ FirstInFirstOut
  BY DEF MonitorInv
<1>1. /\ wpc[t] = "push" /\ wpc' = [wpc EXCEPT ![t] = "signal"] /\ <<t, calls[t]>> \in Item
      /\ sl_list' = Append(sl_list, <<t, calls[t]>>) /\ appended' = Append(appended, <<t, calls[t]>>)
      /\ UNCHANGED <<calls, sl_lock, sl_empty, waiter, removed>>
  BY <1>0 DEF MonitorType, sl_append, Continue, Item
<1>2. MonitorType'
  BY <1>0, <1>1, SMT DEF MonitorType, Places
<1>3. LockInv' /\ WaitInv'
  <2>1. LockInv'
    BY <1>0, <1>1 DEF MonitorType, LockInv, Inside, Operation
  <2>2. WaitInv'
    BY <1>0, <1>1, WaitKept
  <2>3. QED BY <2>1, <2>2
<1>4. FirstInFirstOut'
  <2>1. appended' = removed' \o sl_list'
    <3>1. removed \in Seq(Item) /\ sl_list \in Seq(Item) /\ appended = removed \o sl_list
      BY <1>0 DEF MonitorType, FirstInFirstOut
    <3>2. PICK item \in Item : item = <<t, calls[t]>>
      BY <1>1
    <3>3. Append(removed \o sl_list, item) = removed \o Append(sl_list, item)
      BY <3>1, PushInOrder
    <3>4. QED BY <1>1, <3>1, <3>2, <3>3
  <2>2. sl_list' # <<>>
    BY <1>0, <1>1, SMT DEF MonitorType
  <2>3. QED BY <2>1, <2>2 DEF FirstInFirstOut
<1>5. QED BY <1>2, <1>3, <1>4 DEF MonitorInv

\* list_pop_front() in sl_remove().
LEMMA PopStep ==
  ASSUME MonitorInv, NEW t \in Worker, sl_pop(t)
  PROVE  MonitorInv'
<1>0. MonitorType /\ LockInv /\ WaitInv /\ FirstInFirstOut
  BY DEF MonitorInv
<1>1. /\ wpc[t] = "pop" /\ wpc' = [wpc EXCEPT ![t] = "unlock"] /\ sl_list # <<>>
      /\ removed' = Append(removed, Head(sl_list)) /\ sl_list' = Tail(sl_list)
      /\ UNCHANGED <<calls, sl_lock, sl_empty, waiter, appended>>
  BY DEF sl_pop, Continue
<1>2. MonitorType'
  BY <1>0, <1>1, SMT DEF MonitorType, Places
<1>3. LockInv' /\ WaitInv'
  <2>1. LockInv'
    BY <1>0, <1>1 DEF MonitorType, LockInv, Inside, Operation
  <2>2. WaitInv'
    BY <1>0, <1>1, WaitKept
  <2>3. QED BY <2>1, <2>2
<1>4. FirstInFirstOut'
  <2>1. appended' = removed' \o sl_list'
    BY <1>0, <1>1, PopInOrder DEF MonitorType, FirstInFirstOut
  <2>2. ASSUME NEW w \in Worker PROVE wpc'[w] # "pop"
    BY <1>0, <1>1 DEF MonitorType, LockInv, Inside
  <2>3. QED BY <2>1, <2>2 DEF FirstInFirstOut
<1>5. QED BY <1>2, <1>3, <1>4 DEF MonitorInv

\* cond_signal() and one turn of cond_broadcast(): the first waiter leaves the
\* list before its semaphore is raised.
LEMMA WakeFirst ==
  ASSUME MonitorInv, sl_empty # <<>>, NEW t \in Worker, wpc[t] \in {"signal", "broadcast"},
         NEW place \in {"unlock", "broadcast"}, wpc' = [wpc EXCEPT ![t] = place],
         waiter' = [waiter EXCEPT ![Head(sl_empty)] = @ + 1], sl_empty' = Tail(sl_empty),
         UNCHANGED <<calls, sl_lock, sl_list, appended, removed>>
  PROVE  MonitorInv'
<1>0. MonitorType /\ LockInv /\ WaitInv /\ FirstInFirstOut
  BY DEF MonitorInv
<1>1. /\ Head(sl_empty) = sl_empty[1] /\ Head(sl_empty) \in Worker
      /\ Tail(sl_empty) \in Seq(Worker) /\ Len(Tail(sl_empty)) = Len(sl_empty) - 1
      /\ Len(sl_empty) \in Nat \ {0}
      /\ \A i \in 1..Len(Tail(sl_empty)) : Tail(sl_empty)[i] = sl_empty[i + 1]
  <2>1. sl_empty \in Seq(Worker)
    BY <1>0 DEF MonitorType
  <2>2. QED BY <2>1, SMT
<1>2. MonitorType'
  <2>1. waiter' \in [Worker -> Nat] /\ wpc' \in [Worker -> Places]
    <3>1. waiter[Head(sl_empty)] + 1 \in Nat /\ place \in Places
      BY <1>0, <1>1, SMT DEF MonitorType, Places
    <3>2. QED BY <1>0, <1>1, <3>1 DEF MonitorType
  <2>2. QED BY <1>0, <1>1, <2>1 DEF MonitorType
<1>3. LockInv'
  BY <1>0 DEF MonitorType, LockInv, Inside, Operation
<1>4. ASSUME NEW i \in 1..Len(sl_empty')
      PROVE  /\ i + 1 \in 1..Len(sl_empty) /\ sl_empty'[i] = sl_empty[i + 1] /\ sl_empty'[i] \in Worker
             /\ sl_empty'[i] # Head(sl_empty) /\ sl_empty'[i] # t
  <2>1. i + 1 \in 1..Len(sl_empty) /\ 1 \in 1..Len(sl_empty) /\ i + 1 # 1 /\ sl_empty'[i] = sl_empty[i + 1]
    BY <1>1, SMT
  <2>2. sl_empty[i + 1] \in Worker /\ sl_empty[i + 1] # sl_empty[1]
    BY <1>0, <2>1, SMT DEF MonitorType, WaitInv
  <2>3. wpc[sl_empty[i + 1]] # wpc[t]
    BY <1>0, <2>1 DEF WaitInv
  <2>4. QED BY <1>1, <2>1, <2>2, <2>3
<1>5. WaitInv'
  <2>1. ASSUME NEW i \in 1..Len(sl_empty')
        PROVE  wpc'[sl_empty'[i]] \in {"wait_release", "down"} /\ waiter'[sl_empty'[i]] = 0
    <3>1. wpc'[sl_empty'[i]] = wpc[sl_empty[i + 1]] /\ waiter'[sl_empty'[i]] = waiter[sl_empty[i + 1]]
      BY <1>0, <1>4 DEF MonitorType
    <3>2. QED BY <1>0, <1>4, <3>1 DEF WaitInv
  <2>2. ASSUME NEW i \in 1..Len(sl_empty'), NEW j \in 1..Len(sl_empty'), sl_empty'[i] = sl_empty'[j]
        PROVE  i = j
    <3>1. i + 1 = j + 1
      BY <1>0, <1>4, <2>2 DEF WaitInv
    <3>2. QED BY <3>1, SMT
  <2>3. QED BY <2>1, <2>2 DEF WaitInv
<1>6. FirstInFirstOut'
  BY <1>0 DEF MonitorType, FirstInFirstOut
<1>7. QED BY <1>2, <1>3, <1>5, <1>6 DEF MonitorInv

\* cond_signal() and cond_broadcast() when nobody waits.
LEMMA WakeNobody ==
  ASSUME MonitorInv, NEW t \in Worker, wpc[t] \in {"signal", "broadcast"},
         wpc' = [wpc EXCEPT ![t] = "unlock"],
         UNCHANGED <<calls, sl_lock, sl_list, sl_empty, waiter, appended, removed>>
  PROVE  MonitorInv'
<1>0. MonitorType /\ LockInv /\ WaitInv /\ FirstInFirstOut
  BY DEF MonitorInv
<1>1. MonitorType'
  BY <1>0 DEF MonitorType, Places
<1>2. LockInv'
  BY <1>0 DEF MonitorType, LockInv, Inside, Operation
<1>3. WaitInv'
  BY <1>0, WaitKept
<1>4. FirstInFirstOut'
  BY <1>0 DEF MonitorType, FirstInFirstOut
<1>5. QED BY <1>1, <1>2, <1>3, <1>4 DEF MonitorInv

\* cond_signal(), called by sl_append().
LEMMA SignalStep ==
  ASSUME MonitorInv, NEW t \in Worker, cond_signal(t)
  PROVE  MonitorInv'
<1>1. CASE sl_empty = <<>>
  BY <1>1, WakeNobody DEF cond_signal, Continue
<1>2. CASE sl_empty # <<>>
  BY <1>2, WakeFirst DEF cond_signal, Continue
<1>3. QED BY <1>1, <1>2

\* One turn of cond_broadcast().
LEMMA BroadcastStep ==
  ASSUME MonitorInv, NEW t \in Worker, cond_broadcast(t)
  PROVE  MonitorInv'
<1>1. CASE sl_empty = <<>>
  BY <1>1, WakeNobody DEF cond_broadcast, Continue
<1>2. CASE sl_empty # <<>>
  <2>1. wpc[t] = "broadcast" /\ wpc' = [wpc EXCEPT ![t] = "broadcast"]
    BY <1>2 DEF cond_broadcast, MonitorInv, MonitorType
  <2>2. QED BY <1>2, <2>1, WakeFirst DEF cond_broadcast
<1>3. QED BY <1>1, <1>2

\* cond_wait() up to the release: the caller, who is in no list, is listed.
LEMMA CondWaitStep ==
  ASSUME MonitorInv, NEW t \in Worker, cond_wait(t)
  PROVE  MonitorInv'
<1>0. MonitorType /\ LockInv /\ WaitInv /\ FirstInFirstOut
  BY DEF MonitorInv
<1>1. /\ wpc[t] = "wait" /\ wpc' = [wpc EXCEPT ![t] = "wait_release"]
      /\ waiter' = [waiter EXCEPT ![t] = 0] /\ sl_empty' = Append(sl_empty, t)
      /\ UNCHANGED <<calls, sl_lock, sl_list, appended, removed>>
  BY DEF cond_wait, Continue
<1>2. /\ sl_empty \in Seq(Worker) /\ Len(sl_empty) \in Nat /\ sl_empty' \in Seq(Worker)
      /\ Len(sl_empty') = Len(sl_empty) + 1 /\ sl_empty'[Len(sl_empty) + 1] = t
      /\ \A i \in 1..Len(sl_empty) : sl_empty'[i] = sl_empty[i]
  BY <1>0, <1>1, SMT DEF MonitorType
<1>3. MonitorType'
  BY <1>0, <1>1, <1>2 DEF MonitorType, Places
<1>4. LockInv'
  BY <1>0, <1>1 DEF MonitorType, LockInv, Inside, Operation
<1>5. ASSUME NEW i \in 1..Len(sl_empty) PROVE sl_empty[i] \in Worker /\ sl_empty[i] # t
  <2>1. sl_empty[i] \in Worker
    BY <1>2, SMT
  <2>2. wpc[sl_empty[i]] # wpc[t]
    BY <1>0, <1>1 DEF WaitInv
  <2>3. QED BY <2>1, <2>2
<1>6. WaitInv'
  <2>1. ASSUME NEW i \in 1..Len(sl_empty')
        PROVE  wpc'[sl_empty'[i]] \in {"wait_release", "down"} /\ waiter'[sl_empty'[i]] = 0
    <3>1. CASE i = Len(sl_empty) + 1
      BY <1>0, <1>1, <1>2, <3>1 DEF MonitorType
    <3>2. CASE i \in 1..Len(sl_empty)
      BY <1>0, <1>1, <1>2, <1>5, <3>2 DEF MonitorType, WaitInv
    <3>3. QED BY <1>2, <3>1, <3>2, SMT
  <2>2. ASSUME NEW i \in 1..Len(sl_empty'), NEW j \in 1..Len(sl_empty'), sl_empty'[i] = sl_empty'[j]
        PROVE  i = j
    BY <1>0, <1>2, <1>5, <2>2, SMT DEF WaitInv
  <2>3. QED BY <2>1, <2>2 DEF WaitInv
<1>7. FirstInFirstOut'
  BY <1>0, <1>1 DEF MonitorType, FirstInFirstOut
<1>8. QED BY <1>3, <1>4, <1>6, <1>7 DEF MonitorInv

\* sema_down() returns in cond_wait(): the thread was signalled, so that it is
\* not listed any more.
LEMMA DownStep ==
  ASSUME MonitorInv, NEW t \in Worker, cond_down(t)
  PROVE  MonitorInv'
<1>0. MonitorType /\ LockInv /\ WaitInv /\ FirstInFirstOut
  BY DEF MonitorInv
<1>1. /\ wpc[t] = "down" /\ waiter[t] > 0 /\ wpc' = [wpc EXCEPT ![t] = "relock"]
      /\ waiter' = [waiter EXCEPT ![t] = @ - 1]
      /\ UNCHANGED <<calls, sl_lock, sl_list, sl_empty, appended, removed>>
  BY DEF cond_down, Continue
<1>2. MonitorType'
  BY <1>0, <1>1, SMT DEF MonitorType, Places
<1>3. LockInv'
  BY <1>0, <1>1 DEF MonitorType, LockInv, Inside, Operation
<1>4. ASSUME NEW i \in 1..Len(sl_empty) PROVE sl_empty[i] \in Worker /\ sl_empty[i] # t
  BY <1>0, <1>1, SMT DEF MonitorType, WaitInv
<1>5. WaitInv'
  BY <1>0, <1>1, <1>4 DEF MonitorType, WaitInv
<1>6. FirstInFirstOut'
  BY <1>0, <1>1 DEF MonitorType, FirstInFirstOut
<1>7. QED BY <1>2, <1>3, <1>5, <1>6 DEF MonitorInv

\* sl_destroy() empties the list when no other thread is in a call.
LEMMA DestroyStep ==
  ASSUME MonitorInv, NEW t \in Worker, sl_destroy(t)
  PROVE  MonitorInv'
<1>0. MonitorType /\ LockInv /\ WaitInv /\ FirstInFirstOut
  BY DEF MonitorInv
<1>1. /\ wpc[t] = "idle" /\ calls[t] < Len(Program[t])
      /\ \A w \in Worker \ {t} : calls[w] = Len(Program[w])
      /\ sl_list' = <<>> /\ removed' = removed \o sl_list /\ calls' = [calls EXCEPT ![t] = @ + 1]
      /\ UNCHANGED <<wpc, sl_lock, sl_empty, waiter, appended>>
  BY DEF sl_destroy
<1>2. ASSUME NEW w \in Worker PROVE wpc[w] = "idle"
  <2>1. Len(Program[w]) \in Nat /\ calls[w] \in Nat
    BY <1>0, MonitorAssumption, SMT DEF MonitorType
  <2>2. QED BY <1>0, <1>1, <2>1, SMT DEF LockInv
<1>3. removed \o sl_list \in Seq(Item) /\ (removed \o sl_list) \o <<>> = removed \o sl_list
  BY <1>0, SMT DEF MonitorType
<1>4. MonitorType'
  BY <1>0, <1>1, <1>3, SMT DEF MonitorType
<1>5. LockInv'
  BY <1>0, <1>1, <1>2 DEF LockInv, Inside
<1>6. WaitInv'
  BY <1>0, <1>1 DEF WaitInv
<1>7. FirstInFirstOut'
  BY <1>0, <1>1, <1>2, <1>3 DEF FirstInFirstOut
<1>8. QED BY <1>4, <1>5, <1>6, <1>7 DEF MonitorInv
-----------------------------------------------------------------------------
\* Every step of every thread keeps the invariant.
LEMMA MonitorInvStep == MonitorInv /\ [MonitorNext]_mvars => MonitorInv'
<1> SUFFICES ASSUME MonitorInv, [MonitorNext]_mvars PROVE MonitorInv'
  OBVIOUS
<1>1. CASE UNCHANGED mvars
  BY <1>1 DEF mvars, MonitorInv, MonitorType, LockInv, WaitInv, FirstInFirstOut, Operation
<1>2. ASSUME NEW t \in Worker, WorkerStep(t) PROVE MonitorInv'
  BY <1>2, CallStep, AcquireStep, ReleaseStep, AppendStep, SignalStep, BroadcastStep, TestStep,
     PopStep, CondWaitStep, WaitReleaseStep, DownStep, DestroyStep DEF WorkerStep
<1>3. QED BY <1>1, <1>2 DEF MonitorNext

\* Items leave a synchronized list in the order in which they were appended,
\* whoever appends, removes and broadcasts, and nobody pops an empty list.
THEOREM AlwaysFirstInFirstOut == MonitorSpec => []FirstInFirstOut
<1>1. MonitorInv => FirstInFirstOut
  BY MonitorInvImplies
<1>2. QED BY <1>1, MonitorInvInit, MonitorInvStep, PTL DEF MonitorSpec

\* A semaphore in the list of a condition variable is on the stack of a
\* thread that is still in cond_wait().
THEOREM WaitersAlwaysOnStack == MonitorSpec => []WaitersOnStack
<1>1. MonitorInv => WaitersOnStack
  BY MonitorInvImplies
<1>2. QED BY <1>1, MonitorInvInit, MonitorInvStep, PTL DEF MonitorSpec

-----------------------------------------------------------------------------
(***************************************************************************)
(* The links of the lists of lib/kernel/list.c mirror each other, for any  *)
(* number of lists and elements.  The other operations of list.c change    *)
(* links only through list_insert(), list_remove() and list_splice(), and  *)
(* the lemmas are about these three.                                       *)
(***************************************************************************)

Links == [prev : [Node -> Node \cup {NULL}], next : [Node -> Node \cup {NULL}]]

\* LinksMirror, of any links L and any set K of elements that are in a list.
Mirror(L, K) ==
  /\ \A n \in K \cup Heads : L.next[n] \in K \cup Tails /\ L.prev[L.next[n]] = n
  /\ \A n \in K \cup Tails : L.prev[n] \in K \cup Heads /\ L.next[L.prev[n]] = n
  /\ \A n \in Heads : L.prev[n] = NULL
  /\ \A n \in Tails : L.next[n] = NULL

\* own tells the list that a node belongs to, and neighbours are in one list.
\* Without it the head of one list could be linked to the tail of another,
\* and list_pop_front() could remove that tail.
OwnedBy(own, L, K) ==
  /\ \A l \in List : own[head[l]] = l /\ own[tail[l]] = l
  /\ \A n \in K \cup Heads : own[L.next[n]] = own[n]
Separate(L, K) == \E own \in [Node -> List \cup {NULL}] : OwnedBy(own, L, K)

ListInv ==
  /\ links \in Links /\ linked \subseteq Elem
  /\ Mirror(links, linked) /\ Separate(links, linked)
-----------------------------------------------------------------------------

\* list_init() makes every list empty: its head and its tail are neighbours.
LEMMA InitMirror == list_init \in Links /\ Mirror(list_init, {})
<1> DEFINE P == list_init.prev
           N == list_init.next
<1>1. /\ \A n \in Node : P[n] = IF n \in Tails THEN head[CHOOSE l \in List : tail[l] = n] ELSE NULL
      /\ \A n \in Node : N[n] = IF n \in Heads THEN tail[CHOOSE l \in List : head[l] = n] ELSE NULL
  BY DEF list_init
<1>2. ASSUME NEW l \in List
      PROVE  /\ (CHOOSE k \in List : tail[k] = tail[l]) = l
             /\ (CHOOSE k \in List : head[k] = head[l]) = l
  <2>1. PICK a \in List : a = (CHOOSE k \in List : tail[k] = tail[l]) /\ tail[a] = tail[l]
    OBVIOUS
  <2>2. PICK b \in List : b = (CHOOSE k \in List : head[k] = head[l]) /\ head[b] = head[l]
    OBVIOUS
  <2>3. QED BY <2>1, <2>2, ListAssumption
<1>3. /\ \A l \in List : tail[l] \in Tails /\ head[l] \in Heads
      /\ Tails \subseteq Node /\ Heads \subseteq Node /\ Heads \cap Tails = {}
  BY ListAssumption DEF Node, Heads, Tails
<1>4. ASSUME NEW l \in List PROVE P[tail[l]] = head[l] /\ N[head[l]] = tail[l]
  <2>1. P[tail[l]] = head[CHOOSE k \in List : tail[k] = tail[l]]
    BY <1>1, <1>3
  <2>2. N[head[l]] = tail[CHOOSE k \in List : head[k] = head[l]]
    BY <1>1, <1>3
  <2>3. QED BY <1>2, <2>1, <2>2
<1>5. ASSUME NEW n \in Heads
      PROVE  N[n] \in Tails /\ P[N[n]] = n /\ P[n] = NULL
  <2>1. PICK l \in List : n = head[l]
    BY DEF Heads
  <2>2. P[n] = NULL
    BY <1>1, <1>3
  <2>3. QED BY <1>3, <1>4, <2>1, <2>2
<1>6. ASSUME NEW n \in Tails
      PROVE  P[n] \in Heads /\ N[P[n]] = n /\ N[n] = NULL
  <2>1. PICK l \in List : n = tail[l]
    BY DEF Tails
  <2>2. N[n] = NULL
    BY <1>1, <1>3
  <2>3. QED BY <1>3, <1>4, <2>1, <2>2
<1>7. list_init \in Links
  <2>1. ASSUME NEW n \in Node PROVE P[n] \in Node \cup {NULL} /\ N[n] \in Node \cup {NULL}
    BY <1>1, <1>3, <1>5, <1>6
  <2>2. QED BY <2>1 DEF Links, list_init
<1>8. Mirror(list_init, {})
  BY <1>5, <1>6 DEF Mirror
<1>9. QED BY <1>7, <1>8

\* list_insert() of an element that is in no list, before an element that is
\* in one or before a tail.
LEMMA InsertMirror ==
  ASSUME NEW L \in Links, NEW K \in SUBSET Elem, Mirror(L, K),
         NEW before \in K \cup Tails, NEW e \in Elem \ K
  PROVE  list_insert(L, before, e) \in Links /\ Mirror(list_insert(L, before, e), K \cup {e})
<1> DEFINE M == list_insert(L, before, e)
           p == L.prev[before]
<1>1. /\ L.prev \in [Node -> Node \cup {NULL}] /\ L.next \in [Node -> Node \cup {NULL}]
      /\ K \subseteq Node /\ Heads \subseteq Node /\ Tails \subseteq Node /\ e \in Node /\ before \in Node
  BY DEF Links, Node
<1>2. e \notin Heads /\ e \notin Tails /\ Heads \cap Tails = {} /\ K \cap Heads = {} /\ K \cap Tails = {}
  BY ListAssumption
<1>3. p \in K \cup Heads /\ L.next[p] = before /\ p \in Node /\ p # e /\ before # e
  BY <1>1, <1>2, SMT DEF Mirror
<1>4. \A n \in Node : /\ M.prev[n] = IF n = before THEN e ELSE IF n = e THEN p ELSE L.prev[n]
                      /\ M.next[n] = IF n = p THEN e ELSE IF n = e THEN before ELSE L.next[n]
  BY <1>1, <1>3 DEF list_insert
<1>5. M \in Links
  BY <1>1, <1>3 DEF list_insert, Links
<1>6. ASSUME NEW n \in K \cup {e} \cup Heads
      PROVE  M.next[n] \in K \cup {e} \cup Tails /\ M.prev[M.next[n]] = n
  BY <1>1, <1>2, <1>3, <1>4, SMT DEF Mirror
<1>7. ASSUME NEW n \in K \cup {e} \cup Tails
      PROVE  M.prev[n] \in K \cup {e} \cup Heads /\ M.next[M.prev[n]] = n
  BY <1>1, <1>2, <1>3, <1>4, SMT DEF Mirror
<1>8. (\A n \in Heads : M.prev[n] = NULL) /\ \A n \in Tails : M.next[n] = NULL
  BY <1>1, <1>2, <1>3, <1>4, SMT DEF Mirror
<1>9. QED BY <1>5, <1>6, <1>7, <1>8 DEF Mirror

\* list_remove() of an element that is in a list.
LEMMA RemoveMirror ==
  ASSUME NEW L \in Links, NEW K \in SUBSET Elem, Mirror(L, K), NEW e \in K
  PROVE  list_remove(L, e) \in Links /\ Mirror(list_remove(L, e), K \ {e})
<1> DEFINE M == list_remove(L, e)
           p == L.prev[e]
           q == L.next[e]
<1>1. /\ L.prev \in [Node -> Node \cup {NULL}] /\ L.next \in [Node -> Node \cup {NULL}]
      /\ K \subseteq Node /\ Heads \subseteq Node /\ Tails \subseteq Node /\ e \in Node
  BY DEF Links, Node
<1>2. Heads \cap Tails = {} /\ K \cap Heads = {} /\ K \cap Tails = {}
  BY ListAssumption
<1>3. /\ p \in K \cup Heads /\ L.next[p] = e /\ p \in Node
      /\ q \in K \cup Tails /\ L.prev[q] = e /\ q \in Node
  BY <1>1 DEF Mirror
<1>4. \A n \in Node : /\ M.prev[n] = IF n = q THEN p ELSE L.prev[n]
                      /\ M.next[n] = IF n = p THEN q ELSE L.next[n]
  BY <1>1, <1>3 DEF list_remove
<1>5. M \in Links
  BY <1>1, <1>3 DEF list_remove, Links
<1>6. ASSUME NEW n \in (K \ {e}) \cup Heads
      PROVE  M.next[n] \in (K \ {e}) \cup Tails /\ M.prev[M.next[n]] = n
  BY <1>1, <1>2, <1>3, <1>4, SMT DEF Mirror
<1>7. ASSUME NEW n \in (K \ {e}) \cup Tails
      PROVE  M.prev[n] \in (K \ {e}) \cup Heads /\ M.next[M.prev[n]] = n
  BY <1>1, <1>2, <1>3, <1>4, SMT DEF Mirror
<1>8. (\A n \in Heads : M.prev[n] = NULL) /\ \A n \in Tails : M.next[n] = NULL
  BY <1>1, <1>2, <1>3, <1>4, SMT DEF Mirror
<1>9. QED BY <1>5, <1>6, <1>7, <1>8 DEF Mirror

\* list_splice() of the elements from first to last, before a node outside
\* them: cutting them out joins their neighbours, and they are put between
\* two nodes that are neighbours by then.
THEOREM SpliceMirror ==
  ASSUME NEW L \in Links, NEW K \in SUBSET Elem, Mirror(L, K),
         NEW first \in K, NEW last \in K, NEW before \in K \cup Tails,
         before # first
  PROVE  Relink(L, before, first, last) \in Links /\ Mirror(Relink(L, before, first, last), K)
<1> DEFINE P == L.prev[first]
           Q == L.next[last]
           X == [prev |-> [L.prev EXCEPT ![Q] = P], next |-> [L.next EXCEPT ![P] = Q]]
           B == X.prev[before]
           M == Relink(L, before, first, last)
<1>1. /\ L.prev \in [Node -> Node \cup {NULL}] /\ L.next \in [Node -> Node \cup {NULL}]
      /\ K \subseteq Node /\ Heads \subseteq Node /\ Tails \subseteq Node
      /\ first \in Node /\ last \in Node /\ before \in Node
  BY DEF Links, Node
<1>2. Heads \cap Tails = {} /\ K \cap Heads = {} /\ K \cap Tails = {}
  BY ListAssumption
<1>3. /\ P \in K \cup Heads /\ L.next[P] = first /\ P \in Node
      /\ Q \in K \cup Tails /\ L.prev[Q] = last /\ Q \in Node
  BY <1>1 DEF Mirror
<1>4. \A n \in Node : /\ X.prev[n] = IF n = Q THEN P ELSE L.prev[n]
                      /\ X.next[n] = IF n = P THEN Q ELSE L.next[n]
  BY <1>1, <1>3
<1>5. B \in K \cup Heads /\ B \in Node /\ X.next[B] = before
  BY <1>1, <1>2, <1>3, <1>4, SMT DEF Mirror
<1>6. \A n \in Node : /\ M.prev[n] = IF n = before THEN last ELSE IF n = first THEN B ELSE X.prev[n]
                      /\ M.next[n] = IF n = B THEN first ELSE IF n = last THEN before ELSE X.next[n]
  BY <1>1, <1>3, <1>4, <1>5 DEF Relink
<1>7. M \in Links
  BY <1>1, <1>3, <1>5 DEF Relink, Links
<1>8. ASSUME NEW n \in K \cup Heads
      PROVE  M.next[n] \in K \cup Tails /\ M.prev[M.next[n]] = n
  BY <1>1, <1>2, <1>3, <1>4, <1>5, <1>6, SMT DEF Mirror
<1>9. ASSUME NEW n \in K \cup Tails
      PROVE  M.prev[n] \in K \cup Heads /\ M.next[M.prev[n]] = n
  BY <1>1, <1>2, <1>3, <1>4, <1>5, <1>6, SMT DEF Mirror
<1>10. (\A n \in Heads : M.prev[n] = NULL) /\ \A n \in Tails : M.next[n] = NULL
  BY <1>1, <1>2, <1>3, <1>4, <1>5, <1>6, SMT DEF Mirror
<1>11. QED BY <1>7, <1>8, <1>9, <1>10 DEF Mirror
-----------------------------------------------------------------------------
\* The lists that list_init() makes are separate.
LEMMA InitSeparate == Separate(list_init, {})
<1> DEFINE own == [n \in Node |-> IF n \in Heads THEN CHOOSE l \in List : head[l] = n
                                  ELSE IF n \in Tails THEN CHOOSE l \in List : tail[l] = n
                                  ELSE NULL]
<1>1. /\ \A l \in List : tail[l] \in Tails /\ head[l] \in Heads
      /\ Tails \subseteq Node /\ Heads \subseteq Node /\ Heads \cap Tails = {}
  BY ListAssumption DEF Node, Heads, Tails
<1>2. ASSUME NEW l \in List
      PROVE  /\ (CHOOSE k \in List : tail[k] = tail[l]) = l
             /\ (CHOOSE k \in List : head[k] = head[l]) = l
  <2>1. PICK a \in List : a = (CHOOSE k \in List : tail[k] = tail[l]) /\ tail[a] = tail[l]
    OBVIOUS
  <2>2. PICK b \in List : b = (CHOOSE k \in List : head[k] = head[l]) /\ head[b] = head[l]
    OBVIOUS
  <2>3. QED BY <2>1, <2>2, ListAssumption
<1>3. ASSUME NEW l \in List PROVE own[head[l]] = l /\ own[tail[l]] = l
  <2>1. own[head[l]] = CHOOSE k \in List : head[k] = head[l]
    BY <1>1
  <2>2. own[tail[l]] = CHOOSE k \in List : tail[k] = tail[l]
    BY <1>1
  <2>3. QED BY <1>2, <2>1, <2>2
<1>4. ASSUME NEW n \in Heads PROVE own[list_init.next[n]] = own[n]
  <2>1. PICK l \in List : n = head[l]
    BY DEF Heads
  <2>2. list_init.next[head[l]] = tail[CHOOSE k \in List : head[k] = head[l]]
    BY <1>1 DEF list_init
  <2>3. list_init.next[head[l]] = tail[l]
    BY <1>2, <2>2
  <2> HIDE DEF own
  <2>4. QED BY <1>3, <2>1, <2>3
<1>5. own \in [Node -> List \cup {NULL}]
  <2>1. ASSUME NEW n \in Node PROVE own[n] \in List \cup {NULL}
    <3>1. CASE n \in Heads
      BY <1>1, <1>3, <3>1, SMT DEF Heads
    <3>2. CASE n \in Tails
      BY <1>1, <1>3, <3>2, SMT DEF Tails
    <3>3. QED BY <3>1, <3>2
  <2>2. QED BY <2>1
<1>6. OwnedBy(own, list_init, {})
  <2> HIDE DEF own
  <2>1. QED BY <1>3, <1>4 DEF OwnedBy
<1>7. QED BY <1>5, <1>6 DEF Separate

\* An element that list_insert() inserts joins the list of its neighbour.
LEMMA InsertSeparate ==
  ASSUME NEW L \in Links, NEW K \in SUBSET Elem, Mirror(L, K), Separate(L, K),
         NEW before \in K \cup Tails, NEW e \in Elem \ K
  PROVE  Separate(list_insert(L, before, e), K \cup {e})
<1> DEFINE M == list_insert(L, before, e)
           p == L.prev[before]
<1>1. PICK own \in [Node -> List \cup {NULL}] : OwnedBy(own, L, K)
  BY DEF Separate
<1> DEFINE now == [own EXCEPT ![e] = own[before]]
<1>2. /\ L.prev \in [Node -> Node \cup {NULL}] /\ L.next \in [Node -> Node \cup {NULL}]
      /\ K \subseteq Node /\ Heads \subseteq Node /\ Tails \subseteq Node /\ e \in Node /\ before \in Node
  BY DEF Links, Node
<1>3. e \notin Heads /\ e \notin Tails /\ K \cap Heads = {} /\ K \cap Tails = {}
  BY ListAssumption
<1>4. p \in K \cup Heads /\ L.next[p] = before /\ p \in Node /\ p # e /\ before # e
  BY <1>2, <1>3, SMT DEF Mirror
<1>5. \A n \in Node : M.next[n] = IF n = p THEN e ELSE IF n = e THEN before ELSE L.next[n]
  BY <1>2, <1>4 DEF list_insert
<1>6. now \in [Node -> List \cup {NULL}] /\ \A n \in Node : now[n] = IF n = e THEN own[before] ELSE own[n]
  BY <1>1, <1>2
<1>7. ASSUME NEW l \in List PROVE now[head[l]] = l /\ now[tail[l]] = l
  <2>1. head[l] \in Heads /\ tail[l] \in Tails
    BY DEF Heads, Tails
  <2>2. QED BY <1>1, <1>2, <1>3, <1>6, <2>1 DEF OwnedBy
<1>8. ASSUME NEW n \in K \cup {e} \cup Heads PROVE now[M.next[n]] = now[n]
  <2>1. CASE n = p
    BY <1>1, <1>2, <1>4, <1>5, <1>6, <2>1, SMT DEF OwnedBy
  <2>2. CASE n = e
    BY <1>2, <1>4, <1>5, <1>6, <2>2
  <2>3. CASE n # p /\ n # e
    <3>1. L.next[n] \in K \cup Tails /\ M.next[n] = L.next[n] /\ own[L.next[n]] = own[n]
      BY <1>1, <1>2, <1>5, <2>3 DEF Mirror, OwnedBy
    <3>2. QED BY <1>2, <1>3, <1>6, <2>3, <3>1
  <2>4. QED BY <2>1, <2>2, <2>3
<1>9. OwnedBy(now, M, K \cup {e})
  BY <1>7, <1>8 DEF OwnedBy
<1>10. QED BY <1>6, <1>9 DEF Separate

\* list_remove() joins two nodes of one list.
LEMMA RemoveSeparate ==
  ASSUME NEW L \in Links, NEW K \in SUBSET Elem, Mirror(L, K), Separate(L, K), NEW e \in K
  PROVE  Separate(list_remove(L, e), K \ {e})
<1> DEFINE M == list_remove(L, e)
           p == L.prev[e]
<1>1. PICK own \in [Node -> List \cup {NULL}] : OwnedBy(own, L, K)
  BY DEF Separate
<1>2. /\ L.next \in [Node -> Node \cup {NULL}]
      /\ K \subseteq Node /\ Heads \subseteq Node /\ Tails \subseteq Node /\ e \in Node
  BY DEF Links, Node
<1>3. p \in K \cup Heads /\ L.next[p] = e /\ p \in Node
  BY <1>2 DEF Mirror
<1>4. \A n \in Node : M.next[n] = IF n = p THEN L.next[e] ELSE L.next[n]
  BY <1>2, <1>3 DEF list_remove
<1>5. ASSUME NEW n \in (K \ {e}) \cup Heads PROVE own[M.next[n]] = own[n]
  BY <1>1, <1>2, <1>3, <1>4, SMT DEF OwnedBy
<1>6. OwnedBy(own, M, K \ {e})
  BY <1>1, <1>5 DEF OwnedBy
<1>7. QED BY <1>1, <1>6 DEF Separate
-----------------------------------------------------------------------------
\* The invariant implies LinksMirror.
LEMMA MirrorIsLinksMirror == ListInv => LinksMirror
<1> SUFFICES ASSUME ListInv PROVE LinksMirror
  OBVIOUS
<1>1. NULL \notin Node /\ Heads \subseteq Node /\ Tails \subseteq Node /\ linked \subseteq Node
  BY ListAssumption DEF Node, ListInv
<1>2. ASSUME NEW n \in Heads PROVE is_head(links, n)
  BY <1>1, SMT DEF is_head, ListInv, Mirror
<1>3. ASSUME NEW n \in Tails PROVE is_tail(links, n)
  BY <1>1, SMT DEF is_tail, ListInv, Mirror
<1>4. QED BY <1>2, <1>3 DEF LinksMirror, ListInv, Mirror

\* Every operation keeps the invariant.
LEMMA ListInvStep == ListInv /\ [PrimitiveNext]_lvars => ListInv'
<1> SUFFICES ASSUME ListInv, [PrimitiveNext]_lvars PROVE ListInv'
  OBVIOUS
<1>0. links \in Links /\ linked \in SUBSET Elem /\ Mirror(links, linked) /\ Separate(links, linked)
  BY DEF ListInv
<1>1. ASSUME NEW e \in Elem \ linked, NEW before \in linked \cup Tails,
             links' = list_insert(links, before, e), linked' = linked \cup {e}
      PROVE  ListInv'
  <2>1. /\ list_insert(links, before, e) \in Links
        /\ Mirror(list_insert(links, before, e), linked \cup {e})
    BY <1>0, InsertMirror
  <2>2. Separate(list_insert(links, before, e), linked \cup {e})
    BY <1>0, InsertSeparate
  <2>3. QED BY <1>0, <1>1, <2>1, <2>2, SMT DEF ListInv, Mirror, Separate, OwnedBy
<1>2. ASSUME NEW e \in linked, links' = list_remove(links, e), linked' = linked \ {e}
      PROVE  ListInv'
  <2>1. /\ list_remove(links, e) \in Links
        /\ Mirror(list_remove(links, e), linked \ {e})
    BY <1>0, RemoveMirror
  <2>2. Separate(list_remove(links, e), linked \ {e})
    BY <1>0, RemoveSeparate
  <2>3. QED BY <1>0, <1>2, <2>1, <2>2, SMT DEF ListInv, Mirror, Separate, OwnedBy
<1>3. ASSUME NEW l \in List
      PROVE  /\ tail[l] \in Tails /\ list_begin(links, l) \in linked \cup Tails
             /\ ~list_empty(links, l) => /\ list_begin(links, l) \in linked
                                         /\ list_rbegin(links, l) \in linked
  <2> DEFINE front == list_begin(links, l)
             back  == list_rbegin(links, l)
  <2>1. head[l] \in Heads /\ tail[l] \in Tails
    BY DEF Heads, Tails
  <2>2. PICK own \in [Node -> List \cup {NULL}] : OwnedBy(own, links, linked)
    BY <1>0 DEF Separate
  <2>3. front \in linked \cup Tails /\ own[front] = l
    BY <1>0, <2>1, <2>2 DEF Mirror, OwnedBy, list_begin
  <2>4. back \in linked \cup Heads /\ links.next[back] = tail[l] /\ own[back] = l
    BY <1>0, <2>1, <2>2, SMT DEF Mirror, OwnedBy, list_rbegin
  <2>5. ASSUME front \in Tails PROVE list_empty(links, l)
    <3>1. PICK k \in List : front = tail[k]
      BY <2>5 DEF Tails
    <3>2. QED BY <2>2, <2>3, <3>1 DEF OwnedBy, list_empty, list_end
  <2>6. ASSUME back \in Heads PROVE list_empty(links, l)
    <3>1. PICK k \in List : back = head[k]
      BY <2>6 DEF Heads
    <3>2. k = l
      BY <2>2, <2>4, <3>1 DEF OwnedBy
    <3>3. QED BY <2>4, <3>1, <3>2 DEF list_empty, list_begin, list_end
  <2>7. QED BY <2>1, <2>3, <2>4, <2>5, <2>6
<1>4. CASE UNCHANGED lvars
  BY <1>0, <1>4, SMT DEF ListInv, lvars, Mirror, Separate, OwnedBy
<1>5. ASSUME NEW e \in Elem, NEW before \in Node, Insert(before, e) PROVE ListInv'
  BY <1>1, <1>5 DEF Insert
<1>6. ASSUME NEW e \in Elem, NEW l \in List, list_push_front(l, e) PROVE ListInv'
  BY <1>1, <1>3, <1>6 DEF list_push_front
<1>7. ASSUME NEW e \in Elem, NEW l \in List, list_push_back(l, e) PROVE ListInv'
  BY <1>1, <1>3, <1>7 DEF list_push_back, list_end
<1>8. ASSUME NEW e \in Elem, Detach(e) PROVE ListInv'
  BY <1>2, <1>8 DEF Detach
<1>9. ASSUME NEW l \in List, list_pop_front(l) PROVE ListInv'
  BY <1>2, <1>3, <1>9 DEF list_pop_front
<1>10. ASSUME NEW l \in List, list_pop_back(l) PROVE ListInv'
  BY <1>2, <1>3, <1>10 DEF list_pop_back
<1>11. QED BY <1>4, <1>5, <1>6, <1>7, <1>8, <1>9, <1>10 DEF PrimitiveNext

\* However many lists and elements there are, and in whatever order they are
\* inserted, pushed, removed and popped, the links of list.c agree and
\* list_pop_front() and list_pop_back() take an element of their own list.
THEOREM LinksAlwaysMirror == PrimitiveSpec => []LinksMirror
<1>1. ListInit => ListInv
  <2>1. SUFFICES ASSUME ListInit PROVE ListInv
    OBVIOUS
  <2>2. links = list_init /\ linked = {}
    BY <2>1 DEF ListInit
  <2>3. QED BY <2>2, InitMirror, InitSeparate DEF ListInv
<1>2. QED BY <1>1, ListInvStep, MirrorIsLinksMirror, PTL DEF PrimitiveSpec
=============================================================================
