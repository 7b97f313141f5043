----------------------------- MODULE MutexSpec -----------------------------
(***************************************************************************)
(* What a lock of threads/synch.h promises: a thread gets the lock only    *)
(* when nobody owns it, and only its owner gives it back.                  *)
(***************************************************************************)
CONSTANTS Thread, Lock
VARIABLE owner   \* the set of threads that own each lock

Init == owner = [l \in Lock |-> {}]

Acquire(t, l) == owner[l] = {}  /\ owner' = [owner EXCEPT ![l] = {t}]
Release(t, l) == owner[l] = {t} /\ owner' = [owner EXCEPT ![l] = {}]

Next == \E t \in Thread, l \in Lock : Acquire(t, l) \/ Release(t, l)
Spec == Init /\ [][Next]_owner
=============================================================================
