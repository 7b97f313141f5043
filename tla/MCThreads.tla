----------------------------- MODULE MCThreads -----------------------------
(* Model-checking instances of Threads. *)
EXTENDS Threads, TLC

\* Threads other than main and idle are interchangeable.
Symmetry == Permutations(Thread \ {main, idle})
=============================================================================
