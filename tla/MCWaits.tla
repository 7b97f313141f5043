------------------------------ MODULE MCWaits ------------------------------
(***************************************************************************)
(* Two ways in which one thread waits for another: exec and wait, on the   *)
(* semaphore in the record that parent and child share (Process), and      *)
(* sl_remove(), on the condition variable of a synchronized list           *)
(* (Monitor).  `part' says which of the two a behaviour exercises; the     *)
(* other has nothing to do.                                                *)
(***************************************************************************)
EXTENDS Process, Monitor

MCWorker == {"c1", "c2", "p1", "p2"}
MCProgram == [c1 |-> <<"remove", "remove">>, c2 |-> <<"remove">>,
              p1 |-> <<"append", "append", "append", "destroy">>, p2 |-> <<"broadcast", "append">>]

VARIABLE part

WaitsInit ==
  \/ part = "processes" /\ Init /\ MonitorUnused
  \/ part = "list" /\ ProcessUnused /\ MonitorInit
WaitsNext ==
  \/ part = "processes" /\ Next /\ UNCHANGED <<mvars, part>>
  \/ part = "list" /\ MonitorNext /\ UNCHANGED <<vars, part>>
WaitsSpec ==
  WaitsInit /\ [][WaitsNext]_<<vars, mvars, part>> /\ ProcessFair /\ MonitorFair
=============================================================================
