------------------------------- MODULE MCDisk -------------------------------
(***************************************************************************)
(* Disk with the initial thread and one other, two disks of two sectors.   *)
(***************************************************************************)
EXTENDS Disk

CONSTANT t1

MCDiskThread == {main_thread, t1}
=============================================================================
