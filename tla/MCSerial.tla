------------------------------ MODULE MCSerial ------------------------------
(***************************************************************************)
(* Serial on small instances.  Readers are interchangeable, and so are     *)
(* the writers other than main; with liveness no symmetry is used.         *)
(***************************************************************************)
EXTENDS Serial

CONSTANTS r1, r2, w1, w2

MCReader == {r1, r2}
MCWriter == {w1, w2}
=============================================================================
