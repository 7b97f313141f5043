------------------------------ MODULE MCFiles ------------------------------
(***************************************************************************)
(* The file system: names, inodes and sectors (FileSys), and the bytes of  *)
(* one inode (FileIO).  `part' says which of the two a behaviour           *)
(* exercises.  Struct inodes are interchangeable.                          *)
(***************************************************************************)
EXTENDS FileSys, FileIO, TLC

Symmetry == Permutations(Id)

VARIABLE part

FilesInit == part \in {"names", "bytes"} /\ Init /\ IOInit
FilesNext ==
  \/ part = "names" /\ Next /\ UNCHANGED <<iovars, part>>
  \/ part = "bytes" /\ IONext /\ UNCHANGED <<vars, part>>
FilesSpec == FilesInit /\ [][FilesNext]_<<vars, iovars, part>>
=============================================================================
