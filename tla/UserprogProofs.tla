--------------------------- MODULE UserprogProofs ---------------------------
(***************************************************************************)
(* The descriptor tables of userprog/syscall.c, for any number of          *)
(* processes, descriptors and files: every struct file is closed exactly   *)
(* once, and a descriptor keeps its file.                                  *)
(***************************************************************************)
EXTENDS Syscalls, TLAPS

\* Where the kernel keeps a pointer to a struct file: in a descriptor, or in
\* the local variable of a close that is under way (slot -1).
Slot == Fd \cup {-1}
Holds(p, s, f) ==
  \/ s = -1 /\ handle[p] = f
  \/ s \in fd_map[p] /\ file_names[p][s] = f /\ (upc[p] = "exit" => s >= fd[p])

Running(p) == upc[p] \in {"user", "open", "close"}

\* The table of every process: free descriptors are null pointers, and a
\* running process has been told of every file it has.
TableInv ==
  \A p \in Caller :
    /\ upc[p] \in {"none", "dead"} => fd_map[p] = {}
    /\ upc[p] = "open" => fd[p] \in fd_map[p] /\ file_names[p][fd[p]] = NoFile
    /\ handle[p] # NoFile => upc[p] = "close"
    /\ \A d \in Fd : /\ file_names[p][d] # NoFile => d \in fd_map[p]
                     /\ granted[p][d] # NoFile => Running(p)
                     /\ Running(p) => (file_names[p][d] # NoFile <=> granted[p][d] # NoFile)
                     /\ granted[p][d] = NoFile => moved[p][d] = 0

\* A struct file is in memory exactly while one slot holds it.
OwnerInv ==
  /\ \A p \in Caller, s \in Slot, f \in File : Holds(p, s, f) => inode_of[f] # NoFile
  /\ \A p, q \in Caller, s, r \in Slot, f \in File :
       Holds(p, s, f) /\ Holds(q, r, f) => p = q /\ s = r
  /\ \A f \in File : inode_of[f] # NoFile => \E p \in Caller, s \in Slot : Holds(p, s, f)

\* What a running process was told is what the kernel has.
ToldInv ==
  \A p \in Caller, d \in Fd : granted[p][d] # NoFile =>
    /\ inode_of[file_names[p][d]] = granted[p][d]
    /\ pos[file_names[p][d]] = moved[p][d]

CallInv == TypeOK /\ TableInv /\ OwnerInv /\ ToldInv
-----------------------------------------------------------------------------
(* First-order reasoning closes most leaves; the ones about numbers,       *)
(* records and sequences cite SMT.                                         *)
USE Zenon

\* Facts about the numbers that stand for descriptors.
LEMMA SlotFacts ==
  /\ MapSize \in Nat /\ MapSize >= 2 /\ Length \in Nat
  /\ Fd \subseteq Nat /\ -1 \notin Fd /\ 0 \in Fd /\ 1 \in Fd
  /\ \A d \in Fd : d >= 0 /\ d < MapSize /\ d \in Slot
BY SyscallsAssumption, SMT DEF Fd, Slot

\* The invariant implies that each file has one owner.
LEMMA OwnerImpliesOnce == CallInv => FilesOwnedOnce
<1> SUFFICES ASSUME CallInv PROVE FilesOwnedOnce
  OBVIOUS
<1>0. TypeOK /\ TableInv /\ OwnerInv
  BY DEF CallInv
<1>1. ASSUME NEW p \in Caller, NEW f \in File, NEW d \in Reaches(p, f)
      PROVE  d \in Slot /\ d # -1 /\ Holds(p, d, f)
  <2>1. d \in Fd
    BY <1>0 DEF TypeOK, Reaches
  <2>2. QED BY <2>1, SlotFacts DEF Reaches, Holds
<1>2. ASSUME NEW p \in Caller, NEW f \in File, NEW s \in Slot, Holds(p, s, f)
      PROVE  s \in Reaches(p, f) \/ handle[p] = f
  BY <1>2 DEF Holds, Reaches
<1>3. ASSUME NEW p \in Caller, NEW f \in File, handle[p] = f
      PROVE  -1 \in Slot /\ Holds(p, -1, f)
  BY <1>3 DEF Holds, Slot
<1>4. ASSUME NEW p \in Caller, NEW f \in File, Reaches(p, f) # {} \/ handle[p] = f
      PROVE  inode_of[f] # NoFile
  BY <1>0, <1>1, <1>3, <1>4 DEF OwnerInv
<1>5. ASSUME NEW p \in Caller, NEW q \in Caller, NEW f \in File,
             NEW d \in Reaches(p, f), NEW e \in Reaches(q, f)
      PROVE  p = q /\ d = e
  BY <1>0, <1>1, SMT DEF OwnerInv
<1>6. ASSUME NEW p \in Caller, NEW q \in Caller, handle[p] # NoFile
      PROVE  Reaches(q, handle[p]) = {} /\ (handle[p] = handle[q] => p = q)
  <2>1. handle[p] \in File
    BY <1>0, <1>6 DEF TypeOK
  <2>2. Holds(p, -1, handle[p]) /\ -1 \in Slot
    BY <1>3, <2>1
  <2>3. ASSUME NEW d \in Reaches(q, handle[p]) PROVE FALSE
    BY <1>0, <1>1, <2>1, <2>2, <2>3, SMT DEF OwnerInv
  <2>4. ASSUME handle[p] = handle[q] PROVE p = q
    <3>1. Holds(q, -1, handle[p])
      BY <2>4 DEF Holds
    <3>2. QED BY <1>0, <2>1, <2>2, <3>1 DEF OwnerInv
  <2>5. QED BY <2>3, <2>4
<1>7. ASSUME NEW f \in File, inode_of[f] # NoFile
      PROVE  \E p \in Caller : Reaches(p, f) # {} \/ handle[p] = f
  <2>1. PICK p \in Caller, s \in Slot : Holds(p, s, f)
    BY <1>0, <1>7 DEF OwnerInv
  <2>2. QED BY <1>2, <2>1
<1>8. QED BY <1>4, <1>5, <1>6, <1>7 DEF FilesOwnedOnce

\* The invariant implies that a descriptor keeps its file.
LEMMA ToldImpliesMeans == CallInv => DescriptorMeansFile
<1> SUFFICES ASSUME CallInv, NEW p \in Caller, NEW d \in Fd, granted[p][d] # NoFile
             PROVE  /\ fd_ok(p, d) /\ file_names[p][d] # NoFile
                    /\ inode_of[file_names[p][d]] = granted[p][d]
                    /\ pos[file_names[p][d]] = moved[p][d]
  BY DEF DescriptorMeansFile
<1>1. file_names[p][d] # NoFile /\ d \in fd_map[p]
  BY DEF CallInv, TableInv
<1>2. fd_ok(p, d)
  BY <1>1, SlotFacts DEF fd_ok
<1>3. QED BY <1>1, <1>2 DEF CallInv, ToldInv
-----------------------------------------------------------------------------
\* At the start no process has a table and no file is open.
LEMMA CallInvInit == CallInit => CallInv
<1> SUFFICES ASSUME CallInit PROVE CallInv
  OBVIOUS
<1>1. TypeOK
  <2>1. panicked \in BOOLEAN
    BY Zenon DEF CallInit
  <2>2. /\ 0 \in 0..MapSize /\ 0 \in 0..Length /\ 0 \in Nat
    BY SlotFacts, SMT
  <2>3. QED BY <2>1, <2>2 DEF CallInit, TypeOK
<1>2. TableInv
  BY DEF CallInit, TableInv, Running
<1>3. OwnerInv
  <2>1. ASSUME NEW p \in Caller, NEW s \in Slot, NEW f \in File PROVE ~Holds(p, s, f)
    BY SyscallsAssumption DEF CallInit, Holds
  <2>2. QED BY <2>1 DEF CallInit, OwnerInv
<1>4. ToldInv
  BY DEF CallInit, ToldInv
<1>5. QED BY <1>1, <1>2, <1>3, <1>4 DEF CallInv
-----------------------------------------------------------------------------
\* A step that changes nothing but panicked, such as a failed thread_create(),
\* SYS_HALT or the use of a null pointer, keeps the invariant.
LEMMA PanicStep ==
  ASSUME CallInv, panicked' \in BOOLEAN, UNCHANGED <<upc, fd, handle, table, files, told>>
  PROVE  CallInv'
<1>0. TypeOK /\ TableInv /\ OwnerInv /\ ToldInv
  BY DEF CallInv
<1>1. TypeOK'
  BY <1>0, Zenon DEF TypeOK, table, files, told
<1>2. TableInv'
  BY <1>0 DEF TableInv, Running, table, told
<1>3. OwnerInv'
  BY <1>0, SMT DEF OwnerInv, Holds, table, files
<1>4. ToldInv'
  BY <1>0 DEF ToldInv, table, files, told
<1>5. QED BY <1>1, <1>2, <1>3, <1>4 DEF CallInv

\* thread_create() fills a table that was empty.
LEMMA ThreadCreateStep ==
  ASSUME CallInv, NEW p \in Caller, thread_create(p)
  PROVE  CallInv'
<1>0. TypeOK /\ TableInv /\ OwnerInv /\ ToldInv
  BY DEF CallInv
<1>1. CASE panicked' = TRUE /\ UNCHANGED <<upc, table>>
  BY <1>1, PanicStep DEF thread_create
<1>2. CASE /\ upc' = [upc EXCEPT ![p] = "user"]
           /\ fd_map' = [fd_map EXCEPT ![p] = {0, 1}]
           /\ file_names' = [file_names EXCEPT ![p] = [d \in Fd |-> NoFile]]
           /\ UNCHANGED panicked
  <2>1. upc[p] \in {"none", "dead"} /\ UNCHANGED <<fd, handle, inode_of, pos, granted, moved>>
    BY DEF thread_create, files, told
  <2>2. fd_map[p] = {} /\ \A d \in Fd : file_names[p][d] = NoFile
    BY <1>0, <2>1 DEF TableInv
  <2>3. TypeOK'
    BY <1>0, <1>2, <2>1, SlotFacts DEF TypeOK
  <2>4. ASSUME NEW q \in Caller, NEW s \in Slot, NEW f \in File
        PROVE  Holds(q, s, f)' <=> Holds(q, s, f)
    <3>1. CASE q # p
      BY <1>0, <1>2, <2>1, <3>1 DEF TypeOK, Holds
    <3>2. CASE q = p
      BY <1>0, <1>2, <2>1, <2>2, <3>2, SlotFacts, SyscallsAssumption DEF TypeOK, Holds, Slot
    <3>3. QED BY <3>1, <3>2
  <2>5. TableInv'
    BY <1>0, <1>2, <2>1, <2>2, SlotFacts, SMT DEF TypeOK, TableInv, Running
  <2>6. OwnerInv'
    BY <1>0, <2>1, <2>4, SMT DEF OwnerInv
  <2>7. ToldInv'
    BY <1>0, <1>2, <2>1, <2>2, SMT DEF TypeOK, TableInv, Running, ToldInv
  <2>8. QED BY <2>3, <2>5, <2>6, <2>7 DEF CallInv
<1>3. QED BY <1>1, <1>2 DEF thread_create, GoOn

\* The descriptor that SYS_OPEN takes has no file yet.
LEMMA OpenScanStep ==
  ASSUME CallInv, NEW p \in Caller, open_scan(p)
  PROVE  CallInv'
<1>0. TypeOK /\ TableInv /\ OwnerInv /\ ToldInv
  BY DEF CallInv
<1>1. TypeOK'
  BY <1>0, SlotFacts, SMT DEF TypeOK, open_scan, GoOn, files, told, Fd
<1>2. ASSUME NEW q \in Caller, NEW s \in Slot, NEW f \in File
      PROVE  Holds(q, s, f)' <=> Holds(q, s, f)
  BY <1>0, SlotFacts, SyscallsAssumption, SMT DEF TypeOK, TableInv, Holds, Slot, open_scan, GoOn, files, told
<1>3. TableInv'
  BY <1>0, SlotFacts, SMT DEF TypeOK, TableInv, Running, open_scan, GoOn, files, told
<1>4. OwnerInv'
  BY <1>0, <1>2, SMT DEF OwnerInv, open_scan, files
<1>5. ToldInv'
  BY <1>0, SMT DEF TypeOK, TableInv, Running, ToldInv, open_scan, GoOn, files, told
<1>6. QED BY <1>1, <1>3, <1>4, <1>5 DEF CallInv

\* The rest of SYS_OPEN gives the descriptor a file that nobody holds.
LEMMA OpenFileStep ==
  ASSUME CallInv, NEW p \in Caller, NEW n \in Name, open_file(p, n)
  PROVE  CallInv'
<1>0. TypeOK /\ TableInv /\ OwnerInv /\ ToldInv
  BY DEF CallInv
<1>1. /\ upc[p] = "open" /\ upc' = [upc EXCEPT ![p] = "user"] /\ fd' = [fd EXCEPT ![p] = 0]
      /\ UNCHANGED <<handle, fd_map, panicked>>
  BY DEF open_file, GoOn
<1>2. /\ fd[p] \in Fd /\ fd[p] \in fd_map[p] /\ file_names[p][fd[p]] = NoFile /\ granted[p][fd[p]] = NoFile
      /\ moved[p][fd[p]] = 0
  BY <1>0, <1>1 DEF TypeOK, TableInv, Running
<1>3. CASE UNCHANGED <<inode_of, pos, file_names, granted, moved>>
  <2>1. TypeOK'
    BY <1>0, <1>1, <1>3, SlotFacts, SMT DEF TypeOK
  <2>2. ASSUME NEW q \in Caller, NEW s \in Slot, NEW f \in File
        PROVE  Holds(q, s, f)' <=> Holds(q, s, f)
    BY <1>0, <1>1, <1>3 DEF TypeOK, Holds
  <2>3. TableInv'
    BY <1>0, <1>1, <1>3, SMT DEF TypeOK, TableInv, Running
  <2>4. OwnerInv' /\ ToldInv'
    BY <1>0, <1>3, <2>2, SMT DEF OwnerInv, ToldInv
  <2>5. QED BY <2>1, <2>3, <2>4 DEF CallInv
<1>4. ASSUME NEW new \in File, inode_of[new] = NoFile,
             inode_of' = [inode_of EXCEPT ![new] = n], pos' = [pos EXCEPT ![new] = 0],
             file_names' = [file_names EXCEPT ![p][fd[p]] = new],
             granted' = [granted EXCEPT ![p][fd[p]] = n], UNCHANGED moved
      PROVE  CallInv'
  <2>1. TypeOK'
    <3>1. file_names' \in [Caller -> [Fd -> File \cup {NoFile}]]
      BY <1>0, <1>2, <1>4 DEF TypeOK
    <3>2. granted' \in [Caller -> [Fd -> Name \cup {NoFile}]]
      BY <1>0, <1>2, <1>4 DEF TypeOK
    <3>3. QED BY <1>0, <1>1, <1>4, <3>1, <3>2, SlotFacts, SMT DEF TypeOK
  <2>2. \A q \in Caller, d \in Fd :
          /\ file_names'[q][d] = IF q = p /\ d = fd[p] THEN new ELSE file_names[q][d]
          /\ granted'[q][d] = IF q = p /\ d = fd[p] THEN n ELSE granted[q][d]
    BY <1>0, <1>2, <1>4 DEF TypeOK
  <2>3. ASSUME NEW q \in Caller, NEW s \in Slot, NEW f \in File
        PROVE  Holds(q, s, f)' <=> IF f = new THEN q = p /\ s = fd[p] ELSE Holds(q, s, f)
    <3>1. ~Holds(q, s, new)
      BY <1>0, <1>4 DEF OwnerInv
    <3>2. CASE s = -1
      BY <1>0, <1>1, <1>2, <3>1, <3>2, SlotFacts DEF TypeOK, Holds
    <3>3. CASE s \in Fd
      BY <1>0, <1>1, <1>2, <2>2, <3>1, <3>3, SlotFacts, SyscallsAssumption, SMT DEF TypeOK, Holds
    <3>4. QED BY <3>2, <3>3 DEF Slot
  <2>4. TableInv'
    BY <1>0, <1>1, <1>2, <1>4, <2>2, SyscallsAssumption, SMT DEF TypeOK, TableInv, Running
  <2>5. OwnerInv'
    <3>1. fd[p] \in Slot /\ n # NoFile
      BY <1>2, SyscallsAssumption DEF Slot
    <3>2. \A f \in File : inode_of'[f] = IF f = new THEN n ELSE inode_of[f]
      BY <1>0, <1>4 DEF TypeOK
    <3>3. QED BY <1>0, <2>3, <3>1, <3>2, SMT DEF OwnerInv
  <2>6. ToldInv'
    <3>1. ASSUME NEW q \in Caller, NEW d \in Fd, granted'[q][d] # NoFile, q # p \/ d # fd[p]
          PROVE  /\ inode_of'[file_names'[q][d]] = granted'[q][d]
                 /\ pos'[file_names'[q][d]] = moved'[q][d]
      <4>1. file_names[q][d] \in File /\ inode_of[file_names[q][d]] = granted[q][d] /\ granted[q][d] # NoFile
        BY <1>0, <2>2, <3>1, SMT DEF TypeOK, TableInv, ToldInv
      <4>2. QED BY <1>0, <1>4, <2>2, <3>1, <4>1, SMT DEF TypeOK, ToldInv
    <3>2. inode_of'[new] = n /\ pos'[new] = 0
      BY <1>0, <1>4 DEF TypeOK
    <3>3. QED BY <1>2, <1>4, <2>2, <3>1, <3>2, SMT DEF ToldInv
  <2>7. QED BY <2>1, <2>4, <2>5, <2>6 DEF CallInv
<1>5. QED BY <1>3, <1>4 DEF open_file, files, told

\* A transfer moves the position of a file that only this descriptor holds.
LEMMA TransferStep ==
  ASSUME CallInv, NEW p \in Caller, NEW d \in Int, NEW size \in Nat,
         upc[p] = "user", fd_ok(p, d), Transfer(p, d, size),
         UNCHANGED <<upc, fd, handle, table, inode_of, granted>>
  PROVE  CallInv'
<1> DEFINE g == file_names[p][d]
<1>0. TypeOK /\ TableInv /\ OwnerInv /\ ToldInv
  BY DEF CallInv
<1>1. d \in Fd /\ d \in fd_map[p]
  BY <1>0 DEF fd_ok, TypeOK
<1>2. CASE g = NoFile
  <2>1. panicked' = TRUE /\ UNCHANGED <<pos, moved>>
    BY <1>2 DEF Transfer
  <2>2. QED BY <2>1, PanicStep DEF files, told
<1>3. ASSUME g # NoFile, NEW k \in Nat, pos[g] + k <= Length, pos' = [pos EXCEPT ![g] = @ + k],
             moved' = [moved EXCEPT ![p][d] = @ + k], UNCHANGED panicked
      PROVE  CallInv'
  <2>1. g \in File /\ granted[p][d] # NoFile
    BY <1>0, <1>1, <1>3, SMT DEF TypeOK, TableInv, Running
  <2>2. TypeOK'
    <3>1. pos[g] \in 0..Length /\ moved[p][d] \in Nat
      BY <1>0, <1>1, <2>1 DEF TypeOK
    <3>2. pos[g] + k \in 0..Length /\ moved[p][d] + k \in Nat
      BY <1>3, <3>1, SlotFacts, SMT
    <3>3. pos' \in [File -> 0..Length]
      BY <1>0, <1>3, <2>1, <3>2 DEF TypeOK
    <3>4. moved' \in [Caller -> [Fd -> Nat]]
      BY <1>0, <1>1, <1>3, <3>2 DEF TypeOK
    <3>5. QED BY <1>0, <1>3, <3>3, <3>4 DEF TypeOK, table
  <2>3. \A q \in Caller, e \in Fd : moved'[q][e] = IF q = p /\ e = d THEN moved[p][d] + k ELSE moved[q][e]
    BY <1>0, <1>1, <1>3 DEF TypeOK
  <2>4. TableInv'
    BY <1>0, <2>1, <2>3, SMT DEF TableInv, Running, table
  <2>5. OwnerInv'
    BY <1>0, SMT DEF OwnerInv, Holds, table
  <2>6. ToldInv'
    <3>1. ASSUME NEW q \in Caller, NEW e \in Fd, granted[q][e] # NoFile, file_names[q][e] = g
          PROVE  q = p /\ e = d
      <4>1. upc[q] # "exit" /\ e \in fd_map[q]
        BY <1>0, <2>1, <3>1, <1>3 DEF TableInv, Running
      <4>2. Holds(q, e, g) /\ Holds(p, d, g) /\ e \in Slot /\ d \in Slot
        BY <1>1, <3>1, <4>1, SlotFacts DEF Holds
      <4>3. QED BY <1>0, <2>1, <4>2, SMT DEF OwnerInv
    <3>2. ASSUME NEW q \in Caller, NEW e \in Fd, granted[q][e] # NoFile
          PROVE  pos'[file_names[q][e]] = moved'[q][e]
      <4>1. file_names[q][e] \in File /\ pos[file_names[q][e]] = moved[q][e]
        BY <1>0, <3>2, SMT DEF TypeOK, TableInv, ToldInv
      <4>2. CASE q = p /\ e = d
        BY <1>0, <1>3, <2>3, <4>1, <4>2 DEF TypeOK
      <4>3. CASE ~(q = p /\ e = d)
        <5>1. file_names[q][e] # g
          BY <3>1, <3>2, <4>3
        <5>2. QED BY <1>0, <1>3, <2>3, <4>1, <4>3, <5>1 DEF TypeOK
      <4>4. QED BY <4>2, <4>3
    <3>3. QED BY <1>0, <3>2 DEF ToldInv, table
  <2>7. QED BY <2>2, <2>4, <2>5, <2>6 DEF CallInv
<1>4. CASE g # NoFile
  <2> DEFINE k == IF size < Length - pos[g] THEN size ELSE Length - pos[g]
  <2>1. g \in File /\ pos[g] \in 0..Length
    BY <1>0, <1>1, <1>4, SMT DEF TypeOK
  <2>2. k \in Nat /\ pos[g] + k <= Length
    BY <2>1, SlotFacts, SMT
  <2>3. /\ pos' = [pos EXCEPT ![g] = @ + k] /\ moved' = [moved EXCEPT ![p][d] = @ + k]
        /\ UNCHANGED panicked
    BY <1>4 DEF Transfer
  <2> HIDE DEF k
  <2>4. QED BY <1>3, <1>4, <2>2, <2>3
<1>5. QED BY <1>2, <1>4

\* SYS_CLOSE moves the file from the descriptor to the handler's variable.
LEMMA CloseStep ==
  ASSUME CallInv, NEW p \in Caller, NEW d \in Int, sys_close(p, d)
  PROVE  CallInv'
<1>0. TypeOK /\ TableInv /\ OwnerInv /\ ToldInv
  BY DEF CallInv
<1>1. /\ upc[p] = "user" /\ d \in Fd /\ d \in fd_map[p] /\ handle[p] = NoFile
      /\ upc' = [upc EXCEPT ![p] = "close"] /\ handle' = [handle EXCEPT ![p] = file_names[p][d]]
      /\ fd_map' = [fd_map EXCEPT ![p] = @ \ {d}]
      /\ file_names' = [file_names EXCEPT ![p][d] = NoFile]
      /\ granted' = [granted EXCEPT ![p][d] = NoFile] /\ moved' = [moved EXCEPT ![p][d] = 0]
      /\ UNCHANGED <<fd, inode_of, pos, panicked>>
  BY <1>0 DEF TypeOK, TableInv, fd_ok, sys_close, GoOn, files
<1>2. TypeOK'
  <2>1. /\ file_names' \in [Caller -> [Fd -> File \cup {NoFile}]]
        /\ granted' \in [Caller -> [Fd -> Name \cup {NoFile}]]
    BY <1>0, <1>1 DEF TypeOK
  <2>2. moved' \in [Caller -> [Fd -> Nat]]
    BY <1>0, <1>1 DEF TypeOK
  <2>3. QED BY <1>0, <1>1, <2>1, <2>2, SMT DEF TypeOK
<1>3. \A q \in Caller, e \in Fd :
        /\ file_names'[q][e] = IF q = p /\ e = d THEN NoFile ELSE file_names[q][e]
        /\ granted'[q][e] = IF q = p /\ e = d THEN NoFile ELSE granted[q][e]
        /\ moved'[q][e] = IF q = p /\ e = d THEN 0 ELSE moved[q][e]
  BY <1>0, <1>1 DEF TypeOK
<1>4. ASSUME NEW q \in Caller, NEW s \in Slot, NEW f \in File
      PROVE  Holds(q, s, f)' <=> IF q = p /\ s = -1 THEN Holds(p, d, f)
                                 ELSE IF q = p /\ s = d THEN FALSE ELSE Holds(q, s, f)
  <2>1. CASE s = -1
    BY <1>0, <1>1, <2>1, SlotFacts, SyscallsAssumption DEF TypeOK, Holds
  <2>2. CASE s \in Fd
    BY <1>0, <1>1, <1>3, <2>2, SlotFacts, SyscallsAssumption, SMT DEF TypeOK, Holds
  <2>3. QED BY <2>1, <2>2 DEF Slot
<1>5. TableInv'
  BY <1>0, <1>1, <1>3, SlotFacts, SMT DEF TypeOK, TableInv, Running
<1>6. OwnerInv'
  <2>1. \A f \in File : ~Holds(p, -1, f)
    BY <1>0, <1>1, SlotFacts, SyscallsAssumption DEF TypeOK, Holds
  <2>2. d \in Slot /\ -1 \in Slot /\ d # -1
    BY <1>1, SlotFacts DEF Slot
  <2>3. ASSUME NEW q \in Caller, NEW s \in Slot, NEW f \in File, Holds(q, s, f)'
        PROVE  inode_of'[f] # NoFile
    BY <1>0, <1>1, <1>4, <2>2, <2>3 DEF OwnerInv
  <2>4. ASSUME NEW q \in Caller, NEW r \in Caller, NEW s \in Slot, NEW t \in Slot, NEW f \in File,
               Holds(q, s, f)', Holds(r, t, f)'
        PROVE  q = r /\ s = t
    BY <1>0, <1>4, <2>2, <2>4, SMT DEF OwnerInv
  <2>5. ASSUME NEW f \in File, inode_of'[f] # NoFile
        PROVE  \E q \in Caller, s \in Slot : Holds(q, s, f)'
    <3>1. PICK q \in Caller, s \in Slot : Holds(q, s, f)
      BY <1>0, <1>1, <2>5 DEF OwnerInv
    <3>2. CASE q = p /\ s = d
      BY <1>4, <2>2, <3>1, <3>2
    <3>3. CASE ~(q = p /\ s = d)
      BY <1>4, <2>1, <3>1, <3>3
    <3>4. QED BY <3>2, <3>3
  <2>6. QED BY <2>3, <2>4, <2>5 DEF OwnerInv
<1>7. ToldInv'
  BY <1>0, <1>1, <1>3, SMT DEF ToldInv
<1>8. QED BY <1>2, <1>5, <1>6, <1>7 DEF CallInv

\* What FreeFile() frees is no longer held, and the others are held as before.
LEMMA FreeOwner ==
  ASSUME OwnerInv, TypeOK, NEW g \in File \cup {NoFile}, FreeFile(g),
         \A q \in Caller, s \in Slot, f \in File : Holds(q, s, f)' <=> f # g /\ Holds(q, s, f)
  PROVE  OwnerInv' /\ inode_of' \in [File -> Name \cup {NoFile}] /\ pos' \in [File -> 0..Length]
<1>1. \A f \in File : inode_of'[f] = IF f = g THEN NoFile ELSE inode_of[f]
  BY DEF FreeFile
<1>2. OwnerInv'
  BY <1>1, SMT DEF OwnerInv
<1>3. inode_of' \in [File -> Name \cup {NoFile}]
  BY DEF FreeFile, TypeOK
<1>4. pos' \in [File -> 0..Length]
  BY SlotFacts, SMT DEF FreeFile, TypeOK
<1>5. QED BY <1>2, <1>3, <1>4

\* file_close() at the end of SYS_CLOSE.
LEMMA FileCloseStep ==
  ASSUME CallInv, NEW p \in Caller, file_close(p)
  PROVE  CallInv'
<1>0. TypeOK /\ TableInv /\ OwnerInv /\ ToldInv
  BY DEF CallInv
<1>1. /\ upc[p] = "close" /\ FreeFile(handle[p]) /\ handle[p] \in File \cup {NoFile}
      /\ upc' = [upc EXCEPT ![p] = "user"] /\ handle' = [handle EXCEPT ![p] = NoFile]
      /\ UNCHANGED <<fd, fd_map, file_names, panicked, granted, moved>>
  BY <1>0 DEF TypeOK, file_close, GoOn, table, told
<1>2. handle[p] \in File => Holds(p, -1, handle[p])
  BY DEF Holds
<1>3. ASSUME NEW q \in Caller, NEW s \in Slot, NEW f \in File
      PROVE  Holds(q, s, f)' <=> f # handle[p] /\ Holds(q, s, f)
  <2>1. CASE f = handle[p]
    <3>1. ASSUME Holds(q, s, f)' PROVE Holds(q, s, f) /\ ~(q = p /\ s = -1)
      BY <1>0, <1>1, <3>1, SlotFacts, SyscallsAssumption DEF TypeOK, Holds, Slot
    <3>2. QED BY <1>0, <1>2, <2>1, <3>1 DEF OwnerInv, Slot
  <2>2. CASE f # handle[p]
    BY <1>0, <1>1, <2>2, SyscallsAssumption, SMT DEF TypeOK, Holds
  <2>3. QED BY <2>1, <2>2
<1>4. OwnerInv' /\ inode_of' \in [File -> Name \cup {NoFile}] /\ pos' \in [File -> 0..Length]
  BY <1>0, <1>1, <1>3, FreeOwner
<1>5. TypeOK'
  BY <1>0, <1>1, <1>4 DEF TypeOK
<1>6. TableInv'
  BY <1>0, <1>1, SMT DEF TypeOK, TableInv, Running
<1>7. ToldInv'
  <2>1. ASSUME NEW q \in Caller, NEW d \in Fd, granted[q][d] # NoFile
        PROVE  file_names[q][d] \in File /\ file_names[q][d] # handle[p]
    <3>1. file_names[q][d] \in File /\ d \in fd_map[q] /\ upc[q] # "exit"
      BY <1>0, <2>1, SMT DEF TypeOK, TableInv, Running
    <3>2. Holds(q, d, file_names[q][d]) /\ d \in Slot /\ d # -1
      BY <3>1, SlotFacts DEF Holds
    <3>3. QED BY <1>0, <1>2, <3>1, <3>2, SMT DEF OwnerInv, Slot
  <2>2. QED BY <1>0, <1>1, <2>1 DEF ToldInv, FreeFile
<1>8. QED BY <1>4, <1>5, <1>6, <1>7 DEF CallInv

\* A process that exits still reaches every file of its table.
LEMMA LeaveStep ==
  ASSUME CallInv, NEW p \in Caller, leave(p)
  PROVE  CallInv'
<1>0. TypeOK /\ TableInv /\ OwnerInv /\ ToldInv
  BY DEF CallInv
<1>1. /\ upc[p] = "user" /\ upc' = [upc EXCEPT ![p] = "exit"] /\ fd' = [fd EXCEPT ![p] = 0]
      /\ granted' = [granted EXCEPT ![p] = [d \in Fd |-> NoFile]]
      /\ moved' = [moved EXCEPT ![p] = [d \in Fd |-> 0]]
      /\ UNCHANGED <<handle, fd_map, file_names, inode_of, pos, panicked>>
  BY DEF leave, GoOn, table, files
<1>2. TypeOK'
  BY <1>0, <1>1, SlotFacts, SMT DEF TypeOK
<1>3. ASSUME NEW q \in Caller, NEW s \in Slot, NEW f \in File
      PROVE  Holds(q, s, f)' <=> Holds(q, s, f)
  BY <1>0, <1>1, SlotFacts DEF TypeOK, Holds, Slot
<1>4. TableInv'
  BY <1>0, <1>1, SMT DEF TypeOK, TableInv, Running
<1>5. OwnerInv'
  BY <1>0, <1>1, <1>3, SMT DEF OwnerInv
<1>6. ToldInv'
  BY <1>0, <1>1 DEF TypeOK, ToldInv
<1>7. QED BY <1>2, <1>4, <1>5, <1>6 DEF CallInv

\* One turn of thread_exit()'s loop.
LEMMA ThreadExitStep ==
  ASSUME CallInv, NEW p \in Caller, thread_exit(p)
  PROVE  CallInv'
<1> DEFINE d == fd[p]
           g == file_names[p][d]
<1>0. TypeOK /\ TableInv /\ OwnerInv /\ ToldInv
  BY DEF CallInv
<1>1. /\ upc[p] = "exit" /\ d \in Fd /\ g \in File \cup {NoFile} /\ handle[p] = NoFile
      /\ fd' = [fd EXCEPT ![p] = d + 1]
      /\ UNCHANGED <<upc, handle, fd_map, file_names, panicked, granted, moved>>
  BY <1>0, SlotFacts, SMT DEF TypeOK, TableInv, thread_exit, table, told, Fd
<1>2. \A q \in Caller : fd'[q] = IF q = p THEN d + 1 ELSE fd[q]
  BY <1>0, <1>1 DEF TypeOK
<1>3. FreeFile(g)
  <2>1. CASE d \in fd_map[p]
    BY <2>1 DEF thread_exit
  <2>2. CASE d \notin fd_map[p]
    <3>1. g = NoFile /\ UNCHANGED <<inode_of, pos>>
      BY <1>0, <1>1, <2>2 DEF TableInv, thread_exit, files
    <3>2. \A f \in File : f # g
      BY <3>1, SyscallsAssumption
    <3>3. QED BY <1>0, <3>1, <3>2 DEF TypeOK, FreeFile
  <2>3. QED BY <2>1, <2>2
<1>4. g \in File => Holds(p, d, g) /\ d \in Slot
  BY <1>0, <1>1, SlotFacts, SyscallsAssumption, SMT DEF TypeOK, TableInv, Holds
<1>5. ASSUME NEW q \in Caller, NEW s \in Slot, NEW f \in File
      PROVE  Holds(q, s, f)' <=> f # g /\ Holds(q, s, f)
  <2>1. Holds(q, s, f)' <=> Holds(q, s, f) /\ ~(q = p /\ s = d)
    <3>1. CASE q # p
      BY <1>1, <1>2, <3>1 DEF Holds
    <3>2. CASE q = p /\ s = -1
      <4>1. -1 \notin fd_map[p]
        BY <1>0, SlotFacts DEF TypeOK
      <4>2. QED BY <1>1, <3>2, <4>1, SlotFacts, SyscallsAssumption DEF Holds
    <3>3. CASE q = p /\ s \in Fd
      <4>1. s >= d + 1 <=> s >= d /\ s # d
        <5>1. s \in Nat /\ d \in Nat
          BY <1>1, <3>3, SlotFacts
        <5> HIDE DEF d
        <5>2. QED BY <5>1, SMT
      <4>2. QED BY <1>1, <1>2, <3>3, <4>1, SlotFacts DEF Holds
    <3>4. QED BY <3>1, <3>2, <3>3 DEF Slot
  <2>2. ASSUME Holds(q, s, f) PROVE f = g <=> q = p /\ s = d
    <3>1. ASSUME f = g PROVE q = p /\ s = d
      BY <1>0, <1>4, <2>2, <3>1, SMT DEF OwnerInv
    <3>2. ASSUME q = p, s = d PROVE f = g
      BY <1>1, <2>2, <3>2, SlotFacts DEF Holds
    <3>3. QED BY <3>1, <3>2
  <2>3. QED BY <2>1, <2>2
<1>6. OwnerInv' /\ inode_of' \in [File -> Name \cup {NoFile}] /\ pos' \in [File -> 0..Length]
  BY <1>0, <1>1, <1>3, <1>5, FreeOwner
<1>7. TypeOK'
  <2>1. fd' \in [Caller -> 0..MapSize]
    BY <1>0, <1>1, SlotFacts, SMT DEF TypeOK, Fd
  <2>2. QED BY <1>0, <1>1, <1>6, <2>1 DEF TypeOK
<1>8. TableInv'
  BY <1>0, <1>1, <1>2, SMT DEF TableInv, Running
<1>9. ToldInv'
  <2>1. ASSUME NEW q \in Caller, NEW e \in Fd, granted[q][e] # NoFile
        PROVE  file_names[q][e] \in File /\ file_names[q][e] # g
    <3>1. file_names[q][e] \in File /\ e \in fd_map[q] /\ upc[q] # "exit"
      BY <1>0, <2>1, SMT DEF TypeOK, TableInv, Running
    <3>2. Holds(q, e, file_names[q][e]) /\ e \in Slot /\ q # p
      BY <1>1, <3>1, SlotFacts DEF Holds
    <3>3. QED BY <1>0, <1>4, <3>1, <3>2 DEF OwnerInv
  <2>2. QED BY <1>0, <1>1, <1>3, <2>1 DEF ToldInv, FreeFile
<1>10. QED BY <1>6, <1>7, <1>8, <1>9 DEF CallInv

\* The end of a process, whose files are all closed by then.
LEMMA DestroyStep ==
  ASSUME CallInv, NEW p \in Caller, bitmap_destroy(p)
  PROVE  CallInv'
<1>0. TypeOK /\ TableInv /\ OwnerInv /\ ToldInv
  BY DEF CallInv
<1>1. /\ upc[p] = "exit" /\ fd[p] = MapSize /\ handle[p] = NoFile
      /\ upc' = [upc EXCEPT ![p] = "dead"] /\ fd' = [fd EXCEPT ![p] = 0]
      /\ fd_map' = [fd_map EXCEPT ![p] = {}]
      /\ file_names' = [file_names EXCEPT ![p] = [d \in Fd |-> NoFile]]
      /\ UNCHANGED <<handle, inode_of, pos, panicked, granted, moved>>
  BY <1>0 DEF TableInv, bitmap_destroy, GoOn, files, told
<1>2. TypeOK'
  BY <1>0, <1>1, SlotFacts, SMT DEF TypeOK
<1>3. ASSUME NEW q \in Caller, NEW s \in Slot, NEW f \in File
      PROVE  Holds(q, s, f)' <=> Holds(q, s, f)
  <2>1. CASE q # p
    BY <1>0, <1>1, <2>1 DEF TypeOK, Holds
  <2>2. CASE q = p
    <3>1. \A d \in Fd : ~(d >= MapSize)
      BY SlotFacts, SMT
    <3>2. fd_map[p] \subseteq Fd /\ fd_map'[p] = {}
      BY <1>0, <1>1 DEF TypeOK
    <3>3. QED BY <1>0, <1>1, <2>2, <3>1, <3>2, SyscallsAssumption DEF TypeOK, Holds
  <2>3. QED BY <2>1, <2>2
<1>4. TableInv'
  BY <1>0, <1>1, SMT DEF TypeOK, TableInv, Running
<1>5. OwnerInv'
  <2>1. \A q \in Caller, s \in Slot, f \in File : Holds(q, s, f)' => inode_of'[f] # NoFile
    BY <1>0, <1>1, <1>3 DEF OwnerInv
  <2>2. ASSUME NEW q \in Caller, NEW w \in Caller, NEW s \in Slot, NEW r \in Slot, NEW f \in File,
               Holds(q, s, f)', Holds(w, r, f)'
        PROVE  q = w /\ s = r
    <3>1. Holds(q, s, f) /\ Holds(w, r, f)
      BY <1>3, <2>2
    <3>2. QED BY <1>0, <3>1 DEF OwnerInv
  <2>3. ASSUME NEW f \in File, inode_of'[f] # NoFile
        PROVE  \E q \in Caller, s \in Slot : Holds(q, s, f)'
    <3>1. PICK q \in Caller, s \in Slot : Holds(q, s, f)
      BY <1>0, <1>1, <2>3 DEF OwnerInv
    <3>2. QED BY <1>3, <3>1
  <2>4. QED BY <2>1, <2>2, <2>3 DEF OwnerInv
<1>6. ToldInv'
  <2>1. ASSUME NEW q \in Caller, NEW d \in Fd, granted[q][d] # NoFile PROVE q # p
    BY <1>0, <1>1, <2>1 DEF TableInv, Running
  <2>2. QED BY <1>0, <1>1, <2>1 DEF TypeOK, ToldInv
<1>7. QED BY <1>2, <1>4, <1>5, <1>6 DEF CallInv
-----------------------------------------------------------------------------
\* Every step of every process keeps the invariant.
LEMMA CallInvStep == CallInv /\ [CallNext]_callvars => CallInv'
<1> SUFFICES ASSUME CallInv, [CallNext]_callvars PROVE CallInv'
  OBVIOUS
<1>1. CASE UNCHANGED callvars
  <2>1. panicked \in BOOLEAN
    BY DEF CallInv, TypeOK
  <2>2. panicked' \in BOOLEAN /\ UNCHANGED <<upc, fd, handle, table, files, told>>
    BY <1>1, <2>1 DEF callvars
  <2>3. QED BY <2>2, PanicStep
<1>2. ASSUME NEW p \in Caller, NEW d \in Int, NEW size \in Nat,
             sys_read(p, d, size) \/ sys_write(p, d, size)
      PROVE  CallInv'
  <2>1. /\ upc[p] = "user" /\ UNCHANGED <<upc, fd, handle, table, inode_of, granted>>
        /\ \/ fd_ok(p, d) /\ Transfer(p, d, size)
           \/ UNCHANGED <<pos, moved, panicked>>
    BY <1>2 DEF sys_read, sys_write
  <2>2. CASE fd_ok(p, d) /\ Transfer(p, d, size)
    BY <2>1, <2>2, TransferStep
  <2>3. CASE UNCHANGED <<pos, moved, panicked>>
    BY <1>1, <2>1, <2>3 DEF callvars, files, told
  <2>4. QED BY <2>1, <2>2, <2>3
<1>3. ASSUME NEW p \in Caller, Call(p) PROVE CallInv'
  <2>1. CASE sys_halt(p)
    BY <2>1, PanicStep DEF sys_halt
  <2>2. ASSUME NEW d \in -1..MapSize, sys_close(p, d) PROVE CallInv'
    BY <2>2, CloseStep, SMT
  <2>3. ASSUME NEW d \in -1..MapSize, NEW size \in Sizes, sys_read(p, d, size) \/ sys_write(p, d, size)
        PROVE  CallInv'
    BY <1>2, <2>3, SyscallsAssumption, SMT
  <2>4. QED BY <1>3, <2>1, <2>2, <2>3, ThreadCreateStep, OpenScanStep, LeaveStep DEF Call
<1>4. ASSUME NEW p \in Caller, Resume(p) PROVE CallInv'
  BY <1>4, OpenFileStep, FileCloseStep, ThreadExitStep, DestroyStep DEF Resume
<1>5. QED BY <1>1, <1>3, <1>4 DEF CallNext

\* However many processes open, use and close files, fail to, or exit in
\* between, every struct file has one owner and is closed exactly once.
THEOREM FilesAlwaysOwnedOnce == CallSpec => []FilesOwnedOnce
BY CallInvInit, CallInvStep, OwnerImpliesOnce, PTL DEF CallSpec

\* And a descriptor that SYS_OPEN returned means the file that was opened, at
\* the position the process moved it to, until the process closes it.
THEOREM DescriptorAlwaysMeansFile == CallSpec => []DescriptorMeansFile
BY CallInvInit, CallInvStep, ToldImpliesMeans, PTL DEF CallSpec
=============================================================================
