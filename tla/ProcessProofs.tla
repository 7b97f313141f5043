--------------------------- MODULE ProcessProofs ---------------------------
(***************************************************************************)
(* The child_status records of userprog/process.c, for any number of       *)
(* processes: parent and child use their common record only while it is    *)
(* allocated, it is freed once, and exec() and wait() return what happened *)
(* to the child.                                                           *)
(*                                                                         *)
(* What makes it work is a count: ref_cnt is the number of the two that    *)
(* have not let go of the record yet (RefRight), and sema_exec never holds *)
(* more than the child has put there, one when it is loaded and one when   *)
(* it exits, less the one that exec() has taken (SemaRight).               *)
(***************************************************************************)
EXTENDS Process, TLAPS

Place == {"none", "never", "start", "loaded", "not_loaded", "user",
          "exec_sema", "exec_lock", "exec_pid", "exec_down", "exec_done",
          "wait_lock", "wait_down", "wait_done",
          "exit_ref", "exit_free", "exit_up", "exit_children", "dead"}

ProcessType ==
  /\ pc \in [Proc -> Place]
  /\ arg \in [Proc -> Proc] /\ parent \in [Proc -> Proc]
  /\ cs_list \in [Proc -> Seq(Child)]
  /\ heap \in [Proc -> {"none", "live", "freed"}]
  /\ ref_cnt \in [Proc -> Int]
  /\ sema \in [Proc -> Nat \cup {Garbage}]
  /\ doomed \in [Proc -> SUBSET Child]
  /\ next \in [Proc -> Nat \ {0}]
  /\ DOMAIN pid = Proc /\ DOMAIN fate = Proc /\ DOMAIN exit_status = Proc

Exiting(p)   == pc[p] \in {"exit_children", "dead"}
Unlisted(p)  == pc[p] \in {"exec_sema", "exec_lock"}
Listed(p)    == pc[p] \in {"exec_pid", "exec_down", "exec_done"}
Waiting(p)   == pc[p] \in {"wait_lock", "wait_down", "wait_done"}
HasLoaded(c) == pc[c] \notin {"none", "never", "start", "loaded", "not_loaded"}

\* c runs: in user code, in exec or in wait.
Running(c)   == pc[c] = "user" \/ Unlisted(c) \/ Listed(c) \/ Waiting(c)

\* p has still to take the first sema_up() of c.
Pending(p, c) == pc[p] \in {"exec_lock", "exec_pid", "exec_down"} /\ arg[p] = c

\* The initial thread has no record: it neither starts like a child nor goes
\* through the part of process_exit() that deals with its own record.
RootInv == pc[root] \notin {"none", "never", "start", "loaded", "not_loaded",
                            "exit_ref", "exit_free", "exit_up"}

\* The list of p's children, and how far process_exit() has come with it.
ListInv(p) ==
  /\ \A i, j \in 1..Len(cs_list[p]) : cs_list[p][i] = cs_list[p][j] => i = j
  /\ \A c \in Rng(cs_list[p]) :
       /\ parent[c] = p /\ sema[c] # Garbage
       /\ heap[c] = "live" \/ (heap[c] = "freed" /\ LetGo(p, c))
  /\ ~Exiting(p) => next[p] = 1 /\ doomed[p] = {}
  /\ pc[p] = "dead" => next[p] > Len(cs_list[p]) /\ doomed[p] = {}
  /\ \A c \in doomed[p] :
       LetGo(p, c) /\ heap[c] = "live" /\ pc[c] \in {"exit_up", "exit_children", "dead"}

\* The child that exec() and wait() deal with.
CallInv(p) ==
  /\ Unlisted(p) \/ Listed(p) =>
       arg[p] \in Child /\ parent[arg[p]] = p /\ heap[arg[p]] = "live"
  /\ Unlisted(p) => arg[p] \notin Rng(cs_list[p])
  /\ pc[p] = "exec_lock" => sema[arg[p]] # Garbage
  /\ Listed(p) \/ Waiting(p) => arg[p] \in Rng(cs_list[p])
  /\ pc[p] \in {"exec_down", "exec_done"} /\ pid[arg[p]] = TID_ERROR =>
       pc[arg[p]] = "never" \/ fate[arg[p]] = "no_load"
  /\ pc[p] = "exec_done" => HasLoaded(arg[p])
  /\ pc[p] = "wait_done" => Gone(arg[p])

\* ref_cnt counts the child until it is gone and the parent until it lets go.
RefRight(c) ==
  ref_cnt[c] = (IF Gone(c) THEN 0 ELSE 1) + (IF LetGo(parent[c], c) THEN 0 ELSE 1)

\* The child raises sema_exec when it has loaded and when it exits; exec()
\* takes the first of the two.
SemaRight(c) ==
  sema[c] # Garbage =>
    sema[c] + (IF Pending(parent[c], c) THEN 0 ELSE 1)
      <= (IF HasLoaded(c) THEN 1 ELSE 0) + (IF Exiting(c) THEN 1 ELSE 0)

\* A record that is allocated is on its parent's list or on its way there; it
\* is freed by whoever brings ref_cnt to 0.
RecordInv(c) ==
  /\ pc[c] = "none" <=> heap[c] = "none"
  /\ heap[c] = "none" => sema[c] = Garbage
  /\ heap[c] = "live" =>
       /\ \/ c \in Rng(cs_list[parent[c]])
          \/ (Unlisted(parent[c]) /\ arg[parent[c]] = c)
       /\ RefRight(c) /\ SemaRight(c)
       /\ ref_cnt[c] = 0 => pc[c] = "exit_free" \/ c \in doomed[parent[c]]
  /\ pc[c] = "exit_free" => heap[c] = "live" /\ ref_cnt[c] = 0
  /\ fate[c] = "no_load" => pc[c] = "not_loaded" \/ pc[c] = "exit_ref" \/ Gone(c)
  /\ fate[c] = "exit" => exit_status[c] \in ExitStatus

ProcessInv ==
  /\ ProcessType /\ RootInv
  /\ \A p \in Proc : ListInv(p) /\ CallInv(p)
  /\ \A c \in Child : RecordInv(c)

-----------------------------------------------------------------------------
(* First-order reasoning closes most leaves; the ones about numbers or     *)
(* sequences cite SMT.                                                     *)
USE Zenon

\* list_remove() takes one record out of the list and keeps the others once.
LEMMA UnlinkFacts ==
  ASSUME NEW S, NEW q \in Seq(S), NEW c \in Rng(q),
         \A i, j \in 1..Len(q) : q[i] = q[j] => i = j
  PROVE  LET u == Unlink(q, c)
         IN /\ u \in Seq(S) /\ Len(u) = Len(q) - 1
            /\ Rng(u) = Rng(q) \ {c}
            /\ \A i, j \in 1..Len(u) : u[i] = u[j] => i = j
<1> DEFINE k == CHOOSE i \in 1..Len(q) : q[i] = c
           u == [i \in 1..(Len(q) - 1) |-> IF i < k THEN q[i] ELSE q[i + 1]]
<1>1. k \in 1..Len(q) /\ q[k] = c
  BY DEF Rng
<1>2. Len(q) \in Nat /\ Len(q) - 1 \in Nat
  BY <1>1, SMT
<1> HIDE DEF k
<1>3. u \in Seq(S) /\ Len(u) = Len(q) - 1
  BY <1>1, <1>2, SMT
<1>4. \A i \in 1..Len(u) : u[i] = IF i < k THEN q[i] ELSE q[i + 1]
  BY <1>3
<1> HIDE DEF u
<1>5. ASSUME NEW i \in 1..Len(u)
      PROVE  LET f == IF i < k THEN i ELSE i + 1
             IN f \in 1..Len(q) /\ f # k /\ u[i] = q[f]
  BY <1>1, <1>2, <1>3, <1>4, SMT
<1>6. ASSUME NEW i \in 1..Len(u), NEW j \in 1..Len(u), u[i] = u[j] PROVE i = j
  <2>1. (IF i < k THEN i ELSE i + 1) = (IF j < k THEN j ELSE j + 1)
    BY <1>5, <1>6
  <2> QED BY <1>1, <1>2, <1>3, <2>1, SMT
<1>8. ASSUME NEW d \in Rng(u) PROVE d \in Rng(q) \ {c}
  <2>1. PICK i \in 1..Len(u) : u[i] = d
    BY DEF Rng
  <2>2. PICK f \in 1..Len(q) : f # k /\ q[f] = d
    BY <1>5, <2>1
  <2> QED BY <1>1, <2>2 DEF Rng
<1>7. ASSUME NEW d \in Rng(q), d # c PROVE d \in Rng(u)
  <2>1. PICK i \in 1..Len(q) : q[i] = d
    BY DEF Rng
  <2>2. CASE i < k
    BY <1>1, <1>2, <1>3, <1>4, <2>1, <2>2, SMT DEF Rng
  <2>3. CASE i > k
    <3>1. i - 1 \in 1..Len(u) /\ u[i - 1] = d
      BY <1>1, <1>2, <1>3, <1>4, <2>1, <2>3, SMT
    <3> QED BY <3>1 DEF Rng
  <2> QED BY <1>1, <1>7, <2>1, <2>2, <2>3, SMT
<1> QED BY <1>3, <1>6, <1>7, <1>8 DEF Unlink, u, k

\* Whether a parent has let go of a record depends on its own exit alone.
LEMMA LetGoSame ==
  ASSUME ProcessInv, next' = next, cs_list' = cs_list,
         \A p \in Proc : ~Exiting(p) => ~Exiting(p)' \/ next[p] = 1,
         \A p \in Proc : Exiting(p) => Exiting(p)'
  PROVE  \A p \in Proc : \A c : LetGo(p, c)' <=> LetGo(p, c)
BY SMT DEF ProcessInv, ProcessType, ListInv, LetGo, Exiting

\* The initial thread runs and there is no record yet.
LEMMA ProcessInvInit == Init => ProcessInv
<1> SUFFICES ASSUME Init PROVE ProcessInv OBVIOUS
<1> USE DEF Init, Start
<1>1. ProcessType /\ RootInv
  BY ProcessAssumption, SMT DEF ProcessType, Place, RootInv, Child
<1>2. ASSUME NEW p \in Proc PROVE ListInv(p)
  BY <1>2, SMT DEF ListInv, Exiting, Rng
<1>3. ASSUME NEW p \in Proc PROVE CallInv(p)
  BY <1>3 DEF CallInv, Unlisted, Listed, Waiting
<1>4. ASSUME NEW c \in Child PROVE RecordInv(c)
  BY <1>4 DEF RecordInv, Child
<1> QED BY <1>1, <1>2, <1>3, <1>4 DEF ProcessInv

\* The list of a process holds records of children.
LEMMA ListOfChildren ==
  ASSUME ProcessType, NEW q \in Proc PROVE Rng(cs_list[q]) \subseteq Child
<1>1. cs_list[q] \in Seq(Child)
  BY DEF ProcessType
<1>2. \A i \in 1..Len(cs_list[q]) : cs_list[q][i] \in Child
  BY <1>1, SMT
<1> QED BY <1>2 DEF Rng

\* A step that leaves a list alone keeps what holds of it.
LEMMA ListFrame ==
  ASSUME ProcessInv, NEW q \in Proc,
         cs_list'[q] = cs_list[q], next'[q] = next[q], doomed'[q] = doomed[q],
         \A c \in Child : parent[c] = q =>
           /\ parent'[c] = q
           /\ \/ heap'[c] = heap[c]
              \/ heap'[c] = "freed" /\ LetGo(q, c) /\ c \notin doomed[q]
           /\ sema[c] # Garbage => sema'[c] # Garbage
           /\ pc[c] \in {"exit_up", "exit_children", "dead"} =>
                pc'[c] \in {"exit_up", "exit_children", "dead"},
         \A c : LetGo(q, c)' <=> LetGo(q, c),
         Exiting(q) => Exiting(q)',
         pc'[q] = "dead" => pc[q] = "dead" \/ (next[q] > Len(cs_list[q]) /\ doomed[q] = {})
  PROVE  ListInv(q)'
<1>1. ListInv(q) /\ Rng(cs_list[q]) \subseteq Child /\ doomed[q] \subseteq Child
  BY ListOfChildren DEF ProcessInv, ProcessType
<1>2. Rng(cs_list[q])' = Rng(cs_list[q])
  BY SMT DEF Rng
<1>3. \A c \in doomed[q] : parent[c] = q
  BY <1>1, SMT DEF ListInv, LetGo, Rng
<1>4. \A c \in Rng(cs_list[q]) :
        /\ parent'[c] = q /\ sema'[c] # Garbage
        /\ heap'[c] = "live" \/ (heap'[c] = "freed" /\ LetGo(q, c))
  BY <1>1, SMT DEF ListInv
<1>5. \A c \in doomed[q] :
        /\ LetGo(q, c) /\ heap'[c] = "live" 
        /\ pc'[c] \in {"exit_up", "exit_children", "dead"}
  BY <1>1, <1>3 DEF ListInv
<1> QED BY <1>1, <1>2, <1>4, <1>5, SMT DEF ListInv

\* The steps of the others leave a process where it is in exec or in wait.
LEMMA CallFrame ==
  ASSUME ProcessInv, NEW q \in Proc,
         pc'[q] = pc[q], arg'[q] = arg[q], cs_list'[q] = cs_list[q],
         (Unlisted(q) \/ Listed(q) \/ Waiting(q)) /\ arg[q] \in Child /\ parent[arg[q]] = q =>
           LET c == arg[q]
           IN /\ parent'[c] = parent[c]
              /\ heap[c] = "live" /\ ~Waiting(q) => heap'[c] = "live"
              /\ sema[c] # Garbage => sema'[c] # Garbage
              /\ pid'[c] = TID_ERROR => pid[c] = TID_ERROR \/ fate'[c] = "no_load"
              /\ pc[c] = "never" => pc'[c] = "never"
              /\ fate[c] = "no_load" => fate'[c] = "no_load"
              /\ HasLoaded(c) => HasLoaded(c)'
              /\ Gone(c) => Gone(c)'
  PROVE  CallInv(q)'
<1>1. CallInv(q) /\ ListInv(q) /\ Rng(cs_list[q]) \subseteq Child
  BY ListOfChildren DEF ProcessInv
<1>2. CASE Unlisted(q) \/ Listed(q) \/ Waiting(q)
  <2>1. arg[q] \in Child /\ parent[arg[q]] = q
    BY <1>1, <1>2 DEF CallInv, ListInv
  <2> QED BY <1>1, <1>2, <2>1 DEF CallInv, Unlisted, Listed, Waiting, Rng
<1>3. CASE ~(Unlisted(q) \/ Listed(q) \/ Waiting(q))
  BY <1>1, <1>3 DEF CallInv, Unlisted, Listed, Waiting
<1> QED BY <1>2, <1>3

\* The bound on a semaphore survives when the child only gets further.
LEMMA SemaFrame ==
  ASSUME NEW c, SemaRight(c), sema'[c] = sema[c], parent'[c] = parent[c],
         sema[c] \in Nat \cup {Garbage},
         Pending(parent[c], c)' <=> Pending(parent[c], c),
         HasLoaded(c) => HasLoaded(c)', Exiting(c) => Exiting(c)'
  PROVE  SemaRight(c)'
BY SMT DEF SemaRight

\* A record that a step does not touch is as it was.
LEMMA RecordFrame ==
  ASSUME ProcessInv, NEW c \in Child,
         pc'[c] = pc[c] \/ (Running(c) /\ Running(c)'),
         heap'[c] = heap[c], parent'[c] = parent[c],
         ref_cnt'[c] = ref_cnt[c], sema'[c] = sema[c],
         exit_status'[c] = exit_status[c], fate'[c] = fate[c],
         heap[c] = "live" =>
           LET q == parent[c]
           IN /\ LetGo(q, c)' <=> LetGo(q, c)
              /\ Pending(q, c)' <=> Pending(q, c)
              /\ c \in Rng(cs_list[q]) => c \in Rng(cs_list'[q])
              /\ Unlisted(q) /\ arg[q] = c =>
                   (Unlisted(q)' /\ arg'[q] = c) \/ c \in Rng(cs_list'[q])
              /\ c \in doomed[q] => c \in doomed'[q]
  PROVE  RecordInv(c)'
<1>1. RecordInv(c)
  BY DEF ProcessInv
<1>2. /\ pc'[c] = "none" <=> pc[c] = "none"
      /\ pc'[c] = "exit_free" <=> pc[c] = "exit_free"
      /\ Gone(c)' <=> Gone(c)
      /\ HasLoaded(c)' <=> HasLoaded(c)
      /\ Exiting(c)' <=> Exiting(c)
      /\ fate[c] = "no_load" => pc'[c] = pc[c]
  BY <1>1 DEF RecordInv, Running, Unlisted, Listed, Waiting, Gone, HasLoaded, Exiting
<1>3. CASE heap[c] = "live"
  <2>1. RefRight(c)' <=> RefRight(c)
    BY <1>2, <1>3 DEF RefRight
  <2>2. SemaRight(c)'
    <3>1. SemaRight(c) /\ sema[c] \in Nat \cup {Garbage}
      BY <1>1, <1>3 DEF RecordInv, ProcessInv, ProcessType, Child
    <3> QED BY <1>2, <1>3, <3>1, SemaFrame
  <2> QED BY <1>1, <1>2, <1>3, <2>1, <2>2 DEF RecordInv
<1>4. CASE heap[c] # "live"
  BY <1>1, <1>2, <1>4 DEF RecordInv
<1> QED BY <1>3, <1>4

\* A process goes from one place to another.
LEMMA Move ==
  ASSUME ProcessType, NEW p \in Proc, NEW l \in Place, pc' = [pc EXCEPT ![p] = l]
  PROVE  /\ pc' \in [Proc -> Place] /\ pc'[p] = l
         /\ \A q \in Proc : q # p => pc'[q] = pc[q]
BY DEF ProcessType

\* A process that runs goes on to run.
LEMMA RunMove ==
  ASSUME ProcessType, RootInv, NEW p \in Proc, NEW l \in Place,
         pc' = [pc EXCEPT ![p] = l], Running(p),
         l \notin {"none", "never", "start", "loaded", "not_loaded", "exit_ref",
                   "exit_free", "exit_up", "exit_children", "dead"}
  PROVE  /\ pc'[p] = l /\ RootInv' /\ HasLoaded(p)' /\ ~Gone(p) /\ Running(p)'
         /\ \A c \in Child : pc'[c] = pc[c] \/ (Running(c) /\ Running(c)')
<1>1. pc'[p] = l /\ \A q \in Proc : q # p => pc'[q] = pc[q]
  BY Move
<1>2. Running(p)' /\ HasLoaded(p)' /\ ~Gone(p)
  BY <1>1 DEF Running, Unlisted, Listed, Waiting, HasLoaded, Gone, Place
<1>3. RootInv'
  BY <1>1, ProcessAssumption DEF RootInv
<1> QED BY <1>1, <1>2, <1>3 DEF Child

\* What holds of the lists and of the other processes when p goes from one
\* place to another and neither a list changes nor a record is freed.
LEMMA KeepStep ==
  ASSUME ProcessInv, NEW p \in Proc, NEW l \in Place, pc' = [pc EXCEPT ![p] = l],
         UNCHANGED <<parent, cs_list, heap, doomed, next>>,
         arg' \in [Proc -> Proc], \A q \in Proc : q # p => arg'[q] = arg[q],
         ref_cnt' \in [Proc -> Int], sema' \in [Proc -> Nat \cup {Garbage}],
         DOMAIN pid' = Proc, DOMAIN fate' = Proc, DOMAIN exit_status' = Proc,
         \A c \in Child : sema[c] # Garbage => sema'[c] # Garbage,
         \A c \in Child : fate[c] = "no_load" => fate'[c] = "no_load",
         \A c \in Child : parent[c] # p /\ pid'[c] = TID_ERROR =>
                            pid[c] = TID_ERROR \/ fate'[c] = "no_load",
         RootInv', pc[p] # "never", HasLoaded(p) => HasLoaded(p)',
         l = "dead" => pc[p] = "exit_children" /\ next[p] > Len(cs_list[p]) /\ doomed[p] = {},
         Gone(p) => \/ pc[p] = "exit_up" /\ l = "exit_children"
                    \/ pc[p] = "exit_children" /\ l = "dead"
  PROVE  /\ ProcessType' /\ RootInv'
         /\ \A q \in Proc : ListInv(q)'
         /\ \A q \in Proc : q # p => CallInv(q)'
         /\ \A q \in Proc : \A c : LetGo(q, c)' <=> LetGo(q, c)
         /\ \A q \in Proc : q # p => pc'[q] = pc[q]
         /\ pc'[p] = l
<1>1. ProcessType /\ ListInv(p)
  BY DEF ProcessInv
<1>2. /\ pc' \in [Proc -> Place] /\ pc'[p] = l
      /\ \A q \in Proc : q # p => pc'[q] = pc[q]
  BY <1>1, Move
<1>3. ProcessType'
  BY <1>1, <1>2 DEF ProcessType
<1>4. \A q \in Proc : \A c : LetGo(q, c)' <=> LetGo(q, c)
  BY <1>1, <1>2, LetGoSame DEF Exiting, Gone, ListInv
<1>5. ASSUME NEW q \in Proc PROVE ListInv(q)'
  <2>1. \A c \in Child : pc[c] \in {"exit_up", "exit_children", "dead"} =>
                           pc'[c] \in {"exit_up", "exit_children", "dead"}
    BY <1>2 DEF Gone, Child
  <2>2. /\ Exiting(q) => Exiting(q)'
        /\ pc'[q] = "dead" =>
             pc[q] = "dead" \/ (next[q] > Len(cs_list[q]) /\ doomed[q] = {})
    BY <1>2 DEF Gone, Exiting
  <2> QED BY <1>4, <2>1, <2>2, ListFrame
<1>6. ASSUME NEW q \in Proc, q # p PROVE CallInv(q)'
  <2>1. \A c \in Child : /\ pc[c] = "never" => pc'[c] = "never"
                         /\ HasLoaded(c) => HasLoaded(c)'
                         /\ Gone(c) => Gone(c)'
    BY <1>2 DEF Child, HasLoaded, Gone
  <2>2. pc'[q] = pc[q] /\ arg'[q] = arg[q] /\ cs_list'[q] = cs_list[q]
    BY <1>2, <1>6
  <2> QED BY <1>6, <2>1, <2>2, CallFrame
<1> QED BY <1>2, <1>3, <1>4, <1>5, <1>6

\* sema_init() of the record.
LEMMA ExecSemaStep ==
  ASSUME ProcessInv, NEW p \in Proc, exec_sema(p)
  PROVE  ProcessInv'
<1> PICK k \in Proc : k = arg[p]
  BY DEF ProcessInv, ProcessType
<1>0. /\ pc[p] = "exec_sema" /\ sema' = [sema EXCEPT ![k] = 0]
      /\ pc' = [pc EXCEPT ![p] = "exec_lock"]
      /\ UNCHANGED <<arg, parent, cs_list, heap, pid, exit_status, ref_cnt, doomed, next,
                     fate>>
  BY DEF exec_sema, Goto, local
<1>1. /\ ProcessType /\ RootInv /\ CallInv(p)
      /\ k \in Child /\ RecordInv(k) /\ parent[k] = p /\ heap[k] = "live"
  BY <1>0 DEF ProcessInv, CallInv, Unlisted
<1>2. sema' \in [Proc -> Nat \cup {Garbage}] /\ sema'[k] = 0
      /\ \A c \in Proc : c # k => sema'[c] = sema[c]
  BY <1>0, <1>1 DEF ProcessType
<1>3. /\ ProcessType' /\ RootInv'
      /\ \A q \in Proc : ListInv(q)'
      /\ \A q \in Proc : q # p => CallInv(q)'
      /\ \A q \in Proc : \A c : LetGo(q, c)' <=> LetGo(q, c)
      /\ \A q \in Proc : q # p => pc'[q] = pc[q]
      /\ pc'[p] = "exec_lock"
  <2>1. pc'[p] = "exec_lock" /\ RootInv' /\ HasLoaded(p)' /\ ~Gone(p)
    BY <1>0, <1>1, RunMove DEF Place, Running, Unlisted, Listed
  <2>2. \A c \in Child : sema[c] # Garbage => sema'[c] # Garbage
    BY <1>2, ProcessAssumption, SMT DEF Child
  <2> QED BY <1>0, <1>1, <1>2, <2>1, <2>2, KeepStep DEF ProcessType, Place
<1>4. CallInv(p)'
  <2>1. sema'[k] # Garbage
    BY <1>2, ProcessAssumption, SMT
  <2> QED BY <1>0, <1>1, <1>3, <2>1 DEF CallInv, Unlisted, Listed, Waiting
<1>5. ASSUME NEW c \in Child PROVE RecordInv(c)'
  <2>1. pc'[c] = pc[c] \/ (Running(c) /\ Running(c)')
    BY <1>0, <1>3 DEF Running, Unlisted, Child
  <2>2. CASE c = k
    <3>1. RefRight(k)' <=> RefRight(k)
      BY <1>0, <1>1, <1>3, <2>1, <2>2
      DEF RefRight, Gone, Running, Unlisted, Listed, Waiting
    <3>2. Pending(p, k)' /\ parent'[k] = p
      BY <1>0, <1>1, <1>3 DEF Pending
    <3>3. SemaRight(k)'
      BY <1>2, <3>2, SMT DEF SemaRight
    <3> QED
      BY <1>0, <1>1, <1>3, <2>1, <2>2, <3>1, <3>3
      DEF RecordInv, Running, Unlisted, Listed, Waiting, Gone
  <2>3. CASE c # k
    <3>1. parent[c] \in Proc /\ sema'[c] = sema[c]
      BY <1>1, <1>2, <2>3 DEF ProcessType, Child
    <3>2. /\ Pending(parent[c], c)' <=> Pending(parent[c], c)
          /\ Unlisted(parent[c]) /\ arg[parent[c]] = c => Unlisted(parent[c])'
      BY <1>0, <1>3, <2>3, <3>1 DEF Pending, Unlisted
    <3> QED BY <1>0, <1>3, <2>1, <3>1, <3>2, RecordFrame
  <2> QED BY <2>2, <2>3
<1> QED BY <1>3, <1>4, <1>5 DEF ProcessInv

\* cs->pid gets what thread_create() returned.
LEMMA ExecPidStep ==
  ASSUME ProcessInv, NEW p \in Proc, exec_pid(p)
  PROVE  ProcessInv'
<1> PICK k \in Proc : k = arg[p]
  BY DEF ProcessInv, ProcessType
<1>0. /\ pc[p] = "exec_pid" /\ pc' = [pc EXCEPT ![p] = "exec_down"]
      /\ pid' = [pid EXCEPT ![k] = IF pc[k] = "never" THEN TID_ERROR ELSE k]
      /\ UNCHANGED <<arg, parent, cs_list, heap, exit_status, ref_cnt, sema, doomed, next,
                     fate>>
  BY DEF exec_pid, Goto, local
<1>1. /\ ProcessType /\ RootInv /\ CallInv(p)
      /\ k \in Child /\ parent[k] = p /\ heap[k] = "live" /\ k \in Rng(cs_list[p])
  BY <1>0 DEF ProcessInv, CallInv, Listed
<1>2. /\ ProcessType' /\ RootInv'
      /\ \A q \in Proc : ListInv(q)'
      /\ \A q \in Proc : q # p => CallInv(q)'
      /\ \A q \in Proc : \A c : LetGo(q, c)' <=> LetGo(q, c)
      /\ \A q \in Proc : q # p => pc'[q] = pc[q]
      /\ pc'[p] = "exec_down"
  <2>1. pc'[p] = "exec_down" /\ RootInv' /\ HasLoaded(p)' /\ ~Gone(p)
    BY <1>0, <1>1, RunMove DEF Place, Running, Unlisted, Listed
  <2>2. \A c \in Child : parent[c] # p => pid'[c] = pid[c]
    BY <1>0, <1>1 DEF Child, ProcessType
  <2>3. DOMAIN pid' = Proc
    BY <1>0, <1>1 DEF ProcessType
  <2> QED BY <1>0, <1>1, <2>1, <2>2, <2>3, KeepStep DEF ProcessType, Place
<1>3. CallInv(p)'
  <2>1. pid'[k] = IF pc[k] = "never" THEN TID_ERROR ELSE k
    BY <1>0, <1>1 DEF ProcessType
  <2>2. pid'[k] = TID_ERROR => pc'[k] = "never"
    BY <1>0, <1>2, <2>1, ProcessAssumption
  <2> QED BY <1>0, <1>1, <1>2, <2>2 DEF CallInv, Unlisted, Listed, Waiting
<1>4. ASSUME NEW c \in Child PROVE RecordInv(c)'
  <2>1. pc'[c] = pc[c] \/ (Running(c) /\ Running(c)')
    BY <1>0, <1>2 DEF Running, Listed, Child
  <2>2. parent[c] \in Proc
    BY <1>1 DEF ProcessType, Child
  <2>3. /\ Pending(parent[c], c)' <=> Pending(parent[c], c)
        /\ Unlisted(parent[c]) => Unlisted(parent[c])'
    BY <1>0, <1>2, <2>2 DEF Pending, Unlisted
  <2> QED BY <1>0, <1>2, <2>1, <2>2, <2>3, RecordFrame
<1> QED BY <1>2, <1>3, <1>4 DEF ProcessInv

\* sema_down() of process_execute() takes the sema_up() of the load.
LEMMA ExecDownStep ==
  ASSUME ProcessInv, NEW p \in Proc, exec_down(p)
  PROVE  ProcessInv'
<1> PICK k \in Proc : k = arg[p]
  BY DEF ProcessInv, ProcessType
<1>0. /\ pc[p] = "exec_down" /\ pc' = [pc EXCEPT ![p] = "exec_done"]
      /\ sema[k] > 0 /\ sema' = [sema EXCEPT ![k] = @ - 1]
      /\ UNCHANGED <<arg, parent, cs_list, heap, pid, exit_status, ref_cnt, doomed, next,
                     fate>>
  BY DEF exec_down, Goto, local
<1>1. /\ ProcessType /\ RootInv /\ CallInv(p) /\ RecordInv(k)
      /\ k \in Child /\ parent[k] = p /\ heap[k] = "live" /\ k \in Rng(cs_list[p])
  BY <1>0 DEF ProcessInv, CallInv, Listed
<1>2. sema[k] \in Nat /\ sema[k] # Garbage
  BY <1>1, ProcessAssumption, SMT DEF ProcessInv, ListInv, ProcessType
<1>3. /\ sema' \in [Proc -> Nat \cup {Garbage}] /\ sema'[k] = sema[k] - 1
      /\ \A c \in Proc : c # k => sema'[c] = sema[c]
  BY <1>0, <1>1, <1>2, SMT DEF ProcessType
<1>4. /\ ProcessType' /\ RootInv'
      /\ \A q \in Proc : ListInv(q)'
      /\ \A q \in Proc : q # p => CallInv(q)'
      /\ \A q \in Proc : \A c : LetGo(q, c)' <=> LetGo(q, c)
      /\ \A q \in Proc : q # p => pc'[q] = pc[q]
      /\ pc'[p] = "exec_done"
  <2>1. pc'[p] = "exec_done" /\ RootInv' /\ HasLoaded(p)' /\ ~Gone(p)
    BY <1>0, <1>1, RunMove DEF Place, Running, Unlisted, Listed
  <2>2. \A c \in Child : sema[c] # Garbage => sema'[c] # Garbage
    BY <1>0, <1>2, <1>3, ProcessAssumption, SMT DEF Child
  <2> QED BY <1>0, <1>1, <1>3, <2>1, <2>2, KeepStep DEF ProcessType, Place
<1>5. Pending(p, k) /\ ~Pending(p, k)'
  BY <1>0, <1>4 DEF Pending
<1>6. HasLoaded(k)
  <2>1. SemaRight(k) /\ (Exiting(k) => HasLoaded(k))
    BY <1>1 DEF RecordInv, HasLoaded, Exiting
  <2> QED BY <1>0, <1>1, <1>2, <1>5, <2>1, SMT DEF SemaRight
<1>7. CallInv(p)'
  <2>1. HasLoaded(k)' /\ (pc[k] = "never" => pc'[k] = "never")
    BY <1>0, <1>4, <1>6 DEF HasLoaded
  <2> QED BY <1>0, <1>1, <1>4, <2>1 DEF CallInv, Unlisted, Listed, Waiting
<1>8. ASSUME NEW c \in Child PROVE RecordInv(c)'
  <2>1. pc'[c] = pc[c] \/ (Running(c) /\ Running(c)')
    BY <1>0, <1>4 DEF Running, Listed, Child
  <2>2. CASE c = k
    <3>1. RefRight(k)' <=> RefRight(k)
      BY <1>0, <1>1, <1>4, <2>1, <2>2
      DEF RefRight, Gone, Running, Unlisted, Listed, Waiting
    <3>2. (HasLoaded(k)' <=> HasLoaded(k)) /\ (Exiting(k)' <=> Exiting(k))
      BY <2>1, <2>2 DEF HasLoaded, Exiting, Running, Unlisted, Listed, Waiting
    <3>3. SemaRight(k)'
      <4>1. SemaRight(k) /\ parent'[k] = p
        BY <1>0, <1>1 DEF RecordInv
      <4> QED BY <1>1, <1>2, <1>3, <1>5, <3>2, <4>1, SMT DEF SemaRight
    <3> QED
      BY <1>0, <1>1, <2>1, <2>2, <3>1, <3>3
      DEF RecordInv, Running, Unlisted, Listed, Waiting, Gone
  <2>3. CASE c # k
    <3>1. parent[c] \in Proc /\ sema'[c] = sema[c]
      BY <1>1, <1>3, <2>3 DEF ProcessType, Child
    <3>2. /\ Pending(parent[c], c)' <=> Pending(parent[c], c)
          /\ Unlisted(parent[c]) => Unlisted(parent[c])'
      BY <1>0, <1>4, <2>3, <3>1 DEF Pending, Unlisted
    <3> QED BY <1>0, <1>4, <2>1, <3>1, <3>2, RecordFrame
  <2> QED BY <2>2, <2>3
<1> QED BY <1>4, <1>7, <1>8 DEF ProcessInv

\* Without a change of the variables nothing is lost.
LEMMA ProcessStutter ==
  ASSUME ProcessInv, UNCHANGED <<pc, arg, parent, cs_list, record, local, fate>>
  PROVE  ProcessInv'
<1> USE DEF record, local
<1>1. ProcessType' /\ RootInv'
  BY DEF ProcessInv, ProcessType, RootInv
<1>2. \A q \in Proc : \A c : LetGo(q, c)' <=> LetGo(q, c)
  BY LetGoSame DEF Exiting
<1>3. ASSUME NEW q \in Proc PROVE ListInv(q)'
  BY <1>2, ListFrame DEF Exiting
<1>4. ASSUME NEW q \in Proc PROVE CallInv(q)'
  BY CallFrame DEF HasLoaded, Gone
<1>5. ASSUME NEW c \in Child PROVE RecordInv(c)'
  <2>1. parent[c] \in Proc
    BY DEF ProcessInv, ProcessType, Child
  <2> QED BY <1>2, <2>1, RecordFrame DEF Pending, Unlisted
<1> QED BY <1>1, <1>3, <1>4, <1>5 DEF ProcessInv

\* process_wait() picks a record of the list.
LEMMA WaitStep ==
  ASSUME ProcessInv, NEW p \in Proc, NEW t, process_wait(p, t)
  PROVE  ProcessInv'
<1>1. ProcessType /\ RootInv /\ pc[p] = "user" /\ pc' = [pc EXCEPT ![p] = "wait_lock"]
      /\ UNCHANGED <<parent, cs_list, heap, pid, exit_status, ref_cnt, sema, doomed, next,
                     fate>>
  BY DEF ProcessInv, process_wait, Goto, record
<1>2. PICK k \in Rng(cs_list[p]) : arg' = [arg EXCEPT ![p] = k]
  <2>1. cs_list[p] \in Seq(Child) /\ cs_list[p] # <<>>
    BY <1>1 DEF ProcessType, process_wait
  <2>2. Len(cs_list[p]) \in 1..Len(cs_list[p])
    BY <2>1, SMT
  <2>3. \E i \in 1..Len(cs_list[p]) : arg' = [arg EXCEPT ![p] = cs_list[p][i]]
    BY <2>2 DEF process_wait
  <2> QED BY <2>3 DEF Rng
<1>3. k \in Child /\ k \in Proc
  BY <1>1, <1>2, ListOfChildren DEF Child
<1>4. /\ pc'[p] = "wait_lock" /\ RootInv' /\ HasLoaded(p)' /\ ~Gone(p)
      /\ \A c \in Child : pc'[c] = pc[c] \/ (Running(c) /\ Running(c)')
  BY <1>1, RunMove DEF Place, Running
<1>5. /\ ProcessType' /\ RootInv'
      /\ \A q \in Proc : ListInv(q)'
      /\ \A q \in Proc : q # p => CallInv(q)'
      /\ \A q \in Proc : \A c : LetGo(q, c)' <=> LetGo(q, c)
      /\ \A q \in Proc : q # p => pc'[q] = pc[q]
  <2>1. arg' \in [Proc -> Proc] /\ \A q \in Proc : q # p => arg'[q] = arg[q]
    BY <1>1, <1>2, <1>3 DEF ProcessType
  <2> QED BY <1>1, <1>4, <2>1, KeepStep DEF ProcessType, Place
<1>6. CallInv(p)'
  <2>1. arg'[p] = k
    BY <1>1, <1>2 DEF ProcessType
  <2> QED BY <1>1, <1>2, <1>4, <2>1 DEF CallInv, Unlisted, Listed, Waiting
<1>7. ASSUME NEW c \in Child PROVE RecordInv(c)'
  <2>1. parent[c] \in Proc
    BY <1>1 DEF ProcessType, Child
  <2>2. /\ Pending(parent[c], c)' <=> Pending(parent[c], c)
        /\ Unlisted(parent[c]) => Unlisted(parent[c])' /\ arg'[parent[c]] = arg[parent[c]]
    BY <1>1, <1>2, <1>4, <1>5, <2>1 DEF Pending, Unlisted, ProcessType
  <2> QED BY <1>1, <1>4, <1>5, <2>1, <2>2, RecordFrame
<1> QED BY <1>5, <1>6, <1>7 DEF ProcessInv

\* A parent that does not take the semaphore finds a child that has left.
LEMMA WaitLockStep ==
  ASSUME ProcessInv, NEW p \in Proc, wait_lock(p), ~LockBroken(arg[p])
  PROVE  ProcessInv'
<1> PICK k \in Proc : k = arg[p]
  BY DEF ProcessInv, ProcessType
<1> PICK l \in {"wait_down", "wait_done"} :
         l = IF ref_cnt[k] = 2 THEN "wait_down" ELSE "wait_done"
  OBVIOUS
<1>1. /\ ProcessType /\ RootInv /\ pc[p] = "wait_lock" /\ pc' = [pc EXCEPT ![p] = l]
      /\ UNCHANGED <<arg, parent, cs_list, heap, pid, exit_status, ref_cnt, sema, doomed,
                     next, fate>>
      /\ LockUsable(k)
  BY DEF ProcessInv, wait_lock, Goto, record, local
<1>2. k \in Rng(cs_list[p]) /\ k \in Child /\ RecordInv(k) /\ parent[k] = p
  BY <1>1, ListOfChildren DEF ProcessInv, CallInv, ListInv, Waiting
<1>3. /\ pc'[p] = l /\ RootInv' /\ HasLoaded(p)' /\ ~Gone(p)
      /\ \A c \in Child : pc'[c] = pc[c] \/ (Running(c) /\ Running(c)')
  <2>1. Running(p) /\ l \in Place
    BY <1>1 DEF Place, Running, Waiting
  <2>2. l \notin {"none", "never", "start", "loaded", "not_loaded",
                  "exit_ref", "exit_free", "exit_up", "exit_children", "dead"}
    OBVIOUS
  <2> QED BY <1>1, <2>1, <2>2, RunMove DEF Running, Waiting
<1>4. /\ ProcessType' /\ RootInv'
      /\ \A q \in Proc : ListInv(q)'
      /\ \A q \in Proc : q # p => CallInv(q)'
      /\ \A q \in Proc : \A c : LetGo(q, c)' <=> LetGo(q, c)
      /\ \A q \in Proc : q # p => pc'[q] = pc[q]
  BY <1>1, <1>3, KeepStep DEF ProcessType, Place
<1>5. CallInv(p)'
  <2>1. l = "wait_done" => Gone(k)
    <3>1. ~LetGo(p, k) /\ heap[k] = "live"
      BY <1>1 DEF LetGo, LockUsable
    <3>2. ~Gone(k) => ref_cnt[k] = 2
      BY <1>2, <3>1, SMT DEF RecordInv, RefRight
    <3> QED BY <3>2
  <2>2. Gone(k) => Gone(k)'
    BY <1>3, <1>4 DEF Gone
  <2> QED BY <1>1, <1>2, <1>3, <2>1, <2>2 DEF CallInv, Unlisted, Listed, Waiting
<1>6. ASSUME NEW c \in Child PROVE RecordInv(c)'
  <2>1. parent[c] \in Proc
    BY <1>1 DEF ProcessType, Child
  <2>2. /\ Pending(parent[c], c)' <=> Pending(parent[c], c)
        /\ Unlisted(parent[c]) => Unlisted(parent[c])'
    BY <1>1, <1>3, <1>4, <2>1 DEF Pending, Unlisted
  <2> QED BY <1>1, <1>3, <1>4, <2>1, <2>2, RecordFrame
<1> QED BY <1>4, <1>5, <1>6 DEF ProcessInv

\* The sema_down() of process_wait() takes the sema_up() of the exit, not the
\* one of the load.
LEMMA WaitDownStep ==
  ASSUME ProcessInv, NEW p \in Proc, wait_down(p)
  PROVE  ProcessInv'
<1> PICK k \in Proc : k = arg[p]
  BY DEF ProcessInv, ProcessType
<1>1. /\ ProcessType /\ RootInv /\ pc[p] = "wait_down" /\ pc' = [pc EXCEPT ![p] = "wait_done"]
      /\ sema[k] > 0 /\ sema' = [sema EXCEPT ![k] = @ - 1]
      /\ UNCHANGED <<arg, parent, cs_list, heap, pid, exit_status, ref_cnt, doomed, next,
                     fate>>
  BY DEF ProcessInv, wait_down, Goto, local
<1>2. /\ k \in Rng(cs_list[p]) /\ k \in Child /\ RecordInv(k) /\ parent[k] = p
      /\ sema[k] # Garbage /\ heap[k] = "live"
  <2>1. ~LetGo(p, k)
    BY <1>1 DEF LetGo
  <2> QED BY <1>1, <2>1, ListOfChildren DEF ProcessInv, CallInv, ListInv, Waiting
<1>3. /\ pc'[p] = "wait_done" /\ RootInv' /\ HasLoaded(p)' /\ ~Gone(p)
      /\ \A c \in Child : pc'[c] = pc[c] \/ (Running(c) /\ Running(c)')
  BY <1>1, RunMove DEF Place, Running, Waiting
<1>4. /\ sema[k] \in Nat /\ sema' \in [Proc -> Nat \cup {Garbage}] /\ sema'[k] = sema[k] - 1
      /\ \A c \in Proc : c # k => sema'[c] = sema[c]
  BY <1>1, <1>2, SMT DEF ProcessType
<1>5. /\ ProcessType' /\ RootInv'
      /\ \A q \in Proc : ListInv(q)'
      /\ \A q \in Proc : q # p => CallInv(q)'
      /\ \A q \in Proc : \A c : LetGo(q, c)' <=> LetGo(q, c)
      /\ \A q \in Proc : q # p => pc'[q] = pc[q]
  <2>1. \A c \in Child : sema[c] # Garbage => sema'[c] # Garbage
    BY <1>1, <1>4, ProcessAssumption, SMT DEF Child
  <2> QED BY <1>1, <1>3, <1>4, <2>1, KeepStep DEF ProcessType, Place
<1>6. ~Pending(p, k) /\ ~Pending(p, k)'
  BY <1>1, <1>3 DEF Pending
<1>7. Gone(k) /\ Gone(k)'
  <2>1. Exiting(k)
    <3>1. SemaRight(k)
      BY <1>2 DEF RecordInv
    <3> QED BY <1>1, <1>2, <1>4, <1>6, <3>1, SMT DEF SemaRight
  <2> QED BY <1>3, <1>5, <2>1 DEF Exiting, Gone
<1>8. CallInv(p)'
  BY <1>1, <1>2, <1>3, <1>7 DEF CallInv, Unlisted, Listed, Waiting
<1>9. ASSUME NEW c \in Child PROVE RecordInv(c)'
  <2>1. CASE c = k
    <3>1. pc'[k] = pc[k] 
      BY <1>3, <1>5, <1>7 DEF Gone
    <3>2. RefRight(k)' <=> RefRight(k)
      BY <1>1, <1>2, <1>5, <3>1 DEF RefRight, Gone
    <3>3. SemaRight(k)'
      <4>1. SemaRight(k) /\ parent'[k] = p /\ (HasLoaded(k)' <=> HasLoaded(k))
            /\ (Exiting(k)' <=> Exiting(k))
        BY <1>1, <1>2, <3>1 DEF RecordInv, HasLoaded, Exiting
      <4> QED BY <1>2, <1>4, <1>6, <4>1, SMT DEF SemaRight
    <3> QED BY <1>1, <1>2, <2>1, <3>1, <3>2, <3>3 DEF RecordInv, Gone
  <2>2. CASE c # k
    <3>1. parent[c] \in Proc /\ sema'[c] = sema[c]
      BY <1>1, <1>4, <2>2 DEF ProcessType, Child
    <3>2. /\ Pending(parent[c], c)' <=> Pending(parent[c], c)
          /\ Unlisted(parent[c]) => Unlisted(parent[c])'
      BY <1>1, <1>3, <1>5, <3>1 DEF Pending, Unlisted
    <3> QED BY <1>1, <1>3, <1>5, <3>1, <3>2, RecordFrame
  <2> QED BY <2>1, <2>2
<1> QED BY <1>5, <1>8, <1>9 DEF ProcessInv

\* A child that is not in exec or wait, before or after the step, leaves the
\* records of the others as they were.
LEMMA ChildFrame ==
  ASSUME ProcessInv, NEW p \in Proc,
         \A q \in Proc : q # p => pc'[q] = pc[q],
         ~Unlisted(p), ~Listed(p), ~Unlisted(p)', ~Listed(p)',
         UNCHANGED <<arg, parent, cs_list, doomed>>,
         \A q \in Proc : \A c : LetGo(q, c)' <=> LetGo(q, c),
         NEW c \in Child, c # p, heap'[c] = heap[c], ref_cnt'[c] = ref_cnt[c], sema'[c] = sema[c],
         exit_status'[c] = exit_status[c], fate'[c] = fate[c]
  PROVE  RecordInv(c)'
<1>1. parent[c] \in Proc /\ c \in Proc
  BY DEF ProcessInv, ProcessType, Child
<1>2. /\ Pending(parent[c], c)' <=> Pending(parent[c], c)
      /\ Unlisted(parent[c]) => Unlisted(parent[c])'
  BY <1>1 DEF Pending, Unlisted, Listed
<1> QED BY <1>1, <1>2, RecordFrame

\* What the step leaves alone for the record of the child itself.
LEMMA OwnFrame ==
  ASSUME ProcessInv, NEW p \in Proc,
         \A q \in Proc : q # p => pc'[q] = pc[q],
         ~Unlisted(p), ~Listed(p), ~Unlisted(p)', ~Listed(p)',
         UNCHANGED <<arg, parent>>,
         \A q \in Proc : \A c : LetGo(q, c)' <=> LetGo(q, c)
  PROVE  /\ Pending(parent[p], p)' <=> Pending(parent[p], p)
         /\ Unlisted(parent[p]) => Unlisted(parent[p])'
         /\ LetGo(parent[p], p)' <=> LetGo(parent[p], p)
<1>1. parent[p] \in Proc
  BY DEF ProcessInv, ProcessType
<1> QED BY <1>1 DEF Pending, Unlisted, Listed

\* load() ends.
LEMMA StartStep ==
  ASSUME ProcessInv, NEW p \in Proc, start_process(p)
  PROVE  ProcessInv'
<1>1. PICK l \in {"loaded", "not_loaded"} :
        /\ ProcessType /\ RootInv /\ pc[p] = "start" /\ pc' = [pc EXCEPT ![p] = l]
        /\ UNCHANGED <<arg, parent, cs_list, heap, exit_status, ref_cnt, sema, doomed, next>>
        /\ \/ l = "loaded" /\ UNCHANGED <<pid, fate>>
           \/ /\ l = "not_loaded" /\ pid' = [pid EXCEPT ![p] = TID_ERROR]
              /\ fate' = [fate EXCEPT ![p] = "no_load"]
  BY DEF ProcessInv, start_process, Goto, local
<1>2. p # root /\ p \in Child /\ RecordInv(p)
  BY <1>1 DEF ProcessInv, RootInv, Child
<1>3. pc'[p] = l /\ RootInv' /\ ~HasLoaded(p) /\ ~Gone(p)
  BY <1>1, <1>2, Move, ProcessAssumption DEF RootInv, Place, HasLoaded, Gone
<1>4. /\ DOMAIN pid' = Proc /\ DOMAIN fate' = Proc
      /\ \A c \in Proc : c # p => fate'[c] = fate[c] /\ pid'[c] = pid[c]
      /\ \/ l = "loaded" /\ pid'[p] = pid[p] /\ fate'[p] = fate[p]
         \/ l = "not_loaded" /\ fate'[p] = "no_load"
  BY <1>1 DEF ProcessType
<1>5. /\ ProcessType' /\ RootInv'
      /\ \A q \in Proc : ListInv(q)'
      /\ \A q \in Proc : q # p => CallInv(q)'
      /\ \A q \in Proc : \A c : LetGo(q, c)' <=> LetGo(q, c)
      /\ \A q \in Proc : q # p => pc'[q] = pc[q]
  <2>1. \A c \in Child : /\ fate[c] = "no_load" => fate'[c] = "no_load"
                         /\ pid'[c] = TID_ERROR => pid[c] = TID_ERROR \/ fate'[c] = "no_load"
    BY <1>4 DEF Child
  <2> QED BY <1>1, <1>3, <1>4, <2>1, KeepStep DEF ProcessType, Place
<1>6. CallInv(p)'
  BY <1>3 DEF CallInv, Unlisted, Listed, Waiting
<1>7. ~Unlisted(p) /\ ~Listed(p) /\ ~Unlisted(p)' /\ ~Listed(p)'
  BY <1>1, <1>3 DEF Unlisted, Listed
<1>8. RecordInv(p)'
  <2>1. /\ Pending(parent[p], p)' <=> Pending(parent[p], p)
        /\ Unlisted(parent[p]) => Unlisted(parent[p])'
        /\ LetGo(parent[p], p)' <=> LetGo(parent[p], p)
    BY <1>1, <1>5, <1>7, OwnFrame
  <2>2. RefRight(p)' <=> RefRight(p)
    BY <1>1, <1>3, <2>1 DEF RefRight, Gone
  <2>3. heap[p] = "live" => SemaRight(p)'
    <3>1. /\ sema[p] \in Nat \cup {Garbage} /\ parent' = parent
          /\ (HasLoaded(p) => HasLoaded(p)') /\ ~Exiting(p)
      BY <1>1, <1>3 DEF ProcessType, HasLoaded, Exiting
    <3> QED BY <1>1, <1>2, <2>1, <3>1, SemaFrame DEF RecordInv
  <2> QED BY <1>1, <1>2, <1>3, <1>4, <2>1, <2>2, <2>3 DEF RecordInv, Gone
<1>9. ASSUME NEW c \in Child, c # p PROVE RecordInv(c)'
  BY <1>1, <1>4, <1>5, <1>7, <1>9, ChildFrame DEF Child
<1> QED BY <1>5, <1>6, <1>8, <1>9 DEF ProcessInv

\* sema_up() says that the child is loaded, or that it exits.
LEMMA SemaUpStep ==
  ASSUME ProcessInv, NEW p \in Proc, NEW l \in {"user", "exit_ref", "exit_children"},
         SemaUp(p, p, l), ~UNCHANGED pc,
         \/ pc[p] = "loaded" /\ l = "user"
         \/ pc[p] = "not_loaded" /\ l = "exit_ref"
         \/ pc[p] = "exit_up" /\ l = "exit_children"
  PROVE  ProcessInv'
<1>1. /\ ProcessType /\ RootInv /\ pc' = [pc EXCEPT ![p] = l]
      /\ UNCHANGED <<arg, parent, cs_list, heap, pid, exit_status, ref_cnt, doomed, next,
                     fate>>
      /\ heap[p] = "live" /\ sema[p] # Garbage /\ sema' = [sema EXCEPT ![p] = @ + 1]
  BY DEF ProcessInv, SemaUp, Goto, local, Undef
<1>2. p # root /\ p \in Child /\ RecordInv(p) /\ l \in Place
  BY <1>1 DEF ProcessInv, RootInv, Child, Place
<1>3. /\ pc'[p] = l /\ RootInv' /\ HasLoaded(p)'
      /\ Gone(p) => pc[p] = "exit_up" /\ l = "exit_children"
  BY <1>1, <1>2, Move, ProcessAssumption DEF RootInv, HasLoaded, Gone
<1>4. /\ sema[p] \in Nat /\ sema' \in [Proc -> Nat \cup {Garbage}] /\ sema'[p] = sema[p] + 1
      /\ \A c \in Proc : c # p => sema'[c] = sema[c]
  BY <1>1, SMT DEF ProcessType
<1>5. /\ ProcessType' /\ RootInv'
      /\ \A q \in Proc : ListInv(q)'
      /\ \A q \in Proc : q # p => CallInv(q)'
      /\ \A q \in Proc : \A c : LetGo(q, c)' <=> LetGo(q, c)
      /\ \A q \in Proc : q # p => pc'[q] = pc[q]
  <2>1. \A c \in Child : sema[c] # Garbage => sema'[c] # Garbage
    BY <1>1, <1>4, ProcessAssumption, SMT DEF Child
  <2> QED BY <1>1, <1>2, <1>3, <1>4, <2>1, KeepStep DEF ProcessType
<1>6. CallInv(p)'
  BY <1>3 DEF CallInv, Unlisted, Listed, Waiting
<1>7. ~Unlisted(p) /\ ~Listed(p) /\ ~Unlisted(p)' /\ ~Listed(p)'
  BY <1>3 DEF Unlisted, Listed
<1>8. RecordInv(p)'
  <2>1. /\ Pending(parent[p], p)' <=> Pending(parent[p], p)
        /\ Unlisted(parent[p]) => Unlisted(parent[p])'
        /\ LetGo(parent[p], p)' <=> LetGo(parent[p], p)
    BY <1>1, <1>5, <1>7, OwnFrame
  <2>2. RefRight(p)' <=> RefRight(p)
    BY <1>1, <1>3, <2>1 DEF RefRight, Gone
  <2>3. heap[p] = "live" => SemaRight(p)'
    <3>1. /\ sema[p] \in Nat /\ parent'[p] = parent[p] /\ HasLoaded(p)'
          /\ \/ ~HasLoaded(p) /\ ~Exiting(p)
             \/ HasLoaded(p) /\ ~Exiting(p) /\ Exiting(p)'
      BY <1>1, <1>3, <1>4 DEF HasLoaded, Exiting
    <3>2. heap[p] = "live" => SemaRight(p)
      BY <1>2 DEF RecordInv
    <3> QED BY <1>4, <2>1, <3>1, <3>2, ProcessAssumption, SMT DEF SemaRight
  <2> QED BY <1>1, <1>2, <1>3, <1>4, <2>1, <2>2, <2>3 DEF RecordInv, Gone
<1>9. ASSUME NEW c \in Child, c # p PROVE RecordInv(c)'
  BY <1>1, <1>4, <1>5, <1>7, <1>9, ChildFrame DEF Child
<1> QED BY <1>5, <1>6, <1>8, <1>9 DEF ProcessInv

\* A user program ends, by exit() or by kill().
LEMMA EndStep ==
  ASSUME ProcessInv, NEW p \in Proc,
         (\E s \in ExitStatus : exit(p, s) /\ ~UNCHANGED pc) \/ kill(p)
  PROVE  ProcessInv'
<1>1. /\ ProcessType /\ RootInv /\ pc[p] = "user" /\ pc' = [pc EXCEPT ![p] = "exit_ref"]
      /\ p # root /\ UNCHANGED <<arg, parent, cs_list, heap, pid, ref_cnt, sema, doomed, next>>
      /\ \/ /\ \E s \in ExitStatus : exit_status' = [exit_status EXCEPT ![p] = s]
            /\ fate' = [fate EXCEPT ![p] = "exit"]
         \/ /\ UNCHANGED exit_status
            /\ fate' = [fate EXCEPT ![p] = "killed"]
  BY DEF ProcessInv, exit, kill, Goto, local, Undef, record
<1>2. p \in Child /\ RecordInv(p)
  BY <1>1 DEF ProcessInv, Child
<1>3. pc'[p] = "exit_ref" /\ RootInv' /\ HasLoaded(p)' /\ ~Gone(p)
  BY <1>1, Move, ProcessAssumption DEF RootInv, Place, HasLoaded, Gone
<1>4. /\ DOMAIN exit_status' = Proc /\ DOMAIN fate' = Proc
      /\ \A c \in Proc : c # p => fate'[c] = fate[c] /\ exit_status'[c] = exit_status[c]
      /\ (fate'[p] = "exit" /\ exit_status'[p] \in ExitStatus) \/ fate'[p] = "killed"
  BY <1>1 DEF ProcessType
<1>5. /\ ProcessType' /\ RootInv'
      /\ \A q \in Proc : ListInv(q)'
      /\ \A q \in Proc : q # p => CallInv(q)'
      /\ \A q \in Proc : \A c : LetGo(q, c)' <=> LetGo(q, c)
      /\ \A q \in Proc : q # p => pc'[q] = pc[q]
  <2>1. \A c \in Child : fate[c] = "no_load" => fate'[c] = "no_load"
    BY <1>1, <1>2, <1>4 DEF Child, RecordInv, Gone
  <2> QED BY <1>1, <1>3, <1>4, <2>1, KeepStep DEF ProcessType, Place
<1>6. CallInv(p)'
  BY <1>3 DEF CallInv, Unlisted, Listed, Waiting
<1>7. ~Unlisted(p) /\ ~Listed(p) /\ ~Unlisted(p)' /\ ~Listed(p)'
  BY <1>1, <1>3 DEF Unlisted, Listed
<1>8. RecordInv(p)'
  <2>1. /\ Pending(parent[p], p)' <=> Pending(parent[p], p)
        /\ Unlisted(parent[p]) => Unlisted(parent[p])'
        /\ LetGo(parent[p], p)' <=> LetGo(parent[p], p)
    BY <1>1, <1>5, <1>7, OwnFrame
  <2>2. RefRight(p)' <=> RefRight(p)
    BY <1>1, <1>3, <2>1 DEF RefRight, Gone
  <2>3. heap[p] = "live" => SemaRight(p)'
    <3>1. /\ sema[p] \in Nat \cup {Garbage} /\ parent' = parent
          /\ (HasLoaded(p) => HasLoaded(p)') /\ ~Exiting(p)
      BY <1>1, <1>3 DEF ProcessType, HasLoaded, Exiting
    <3> QED BY <1>1, <1>2, <2>1, <3>1, SemaFrame DEF RecordInv
  <2> QED BY <1>1, <1>2, <1>3, <1>4, <2>1, <2>2, <2>3 DEF RecordInv, Gone
<1>9. ASSUME NEW c \in Child, c # p PROVE RecordInv(c)'
  BY <1>1, <1>4, <1>5, <1>7, <1>9, ChildFrame DEF Child
<1> QED BY <1>5, <1>6, <1>8, <1>9 DEF ProcessInv

\* The child gives its reference back.
LEMMA ExitRefStep ==
  ASSUME ProcessInv, NEW p \in Proc, exit_ref(p), ~UNCHANGED pc
  PROVE  ProcessInv'
<1>1. PICK l \in {"exit_free", "exit_up"} :
        /\ ProcessType /\ RootInv /\ pc[p] = "exit_ref" /\ pc' = [pc EXCEPT ![p] = l]
        /\ UNCHANGED <<arg, parent, cs_list, heap, pid, exit_status, sema, doomed, next,
                       fate>>
        /\ heap[p] = "live" /\ ref_cnt' = [ref_cnt EXCEPT ![p] = @ - 1]
        /\ l = "exit_free" <=> ref_cnt[p] = 1
  BY DEF ProcessInv, exit_ref, Goto, local, LockBroken, Undef, LockUsable
<1>2. p # root /\ p \in Child /\ RecordInv(p)
  BY <1>1 DEF ProcessInv, RootInv, Child
<1>3. pc'[p] = l /\ RootInv' /\ HasLoaded(p)' /\ ~Gone(p)
  BY <1>1, <1>2, Move, ProcessAssumption DEF RootInv, Place, HasLoaded, Gone
<1>4. /\ ref_cnt[p] \in Int /\ ref_cnt' \in [Proc -> Int] /\ ref_cnt'[p] = ref_cnt[p] - 1
      /\ \A c \in Proc : c # p => ref_cnt'[c] = ref_cnt[c]
  BY <1>1, SMT DEF ProcessType
<1>5. /\ ProcessType' /\ RootInv'
      /\ \A q \in Proc : ListInv(q)'
      /\ \A q \in Proc : q # p => CallInv(q)'
      /\ \A q \in Proc : \A c : LetGo(q, c)' <=> LetGo(q, c)
      /\ \A q \in Proc : q # p => pc'[q] = pc[q]
  BY <1>1, <1>3, <1>4, KeepStep DEF ProcessType, Place
<1>6. CallInv(p)'
  BY <1>3 DEF CallInv, Unlisted, Listed, Waiting
<1>7. ~Unlisted(p) /\ ~Listed(p) /\ ~Unlisted(p)' /\ ~Listed(p)'
  BY <1>1, <1>3 DEF Unlisted, Listed
<1>8. RecordInv(p)'
  <2>1. /\ Pending(parent[p], p)' <=> Pending(parent[p], p)
        /\ Unlisted(parent[p]) => Unlisted(parent[p])'
        /\ LetGo(parent[p], p)' <=> LetGo(parent[p], p)
    BY <1>1, <1>5, <1>7, OwnFrame
  <2>2. RefRight(p)' /\ (ref_cnt'[p] = 0 <=> l = "exit_free")
    <3>1. RefRight(p) /\ Gone(p)'
      BY <1>1, <1>2, <1>3 DEF RecordInv, Gone
    <3> QED BY <1>1, <1>3, <1>4, <2>1, <3>1, SMT DEF RefRight
  <2>3. heap[p] = "live" => SemaRight(p)'
    <3>1. /\ sema[p] \in Nat \cup {Garbage} /\ parent' = parent
          /\ (HasLoaded(p) => HasLoaded(p)') /\ ~Exiting(p)
      BY <1>1, <1>3 DEF ProcessType, HasLoaded, Exiting
    <3> QED BY <1>1, <1>2, <2>1, <3>1, SemaFrame DEF RecordInv
  <2> QED BY <1>1, <1>2, <1>3, <1>4, <2>1, <2>2, <2>3 DEF RecordInv, Gone
<1>9. ASSUME NEW c \in Child, c # p PROVE RecordInv(c)'
  BY <1>1, <1>4, <1>5, <1>7, <1>9, ChildFrame DEF Child
<1> QED BY <1>5, <1>6, <1>8, <1>9 DEF ProcessInv

\* A process turns to its children, and ends when it is through with them.
LEMMA LeaveStep ==
  ASSUME ProcessInv, NEW p \in Proc, (p = root /\ root_exit) \/ exit_done(p)
  PROVE  ProcessInv'
<1>1. PICK l \in {"exit_children", "dead"} :
        /\ ProcessType /\ RootInv /\ pc' = [pc EXCEPT ![p] = l]
        /\ UNCHANGED <<arg, parent, cs_list, heap, pid, exit_status, ref_cnt, sema, doomed,
                       next, fate>>
        /\ \/ p = root /\ pc[p] = "user" /\ l = "exit_children"
           \/ /\ pc[p] = "exit_children" /\ l = "dead"
              /\ next[p] > Len(cs_list[p]) /\ doomed[p] = {}
  BY DEF ProcessInv, root_exit, exit_done, Goto, local, record
<1>3. pc'[p] = l /\ RootInv' /\ HasLoaded(p)'
  BY <1>1, Move, ProcessAssumption DEF RootInv, Place, HasLoaded
<1>5. /\ ProcessType' /\ RootInv'
      /\ \A q \in Proc : ListInv(q)'
      /\ \A q \in Proc : q # p => CallInv(q)'
      /\ \A q \in Proc : \A c : LetGo(q, c)' <=> LetGo(q, c)
      /\ \A q \in Proc : q # p => pc'[q] = pc[q]
  BY <1>1, <1>3, KeepStep DEF ProcessType, Place, Gone
<1>6. CallInv(p)'
  BY <1>3 DEF CallInv, Unlisted, Listed, Waiting
<1>7. ~Unlisted(p) /\ ~Listed(p) /\ ~Unlisted(p)' /\ ~Listed(p)'
  BY <1>1, <1>3 DEF Unlisted, Listed
<1>8. p \in Child => RecordInv(p)'
  <2>1. /\ Pending(parent[p], p)' <=> Pending(parent[p], p)
        /\ Unlisted(parent[p]) => Unlisted(parent[p])'
        /\ LetGo(parent[p], p)' <=> LetGo(parent[p], p)
    BY <1>1, <1>5, <1>7, OwnFrame
  <2>2. SUFFICES ASSUME p \in Child PROVE RecordInv(p)'
    OBVIOUS
  <2>3. RecordInv(p) /\ pc[p] = "exit_children" /\ l = "dead"
    BY <1>1, <2>2 DEF ProcessInv, Child
  <2>4. RefRight(p)' <=> RefRight(p)
    BY <1>1, <1>3, <2>1, <2>3 DEF RefRight, Gone
  <2>5. heap[p] = "live" => SemaRight(p)'
    <3>1. /\ sema[p] \in Nat \cup {Garbage} /\ parent' = parent /\ Exiting(p)'
      BY <1>1, <1>3 DEF ProcessType, Exiting
    <3> QED BY <1>1, <1>3, <2>1, <2>3, <3>1, SemaFrame DEF RecordInv
  <2> QED BY <1>1, <1>3, <2>1, <2>3, <2>4, <2>5 DEF RecordInv, Gone
<1>9. ASSUME NEW c \in Child, c # p PROVE RecordInv(c)'
  BY <1>1, <1>5, <1>7, <1>9, ChildFrame DEF Child
<1> QED BY <1>5, <1>6, <1>8, <1>9 DEF ProcessInv

\* list_push_front() adds the record once.
LEMMA PushFacts ==
  ASSUME NEW S, NEW q \in Seq(S), NEW c \in S, c \notin Rng(q),
         \A i, j \in 1..Len(q) : q[i] = q[j] => i = j
  PROVE  LET u == <<c>> \o q
         IN /\ u \in Seq(S)
            /\ Rng(u) = Rng(q) \cup {c}
            /\ \A i, j \in 1..Len(u) : u[i] = u[j] => i = j
<1> DEFINE u == <<c>> \o q
<1>1. /\ u \in Seq(S) /\ Len(u) = Len(q) + 1 /\ Len(q) \in Nat
      /\ u[1] = c /\ \A i \in 1..Len(u) : i # 1 => i - 1 \in 1..Len(q) /\ u[i] = q[i - 1]
  BY SMT
<1> HIDE DEF u
<1>2. \A i \in 1..Len(q) : q[i] # c
  BY DEF Rng
<1>3. ASSUME NEW i \in 1..Len(u), NEW j \in 1..Len(u), u[i] = u[j] PROVE i = j
  <2>1. CASE i = 1 \/ j = 1
    BY <1>1, <1>2, <1>3, <2>1, SMT
  <2>2. CASE i # 1 /\ j # 1
    <3>1. i - 1 = j - 1
      BY <1>1, <1>3, <2>2
    <3> QED BY <1>1, <3>1, SMT
  <2> QED BY <2>1, <2>2
<1>4. Rng(u) \subseteq Rng(q) \cup {c}
  BY <1>1, SMT DEF Rng
<1>5. ASSUME NEW d \in Rng(q) PROVE d \in Rng(u)
  <2>1. PICK i \in 1..Len(q) : q[i] = d
    BY DEF Rng
  <2>2. i + 1 \in 1..Len(u) /\ u[i + 1] = q[(i + 1) - 1] /\ (i + 1) - 1 = i
    BY <1>1, SMT
  <2> QED BY <2>1, <2>2 DEF Rng
<1>6. c \in Rng(u)
  BY <1>1, SMT DEF Rng
<1> QED BY <1>1, <1>3, <1>4, <1>5, <1>6, SMT DEF u

\* lock_init(), and the record joins the list of the parent.
LEMMA ExecLockStep ==
  ASSUME ProcessInv, NEW p \in Proc, exec_lock(p)
  PROVE  ProcessInv'
<1> PICK k \in Proc : k = arg[p]
  BY DEF ProcessInv, ProcessType
<1>0. /\ pc[p] = "exec_lock" /\ pc' = [pc EXCEPT ![p] = "exec_pid"]
      /\ cs_list' = [cs_list EXCEPT ![p] = <<k>> \o @]
      /\ UNCHANGED <<arg, parent, heap, pid, exit_status, ref_cnt, sema, doomed, next, fate>>
  BY DEF exec_lock, Goto, local
<1>1. /\ ProcessType /\ RootInv /\ CallInv(p) /\ ListInv(p) /\ cs_list[p] \in Seq(Child)
      /\ k \in Child /\ parent[k] = p /\ heap[k] = "live" /\ sema[k] # Garbage
      /\ k \notin Rng(cs_list[p])
  BY <1>0 DEF ProcessInv, CallInv, Unlisted, ProcessType
<1>2. /\ pc'[p] = "exec_pid" /\ RootInv' /\ HasLoaded(p)' /\ ~Gone(p)
      /\ \A c \in Child : pc'[c] = pc[c] \/ (Running(c) /\ Running(c)')
      /\ pc' \in [Proc -> Place] /\ \A q \in Proc : q # p => pc'[q] = pc[q]
  BY <1>0, <1>1, RunMove, Move DEF Place, Running, Unlisted
<1>3. /\ cs_list'[p] \in Seq(Child) /\ Rng(cs_list'[p]) = Rng(cs_list[p]) \cup {k}
      /\ \A i, j \in 1..Len(cs_list'[p]) : cs_list'[p][i] = cs_list'[p][j] => i = j
      /\ \A q \in Proc : q # p => cs_list'[q] = cs_list[q]
  <2>1. cs_list'[p] = <<k>> \o cs_list[p] /\ \A q \in Proc : q # p => cs_list'[q] = cs_list[q]
    BY <1>0, <1>1 DEF ProcessType
  <2>2. \A i, j \in 1..Len(cs_list[p]) : cs_list[p][i] = cs_list[p][j] => i = j
    BY <1>1 DEF ListInv
  <2>3. LET u == <<k>> \o cs_list[p]
        IN /\ u \in Seq(Child) /\ Rng(u) = Rng(cs_list[p]) \cup {k}
           /\ \A i, j \in 1..Len(u) : u[i] = u[j] => i = j
    BY <1>1, <2>2, PushFacts, SMT
  <2> QED BY <2>1, <2>3
<1>4. ProcessType'
  BY <1>0, <1>1, <1>2, <1>3 DEF ProcessType
<1>5. \A q \in Proc : \A c : LetGo(q, c)' <=> LetGo(q, c)
  BY <1>0, <1>2, <1>3 DEF LetGo
<1>6. ASSUME NEW q \in Proc PROVE ListInv(q)'
  <2>1. CASE q = p
    <3>1. Rng(cs_list[p])' = Rng(cs_list[p]) \cup {k}
      BY <1>3 DEF Rng
    <3>2. ~Exiting(p) /\ ~Exiting(p)'
      BY <1>0, <1>2 DEF Exiting
    <3>3. \A c : ~LetGo(p, c)
      BY <3>2 DEF LetGo, Exiting
    <3>4. /\ \A c \in Rng(cs_list[p])' :
               parent'[c] = p /\ sema'[c] # Garbage /\ heap'[c] = "live"
          /\ next'[p] = 1 /\ doomed'[p] = {}
      BY <1>0, <1>1, <3>1, <3>2, <3>3 DEF ListInv
    <3>5. pc'[p] # "dead"
      BY <1>2
    <3> QED BY <1>3, <2>1, <3>4, <3>5 DEF ListInv
  <2>2. CASE q # p
    <3>1. pc'[q] = pc[q] /\ (Exiting(q)' <=> Exiting(q))
      BY <1>2, <2>2 DEF Exiting
    <3>2. \A c \in Child : pc[c] \in {"exit_up", "exit_children", "dead"} =>
            pc'[c] \in {"exit_up", "exit_children", "dead"}
      BY <1>0, <1>2 DEF Child
    <3> QED BY <1>0, <1>3, <1>5, <2>2, <3>1, <3>2, ListFrame
  <2> QED BY <2>1, <2>2
<1>7. ASSUME NEW q \in Proc PROVE CallInv(q)'
  <2>1. CASE q = p
    <3>1. Rng(cs_list[p])' = Rng(cs_list[p]) \cup {k}
      BY <1>3 DEF Rng
    <3> QED BY <1>0, <1>1, <1>2, <2>1, <3>1 DEF CallInv, Unlisted, Listed, Waiting
  <2>2. CASE q # p
    <3>1. \A c \in Child : /\ pc[c] = "never" => pc'[c] = "never"
                           /\ HasLoaded(c) => HasLoaded(c)'
                           /\ Gone(c) => Gone(c)'
      BY <1>0, <1>2 DEF Child, HasLoaded, Gone
    <3> QED BY <1>0, <1>2, <1>3, <2>2, <3>1, CallFrame
  <2> QED BY <2>1, <2>2
<1>8. ASSUME NEW c \in Child PROVE RecordInv(c)'
  <2>1. parent[c] \in Proc
    BY <1>1 DEF ProcessType, Child
  <2>2. Pending(parent[c], c)' <=> Pending(parent[c], c)
    BY <1>0, <1>2, <2>1 DEF Pending
  <2>3. c \in Rng(cs_list[parent[c]]) => c \in Rng(cs_list'[parent[c]])
    BY <1>3, <2>1
  <2>4. Unlisted(parent[c]) /\ arg[parent[c]] = c =>
          Unlisted(parent[c])' \/ c \in Rng(cs_list'[parent[c]])
    BY <1>0, <1>2, <1>3, <2>1 DEF Unlisted
  <2> QED BY <1>0, <1>2, <1>5, <2>1, <2>2, <2>3, <2>4, RecordFrame
<1> QED BY <1>2, <1>4, <1>6, <1>7, <1>8 DEF ProcessInv

\* The parent takes a record off its list and frees it, while the child may
\* still be on its way out.
LEMMA ParentFrees ==
  ASSUME ProcessInv, NEW p \in Proc, NEW k \in Rng(cs_list[p]),
         pc[p] \in {"exec_done", "wait_done"}, pc' = [pc EXCEPT ![p] = "user"],
         cs_list' = [cs_list EXCEPT ![p] = Unlink(@, k)], free({k}),
         UNCHANGED <<arg, parent, pid, exit_status, ref_cnt, sema, doomed, next, fate>>
  PROVE  ProcessInv'
<1>1. /\ ProcessType /\ RootInv /\ CallInv(p) /\ ListInv(p) /\ cs_list[p] \in Seq(Child)
      /\ k \in Child /\ k \in Proc /\ parent[k] = p /\ heap[k] = "live" /\ RecordInv(k)
      /\ ~LetGo(p, k)
  <2>1. /\ ProcessType /\ RootInv /\ CallInv(p) /\ ListInv(p)
        /\ \A c \in Child : RecordInv(c)
    BY DEF ProcessInv
  <2>2. cs_list[p] \in Seq(Child) /\ k \in Child /\ k \in Proc
    BY <2>1, ListOfChildren DEF ProcessType, Child
  <2>3. ~LetGo(p, k)
    BY DEF LetGo
  <2> QED BY <2>1, <2>2, <2>3 DEF ListInv
<1>2. /\ pc'[p] = "user" /\ RootInv' /\ HasLoaded(p)' /\ ~Gone(p)
      /\ \A c \in Child : pc'[c] = pc[c] \/ (Running(c) /\ Running(c)')
      /\ pc' \in [Proc -> Place] /\ \A q \in Proc : q # p => pc'[q] = pc[q]
  BY <1>1, RunMove, Move DEF Place, Running, Listed, Waiting
<1>3. /\ cs_list'[p] \in Seq(Child) /\ Rng(cs_list'[p]) = Rng(cs_list[p]) \ {k}
      /\ \A i, j \in 1..Len(cs_list'[p]) : cs_list'[p][i] = cs_list'[p][j] => i = j
      /\ \A q \in Proc : q # p => cs_list'[q] = cs_list[q]
  <2>1. cs_list'[p] = Unlink(cs_list[p], k)
        /\ \A q \in Proc : q # p => cs_list'[q] = cs_list[q]
    BY <1>1 DEF ProcessType
  <2>2. \A i, j \in 1..Len(cs_list[p]) : cs_list[p][i] = cs_list[p][j] => i = j
    BY <1>1 DEF ListInv
  <2> QED BY <1>1, <2>1, <2>2, UnlinkFacts, SMT
<1>4. /\ heap' \in [Proc -> {"none", "live", "freed"}] /\ heap'[k] = "freed"
      /\ \A c \in Proc : c # k => heap'[c] = heap[c]
  BY <1>1 DEF free, ProcessType
<1>5. ProcessType'
  <2>1. cs_list' \in [Proc -> Seq(Child)]
    BY <1>1, <1>3 DEF ProcessType
  <2> QED BY <1>1, <1>2, <1>4, <2>1 DEF ProcessType
<1>6. \A q \in Proc : \A c : LetGo(q, c)' <=> LetGo(q, c)
  BY <1>2, <1>3 DEF LetGo
<1>7. ASSUME NEW q \in Proc PROVE ListInv(q)'
  <2>1. CASE q = p
    <3>1. Rng(cs_list[p])' = Rng(cs_list[p]) \ {k} /\ Rng(cs_list[p]) \subseteq Child
      BY <1>1, <1>3, ListOfChildren DEF Rng
    <3>2. ~Exiting(p) /\ ~Exiting(p)' /\ \A c : ~LetGo(p, c)
      BY <1>2 DEF Exiting, LetGo
    <3>3. \A c \in Rng(cs_list[p]) \ {k} : heap'[c] = heap[c]
      BY <1>4, <3>1 DEF Child
    <3>4. /\ \A c \in Rng(cs_list[p])' :
               parent'[c] = p /\ sema'[c] # Garbage /\ heap'[c] = "live"
          /\ next'[p] = 1 /\ doomed'[p] = {}
      BY <1>1, <3>1, <3>2, <3>3 DEF ListInv
    <3>5. pc'[p] # "dead"
      BY <1>2
    <3> QED BY <1>3, <2>1, <3>4, <3>5, SMT DEF ListInv
  <2>2. CASE q # p
    <3>1. pc'[q] = pc[q] /\ (Exiting(q)' <=> Exiting(q))
      BY <1>2, <2>2 DEF Exiting
    <3>2. \A c \in Child : pc[c] \in {"exit_up", "exit_children", "dead"} =>
            pc'[c] \in {"exit_up", "exit_children", "dead"}
      BY <1>2 DEF Child
    <3>3. \A c \in Child : parent[c] = q => heap'[c] = heap[c]
      BY <1>1, <1>4, <2>2 DEF Child
    <3> QED BY <1>3, <1>6, <2>2, <3>1, <3>2, <3>3, ListFrame
  <2> QED BY <2>1, <2>2
<1>8. ASSUME NEW q \in Proc PROVE CallInv(q)'
  <2>1. CASE q = p
    BY <1>2, <2>1 DEF CallInv, Unlisted, Listed, Waiting
  <2>2. CASE q # p
    <3>1. \A c \in Child : /\ pc[c] = "never" => pc'[c] = "never"
                           /\ HasLoaded(c) => HasLoaded(c)'
                           /\ Gone(c) => Gone(c)'
      BY <1>2 DEF Child, HasLoaded, Gone
    <3>2. \A c \in Child : parent[c] = q => heap'[c] = heap[c]
      BY <1>1, <1>4, <2>2 DEF Child
    <3> QED BY <1>2, <1>3, <2>2, <3>1, <3>2, CallFrame
  <2> QED BY <2>1, <2>2
<1>9. ASSUME NEW c \in Child PROVE RecordInv(c)'
  <2>1. CASE c = k
    <3>1. pc[k] # "exit_free"
      BY <1>1, SMT DEF RecordInv, RefRight
    <3>2. pc'[k] = pc[k] \/ (Running(k) /\ Running(k)')
      BY <1>1, <1>2
    <3>3. /\ pc'[k] # "none" /\ pc'[k] # "exit_free"
          /\ fate[k] = "no_load" => pc'[k] = pc[k]
      BY <1>1, <3>1, <3>2 DEF RecordInv, Running, Unlisted, Listed, Waiting, Gone
    <3> QED BY <1>1, <1>4, <2>1, <3>3 DEF RecordInv, Gone
  <2>2. CASE c # k
    <3>1. parent[c] \in Proc /\ heap'[c] = heap[c]
      BY <1>1, <1>4, <2>2 DEF ProcessType, Child
    <3>2. /\ Pending(parent[c], c)' <=> Pending(parent[c], c)
          /\ Unlisted(parent[c]) => Unlisted(parent[c])'
      BY <1>2, <3>1 DEF Pending, Unlisted
    <3>3. c \in Rng(cs_list[parent[c]]) => c \in Rng(cs_list'[parent[c]])
      BY <1>3, <2>2, <3>1
    <3> QED BY <1>2, <1>6, <3>1, <3>2, <3>3, RecordFrame
  <2> QED BY <2>1, <2>2
<1> QED BY <1>2, <1>5, <1>7, <1>8, <1>9 DEF ProcessInv

\* process_execute() returns.
LEMMA ExecDoneStep ==
  ASSUME ProcessInv, NEW p \in Proc, exec_done(p)
  PROVE  ProcessInv'
<1>1. /\ ProcessType /\ RootInv /\ pc[p] = "exec_done" /\ pc' = [pc EXCEPT ![p] = "user"]
      /\ UNCHANGED <<arg, parent, pid, exit_status, ref_cnt, sema, doomed, next, fate>>
  BY DEF ProcessInv, exec_done, Goto, local
<1>2. CASE pid[arg[p]] = TID_ERROR
  <2>1. arg[p] \in Rng(cs_list[p])
    BY <1>1 DEF ProcessInv, CallInv, Listed
  <2>2. cs_list' = [cs_list EXCEPT ![p] = Unlink(@, arg[p])] /\ free({arg[p]})
    BY <1>2 DEF exec_done
  <2> QED BY <1>1, <2>1, <2>2, ParentFrees
<1>3. CASE pid[arg[p]] # TID_ERROR
  <2>1. UNCHANGED <<cs_list, heap>>
    BY <1>3 DEF exec_done
  <2>2. /\ pc'[p] = "user" /\ RootInv' /\ HasLoaded(p)' /\ ~Gone(p)
        /\ \A c \in Child : pc'[c] = pc[c] \/ (Running(c) /\ Running(c)')
    BY <1>1, RunMove DEF Place, Running, Listed
  <2>3. /\ ProcessType' /\ RootInv'
        /\ \A q \in Proc : ListInv(q)'
        /\ \A q \in Proc : q # p => CallInv(q)'
        /\ \A q \in Proc : \A c : LetGo(q, c)' <=> LetGo(q, c)
        /\ \A q \in Proc : q # p => pc'[q] = pc[q]
    BY <1>1, <2>1, <2>2, KeepStep DEF ProcessType, Place
  <2>4. CallInv(p)'
    BY <2>2 DEF CallInv, Unlisted, Listed, Waiting
  <2>5. ASSUME NEW c \in Child PROVE RecordInv(c)'
    <3>1. parent[c] \in Proc
      BY <1>1 DEF ProcessType, Child
    <3>2. /\ Pending(parent[c], c)' <=> Pending(parent[c], c)
          /\ Unlisted(parent[c]) => Unlisted(parent[c])'
      BY <1>1, <2>2, <2>3, <3>1 DEF Pending, Unlisted
    <3> QED BY <1>1, <2>1, <2>2, <2>3, <3>1, <3>2, RecordFrame
  <2> QED BY <2>3, <2>4, <2>5 DEF ProcessInv
<1> QED BY <1>2, <1>3

\* The child that leaves last frees the record.
LEMMA ExitFreeStep ==
  ASSUME ProcessInv, NEW p \in Proc, exit_free(p)
  PROVE  ProcessInv'
<1>1. /\ ProcessType /\ RootInv /\ pc[p] = "exit_free" /\ pc' = [pc EXCEPT ![p] = "exit_children"]
      /\ UNCHANGED <<arg, parent, cs_list, pid, exit_status, ref_cnt, sema, doomed, next, fate>>
      /\ free({p})
  BY DEF ProcessInv, exit_free, Goto, local
<1>2. p # root /\ p \in Child /\ RecordInv(p) /\ ListInv(p)
  BY <1>1 DEF ProcessInv, RootInv, Child
<1>3. /\ pc' \in [Proc -> Place] /\ pc'[p] = "exit_children"
      /\ \A q \in Proc : q # p => pc'[q] = pc[q]
  BY <1>1, Move DEF Place
<1>4. /\ heap' \in [Proc -> {"none", "live", "freed"}] /\ heap'[p] = "freed"
      /\ \A c \in Proc : c # p => heap'[c] = heap[c]
  BY <1>1 DEF free, ProcessType
<1>5. ProcessType' /\ RootInv'
  BY <1>1, <1>2, <1>3, <1>4, ProcessAssumption DEF ProcessType, RootInv
<1>6. \A q \in Proc : \A c : LetGo(q, c)' <=> LetGo(q, c)
  BY <1>1, <1>2, <1>3, LetGoSame DEF Exiting, ListInv
<1>7. LetGo(parent[p], p) /\ p \notin doomed[parent[p]]
  <2>1. LetGo(parent[p], p)
    <3>1. RefRight(p) /\ ref_cnt[p] = 0
      BY <1>1, <1>2 DEF RecordInv
    <3> QED BY <3>1, SMT DEF RefRight
  <2>2. ListInv(parent[p])
    BY <1>1 DEF ProcessInv, ProcessType
  <2> QED BY <1>1, <2>1, <2>2 DEF ListInv
<1>8. ASSUME NEW q \in Proc PROVE ListInv(q)'
  <2>1. \A c \in Child : parent[c] = q =>
          /\ heap'[c] = heap[c] \/ (heap'[c] = "freed" /\ LetGo(q, c) /\ c \notin doomed[q])
          /\ pc[c] \in {"exit_up", "exit_children", "dead"} =>
               pc'[c] \in {"exit_up", "exit_children", "dead"}
    BY <1>3, <1>4, <1>7 DEF Child
  <2>2. (Exiting(q) => Exiting(q)') /\ (pc'[q] = "dead" => pc[q] = "dead")
    BY <1>3 DEF Exiting
  <2> QED BY <1>1, <1>6, <2>1, <2>2, ListFrame
<1>9. ASSUME NEW q \in Proc PROVE CallInv(q)'
  <2>1. CASE q = p
    BY <1>3, <2>1 DEF CallInv, Unlisted, Listed, Waiting
  <2>2. CASE q # p
    <3>1. \A c \in Child : /\ pc[c] = "never" => pc'[c] = "never"
                           /\ HasLoaded(c) => HasLoaded(c)'
                           /\ Gone(c) => Gone(c)'
      BY <1>1, <1>3 DEF Child, HasLoaded, Gone
    <3>2. \A c \in Child : (Unlisted(q) \/ Listed(q) \/ Waiting(q)) /\ parent[c] = q =>
                             heap'[c] = heap[c]
      BY <1>4, <1>7 DEF Child, LetGo, Unlisted, Listed, Waiting
    <3> QED BY <1>1, <1>3, <2>2, <3>1, <3>2, CallFrame
  <2> QED BY <2>1, <2>2
<1>10. RecordInv(p)'
  BY <1>1, <1>2, <1>3, <1>4 DEF RecordInv, Gone
<1>11. ASSUME NEW c \in Child, c # p PROVE RecordInv(c)'
  <2>1. ~Unlisted(p) /\ ~Listed(p) /\ ~Unlisted(p)' /\ ~Listed(p)'
    BY <1>1, <1>3 DEF Unlisted, Listed
  <2>2. heap'[c] = heap[c]
    BY <1>4, <1>11 DEF Child
  <2> QED BY <1>1, <1>3, <1>6, <1>11, <2>1, <2>2, ChildFrame
<1> QED BY <1>5, <1>8, <1>9, <1>10, <1>11 DEF ProcessInv

\* The parent gives back its reference to one record.
LEMMA ExitChildStep ==
  ASSUME ProcessInv, NEW p \in Proc, exit_child(p), ~UNCHANGED next
  PROVE  ProcessInv'
<1> PICK k : k = cs_list[p][next[p]]
  OBVIOUS
<1>1. /\ ProcessType /\ RootInv /\ ListInv(p)
      /\ pc[p] = "exit_children" /\ next[p] <= Len(cs_list[p])
      /\ UNCHANGED <<pc, arg, parent, cs_list, heap, pid, exit_status, sema, fate>>
      /\ heap[k] = "live" /\ ref_cnt' = [ref_cnt EXCEPT ![k] = @ - 1]
      /\ doomed' = [doomed EXCEPT ![p] = IF ref_cnt[k] = 1 THEN @ \cup {k} ELSE @]
      /\ next' = [next EXCEPT ![p] = @ + 1]
  BY DEF ProcessInv, exit_child, LockBroken, LockUsable, Undef, local
<1>2. next[p] \in 1..Len(cs_list[p]) /\ k \in Rng(cs_list[p]) /\ k \in Child /\ k \in Proc
  <2>1. next[p] \in Nat \ {0} /\ cs_list[p] \in Seq(Child)
    BY <1>1 DEF ProcessType
  <2>2. next[p] \in 1..Len(cs_list[p])
    <3>1. next[p] <= Len(cs_list[p])
      BY <1>1
    <3> QED BY <2>1, <3>1, SMT
  <2> QED BY <1>1, <2>2, ListOfChildren DEF Rng, Child
<1>3. parent[k] = p /\ RecordInv(k) /\ RefRight(k)
  BY <1>1, <1>2 DEF ProcessInv, ListInv, RecordInv
<1>4. /\ ~LetGo(p, k) /\ LetGo(p, k)'
      /\ \A c : c # k => (LetGo(p, c)' <=> LetGo(p, c))
      /\ \A q \in Proc : q # p => \A c : LetGo(q, c)' <=> LetGo(q, c)
  <2>1. next'[p] = next[p] + 1 /\ \A q \in Proc : q # p => next'[q] = next[q]
    BY <1>1 DEF ProcessType
  <2>2. ~LetGo(p, k)
    <3>1. SUFFICES ASSUME NEW i \in 1..(next[p] - 1), i <= Len(cs_list[p]),
                          cs_list[p][i] = k
                   PROVE  FALSE
      BY DEF LetGo
    <3>2. i \in 1..Len(cs_list[p]) /\ i # next[p]
      BY <1>2, <3>1, SMT
    <3> QED BY <1>1, <1>2, <3>1, <3>2 DEF ListInv
  <2>3. LetGo(p, k)'
    <3>1. next[p] \in 1..(next'[p] - 1)
      BY <1>2, <2>1, SMT
    <3> QED BY <1>1, <3>1 DEF LetGo
  <2>4. ASSUME NEW c, c # k PROVE LetGo(p, c)' <=> LetGo(p, c)
    <3>1. ASSUME NEW i \in 1..(next'[p] - 1), cs_list[p][i] = c
          PROVE  i \in 1..(next[p] - 1)
      BY <1>2, <2>1, <2>4, <3>1, SMT
    <3>2. 1..(next[p] - 1) \subseteq 1..(next'[p] - 1)
      BY <1>2, <2>1, SMT
    <3> QED BY <1>1, <3>1, <3>2 DEF LetGo
  <2>5. \A q \in Proc : q # p => \A c : LetGo(q, c)' <=> LetGo(q, c)
    BY <1>1, <2>1 DEF LetGo
  <2> QED BY <2>2, <2>3, <2>4, <2>5
<1>5. /\ ref_cnt[k] \in Int /\ ref_cnt'[k] = ref_cnt[k] - 1 /\ ref_cnt' \in [Proc -> Int]
      /\ \A c \in Proc : c # k => ref_cnt'[c] = ref_cnt[c]
  BY <1>1, <1>2, SMT DEF ProcessType
<1>6. /\ \A q \in Proc : q # p => doomed'[q] = doomed[q]
      /\ doomed' \in [Proc -> SUBSET Child]
      /\ \/ ref_cnt[k] = 1 /\ doomed'[p] = doomed[p] \cup {k}
         \/ ref_cnt[k] # 1 /\ doomed'[p] = doomed[p]
  BY <1>1, <1>2 DEF ProcessType
<1>7. ProcessType' /\ RootInv'
  <2>1. next' \in [Proc -> Nat \ {0}]
    BY <1>1, SMT DEF ProcessType
  <2> QED BY <1>1, <1>5, <1>6, <2>1 DEF ProcessType, RootInv
<1>8. ref_cnt[k] = 1 => pc[k] \in {"exit_up", "exit_children", "dead"}
  <2>1. ref_cnt[k] = 1 => Gone(k)
    BY <1>3, <1>4, SMT DEF RefRight
  <2>2. pc[k] # "exit_free" \/ ref_cnt[k] = 0
    BY <1>3 DEF RecordInv
  <2>3. ref_cnt[k] # 0
    BY <1>3, <1>4, SMT DEF RefRight
  <2> QED BY <2>1, <2>2, <2>3 DEF Gone
<1>9. ASSUME NEW q \in Proc PROVE ListInv(q)'
  <2>1. CASE q = p
    <3>1. Exiting(p)' /\ pc'[p] # "dead" /\ Rng(cs_list[p])' = Rng(cs_list[p])
      BY <1>1 DEF Exiting, Rng
    <3>2. \A c \in doomed'[p] : /\ LetGo(p, c)' /\ heap[c] = "live"
                                /\ pc[c] \in {"exit_up", "exit_children", "dead"}
      BY <1>1, <1>4, <1>6, <1>8 DEF ListInv
    <3>3. \A c : LetGo(p, c) => LetGo(p, c)'
      BY <1>4
    <3>4. /\ \A i, j \in 1..Len(cs_list[p]) : cs_list[p][i] = cs_list[p][j] => i = j
          /\ \A c \in Rng(cs_list[p]) :
               /\ parent[c] = p /\ sema[c] # Garbage
               /\ heap[c] = "live" \/ (heap[c] = "freed" /\ LetGo(p, c)')
      BY <1>1, <3>3 DEF ListInv
    <3> QED BY <1>1, <2>1, <3>1, <3>2, <3>4 DEF ListInv
  <2>2. CASE q # p
    <3>1. next'[q] = next[q]
      BY <1>1, <2>2 DEF ProcessType
    <3> QED BY <1>1, <1>4, <1>6, <2>2, <3>1, ListFrame DEF Exiting
  <2> QED BY <2>1, <2>2
<1>10. ASSUME NEW q \in Proc PROVE CallInv(q)'
  BY <1>1, CallFrame DEF HasLoaded, Gone
<1>11. ASSUME NEW c \in Child PROVE RecordInv(c)'
  <2>1. parent[c] \in Proc /\ c \in Proc
    BY <1>1 DEF ProcessType, Child
  <2>2. /\ Pending(parent[c], c)' <=> Pending(parent[c], c)
        /\ Unlisted(parent[c])' <=> Unlisted(parent[c])
        /\ HasLoaded(c)' <=> HasLoaded(c)
        /\ Exiting(c)' <=> Exiting(c)
        /\ Gone(c)' <=> Gone(c)
        /\ Rng(cs_list[parent[c]])' = Rng(cs_list[parent[c]])
    BY <1>1 DEF Pending, Unlisted, HasLoaded, Exiting, Gone, Rng
  <2>3. CASE c = k
    <3>1. RefRight(k)'
      <4>1. (Gone(k)' <=> Gone(k)) /\ parent'[k] = p
        BY <1>1, <1>3 DEF Gone
      <4>2. ref_cnt[k] = (IF Gone(k) THEN 0 ELSE 1) + 1
        BY <1>3, <1>4 DEF RefRight
      <4> QED BY <1>4, <1>5, <4>1, <4>2, SMT DEF RefRight
    <3>2. ref_cnt'[k] = 0 => k \in doomed'[p]
      BY <1>5, <1>6, SMT
    <3>3. pc[k] # "exit_free"
      <4>1. ref_cnt[k] # 0
        BY <1>3, <1>4, SMT DEF RefRight
      <4> QED BY <1>3, <4>1 DEF RecordInv
    <3>4. heap[k] = "live" => SemaRight(k)'
      <4>1. sema[k] \in Nat \cup {Garbage} /\ parent' = parent /\ sema' = sema
        BY <1>1, <1>2 DEF ProcessType
      <4> QED BY <1>3, <2>2, <2>3, <4>1, SemaFrame DEF RecordInv
    <3> QED BY <1>1, <1>3, <2>2, <2>3, <3>1, <3>2, <3>3, <3>4 DEF RecordInv
  <2>4. CASE c # k
    <3>1. LetGo(parent[c], c)' <=> LetGo(parent[c], c)
      BY <1>1, <1>4, <2>1, <2>4
    <3>2. ref_cnt'[c] = ref_cnt[c] /\ (c \in doomed[parent[c]] => c \in doomed'[parent[c]])
      BY <1>5, <1>6, <2>1, <2>4
    <3> QED BY <1>1, <2>2, <3>1, <3>2, RecordFrame
  <2> QED BY <2>3, <2>4
<1> QED BY <1>7, <1>9, <1>10, <1>11 DEF ProcessInv

\* The parent that leaves last frees the record.
LEMMA ExitDeleteStep ==
  ASSUME ProcessInv, NEW p \in Proc, exit_delete(p)
  PROVE  ProcessInv'
<1>1. PICK k \in Rng(cs_list[p]) :
        /\ k \in doomed[p] /\ pc[p] = "exit_children" /\ next[p] > Len(cs_list[p])
        /\ cs_list' = [cs_list EXCEPT ![p] = Unlink(@, k)] /\ free({k})
        /\ doomed' = [doomed EXCEPT ![p] = @ \ {k}]
        /\ UNCHANGED <<pc, arg, parent, pid, exit_status, ref_cnt, sema, next, fate>>
  BY DEF exit_delete, Rng
<1>2. /\ ProcessType /\ RootInv /\ ListInv(p) /\ cs_list[p] \in Seq(Child)
      /\ k \in Child /\ k \in Proc /\ parent[k] = p /\ heap[k] = "live" /\ RecordInv(k)
      /\ pc[k] \in {"exit_up", "exit_children", "dead"}
  <2>1. /\ ProcessType /\ RootInv /\ ListInv(p) /\ \A c \in Child : RecordInv(c)
    BY DEF ProcessInv
  <2>2. cs_list[p] \in Seq(Child) /\ k \in Child /\ k \in Proc
    BY <2>1, ListOfChildren DEF ProcessType, Child
  <2> QED BY <1>1, <2>1, <2>2 DEF ListInv
<1>3. /\ cs_list'[p] \in Seq(Child) /\ Rng(cs_list'[p]) = Rng(cs_list[p]) \ {k}
      /\ \A i, j \in 1..Len(cs_list'[p]) : cs_list'[p][i] = cs_list'[p][j] => i = j
      /\ \A q \in Proc : q # p => cs_list'[q] = cs_list[q]
      /\ Len(cs_list'[p]) = Len(cs_list[p]) - 1
  <2>1. cs_list'[p] = Unlink(cs_list[p], k)
        /\ \A q \in Proc : q # p => cs_list'[q] = cs_list[q]
    BY <1>1, <1>2 DEF ProcessType
  <2>2. \A i, j \in 1..Len(cs_list[p]) : cs_list[p][i] = cs_list[p][j] => i = j
    BY <1>2 DEF ListInv
  <2> QED BY <1>2, <2>1, <2>2, UnlinkFacts, SMT
<1>4. /\ heap' \in [Proc -> {"none", "live", "freed"}] /\ heap'[k] = "freed"
      /\ \A c \in Proc : c # k => heap'[c] = heap[c]
  BY <1>1, <1>2 DEF free, ProcessType
<1>5. /\ doomed' \in [Proc -> SUBSET Child] /\ doomed'[p] = doomed[p] \ {k}
      /\ \A q \in Proc : q # p => doomed'[q] = doomed[q]
  BY <1>1, <1>2 DEF ProcessType
<1>6. ProcessType' /\ RootInv'
  <2>1. cs_list' \in [Proc -> Seq(Child)]
    BY <1>1, <1>2, <1>3 DEF ProcessType
  <2> QED BY <1>1, <1>2, <1>4, <1>5, <2>1 DEF ProcessType, RootInv
<1>7. /\ \A c : LetGo(p, c) <=> c \in Rng(cs_list[p])
      /\ \A c : LetGo(p, c)' <=> c \in Rng(cs_list'[p])
      /\ \A q \in Proc : q # p => \A c : LetGo(q, c)' <=> LetGo(q, c)
  <2>1. next[p] \in Nat /\ Len(cs_list[p]) \in Nat /\ Len(cs_list'[p]) \in Nat
    BY <1>2, <1>3, SMT DEF ProcessType
  <2>2. ASSUME NEW q, Len(q) \in Nat, Len(q) < next[p]
        PROVE  {i \in 1..(next[p] - 1) : i <= Len(q)} = 1..Len(q)
    BY <2>1, <2>2, SMT
  <2>3. \A c : LetGo(p, c) <=> c \in Rng(cs_list[p])
    BY <1>1, <2>1, <2>2 DEF LetGo, Rng
  <2>4. \A c : LetGo(p, c)' <=> c \in Rng(cs_list'[p])
    <3>1. Len(cs_list'[p]) < next[p]
      BY <1>1, <1>3, <2>1, SMT
    <3> QED BY <1>1, <2>1, <2>2, <3>1 DEF LetGo, Rng
  <2>5. \A q \in Proc : q # p => \A c : LetGo(q, c)' <=> LetGo(q, c)
    BY <1>1, <1>3 DEF LetGo
  <2> QED BY <2>3, <2>4, <2>5
<1>8. \A q \in Proc : \A c : c # k => (LetGo(q, c)' <=> LetGo(q, c))
  BY <1>3, <1>7
<1>9. ASSUME NEW q \in Proc PROVE ListInv(q)'
  <2>1. CASE q = p
    <3>1. Rng(cs_list[p])' = Rng(cs_list[p]) \ {k} /\ Rng(cs_list[p]) \subseteq Child
      BY <1>2, <1>3, ListOfChildren DEF Rng
    <3>2. Exiting(p)' /\ pc'[p] # "dead"
      BY <1>1 DEF Exiting
    <3>3. \A c \in Child : c # k => heap'[c] = heap[c]
      BY <1>4 DEF Child
    <3>4. \A c \in doomed'[p] : c \in Child /\ c # k /\ c \in doomed[p]
      BY <1>2, <1>5 DEF ProcessType
    <3>5. \A c \in doomed'[p] : /\ LetGo(p, c)' /\ heap'[c] = "live"
                                /\ pc[c] \in {"exit_up", "exit_children", "dead"}
      BY <1>2, <1>8, <3>3, <3>4 DEF ListInv
    <3>6. \A c \in Rng(cs_list[p]) \ {k} :
            /\ parent[c] = p /\ sema[c] # Garbage
            /\ heap'[c] = "live" \/ (heap'[c] = "freed" /\ LetGo(p, c)')
      BY <1>2, <1>8, <3>1, <3>3 DEF ListInv
    <3> QED BY <1>1, <1>3, <2>1, <3>1, <3>2, <3>5, <3>6, SMT DEF ListInv
  <2>2. CASE q # p
    <3>1. \A c \in Child : parent[c] = q => heap'[c] = heap[c]
      BY <1>2, <1>4, <2>2 DEF Child
    <3> QED BY <1>1, <1>3, <1>5, <1>7, <2>2, <3>1, ListFrame DEF Exiting
  <2> QED BY <2>1, <2>2
<1>10. ASSUME NEW q \in Proc PROVE CallInv(q)'
  <2>1. CASE q = p
    BY <1>1, <2>1 DEF CallInv, Unlisted, Listed, Waiting
  <2>2. CASE q # p
    <3>1. \A c \in Child : parent[c] = q => heap'[c] = heap[c]
      BY <1>2, <1>4, <2>2 DEF Child
    <3> QED BY <1>1, <1>3, <2>2, <3>1, CallFrame DEF HasLoaded, Gone
  <2> QED BY <2>1, <2>2
<1>11. ASSUME NEW c \in Child PROVE RecordInv(c)'
  <2>1. CASE c = k
    BY <1>1, <1>2, <1>4, <2>1 DEF RecordInv, Gone
  <2>2. CASE c # k
    <3>1. parent[c] \in Proc /\ heap'[c] = heap[c]
      BY <1>2, <1>4, <2>2 DEF ProcessType, Child
    <3>2. /\ c \in Rng(cs_list[parent[c]]) => c \in Rng(cs_list'[parent[c]])
          /\ c \in doomed[parent[c]] => c \in doomed'[parent[c]]
      BY <1>3, <1>5, <2>2, <3>1
    <3>3. /\ Pending(parent[c], c)' <=> Pending(parent[c], c)
          /\ Unlisted(parent[c])' <=> Unlisted(parent[c])
      BY <1>1 DEF Pending, Unlisted
    <3>4. LetGo(parent[c], c)' <=> LetGo(parent[c], c)
      BY <1>1, <1>8, <2>2, <3>1
    <3> QED BY <1>1, <3>1, <3>2, <3>3, <3>4, RecordFrame
  <2> QED BY <2>1, <2>2
<1> QED BY <1>6, <1>9, <1>10, <1>11 DEF ProcessInv

\* process_execute(): the record starts with two references.
LEMMA ExecuteStep ==
  ASSUME ProcessInv, NEW p \in Proc, NEW k \in Child, process_execute(p, k)
  PROVE  ProcessInv'
<1>0. /\ p # k /\ heap[k] = "none" /\ k \in Proc /\ k # root
      /\ pc[p] = "user" /\ pc[k] = "none"
      /\ cs_list' = cs_list /\ next' = next /\ doomed' = doomed /\ sema' = sema
      /\ pid' = pid /\ fate' = fate /\ exit_status' = exit_status
      /\ heap' = [heap EXCEPT ![k] = "live"] /\ ref_cnt' = [ref_cnt EXCEPT ![k] = 2]
      /\ parent' = [parent EXCEPT ![k] = p] /\ arg' = [arg EXCEPT ![p] = k]
  BY DEF process_execute, ProcessInv, RecordInv, Child, local
<1>1. /\ ProcessType /\ RootInv
      /\ \A q \in Proc : ListInv(q) /\ CallInv(q)
      /\ \A c \in Child : RecordInv(c)
  BY DEF ProcessInv
<1>2. PICK l \in {"start", "never"} : pc' = [pc EXCEPT ![p] = "exec_sema", ![k] = l]
  <2>1. PICK ok \in {TRUE, ~CreateFails} :
          pc' = [pc EXCEPT ![p] = "exec_sema", ![k] = IF ok THEN "start" ELSE "never"]
    BY DEF process_execute
  <2> QED BY <2>1
<1>3. /\ pc'[p] = "exec_sema" /\ pc'[k] = l
      /\ \A q \in Proc : q # p /\ q # k => pc'[q] = pc[q]
  BY <1>0, <1>1, <1>2 DEF ProcessType
<1>4. ProcessType'
  <2>1. ProcessType
    BY <1>1
  <2>2. pc' \in [Proc -> Place]
    BY <1>2, <2>1 DEF ProcessType, Place
  <2>3. heap' \in [Proc -> {"none", "live", "freed"}]
    BY <1>0, <2>1 DEF ProcessType
  <2>4. ref_cnt' \in [Proc -> Int]
    BY <1>0, <2>1, SMT DEF ProcessType
  <2>5. parent' \in [Proc -> Proc] /\ arg' \in [Proc -> Proc]
    BY <1>0, <2>1 DEF ProcessType
  <2> QED BY <1>0, <2>1, <2>2, <2>3, <2>4, <2>5 DEF ProcessType
<1>5. RootInv'
  BY <1>0, <1>1, <1>3, ProcessAssumption DEF RootInv
<1>6. \A q \in Proc : \A c : LetGo(q, c)' <=> LetGo(q, c)
  BY <1>0, <1>3, LetGoSame DEF Exiting
<1>7. \A q \in Proc : k \notin Rng(cs_list[q]) /\ k \notin doomed[q]
  BY <1>0, <1>1 DEF ListInv
<1>8. \A q \in Proc : Rng(cs_list[q]) \subseteq Child
  BY <1>1, ListOfChildren
<1>9. ASSUME NEW q \in Proc PROVE ListInv(q)'
  <2>1. ListInv(q) /\ doomed[q] \subseteq Child
    BY <1>1 DEF ProcessType
  <2>2. \A c \in Child : c # k => parent'[c] = parent[c] /\ heap'[c] = heap[c]
    BY <1>0, <1>1 DEF ProcessType, Child
  <2>3. \A c \in doomed[q] : pc'[c] = pc[c]
    BY <1>0, <1>3, <1>7, <2>1 DEF ListInv, Child
  <2>4. (Exiting(q)' <=> Exiting(q)) /\ (pc'[q] = "dead" <=> pc[q] = "dead")
    BY <1>0, <1>3 DEF Exiting
  <2>5. \A c \in Rng(cs_list[q]) : parent'[c] = parent[c] /\ heap'[c] = heap[c]
    BY <1>7, <1>8, <2>2
  <2>6. \A c \in doomed[q] : heap'[c] = heap[c] /\ (LetGo(q, c)' <=> LetGo(q, c))
    BY <1>6, <1>7, <2>1, <2>2
  <2>7. Rng(cs_list[q])' = Rng(cs_list[q])
    BY <1>0 DEF Rng
  <2>8. \A c \in Rng(cs_list[q])' :
          /\ parent'[c] = q /\ sema'[c] # Garbage
          /\ heap'[c] = "live" \/ (heap'[c] = "freed" /\ LetGo(q, c)')
    BY <1>0, <1>6, <2>1, <2>5, <2>7 DEF ListInv
  <2>9. \A c \in doomed'[q] : /\ LetGo(q, c)' /\ heap'[c] = "live"
                              /\ pc'[c] \in {"exit_up", "exit_children", "dead"}
    BY <1>0, <2>1, <2>3, <2>6 DEF ListInv
  <2> QED BY <1>0, <2>1, <2>4, <2>8, <2>9 DEF ListInv
<1>10. ASSUME NEW q \in Proc PROVE CallInv(q)'
  <2>1. CallInv(q) 
    BY <1>1
  <2>2. CASE q = p
    BY <1>0, <1>1, <1>3, <1>7, <2>2 DEF CallInv, ProcessType, Unlisted, Listed, Waiting
  <2>3. CASE q = k
    BY <1>0, <1>3, <2>3 DEF CallInv, Unlisted, Listed, Waiting
  <2>4. CASE q # p /\ q # k
    <3>1. arg'[q] = arg[q] /\ pc'[q] = pc[q] /\ arg[q] \in Proc
      BY <1>0, <1>1, <1>3, <2>4 DEF ProcessType
    <3>2. CASE pc[q] \in {"exec_sema", "exec_lock", "exec_pid", "exec_down", "exec_done",
                          "wait_lock", "wait_down", "wait_done"}
      <4>1. arg[q] # k /\ arg[q] \in Child
        BY <1>0, <1>7, <1>8, <2>1, <3>2 DEF CallInv, Unlisted, Listed, Waiting
      <4>2. arg[q] # p \/ pc[q] # "wait_done"
        BY <1>0, <2>1 DEF CallInv, Gone
      <4>3. parent'[arg[q]] = parent[arg[q]] /\ heap'[arg[q]] = heap[arg[q]]
        BY <1>0, <1>1, <4>1 DEF ProcessType, Child
      <4> QED
        BY <1>0, <1>3, <2>1, <2>4, <3>1, <4>1, <4>2, <4>3
        DEF CallInv, Unlisted, Listed, Waiting, Gone, HasLoaded
    <3> QED BY <3>1, <3>2 DEF CallInv, Unlisted, Listed, Waiting
  <2> QED BY <2>2, <2>3, <2>4
<1>11. ASSUME NEW c \in Child PROVE RecordInv(c)'
  <2>1. RecordInv(c) /\ c \in Proc /\ ProcessType
    BY <1>1 DEF Child
  <2>2. ~LetGo(p, k)
    BY <1>0 DEF LetGo
  <2>3. CASE c = k
    <3>1. heap'[k] = "live" /\ ref_cnt'[k] = 2 /\ parent'[k] = p /\ arg'[p] = k
      BY <1>0, <2>1 DEF ProcessType
    <3>2. ~LetGo(p, k)' /\ ~Gone(k)' /\ Unlisted(p)'
      BY <1>3, <1>6, <2>2 DEF Gone, Unlisted
    <3>3. RefRight(k)'
      BY <3>1, <3>2, SMT DEF RefRight
    <3>4. sema'[k] = Garbage
      BY <1>0, <2>1, <2>3 DEF RecordInv
    <3>5. ref_cnt'[k] # 0
      BY <3>1, SMT
    <3>6. SemaRight(k)'
      BY <3>4 DEF SemaRight
    <3>7. fate'[k] # "no_load" /\ (fate'[k] = "exit" => exit_status'[k] \in ExitStatus)
      BY <1>0, <2>1, <2>3 DEF RecordInv, Gone
    <3> QED BY <1>3, <2>3, <3>1, <3>2, <3>3, <3>5, <3>6, <3>7 DEF RecordInv
  <2>4. CASE c # k
    <3>1. /\ heap'[c] = heap[c] /\ ref_cnt'[c] = ref_cnt[c] /\ parent'[c] = parent[c]
          /\ parent[c] \in Proc
      BY <1>0, <2>1, <2>4 DEF ProcessType
    <3>2. pc'[c] = pc[c] \/ (Running(c) /\ Running(c)')
      BY <1>0, <1>3, <2>1, <2>4 DEF Running, Unlisted
    <3>3. /\ Unlisted(parent[c]) => Unlisted(parent[c])' /\ arg'[parent[c]] = arg[parent[c]]
          /\ Pending(parent[c], c)' <=> Pending(parent[c], c)
      BY <1>0, <1>1, <1>3, <2>4, <3>1 DEF Unlisted, Pending, ProcessType
    <3> QED BY <1>0, <1>6, <3>1, <3>2, <3>3, RecordFrame
  <2> QED BY <2>3, <2>4
<1> QED BY <1>4, <1>5, <1>9, <1>10, <1>11 DEF ProcessInv

\* At undefined behaviour a step changes nothing that the invariant is about.
LEMMA UndefStep ==
  ASSUME ProcessInv, NEW why, Undef(why) PROVE ProcessInv'
BY ProcessStutter DEF Undef

\* Every step inside the kernel keeps the invariant.
LEMMA KernelStep ==
  ASSUME ProcessInv, NEW p \in Proc, Step(p) PROVE ProcessInv'
<1>1. CASE Exec(p)
  <2>1. CASE loaded(p)
    <3>1. CASE UNCHANGED pc
      <4>1. pc'[p] # "user"
        BY <2>1, <3>1 DEF loaded
      <4>2. ~Goto(p, "user")
        BY <4>1 DEF Goto, ProcessInv, ProcessType
      <4> QED BY <2>1, <4>2, UndefStep DEF loaded, SemaUp
    <3>2. CASE ~UNCHANGED pc
      BY <2>1, <3>2, SemaUpStep DEF loaded
    <3> QED BY <3>1, <3>2
  <2>2. CASE not_loaded(p)
    <3>1. CASE UNCHANGED pc
      <4>1. pc'[p] # "exit_ref"
        BY <2>2, <3>1 DEF not_loaded
      <4>2. ~Goto(p, "exit_ref")
        BY <4>1 DEF Goto, ProcessInv, ProcessType
      <4> QED BY <2>2, <4>2, UndefStep DEF not_loaded, SemaUp
    <3>2. CASE ~UNCHANGED pc
      BY <2>2, <3>2, SemaUpStep DEF not_loaded
    <3> QED BY <3>1, <3>2
  <2> QED
    BY <1>1, <2>1, <2>2, ExecSemaStep, ExecLockStep, ExecPidStep, ExecDownStep,
       ExecDoneStep, StartStep DEF Exec
<1>2. CASE Wait(p)
  <2>1. CASE wait_lock(p)
    <3>1. CASE LockBroken(arg[p])
      BY <3>1, UndefStep DEF LockBroken
    <3> QED BY <2>1, <3>1, WaitLockStep
  <2>2. CASE wait_done(p)
    <3>1. CASE ~found[p]
      BY <2>2, <3>1, UndefStep DEF wait_done
    <3>2. CASE found[p]
      <4>1. pc[p] = "wait_done" /\ arg[p] \in Rng(cs_list[p])
        BY <2>2 DEF wait_done, ProcessInv, CallInv, Waiting
      <4>2. /\ pc' = [pc EXCEPT ![p] = "user"]
            /\ cs_list' = [cs_list EXCEPT ![p] = Unlink(@, arg[p])] /\ free({arg[p]})
            /\ UNCHANGED <<arg, parent, pid, exit_status, ref_cnt, sema, doomed, next, fate>>
        BY <2>2, <3>2 DEF wait_done, Goto, local
      <4> QED BY <4>1, <4>2, ParentFrees
    <3> QED BY <3>1, <3>2
  <2> QED BY <1>2, <2>1, <2>2, WaitDownStep DEF Wait
<1>3. CASE Exit(p)
  <2>1. CASE exit_ref(p)
    <3>1. CASE LockBroken(p)
      BY <3>1, UndefStep DEF LockBroken
    <3>2. CASE ~LockBroken(p)
      <4>1. pc[p] = "exit_ref" /\ \E l \in {"exit_free", "exit_up"} : pc' = [pc EXCEPT ![p] = l]
        BY <2>1, <3>2 DEF exit_ref, Goto
      <4>2. ~UNCHANGED pc
        BY <4>1 DEF ProcessInv, ProcessType
      <4> QED BY <2>1, <4>2, ExitRefStep
    <3> QED BY <3>1, <3>2
  <2>2. CASE exit_up(p)
    <3>1. CASE UNCHANGED pc
      <4>1. pc'[p] # "exit_children"
        BY <2>2, <3>1 DEF exit_up
      <4>2. ~Goto(p, "exit_children")
        BY <4>1 DEF Goto, ProcessInv, ProcessType
      <4> QED BY <2>2, <4>2, UndefStep DEF exit_up, SemaUp
    <3>2. CASE ~UNCHANGED pc
      BY <2>2, <3>2, SemaUpStep DEF exit_up
    <3> QED BY <3>1, <3>2
  <2>3. CASE exit_child(p)
    <3>1. CASE UNCHANGED next
      <4>1. next[p] \in Nat
        BY DEF ProcessInv, ProcessType
      <4>2. next' # [next EXCEPT ![p] = @ + 1]
        BY <3>1, <4>1, SMT DEF ProcessInv, ProcessType
      <4> QED BY <2>3, <4>2, UndefStep DEF exit_child, LockBroken
    <3>2. CASE ~UNCHANGED next
      BY <2>3, <3>2, ExitChildStep
    <3> QED BY <3>1, <3>2
  <2> QED
    BY <1>3, <2>1, <2>2, <2>3, ExitFreeStep, ExitDeleteStep, LeaveStep DEF Exit
<1> QED BY <1>1, <1>2, <1>3 DEF Step

\* Every system call, exit and exception of a process keeps it too.
LEMMA UserStep ==
  ASSUME ProcessInv, NEW p \in Proc, User(p) PROVE ProcessInv'
<1>1. ASSUME NEW c \in Child, process_execute(p, c) PROVE ProcessInv'
  BY <1>1, ExecuteStep
<1>2. CASE process_execute_no_memory(p)
  BY <1>2, UndefStep DEF process_execute_no_memory
<1>3. ASSUME NEW t \in Child \cup {TID_ERROR}, process_wait(p, t) PROVE ProcessInv'
  BY <1>3, WaitStep
<1>4. ASSUME NEW s \in ExitStatus, exit(p, s) PROVE ProcessInv'
  <2>1. CASE heap[p] = "freed" /\ Undef("freed")
    BY <2>1, UndefStep
  <2>2. CASE pc[p] = "user" /\ Goto(p, "exit_ref")
    <3>1. ~UNCHANGED pc
      BY <2>2 DEF Goto, ProcessInv, ProcessType
    <3> QED BY <1>4, <3>1, EndStep
  <2> QED BY <1>4, <2>1, <2>2 DEF exit
<1>5. CASE kill(p)
  BY <1>5, EndStep
<1>6. CASE p = root /\ root_exit
  BY <1>6, LeaveStep
<1> QED BY <1>1, <1>2, <1>3, <1>4, <1>5, <1>6 DEF User

\* Every step of every process keeps the records right.
LEMMA ProcessInvStep == ProcessInv /\ [Next]_vars => ProcessInv'
<1>1. ASSUME ProcessInv, Next PROVE ProcessInv'
  BY <1>1, KernelStep, UserStep DEF Next
<1>2. ASSUME ProcessInv, UNCHANGED vars PROVE ProcessInv'
  BY <1>2, ProcessStutter DEF vars
<1> QED BY <1>1, <1>2

\* Between the allocation of a struct child_status and the last step of the
\* parent that uses it, in exec and in wait, the record is not freed: only the
\* child can meet a freed record.
ParentHoldsRecord ==
  \A p \in Proc : Unlisted(p) \/ Listed(p) \/ Waiting(p) => heap[arg[p]] = "live"

\* The invariant says of each record who may still use it.
LEMMA ProcessInvImplies == ProcessInv => RecordFreedOnce /\ ParentHoldsRecord
<1> SUFFICES ASSUME ProcessInv PROVE RecordFreedOnce /\ ParentHoldsRecord
  OBVIOUS
<1>1. RefCounts
  BY DEF ProcessInv, RecordInv, RefRight, RefCounts
<1>2. ASSUME NEW c \in Child, pc[c] = "dead", pc[parent[c]] = "dead"
      PROVE  heap[c] = "freed"
  <2>1. /\ RecordInv(c) /\ parent[c] \in Proc /\ ListInv(parent[c])
        /\ heap[c] \in {"none", "live", "freed"}
        /\ cs_list[parent[c]] \in Seq(Child) /\ next[parent[c]] \in Nat
    BY DEF ProcessInv, ProcessType, Child
  <2>2. SUFFICES ASSUME heap[c] = "live" PROVE FALSE
    BY <1>2, <2>1 DEF RecordInv
  <2>3. PICK i \in 1..Len(cs_list[parent[c]]) : cs_list[parent[c]][i] = c
    BY <1>2, <2>1, <2>2 DEF RecordInv, Unlisted, Rng
  <2>4. i \in 1..(next[parent[c]] - 1)
    BY <1>2, <2>1, SMT DEF ListInv
  <2>5. LetGo(parent[c], c)
    BY <1>2, <2>3, <2>4, SMT DEF LetGo
  <2>6. ref_cnt[c] = 0
    BY <1>2, <2>1, <2>2, <2>5, SMT DEF RecordInv, RefRight, Gone
  <2> QED BY <1>2, <2>1, <2>2, <2>6 DEF RecordInv, ListInv
<1>3. ASSUME NEW p \in Proc, Unlisted(p) \/ Listed(p) \/ Waiting(p)
      PROVE  heap[arg[p]] = "live"
  <2>1. CallInv(p) /\ ListInv(p) /\ \A c : ~LetGo(p, c)
    BY <1>3 DEF ProcessInv, LetGo, Unlisted, Listed, Waiting
  <2> QED BY <1>3, <2>1 DEF CallInv, ListInv
<1> QED BY <1>1, <1>2, <1>3 DEF RecordFreedOnce, NoLeak, ParentHoldsRecord

\* Parent and child, which leave in any order, free the record of a child
\* exactly once, for any number of processes.
THEOREM RecordAlwaysFreedOnce == Spec => []RecordFreedOnce
<1>1. Spec => []ProcessInv
  BY ProcessInvInit, ProcessInvStep, PTL DEF Spec
<1> QED BY <1>1, ProcessInvImplies, PTL

\* process_execute() and process_wait() never touch a freed record.
THEOREM ParentAlwaysHoldsRecord == Spec => []ParentHoldsRecord
<1>1. Spec => []ProcessInv
  BY ProcessInvInit, ProcessInvStep, PTL DEF Spec
<1> QED BY <1>1, ProcessInvImplies, PTL

\* What exec and wait tell the parent about its child is true: exec returns
\* after the load, wait after the exit and with the status of the child.
THEOREM ParentAlwaysSeesChild == Spec => ParentSeesChild
<1> DEFINE Exec1 == \A p \in Proc : pc[p] = "exec_done" /\ pc'[p] = "user" =>
                      /\ pc[arg[p]] \notin {"start", "loaded", "not_loaded"}
                      /\ ExecResult(p) = TID_ERROR => fate[arg[p]] = "no_load"
           Wait1 == \A p \in Proc : pc[p] = "wait_done" /\ pc'[p] = "user" =>
                      /\ Gone(arg[p])
                      /\ fate[arg[p]] = "exit" => WaitResult(p) \in ExitStatus
<1>1. Spec => []ProcessInv
  BY ProcessInvInit, ProcessInvStep, PTL DEF Spec
<1>2. ASSUME ProcessInv PROVE Exec1 /\ Wait1
  <2>1. ASSUME NEW p \in Proc, pc[p] = "exec_done"
        PROVE  /\ pc[arg[p]] \notin {"start", "loaded", "not_loaded"}
               /\ ExecResult(p) = TID_ERROR => fate[arg[p]] = "no_load"
    <3>1. CallInv(p)
      BY <1>2 DEF ProcessInv
    <3> QED BY <2>1, <3>1 DEF CallInv, HasLoaded, ExecResult
  <2>2. ASSUME NEW p \in Proc, pc[p] = "wait_done"
        PROVE  /\ Gone(arg[p])
               /\ fate[arg[p]] = "exit" => WaitResult(p) \in ExitStatus
    <3>1. CallInv(p) /\ ProcessType
      BY <1>2 DEF ProcessInv
    <3>2. arg[p] \in Child
      BY <2>2, <3>1, ListOfChildren DEF CallInv, Waiting
    <3>3. RecordInv(arg[p])
      BY <1>2, <3>2 DEF ProcessInv
    <3> QED BY <2>2, <3>1, <3>3 DEF CallInv, RecordInv, WaitResult
  <2> QED BY <2>1, <2>2
<1>3. Spec => [][Exec1]_vars /\ [][Wait1]_vars
  BY <1>1, <1>2, PTL DEF Spec
<1> QED BY <1>3 DEF ParentSeesChild, ExecSeesLoad, WaitSeesExit
=============================================================================
