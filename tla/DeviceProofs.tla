--------------------------- MODULE DeviceProofs -----------------------------
(***************************************************************************)
(* The ATA channel of devices/disk.c, for any number of threads, sectors   *)
(* and values: what is read is what the sector holds and what was written  *)
(* is there.  The second half of the module is about the serial port.      *)
(*                                                                         *)
(* The invariant says who uses the channel (ChannelInv), what the thread   *)
(* that uses it knows of the registers at each point of the transfer       *)
(* (TransferInv, until a wait gives up), and, while every interrupt answers*)
(* a command, that the semaphore counts the completion of this command and *)
(* that no wait for an idle controller gives up (CompletionInv).           *)
(***************************************************************************)
EXTENDS Disk, Serial, Integers, TLAPS

DiskPlace == {"probe", "idle", "lock", "select", "settle", "address", "expect", "command", "ready",
              "complete", "done"}
DiskOp == [cmd : Command, dev : Dev, sec : Sector, val : Value]

DiskType ==
  /\ is_ata \in [Dev -> BOOLEAN] /\ lock \in DiskThread \cup {NoHolder}
  /\ expecting_interrupt \in BOOLEAN /\ completion_wait \in Nat
  /\ dpc \in [DiskThread -> DiskPlace] /\ op \in [DiskThread -> DiskOp]
  /\ sel \in Dev /\ lba \in Sector /\ cmd \in Command \cup {"none", "store"}
  /\ bsy \in BOOLEAN /\ drq \in BOOLEAN /\ reg \in Value /\ intrq \in BOOLEAN
  /\ data \in [Dev -> [Sector -> Value]]
  /\ spurious \in Nat /\ late \in BOOLEAN /\ disk_panic \in BOOLEAN

\* The channel belongs to the holder of its lock or, before the first call of
\* disk_read() and disk_write(), to disk_init().
ChannelInv ==
  /\ \A t \in DiskThread :
       /\ t \in Active /\ op[t].cmd # "identify" => lock = t
       /\ op[t].cmd = "identify" => t = main_thread /\ t \in Active
       /\ dpc[t] = "probe" => t = main_thread
  /\ Booting => lock = NoHolder /\ \A t \in DiskThread \ {main_thread} : dpc[t] = "idle"

\* The controller is set to the disk and the sector of a transfer.
Addressed(t) == sel = op[t].dev /\ (op[t].cmd # "identify" => lba = op[t].sec)
Stored(t) == data[op[t].dev][op[t].sec] = op[t].val

\* Where the controller is in the transfer of a thread, as long as every wait
\* ended in time.
TransferInv(t) ==
  ~late =>
  /\ dpc[t] \in {"settle", "address", "expect", "command"} => ~bsy /\ ~drq /\ sel = op[t].dev
  /\ dpc[t] = "address" => op[t].cmd # "identify"
  /\ dpc[t] \in {"expect", "command", "ready", "complete"} => Addressed(t)
  /\ dpc[t] \in {"ready", "complete"} /\ op[t].cmd # "write" =>
       /\ bsy => cmd = op[t].cmd /\ ~drq
       /\ drq => cmd = "none"
       /\ drq /\ op[t].cmd = "read" => reg = data[op[t].dev][op[t].sec]
  /\ dpc[t] = "ready" /\ op[t].cmd = "write" => (bsy => cmd = "write" /\ ~drq) /\ (drq => cmd = "store")
  /\ dpc[t] \in {"complete", "done"} /\ op[t].cmd = "write" =>
       /\ Addressed(t) /\ ~drq
       /\ bsy => cmd = "store" /\ reg = op[t].val
       /\ ~bsy => Stored(t)
  /\ dpc[t] = "done" /\ op[t].cmd # "write" => ~bsy /\ ~drq
  /\ dpc[t] = "done" /\ op[t].cmd = "read" => Stored(t)

\* Without spurious interrupts the semaphore counts the completion of the
\* command that is being waited for, and of no other; so no wait gives up, but
\* the one for a controller that does not ask for the data of a write.
CompletionInv ==
  spurious = 0 =>
    /\ late => disk_panic /\ \A t \in DiskThread : dpc[t] # "done"
    /\ Active = {} => ~bsy /\ ~drq /\ ~intrq /\ completion_wait = 0
    /\ \A t \in Active :
         LET waits == dpc[t] = "complete" \/ (dpc[t] = "ready" /\ op[t].cmd = "write") IN
         /\ dpc[t] = "command" \/ waits => expecting_interrupt
         /\ ~waits => ~bsy /\ ~intrq /\ completion_wait = 0
         /\ dpc[t] = "select" => ~drq
         /\ waits /\ (bsy \/ (drq /\ dpc[t] = "ready")) => ~intrq /\ completion_wait = 0
         /\ waits /\ dpc[t] = "complete" /\ ~bsy =>
              (intrq /\ completion_wait = 0) \/ (~intrq /\ completion_wait = 1)

DiskInv == DiskType /\ ChannelInv /\ (\A t \in Active : TransferInv(t)) /\ CompletionInv
-----------------------------------------------------------------------------
(* First-order reasoning closes most leaves; the ones about numbers,       *)
(* records and sequences cite SMT.                                         *)
USE Zenon

\* At most one thread is in a transfer.
LEMMA OneActive ==
  ASSUME DiskType, ChannelInv, NEW t \in Active, NEW u \in Active
  PROVE  t = u
BY DiskAssumption DEF DiskType, ChannelInv, Active, Booting

\* At boot the channel is idle.
LEMMA DiskInvInit == DiskInit => DiskInv
<1> SUFFICES ASSUME DiskInit PROVE DiskInv
  OBVIOUS
<1>1. SomeSector \in Sector /\ SomeValue \in Value
  BY DiskAssumption DEF SomeSector, SomeValue
<1>2. Active = {}
  BY DEF DiskInit, Active
<1>3. DiskType
  BY <1>1, DiskAssumption DEF DiskInit, DiskType, Dev, DiskPlace, DiskOp, Idle, Op, Command
<1>4. ChannelInv
  BY <1>2, DiskAssumption DEF DiskInit, ChannelInv, Booting, Idle, Op
<1>5. CompletionInv
  BY <1>2 DEF DiskInit, CompletionInv
<1>6. QED BY <1>2, <1>3, <1>4, <1>5 DEF DiskInv

\* The next disk that disk_init() identifies is one of the two.
LEMMA NextDisk ==
  ASSUME NEW d \in 0..2, NEW ata \in [Dev -> BOOLEAN], \E e \in Dev : e >= d /\ ata[e]
  PROVE  (CHOOSE e \in Dev : e >= d /\ ata[e] /\ (e > d => ~ata[d])) \in Dev
<1>1. \E e \in Dev : e >= d /\ ata[e] /\ (e > d => ~ata[d])
  BY SMT DEF Dev
<1>2. QED BY <1>1

\* disk_init() goes on to the next disk, or ends.
LEMMA IdentifyStep ==
  ASSUME DiskType, ChannelInv, Booting, NEW d \in 0..2, NEW ata \in [Dev -> BOOLEAN],
         IdentifyFrom(d, ata), late' \in BOOLEAN,
         spurious = 0 => ~late' /\ ~bsy /\ ~drq /\ ~intrq /\ completion_wait = 0,
         UNCHANGED <<lock, expecting_interrupt, completion_wait, controller, data, spurious>>,
         is_ata' \in [Dev -> BOOLEAN], disk_panic' \in BOOLEAN
  PROVE  DiskInv'
<1>0. SomeSector \in Sector /\ SomeValue \in Value
  BY DiskAssumption DEF SomeSector, SomeValue
<1>1. main_thread \in DiskThread
  BY DiskAssumption
<1>2. PICK e \in Dev : \/ /\ Goto(main_thread, "select")
                          /\ op' = [op EXCEPT ![main_thread] = Op("identify", e, SomeSector, SomeValue)]
                       \/ /\ Goto(main_thread, "idle")
                          /\ op' = [op EXCEPT ![main_thread] = Idle]
  <2>1. CASE \E e \in Dev : e >= d /\ ata[e]
    BY <2>1, NextDisk DEF IdentifyFrom
  <2>2. CASE ~\E e \in Dev : e >= d /\ ata[e]
    BY <2>2 DEF IdentifyFrom, Dev
  <2>3. QED BY <2>1, <2>2
<1>3. /\ \A u \in DiskThread \ {main_thread} : dpc[u] = "idle" /\ dpc'[u] = "idle" /\ op'[u] = op[u]
      /\ lock = NoHolder
  BY <1>1, <1>2 DEF DiskType, ChannelInv, Goto
<1>4. \/ dpc'[main_thread] = "select" /\ op'[main_thread] = Op("identify", e, SomeSector, SomeValue)
      \/ dpc'[main_thread] = "idle" /\ op'[main_thread] = Idle
  BY <1>1, <1>2 DEF DiskType, Goto
<1>5. DiskType'
  <2>1. Op("identify", e, SomeSector, SomeValue) \in DiskOp /\ Idle \in DiskOp
    BY <1>0 DEF Op, Idle, DiskOp, Command, Dev
  <2>2. dpc' \in [DiskThread -> DiskPlace] /\ op' \in [DiskThread -> DiskOp]
    BY <1>2, <2>1 DEF DiskType, Goto, DiskPlace
  <2>3. QED BY <2>2 DEF DiskType, controller
<1>6. \A t \in Active' : t = main_thread /\ dpc'[t] = "select" /\ op'[t].cmd = "identify"
  BY <1>3, <1>4, SMT DEF Active, Op, Idle
<1>7. ChannelInv'
  <2>1. ASSUME NEW t \in DiskThread, op[t].cmd = "identify" PROVE t = main_thread
    BY <2>1 DEF ChannelInv
  <2>2. QED BY <1>1, <1>3, <1>4, <1>6, <2>1, SMT DEF ChannelInv, Booting, Active, Op, Idle
<1>8. \A t \in Active' : TransferInv(t)'
  BY <1>6 DEF TransferInv
<1>9. CompletionInv'
  BY <1>6 DEF CompletionInv, controller
<1>10. QED BY <1>5, <1>7, <1>8, <1>9 DEF DiskInv

\* The thread's disk is selected, after a wait that ends in time if every
\* interrupt was asked for.
LEMMA SelectStep ==
  ASSUME DiskInv, NEW t \in DiskThread, select_device(t)
  PROVE  DiskInv'
<1>1. DiskType /\ ChannelInv /\ TransferInv(t) /\ CompletionInv /\ Active = {t}
  BY OneActive DEF DiskInv, Active, select_device, At
<1>2. DiskType'
  BY <1>1 DEF DiskType, DiskPlace, DiskOp, Dev, Command, select_device,
     At, Goto, wait_until_idle, Written, channel, controller
<1>3. Active' = {t}
  BY <1>1 DEF DiskType, Active, select_device,
     At, Goto, wait_until_idle, Written, channel, controller
<1>4. ChannelInv'
  BY <1>1, <1>3, SMT DEF DiskType, ChannelInv, Booting, select_device,
     At, Goto, wait_until_idle, Written, channel, controller
<1>5. TransferInv(t)'
  BY <1>1 DEF DiskType, DiskPlace, DiskOp, Command, TransferInv, Addressed, Stored, select_device,
     At, Goto, wait_until_idle, Written, channel, controller
<1>6. CompletionInv'
  BY <1>1, <1>3 DEF DiskType, CompletionInv, TransferInv, select_device,
     At, Goto, wait_until_idle, Written, channel, controller
<1>7. QED BY <1>2, <1>3, <1>4, <1>5, <1>6 DEF DiskInv

\* select_device_wait() ends.
LEMMA SettleStep ==
  ASSUME DiskInv, NEW t \in DiskThread, select_device_wait(t)
  PROVE  DiskInv'
<1>1. DiskType /\ ChannelInv /\ TransferInv(t) /\ CompletionInv /\ Active = {t}
  BY OneActive DEF DiskInv, Active, select_device_wait, At
<1>2. DiskType'
  BY <1>1 DEF DiskType, DiskPlace, DiskOp, Dev, Command, select_device_wait,
     At, Goto, wait_until_idle, Written, channel, controller
<1>3. Active' = {t}
  BY <1>1 DEF DiskType, Active, select_device_wait,
     At, Goto, wait_until_idle, Written, channel, controller
<1>4. ChannelInv'
  BY <1>1, <1>3, SMT DEF DiskType, ChannelInv, Booting, select_device_wait,
     At, Goto, wait_until_idle, Written, channel, controller
<1>5. TransferInv(t)'
  BY <1>1 DEF DiskType, DiskPlace, DiskOp, Command, TransferInv, Addressed, Stored, select_device_wait,
     At, Goto, wait_until_idle, Written, channel, controller
<1>6. CompletionInv'
  BY <1>1, <1>3 DEF DiskType, CompletionInv, TransferInv, select_device_wait,
     At, Goto, wait_until_idle, Written, channel, controller
<1>7. QED BY <1>2, <1>3, <1>4, <1>5, <1>6 DEF DiskInv

\* The address of the sector is written.
LEMMA SectorStep ==
  ASSUME DiskInv, NEW t \in DiskThread, select_sector(t)
  PROVE  DiskInv'
<1>1. DiskType /\ ChannelInv /\ TransferInv(t) /\ CompletionInv /\ Active = {t}
  BY OneActive DEF DiskInv, Active, select_sector, At
<1>2. DiskType'
  BY <1>1 DEF DiskType, DiskPlace, DiskOp, Dev, Command, select_sector,
     At, Goto, Written, channel, controller
<1>3. Active' = {t}
  BY <1>1 DEF DiskType, Active, select_sector,
     At, Goto, Written, channel, controller
<1>4. ChannelInv'
  BY <1>1, <1>3, SMT DEF DiskType, ChannelInv, Booting, select_sector,
     At, Goto, Written, channel, controller
<1>5. TransferInv(t)'
  BY <1>1 DEF DiskType, DiskPlace, DiskOp, Command, TransferInv, Addressed, Stored, select_sector,
     At, Goto, Written, channel, controller
<1>6. CompletionInv'
  BY <1>1, <1>3 DEF DiskType, CompletionInv, TransferInv, select_sector,
     At, Goto, Written, channel, controller
<1>7. QED BY <1>2, <1>3, <1>4, <1>5, <1>6 DEF DiskInv

\* The handler is told to expect an interrupt.
LEMMA ExpectStep ==
  ASSUME DiskInv, NEW t \in DiskThread, expect_interrupt(t)
  PROVE  DiskInv'
<1>1. DiskType /\ ChannelInv /\ TransferInv(t) /\ CompletionInv /\ Active = {t}
  BY OneActive DEF DiskInv, Active, expect_interrupt, At
<1>2. DiskType'
  BY <1>1 DEF DiskType, DiskPlace, DiskOp, Dev, Command, expect_interrupt,
     At, Goto, channel, controller
<1>3. Active' = {t}
  BY <1>1 DEF DiskType, Active, expect_interrupt,
     At, Goto, channel, controller
<1>4. ChannelInv'
  BY <1>1, <1>3, SMT DEF DiskType, ChannelInv, Booting, expect_interrupt,
     At, Goto, channel, controller
<1>5. TransferInv(t)'
  BY <1>1 DEF DiskType, DiskPlace, DiskOp, Command, TransferInv, Addressed, Stored, expect_interrupt,
     At, Goto, channel, controller
<1>6. CompletionInv'
  BY <1>1, <1>3 DEF DiskType, CompletionInv, TransferInv, expect_interrupt,
     At, Goto, channel, controller
<1>7. QED BY <1>2, <1>3, <1>4, <1>5, <1>6 DEF DiskInv

\* The command is given to the idle controller.
LEMMA CommandStep ==
  ASSUME DiskInv, NEW t \in DiskThread, issue_pio_command(t)
  PROVE  DiskInv'
<1>1. DiskType /\ ChannelInv /\ TransferInv(t) /\ CompletionInv /\ Active = {t}
  BY OneActive DEF DiskInv, Active, issue_pio_command, At
<1>2. DiskType'
  BY <1>1 DEF DiskType, DiskPlace, DiskOp, Dev, Command, issue_pio_command,
     At, Goto, channel, controller
<1>3. Active' = {t}
  BY <1>1 DEF DiskType, Active, issue_pio_command,
     At, Goto, channel, controller
<1>4. ChannelInv'
  BY <1>1, <1>3, SMT DEF DiskType, ChannelInv, Booting, issue_pio_command,
     At, Goto, channel, controller
<1>5. TransferInv(t)'
  BY <1>1 DEF DiskType, DiskPlace, DiskOp, Command, TransferInv, Addressed, Stored, issue_pio_command,
     At, Goto, channel, controller
<1>6. CompletionInv'
  BY <1>1, <1>3 DEF DiskType, CompletionInv, TransferInv, issue_pio_command,
     At, Goto, channel, controller
<1>7. QED BY <1>2, <1>3, <1>4, <1>5, <1>6 DEF DiskInv

\* The semaphore is down; without spurious interrupts the command is over.
LEMMA CompleteStep ==
  ASSUME DiskInv, NEW t \in DiskThread, wait_completion(t)
  PROVE  DiskInv'
<1>1. DiskType /\ ChannelInv /\ TransferInv(t) /\ CompletionInv /\ Active = {t}
  BY OneActive DEF DiskInv, Active, wait_completion, At
<1>2. DiskType'
  BY <1>1, SMT DEF DiskType, DiskPlace, DiskOp, Dev, Command, wait_completion,
     At, Goto, channel, controller
<1>3. Active' = {t}
  BY <1>1 DEF DiskType, Active, wait_completion,
     At, Goto, channel, controller
<1>4. ChannelInv'
  BY <1>1, <1>3, SMT DEF DiskType, ChannelInv, Booting, wait_completion,
     At, Goto, channel, controller
<1>5. TransferInv(t)'
  BY <1>1 DEF DiskType, DiskPlace, DiskOp, Command, TransferInv, Addressed, Stored, wait_completion,
     At, Goto, channel, controller
<1>6. CompletionInv'
  BY <1>1, <1>3, SMT DEF DiskType, CompletionInv, TransferInv, wait_completion,
     At, Goto, channel, controller
<1>7. QED BY <1>2, <1>3, <1>4, <1>5, <1>6 DEF DiskInv

\* The data of a read are taken from the controller.
LEMMA InputStep ==
  ASSUME DiskInv, NEW t \in DiskThread, input_sector(t)
  PROVE  DiskInv'
<1>1. DiskType /\ ChannelInv /\ TransferInv(t) /\ CompletionInv /\ Active = {t}
  BY OneActive DEF DiskInv, Active, input_sector, At
<1>2. DiskType'
  <2>1. PICK v \in Value : op' = [op EXCEPT ![t].val = v]
    BY <1>1 DEF DiskType, input_sector
  <2>2. op' \in [DiskThread -> DiskOp]
    <3>1. op[t] \in DiskOp
      BY <1>1 DEF DiskType
    <3>2. [op[t] EXCEPT !.val = v] \in DiskOp
      BY <3>1 DEF DiskOp
    <3>3. QED BY <1>1, <2>1, <3>2 DEF DiskType
  <2>3. drq' \in BOOLEAN /\ reg' \in Value
    BY DiskAssumption DEF input_sector, SomeValue
  <2>4. QED BY <1>1, <2>2, <2>3 DEF DiskType, DiskPlace, input_sector, Goto, channel
<1>3. Active' = {t}
  BY <1>1 DEF DiskType, Active, input_sector,
     At, Goto, channel, controller
<1>4. ChannelInv'
  BY <1>1, <1>3, SMT DEF DiskType, ChannelInv, Booting, input_sector,
     At, Goto, channel, controller
<1>5. TransferInv(t)'
  BY <1>1 DEF DiskType, DiskPlace, DiskOp, Command, TransferInv, Addressed, Stored, input_sector,
     At, Goto, channel, controller
<1>6. CompletionInv'
  BY <1>1, <1>3 DEF DiskType, CompletionInv, TransferInv, input_sector,
     At, Goto, channel, controller
<1>7. QED BY <1>2, <1>3, <1>4, <1>5, <1>6 DEF DiskInv

\* The data of a write are given to the controller.
LEMMA OutputStep ==
  ASSUME DiskInv, NEW t \in DiskThread, output_sector(t)
  PROVE  DiskInv'
<1>1. DiskType /\ ChannelInv /\ TransferInv(t) /\ CompletionInv /\ Active = {t}
  BY OneActive DEF DiskInv, Active, output_sector, At
<1>2. DiskType'
  <2>1. op[t].val \in Value
    BY <1>1, SMT DEF DiskType, DiskOp
  <2>2. drq' \in BOOLEAN /\ bsy' \in BOOLEAN /\ reg' \in Value
    BY <1>1, <2>1 DEF DiskType, output_sector
  <2>3. QED BY <1>1, <2>2 DEF DiskType, DiskPlace, output_sector, Goto, channel
<1>3. Active' = {t}
  BY <1>1 DEF DiskType, Active, output_sector,
     At, Goto, channel, controller
<1>4. ChannelInv'
  BY <1>1, <1>3, SMT DEF DiskType, ChannelInv, Booting, output_sector,
     At, Goto, channel, controller
<1>5. TransferInv(t)'
  BY <1>1 DEF DiskType, DiskPlace, DiskOp, Command, TransferInv, Addressed, Stored, output_sector,
     At, Goto, channel, controller
<1>6. CompletionInv'
  BY <1>1, <1>3 DEF DiskType, CompletionInv, TransferInv, output_sector,
     At, Goto, channel, controller
<1>7. QED BY <1>2, <1>3, <1>4, <1>5, <1>6 DEF DiskInv

\* disk_read() and disk_write() are called.
LEMMA CallStep ==
  ASSUME DiskInv, NEW t \in DiskThread, NEW d \in Dev, NEW s \in Sector, NEW v \in Value,
         disk_read(t, d, s) \/ disk_write(t, d, s, v)
  PROVE  DiskInv'
<1>0. DiskType /\ ChannelInv /\ CompletionInv /\ ~Booting /\ dpc[t] = "idle"
  BY DEF DiskInv, disk_read, disk_write, At
<1>1. PICK o \in {Op("read", d, s, SomeValue), Op("write", d, s, v)} :
        /\ op' = [op EXCEPT ![t] = o] /\ dpc' = [dpc EXCEPT ![t] = "lock"]
        /\ UNCHANGED <<channel, controller, data, spurious, late, disk_panic>>
  BY DEF disk_read, disk_write, Goto
<1>2. o \in DiskOp /\ o.cmd # "identify"
  BY DiskAssumption, SMT DEF Op, DiskOp, Command, SomeValue
<1>3. DiskType'
  BY <1>0, <1>1, <1>2 DEF DiskType, DiskPlace, channel, controller
<1>4. Active' = Active /\ t \notin Active
  BY <1>0, <1>1 DEF DiskType, Active
<1>5. \A u \in Active : dpc'[u] = dpc[u] /\ op'[u] = op[u]
  BY <1>0, <1>1, <1>4 DEF DiskType, Active
<1>6. ChannelInv'
  <2>1. ~Booting'
    BY <1>0, <1>1, <1>2, SMT DEF DiskType, Booting
  <2>2. QED BY <1>0, <1>1, <1>2, <1>4, <1>5, <2>1 DEF DiskType, ChannelInv, channel
<1>7. ASSUME NEW u \in Active PROVE TransferInv(u)'
  <2>1. TransferInv(u) /\ dpc'[u] = dpc[u] /\ op'[u] = op[u]
    BY <1>5 DEF DiskInv
  <2>2. QED BY <1>1, <2>1 DEF TransferInv, Addressed, Stored, controller
<1>8. CompletionInv'
  <2>1. \A u \in DiskThread : dpc'[u] = "done" => dpc[u] = "done"
    BY <1>0, <1>1 DEF DiskType
  <2>2. QED BY <1>0, <1>1, <1>4, <1>5, <2>1 DEF CompletionInv, controller, channel
<1>9. QED BY <1>3, <1>4, <1>6, <1>7, <1>8 DEF DiskInv

\* lock_acquire (&c->lock).
LEMMA ChannelStep ==
  ASSUME DiskInv, NEW t \in DiskThread, channel_acquire(t)
  PROVE  DiskInv'
<1>0. DiskType /\ ChannelInv /\ CompletionInv /\ dpc[t] = "lock" /\ lock = NoHolder
  BY DEF DiskInv, channel_acquire, At
<1>1. Active = {} /\ op[t].cmd # "identify" /\ ~Booting
  BY <1>0, DiskAssumption DEF ChannelInv, Active, Booting
<1>2. DiskType'
  BY <1>0 DEF DiskType, DiskPlace, channel_acquire, Goto, controller
<1>3. Active' = {t}
  BY <1>0, <1>1 DEF DiskType, Active, channel_acquire, Goto
<1>4. ChannelInv'
  BY <1>0, <1>1, <1>3, SMT DEF DiskType, ChannelInv, Booting, channel_acquire, Goto
<1>5. TransferInv(t)'
  BY <1>0 DEF DiskType, TransferInv, channel_acquire, Goto
<1>6. CompletionInv'
  BY <1>0, <1>1, <1>3 DEF DiskType, CompletionInv, channel_acquire, Goto, controller
<1>7. QED BY <1>2, <1>3, <1>4, <1>5, <1>6 DEF DiskInv

\* check_device_type() of both disks.
LEMMA ProbeStep ==
  ASSUME DiskInv, check_device_type
  PROVE  DiskInv'
<1>1. DiskType /\ ChannelInv /\ Booting
  BY DEF DiskInv, check_device_type, At, Booting
<1>2. Active = {}
  BY <1>1 DEF ChannelInv, Active, check_device_type, At
<1>3. spurious = 0 => ~late /\ ~bsy /\ ~drq /\ ~intrq /\ completion_wait = 0
  BY <1>2 DEF DiskInv, CompletionInv, check_device_type, At
<1>4. QED BY <1>1, <1>3, IdentifyStep, SMT DEF check_device_type, DiskType

\* A command that fails stops the kernel, or means that there is no such disk.
LEMMA FailedStep ==
  ASSUME DiskInv, NEW t \in DiskThread, command_failed(t)
  PROVE  DiskInv'
<1>1. /\ DiskType /\ ChannelInv /\ TransferInv(t) /\ CompletionInv /\ Active = {t}
      /\ dpc[t] = "ready" /\ (bsy \/ ~drq) /\ ~disk_panic /\ late' = (late \/ bsy)
  BY OneActive DEF DiskInv, Active, command_failed, At
<1>2. CASE op[t].cmd = "identify"
  <2>1. Booting /\ op[t].dev + 1 \in 0..2
    BY <1>1, <1>2, SMT DEF ChannelInv, Booting, DiskType, DiskOp, Dev
  <2>2. spurious = 0 => ~late' /\ ~bsy /\ ~drq /\ ~intrq /\ completion_wait = 0
    BY <1>1, <1>2 DEF CompletionInv
  <2>3. is_ata' \in [Dev -> BOOLEAN]
    BY <1>1, <1>2 DEF DiskType, command_failed
  <2>4. QED BY <1>1, <1>2, <2>1, <2>2, <2>3, IdentifyStep DEF command_failed, DiskType
<1>3. CASE op[t].cmd # "identify"
  <2>1. /\ disk_panic' = TRUE
        /\ UNCHANGED <<is_ata, lock, expecting_interrupt, completion_wait, dpc, op, controller, data,
                       spurious>>
    BY <1>3 DEF command_failed, PANIC
  <2>2. Active' = Active
    BY <2>1 DEF Active
  <2>3. DiskType' /\ ChannelInv'
    BY <1>1, <2>1, <2>2 DEF DiskType, ChannelInv, Booting, controller
  <2>4. TransferInv(t)'
    BY <1>1, <2>1 DEF TransferInv, Addressed, Stored, controller
  <2>5. CompletionInv'
    <3>1. \A u \in DiskThread : dpc[u] # "done"
      BY <1>1 DEF Active
    <3>2. QED BY <1>1, <2>1, <2>2, <3>1 DEF CompletionInv, controller
  <2>6. QED BY <1>1, <2>2, <2>3, <2>4, <2>5 DEF DiskInv
<1>4. QED BY <1>2, <1>3

\* The channel is given back, or disk_init() goes on.
LEMMA EndStep ==
  ASSUME DiskInv, NEW t \in DiskThread, transfer_end(t)
  PROVE  DiskInv'
<1>1. /\ DiskType /\ ChannelInv /\ TransferInv(t) /\ CompletionInv /\ Active = {t}
      /\ dpc[t] = "done" /\ ~disk_panic
  BY OneActive DEF DiskInv, Active, transfer_end, At
<1>2. spurious = 0 => ~late /\ ~bsy /\ ~drq /\ ~intrq /\ completion_wait = 0
  BY <1>1 DEF CompletionInv, TransferInv
<1>3. CASE op[t].cmd = "identify"
  <2>1. Booting /\ op[t].dev + 1 \in 0..2
    BY <1>1, <1>3, SMT DEF ChannelInv, Booting, DiskType, DiskOp, Dev
  <2>2. QED BY <1>1, <1>2, <1>3, <2>1, IdentifyStep DEF transfer_end, DiskType
<1>4. CASE op[t].cmd # "identify"
  <2>0. /\ lock' = NoHolder /\ dpc' = [dpc EXCEPT ![t] = "idle"] /\ op' = [op EXCEPT ![t] = Idle]
        /\ UNCHANGED <<is_ata, expecting_interrupt, completion_wait, controller, data, spurious,
                       late, disk_panic>>
    BY <1>4 DEF transfer_end, Goto
  <2>1. Idle \in DiskOp /\ Idle.cmd = "read"
    BY DiskAssumption DEF Idle, Op, DiskOp, Command, Dev, SomeSector, SomeValue
  <2>2. DiskType'
    BY <1>1, <2>0, <2>1 DEF DiskType, DiskPlace, controller
  <2>3. Active' = {}
    BY <1>1, <2>0 DEF DiskType, Active
  <2>4. ~Booting
    BY <1>1, <1>4, DiskAssumption DEF ChannelInv, Booting
  <2>5. ChannelInv'
    BY <1>1, <1>4, <2>0, <2>1, <2>3, <2>4, SMT DEF DiskType, ChannelInv, Booting
  <2>6. CompletionInv'
    BY <1>2, <2>0, <2>3 DEF CompletionInv, controller
  <2>7. QED BY <2>2, <2>3, <2>5, <2>6 DEF DiskInv
<1>5. QED BY <1>3, <1>4

\* interrupt_handler(), also for an interrupt that no command asked for.
LEMMA InterruptStep ==
  ASSUME DiskInv, interrupt_handler \/ spurious_interrupt
  PROVE  DiskInv'
<1>1. DiskType /\ ChannelInv /\ CompletionInv /\ \A t \in Active : TransferInv(t)
  BY DEF DiskInv
<1>2. Active' = Active
  BY DEF Active, interrupt_handler, spurious_interrupt
<1>3. DiskType'
  <2>1. spurious' \in Nat
    BY <1>1, SMT DEF DiskType, interrupt_handler, spurious_interrupt
  <2>2. completion_wait' \in Nat
    BY <1>1, SMT DEF DiskType, interrupt_handler, spurious_interrupt, Handle
  <2>3. intrq' \in BOOLEAN
    BY <1>1 DEF DiskType, interrupt_handler, spurious_interrupt, Handle
  <2>4. UNCHANGED <<is_ata, lock, expecting_interrupt, dpc, op, sel, lba, cmd, bsy, drq, reg,
                    data, late, disk_panic>>
    BY DEF interrupt_handler, spurious_interrupt
  <2>5. QED BY <1>1, <2>1, <2>2, <2>3, <2>4 DEF DiskType
<1>4. ChannelInv'
  BY <1>1, <1>2 DEF ChannelInv, Booting, interrupt_handler, spurious_interrupt
<1>5. ASSUME NEW t \in Active PROVE TransferInv(t)'
  <2>1. UNCHANGED <<dpc, op, sel, lba, cmd, bsy, drq, reg, data, late>>
    BY DEF interrupt_handler, spurious_interrupt
  <2>2. QED BY <1>1, <2>1 DEF TransferInv, Addressed, Stored
<1>6. CompletionInv'
  <2>1. CASE interrupt_handler
    <3>1. UNCHANGED <<expecting_interrupt, dpc, op, bsy, drq, spurious, late, disk_panic>> /\ intrq
      BY <2>1 DEF interrupt_handler
    <3>2. CASE expecting_interrupt
      <4>1. completion_wait' = completion_wait + 1 /\ ~intrq'
        BY <2>1, <3>2 DEF interrupt_handler, Handle
      <4>2. QED BY <1>1, <1>2, <3>1, <4>1, SMT DEF DiskType, CompletionInv
    <3>3. CASE ~expecting_interrupt
      <4>1. UNCHANGED <<completion_wait, intrq>>
        BY <2>1, <3>3 DEF interrupt_handler, Handle
      <4>2. QED BY <1>1, <1>2, <3>1, <4>1 DEF CompletionInv
    <3>4. QED BY <3>2, <3>3
  <2>2. CASE spurious_interrupt
    BY <1>1, <2>2, SMT DEF DiskType, CompletionInv, spurious_interrupt
  <2>3. QED BY <2>1, <2>2
<1>7. QED BY <1>2, <1>3, <1>4, <1>5, <1>6 DEF DiskInv

\* The controller answers the command of the active thread, or stores what a
\* thread that is gone has left to it.
LEMMA DeviceStep ==
  ASSUME DiskInv, device
  PROVE  DiskInv'
<1> USE DEF device, device_read, device_accept, device_store, device_error, Command
<1>1. DiskType /\ ChannelInv /\ CompletionInv /\ \A t \in Active : TransferInv(t)
  BY DEF DiskInv
<1>2. Active' = Active /\ bsy /\ UNCHANGED <<channel, dpc, op, sel, lba, spurious, late, disk_panic>>
  BY DEF Active
<1>3. DiskType'
  <2>1. reg' \in Value
    BY <1>1, DiskAssumption, SMT DEF DiskType, SomeValue
  <2>2. data' \in [Dev -> [Sector -> Value]]
    <3>1. data' = data \/ data' = [data EXCEPT ![sel][lba] = reg]
      OBVIOUS
    <3> HIDE DEF device, device_read, device_accept, device_store, device_error
    <3>2. [data[sel] EXCEPT ![lba] = reg] \in [Sector -> Value]
      BY <1>1 DEF DiskType
    <3>3. QED BY <1>1, <3>1, <3>2 DEF DiskType
  <2>3. bsy' = FALSE /\ drq' \in BOOLEAN /\ intrq' \in BOOLEAN
    BY <1>1 DEF DiskType
  <2>4. cmd' \in {"none", "store"}
    OBVIOUS
  <2>5. QED BY <1>1, <1>2, <2>1, <2>2, <2>3, <2>4 DEF DiskType, channel
<1>4. ChannelInv'
  BY <1>1, <1>2 DEF ChannelInv, Booting, channel
<1>5. ASSUME NEW t \in Active PROVE TransferInv(t)'
  <2>0. TransferInv(t) /\ op[t] \in DiskOp
    BY <1>1 DEF DiskType, Active
  <2>1. CASE device_read
    BY <1>1, <1>2, <2>0, <2>1, SMT DEF DiskType, DiskOp, Command, TransferInv, Addressed, Stored
  <2>2. CASE device_accept
    BY <1>1, <1>2, <2>0, <2>2, SMT DEF DiskType, DiskOp, Command, TransferInv, Addressed, Stored
  <2>3. CASE device_store
    BY <1>1, <1>2, <2>0, <2>3, SMT DEF DiskType, DiskOp, Command, TransferInv, Addressed, Stored
  <2>4. CASE device_error
    BY <1>1, <1>2, <2>0, <2>4, SMT DEF DiskType, DiskOp, Command, TransferInv, Addressed, Stored
  <2>5. QED BY <2>1, <2>2, <2>3, <2>4
<1>6. CompletionInv'
  BY <1>1, <1>2 DEF DiskType, CompletionInv, TransferInv, channel, Command
<1>7. QED BY <1>2, <1>3, <1>4, <1>5, <1>6 DEF DiskInv
-----------------------------------------------------------------------------
\* Every step of every thread, of the handler and of the controller keeps the
\* invariant.
LEMMA DiskInvStep == DiskInv /\ [DiskNext]_dvars => DiskInv'
<1> SUFFICES ASSUME DiskInv, [DiskNext]_dvars PROVE DiskInv'
  OBVIOUS
<1>1. CASE UNCHANGED dvars
  <2>1. Active' = Active /\ DiskType'
    BY <1>1 DEF dvars, channel, controller, DiskInv, DiskType, Active
  <2>2. ChannelInv' /\ CompletionInv'
    BY <1>1, <2>1 DEF dvars, channel, controller, DiskInv, ChannelInv, Booting, CompletionInv
  <2>3. ASSUME NEW t \in Active PROVE TransferInv(t)'
    BY <1>1 DEF dvars, channel, controller, DiskInv, TransferInv, Addressed, Stored
  <2>4. QED BY <2>1, <2>2, <2>3 DEF DiskInv
<1>2. ASSUME NEW t \in DiskThread, transfer(t) PROVE DiskInv'
  BY <1>2, ChannelStep, SelectStep, SettleStep, SectorStep, ExpectStep, CommandStep,
     CompleteStep, InputStep, OutputStep, FailedStep, EndStep DEF transfer
<1>3. ASSUME NEW t \in DiskThread, NEW d \in Dev, NEW s \in Sector,
             disk_read(t, d, s) \/ \E v \in Value : disk_write(t, d, s, v)
      PROVE  DiskInv'
  BY <1>3, CallStep, DiskAssumption
<1>4. QED BY <1>1, <1>2, <1>3, ProbeStep, InterruptStep, DeviceStep DEF DiskNext

\* What the transfers know of the controller is what the property asks.
LEMMA DiskInvImplies == DiskInv => DiskDataRight
<1> SUFFICES ASSUME DiskInv PROVE DiskDataRight
  OBVIOUS
<1>1. CommandClean
  BY OneActive DEF DiskInv, CommandClean, Undisturbed, TransferInv, CompletionInv, Addressed
<1>2. ReadRight
  BY DEF DiskInv, ReadRight, Undisturbed, Active, TransferInv, CompletionInv, Stored
<1>3. WriteAcknowledged
  BY DEF DiskInv, WriteAcknowledged, WriteStored, Active, TransferInv, CompletionInv, Stored
<1>4. QED BY <1>1, <1>2, <1>3 DEF DiskDataRight

\* The registers of the channel are used by one thread at a time; while every
\* interrupt answers a command, or every wait ends in time, commands go to an
\* idle controller and disk_read() returns what the sector holds; and while
\* every interrupt answers a command disk_write() returns after the sector holds
\* what was written.  For every number of threads, sectors and values.
THEOREM DiskAlwaysRight == DiskSpec => []DiskDataRight
BY DiskInvInit, DiskInvStep, DiskInvImplies, PTL DEF DiskSpec

-----------------------------------------------------------------------------
(***************************************************************************)
(* The interrupt queues, the port and the console lock: for any number of  *)
(* readers and writers, any size of the ring and any length of a string,   *)
(* no byte is lost or overtaken, the port is told of all work there is,    *)
(* and strings are written whole.                                          *)
(*                                                                         *)
(* A ring is described by numbers alone (RingOK), so that the effect of    *)
(* intq_putc() and of intq_getc() is a fact of arithmetic; the handler     *)
(* that does both to a full queue composes the two.  The console lock is   *)
(* down exactly while a thread is inside putbuf().                         *)
(***************************************************************************)

N == INTQ_BUFSIZE
Slot == 0..(N - 1)

\* next() and the arithmetic of the ring without the remainder.
Succ(i)    == IF i = N - 1 THEN 0 ELSE i + 1
Dist(h, t) == IF h >= t THEN h - t ELSE h + N - t
Cell(t, i)   == IF t + i < N THEN t + i ELSE t + i - N

\* A ring whose n bytes are numbered from g on.
RingOK(b, h, t, g, n) ==
  /\ h \in Slot /\ t \in Slot /\ g \in Nat /\ b \in [Slot -> Nat]
  /\ n = Dist(h, t)
  /\ \A i \in 0..(n - 1) : b[Cell(t, i)] = (g + i) % BYTES

Ring(q) == RingOK(buf[q], head[q], tail[q], got[q], queued[q])

\* A writer between acquire_console() and release_console().
Inside(t) == pc[t] \in {"next", "lock", "wait"}

\* Every queue holds its bytes in order.
RingsRight ==
  /\ DOMAIN buf = Queue /\ DOMAIN head = Queue /\ DOMAIN tail = Queue
  /\ DOMAIN got = Queue /\ DOMAIN queued = Queue
  /\ \A q \in Queue : Ring(q)

\* The console lock is down while a writer is inside, and only one is.
ConsoleRight ==
  /\ DOMAIN pc = Thread /\ DOMAIN value = Sema
  /\ value["console"] \in {0, 1}
  /\ \A t \in Writer : Inside(t) => value["console"] = 0
  /\ StringsWhole

\* Rings, console, and what must hold of the port when the machine goes off.
SerialInv == RingsRight /\ ConsoleRight /\ FlushedAtEnd /\ IerRight

-----------------------------------------------------------------------------

\* The remainder of a number that is in range.
LEMMA ModSmall ==
  ASSUME NEW m \in Nat \ {0}, NEW x \in 0..(m - 1)
  PROVE  x % m = x
BY SMT

\* The remainder of a number past the range by less than a turn.
LEMMA ModWrap ==
  ASSUME NEW m \in Nat \ {0}, NEW x \in m..(2 * m - 1)
  PROVE  x % m = x - m
BY SMT

\* next() steps through the ring.
LEMMA NextIsSucc ==
  ASSUME NEW i \in Slot
  PROVE  next(i) = Succ(i) /\ Succ(i) \in Slot
<1>1. N \in Nat \ {0, 1}
  BY SerialAssumption DEF N
<1>2. Succ(i) \in Slot
  BY <1>1, SMT DEF Succ, Slot
<1>3. CASE i = N - 1
  <2>1. i + 1 = N /\ N \in N..(2 * N - 1)
    BY <1>1, <1>3, SMT
  <2>2. N % N = N - N
    BY <1>1, <2>1, ModWrap, SMT
  <2> QED BY <1>1, <1>2, <1>3, <2>1, <2>2, SMT DEF next, Succ, N
<1>4. CASE i # N - 1
  <2>1. i + 1 \in 0..(N - 1)
    BY <1>1, <1>4, SMT DEF Slot
  <2> QED BY <1>1, <1>2, <1>4, <2>1, ModSmall, SMT DEF next, Succ, N
<1> QED BY <1>3, <1>4

\* The number of queued bytes, and where the i-th of them is.
LEMMA RingArithmetic ==
  ASSUME NEW h \in Slot, NEW t \in Slot
  PROVE  /\ (h + INTQ_BUFSIZE - t) % INTQ_BUFSIZE = Dist(h, t) /\ Dist(h, t) \in Slot
         /\ \A i \in Slot : (t + i) % INTQ_BUFSIZE = Cell(t, i)
<1>1. N \in Nat \ {0, 1} /\ N = INTQ_BUFSIZE
  BY SerialAssumption DEF N
<1>2. (h + N - t) % N = Dist(h, t) /\ Dist(h, t) \in Slot
  <2>1. CASE h >= t
    <3>1. h + N - t \in N..(2 * N - 1)
      BY <1>1, <2>1, SMT DEF Slot
    <3>2. (h + N - t) % N = (h + N - t) - N
      BY <1>1, <3>1, ModWrap, SMT
    <3> QED BY <1>1, <2>1, <3>2, SMT DEF Slot, Dist
  <2>2. CASE ~(h >= t)
    <3>1. h + N - t \in 0..(N - 1)
      BY <1>1, <2>2, SMT DEF Slot
    <3>2. (h + N - t) % N = h + N - t
      BY <1>1, <3>1, ModSmall, SMT
    <3> QED BY <1>1, <2>2, <3>1, <3>2, SMT DEF Slot, Dist
  <2> QED BY <2>1, <2>2
<1>3. ASSUME NEW i \in Slot PROVE (t + i) % N = Cell(t, i)
  <2>1. CASE t + i < N
    <3>1. t + i \in 0..(N - 1)
      BY <1>1, <2>1, SMT DEF Slot
    <3> QED BY <1>1, <2>1, <3>1, ModSmall, SMT DEF Cell
  <2>2. CASE ~(t + i < N)
    <3>1. t + i \in N..(2 * N - 1)
      BY <1>1, <2>2, SMT DEF Slot
    <3>2. (t + i) % N = (t + i) - N
      BY <1>1, <3>1, ModWrap
    <3> QED BY <1>1, <2>2, <3>2, SMT DEF Cell, Slot
  <2> QED BY <2>1, <2>2
<1> QED BY <1>1, <1>2, <1>3

\* Numbering bytes modulo BYTES goes on where it was.
LEMMA NumberOn ==
  ASSUME NEW g \in Nat, NEW i \in Nat, NEW j \in Nat
  PROVE  (((g + i) % BYTES) + j) % BYTES = (g + i + j) % BYTES /\ (g + i) % BYTES \in Nat
<1>1. BYTES \in Nat \ {0, 1}
  BY SerialAssumption
<1> DEFINE a == (g + i) \div BYTES
           r == (g + i) % BYTES
           z == r + j
           b == z \div BYTES
           s == z % BYTES
<1>2. a \in Int /\ r \in 0..(BYTES - 1) /\ g + i = BYTES * a + r
  BY <1>1, SMT
<1> HIDE DEF a, r
<1>3. z \in Nat
  BY <1>1, <1>2, SMT
<1> HIDE DEF z
<1>4. b \in Int /\ s \in 0..(BYTES - 1) /\ z = BYTES * b + s
  BY <1>1, <1>3, SMT
<1> HIDE DEF b, s
<1>5. g + i + j = BYTES * (a + b) + s
  BY <1>1, <1>2, <1>4, SMT DEF z
<1>6. (BYTES * (a + b) + s) % BYTES = s
  <2>1. PICK c \in Int : c = a + b
    BY <1>2, <1>4, SMT
  <2>2. (BYTES * c + s) % BYTES = s
    BY <1>1, <1>4, SMT
  <2> QED BY <2>1, <2>2
<1>7. r \in Nat
  BY <1>1, <1>2, SMT
<1> QED BY <1>5, <1>6, <1>7 DEF s, z, r

\* intq_getc() takes the oldest byte, and the next one is then the oldest.
LEMMA GetRing ==
  ASSUME NEW b, NEW h, NEW t, NEW g, NEW n, RingOK(b, h, t, g, n), h # t
  PROVE  RingOK(b, h, Succ(t), (g + 1) % BYTES, n - 1)
<1>1. /\ N \in Nat \ {0, 1} /\ h \in Slot /\ t \in Slot /\ g \in Nat /\ n = Dist(h, t)
      /\ b \in [Slot -> Nat]
      /\ \A i \in 0..(n - 1) : b[Cell(t, i)] = (g + i) % BYTES
  BY SerialAssumption DEF RingOK, N
<1>2. Succ(t) \in Slot /\ n \in 1..(N - 1) /\ n - 1 = Dist(h, Succ(t))
  BY <1>1, SMT DEF Slot, Succ, Dist
<1>3. (g + 1) % BYTES \in Nat
  <2>1. 0 \in Nat /\ 1 \in Nat
    BY SMT
  <2> QED BY <1>1, <2>1, NumberOn
<1>4. ASSUME NEW i \in 0..((n - 1) - 1)
      PROVE  b[Cell(Succ(t), i)] = (((g + 1) % BYTES) + i) % BYTES
  <2>1. i \in Nat /\ i + 1 \in 0..(n - 1) /\ 1 \in Nat /\ g + 1 + i = g + (i + 1)
    BY <1>1, <1>2, SMT
  <2>2. Cell(Succ(t), i) = Cell(t, i + 1)
    <3>1. N \in Nat \ {0, 1} /\ t \in 0..(N - 1) /\ i \in 0..(N - 2)
      BY <1>1, <1>2, <2>1, SMT DEF Slot
    <3> QED BY <3>1, SMT DEF Succ, Cell
  <2>3. (((g + 1) % BYTES) + i) % BYTES = (g + 1 + i) % BYTES
    BY <1>1, <2>1, NumberOn
  <2> QED BY <1>1, <2>1, <2>2, <2>3
<1> QED BY <1>1, <1>2, <1>3, <1>4 DEF RingOK

\* intq_putc() adds a byte behind the youngest one.
LEMMA PutRing ==
  ASSUME NEW b, NEW h, NEW t, NEW g, NEW n, RingOK(b, h, t, g, n), Succ(h) # t
  PROVE  RingOK([b EXCEPT ![h] = (g + n) % BYTES], Succ(h), t, g, n + 1)
<1>1. /\ N \in Nat \ {0, 1} /\ h \in Slot /\ t \in Slot /\ g \in Nat /\ n = Dist(h, t)
      /\ b \in [Slot -> Nat]
      /\ \A i \in 0..(n - 1) : b[Cell(t, i)] = (g + i) % BYTES
  BY SerialAssumption DEF RingOK, N
<1>2. /\ Succ(h) \in Slot /\ n \in 0..(N - 2) /\ n + 1 = Dist(Succ(h), t)
      /\ n \in Nat /\ 0 \in Nat /\ g + n + 0 = g + n
  BY <1>1, SMT DEF Slot, Succ, Dist
<1>3. (g + n) % BYTES \in Nat
  BY <1>1, <1>2, NumberOn
<1> DEFINE c == [b EXCEPT ![h] = (g + n) % BYTES]
<1>4. c \in [Slot -> Nat] /\ c[h] = (g + n) % BYTES /\ \A i \in Slot : i # h => c[i] = b[i]
  BY <1>1, <1>3
<1> HIDE DEF c
<1>5. ASSUME NEW i \in 0..((n + 1) - 1) PROVE c[Cell(t, i)] = (g + i) % BYTES
  <2>1. CASE i = n
    <3>1. Cell(t, n) = h
      BY <1>1, <1>2, SMT DEF Slot, Dist, Cell
    <3> QED BY <1>4, <2>1, <3>1
  <2>2. CASE i # n
    <3>1. /\ N \in Nat \ {0, 1} /\ t \in 0..(N - 1) /\ h \in 0..(N - 1)
          /\ n \in 0..(N - 2) /\ n = Dist(h, t)
      BY <1>1, <1>2 DEF Slot
    <3>2. i \in 0..(n - 1)
      BY <2>2, <3>1, SMT
    <3>3. Cell(t, i) # h /\ Cell(t, i) \in Slot
      BY <3>1, <3>2, SMT DEF Slot, Dist, Cell
    <3> QED BY <1>1, <1>4, <3>2, <3>3
  <2> QED BY <2>1, <2>2
<1> QED BY <1>1, <1>2, <1>4, <1>5 DEF RingOK, c

\* What a step does to the queues keeps every ring in order.
LEMMA TransferStep ==
  ASSUME RingsRight, NEW puts \in SUBSET Queue, NEW gets \in SUBSET Queue,
         Transfer(puts, gets),
         \A q \in puts : intq_full(q) => q \in gets,
         \A q \in gets : ~intq_empty(q)
  PROVE  RingsRight'
<1>1. /\ DOMAIN buf' = Queue /\ DOMAIN head' = Queue /\ DOMAIN tail' = Queue
      /\ DOMAIN got' = Queue /\ DOMAIN queued' = Queue
  BY DEF Transfer
<1>2. ASSUME NEW q \in Queue PROVE Ring(q)'
  <2>1. /\ Ring(q) /\ head[q] \in Slot /\ tail[q] \in Slot /\ got[q] \in Nat
        /\ next(head[q]) = Succ(head[q]) /\ next(tail[q]) = Succ(tail[q])
        /\ Succ(head[q]) \in Slot /\ Succ(tail[q]) \in Slot
    BY NextIsSucc DEF RingsRight, Ring, RingOK
  <2>2. /\ buf'[q] = IF q \in puts
                     THEN [buf[q] EXCEPT ![head[q]] = (got[q] + queued[q]) % BYTES]
                     ELSE buf[q]
        /\ head'[q] = IF q \in puts THEN Succ(head[q]) ELSE head[q]
        /\ tail'[q] = IF q \in gets THEN Succ(tail[q]) ELSE tail[q]
        /\ got'[q] = IF q \in gets THEN (got[q] + 1) % BYTES ELSE got[q]
        /\ queued'[q] = queued[q] + (IF q \in puts THEN 1 ELSE 0)
                                  - (IF q \in gets THEN 1 ELSE 0)
    BY <2>1 DEF Transfer, Number
  <2>3. queued[q] \in Int /\ queued[q] \in Nat /\ head[q] \in Int /\ tail[q] \in Int
    <3>1. Dist(head[q], tail[q]) \in Slot /\ queued[q] = Dist(head[q], tail[q])
      BY <2>1, RingArithmetic DEF Ring, RingOK
    <3> QED BY <2>1, <3>1, SerialAssumption, SMT DEF Slot, N
  <2>4. CASE q \notin puts /\ q \notin gets
    <3>1. queued'[q] = queued[q]
      BY <2>2, <2>3, <2>4, SMT
    <3> QED BY <2>1, <2>2, <2>4, <3>1 DEF Ring
  <2>5. CASE q \in puts /\ q \notin gets
    <3>1. queued'[q] = queued[q] + 1
      BY <2>2, <2>3, <2>5, SMT
    <3>2. Succ(head[q]) # tail[q]
      BY <2>1, <2>5 DEF intq_full
    <3>3. RingOK([buf[q] EXCEPT ![head[q]] = (got[q] + queued[q]) % BYTES],
                 Succ(head[q]), tail[q], got[q], queued[q] + 1)
      BY <2>1, <3>2, PutRing DEF Ring
    <3> QED BY <2>2, <2>5, <3>1, <3>3 DEF Ring
  <2>6. CASE q \notin puts /\ q \in gets
    <3>1. queued'[q] = queued[q] - 1
      BY <2>2, <2>3, <2>6, SMT
    <3>2. head[q] # tail[q]
      BY <2>6 DEF intq_empty
    <3> QED BY <2>1, <2>2, <2>6, <3>1, <3>2, GetRing DEF Ring
  <2>7. CASE q \in puts /\ q \in gets
    <3>1. head[q] # tail[q]
      BY <2>7 DEF intq_empty
    <3>2. RingOK(buf[q], head[q], Succ(tail[q]), (got[q] + 1) % BYTES, queued[q] - 1)
      BY <2>1, <3>1, GetRing DEF Ring
    <3>3. Succ(head[q]) # Succ(tail[q])
      BY <2>1, <3>1, SerialAssumption, SMT DEF Succ, Slot, N
    <3>4. RingOK([buf[q] EXCEPT ![head[q]] =
                    (((got[q] + 1) % BYTES) + (queued[q] - 1)) % BYTES],
                 Succ(head[q]), Succ(tail[q]), (got[q] + 1) % BYTES, (queued[q] - 1) + 1)
      BY <3>2, <3>3, PutRing
    <3>5. /\ (queued[q] - 1) + 1 = queued[q] /\ queued'[q] = queued[q]
          /\ queued[q] - 1 \in Nat /\ 1 \in Nat
          /\ got[q] + 1 + (queued[q] - 1) = got[q] + queued[q]
      <4>1. queued[q] = Dist(head[q], tail[q])
        BY <2>1 DEF Ring, RingOK
      <4>2. queued[q] # 0
        BY <2>1, <2>3, <3>1, <4>1, SerialAssumption, SMT DEF Dist, Slot, N
      <4> QED BY <2>1, <2>2, <2>3, <2>7, <4>2, SMT
    <3>6. (((got[q] + 1) % BYTES) + (queued[q] - 1)) % BYTES = (got[q] + queued[q]) % BYTES
      <4>1. (((got[q] + 1) % BYTES) + (queued[q] - 1)) % BYTES = (got[q] + 1 + (queued[q] - 1)) % BYTES
        BY <2>1, <3>5, NumberOn
      <4> QED BY <3>5, <4>1
    <3> QED BY <2>2, <2>7, <3>4, <3>5, <3>6 DEF Ring
  <2> QED BY <2>4, <2>5, <2>6, <2>7
<1> QED BY <1>1, <1>2 DEF RingsRight

\* A step that leaves the rings alone.
LEMMA RingsSame ==
  ASSUME RingsRight, UNCHANGED <<buf, head, tail, got, queued>>
  PROVE  RingsRight'
BY DEF RingsRight, Ring

\* write_ier() tells the port of the work there is after the step.
LEMMA IerWritten ==
  ASSUME write_ier
  PROVE  IerRight'
<1>1. "XMIT" # "RECV"
  OBVIOUS
<1> QED BY <1>1 DEF write_ier, IerRight, intq_empty, intq_full, next

\* A step that leaves the port and the ends of the queues alone.
LEMMA IerSame ==
  ASSUME IerRight, Running, UNCHANGED <<mode, ier, head, tail>>
  PROVE  IerRight'
BY DEF IerRight, intq_empty, intq_full, next

\* A step that neither takes nor releases the console, in which at most one
\* thread moves: a reader, or a writer that is inside before.
LEMMA ConsoleSame ==
  ASSUME ConsoleRight, DOMAIN value' = Sema, value'["console"] = value["console"],
         NEW t, t \in Writer => Inside(t),
         UNCHANGED pc \/ \E x : pc' = [pc EXCEPT ![t] = x]
  PROVE  ConsoleRight'
<1>1. DOMAIN pc' = Thread
  BY DEF ConsoleRight
<1>2. ASSUME NEW u \in Writer, Inside(u)' PROVE Inside(u)
  <2>1. u \in Thread
    BY DEF Thread
  <2>2. CASE u = t
    BY <2>2
  <2>3. CASE u # t
    <3>1. pc'[u] = pc[u]
      BY <2>1, <2>3 DEF ConsoleRight
    <3> QED BY <1>2, <3>1 DEF Inside
  <2> QED BY <2>2, <2>3
<1>3. StringsWhole'
  BY <1>2 DEF ConsoleRight, StringsWhole, Inside
<1> QED BY <1>1, <1>2, <1>3 DEF ConsoleRight

\* Only serial_flush() switches the machine off.
LEMMA FlushedSame ==
  ASSUME Running, UNCHANGED off
  PROVE  FlushedAtEnd'
BY DEF Running, FlushedAtEnd

\* wait() moves no byte.
LEMMA WaitKeeps ==
  ASSUME NEW t, NEW q, wait(t, q)
  PROVE  /\ UNCHANGED <<buf, head, tail, got, queued>>
         /\ UNCHANGED pc \/ \E x : pc' = [pc EXCEPT ![t] = x]
BY DEF wait, queues

\* The end of intq_getc() or of intq_putc().
LEMMA FinishKeeps ==
  ASSUME RingsRight, NEW t, NEW q \in Queue, NEW freed, ~MustWait(q), Finish(t, q, freed)
  PROVE  /\ RingsRight' /\ IerRight'
         /\ \E x : pc' = [pc EXCEPT ![t] = x]
<1>1. RingsRight'
  <2>1. CASE q = "in"
    <3>1. Transfer({}, {q}) /\ ~intq_empty(q)
      BY <2>1 DEF Finish, MustWait
    <3>2. {} \in SUBSET Queue /\ {q} \in SUBSET Queue
      OBVIOUS
    <3> QED BY <3>1, <3>2, TransferStep
  <2>2. CASE q # "in"
    <3>1. Transfer({q}, {}) /\ ~intq_full(q)
      BY <2>2 DEF Finish, MustWait
    <3>2. {} \in SUBSET Queue /\ {q} \in SUBSET Queue
      OBVIOUS
    <3> QED BY <3>1, <3>2, TransferStep
  <2> QED BY <2>1, <2>2
<1>2. IerRight'
  BY IerWritten DEF Finish
<1>3. \E x : pc' = [pc EXCEPT ![t] = x]
  BY DEF Finish
<1> QED BY <1>1, <1>2, <1>3

\* A thread enters intq_getc() or intq_putc().
LEMMA EnterKeeps ==
  ASSUME SerialInv, Running, NEW t, NEW q \in Queue, Enter(t, q), UNCHANGED mode
  PROVE  /\ RingsRight' /\ IerRight'
         /\ DOMAIN value' = Sema /\ value'["console"] = value["console"]
         /\ UNCHANGED pc \/ \E x : pc' = [pc EXCEPT ![t] = x]
<1>1. RingsRight /\ IerRight /\ DOMAIN value = Sema /\ q # "console"
  BY SMT DEF SerialInv, ConsoleRight, Queue
<1>2. CASE ~MustWait(q) /\ Finish(t, q, {}) /\ UNCHANGED <<locks, panic>>
  BY <1>1, <1>2, FinishKeeps DEF locks
<1>3. CASE /\ MustWait(q) /\ value[q] > 0
           /\ value' = [value EXCEPT ![q] = 0] /\ wait(t, q) /\ blocked' = blocked \cup {t}
           /\ UNCHANGED <<ier, waiters, left>>
  <2>1. /\ UNCHANGED <<buf, head, tail, got, queued, ier>>
        /\ UNCHANGED pc \/ \E x : pc' = [pc EXCEPT ![t] = x]
    BY <1>3, WaitKeeps
  <2>2. RingsRight' /\ IerRight'
    BY <1>1, <2>1, RingsSame, IerSame
  <2>3. "console" \in Sema
    BY DEF Sema
  <2>4. DOMAIN value' = Sema /\ value'["console"] = value["console"]
    BY <1>1, <1>3, <2>3
  <2> QED BY <2>1, <2>2, <2>4
<1>4. CASE /\ MustWait(q) /\ value[q] = 0 /\ Sleep(t, q, "lock")
           /\ UNCHANGED <<ier, queues, value, left, panic>>
  BY <1>1, <1>4, RingsSame, IerSame DEF Sleep, queues
<1> QED BY <1>2, <1>3, <1>4 DEF Enter

\* input_getc() keeps the invariant.
LEMMA GetcStep ==
  ASSUME SerialInv, NEW t \in Reader, input_getc(t)
  PROVE  SerialInv'
<1>1. Running /\ Enter(t, "in") /\ UNCHANGED <<mode, off>> /\ "in" \in Queue /\ t \notin Writer
  BY SerialAssumption DEF input_getc, Queue
<1>2. FlushedAtEnd'
  BY <1>1, FlushedSame
<1>3. ConsoleRight'
  BY <1>1, EnterKeeps, ConsoleSame DEF SerialInv
<1> QED BY <1>1, <1>2, <1>3, EnterKeeps DEF SerialInv

\* serial_putc() with interrupts on keeps the invariant.
LEMMA PutcStep ==
  ASSUME SerialInv, NEW t \in Writer, serial_putc(t)
  PROVE  SerialInv'
<1>1. Running /\ Inside(t)
  BY DEF serial_putc, Inside
<1>2. CASE mode = "QUEUE" /\ Enter(t, "tx") /\ UNCHANGED <<mode, thre, off>>
  <2>1. "tx" \in Queue
    BY DEF Queue
  <2>2. FlushedAtEnd'
    BY <1>1, <1>2, FlushedSame
  <2>3. ConsoleRight'
    BY <1>1, <1>2, <2>1, EnterKeeps, ConsoleSame DEF SerialInv
  <2> QED BY <1>1, <1>2, <2>1, <2>2, <2>3, EnterKeeps DEF SerialInv
<1>3. CASE mode' = "POLL" /\ putc_poll
  <2>1. UNCHANGED <<buf, head, tail, got, queued, value, pc, off>>
    BY <1>3 DEF putc_poll, queues, locks
  <2>2. RingsRight'
    BY <2>1, RingsSame DEF SerialInv
  <2>3. ConsoleRight'
    BY <1>1, <2>1, ConsoleSame DEF SerialInv, ConsoleRight
  <2>4. FlushedAtEnd'
    BY <1>1, <2>1, FlushedSame
  <2>5. IerRight'
    BY <1>3 DEF IerRight
  <2> QED BY <2>2, <2>3, <2>4, <2>5 DEF SerialInv
<1> QED BY <1>2, <1>3 DEF serial_putc

\* Going on for the lock of a queue, or after a signal, moves nobody into or
\* out of putbuf() and keeps the invariant.
LEMMA LockStep ==
  ASSUME SerialInv, NEW t \in Thread, lock_acquire(t)
  PROVE  SerialInv'
<1> DEFINE q == QueueOf(t)
<1>1. q \in Queue /\ q # "console" /\ "console" \in Sema
  BY SMT DEF QueueOf, Queue, Sema
<1> HIDE DEF q
<1>2. /\ Running /\ pc[t] = "lock" /\ UNCHANGED <<mode, ier, off>>
      /\ \/ value' = [value EXCEPT ![q] = 0] /\ wait(t, q)
         \/ Sleep(t, q, "lock") /\ UNCHANGED <<queues, value>>
  BY DEF lock_acquire, q
<1>3. Inside(t) /\ RingsRight /\ IerRight /\ ConsoleRight /\ DOMAIN value = Sema
  BY <1>2 DEF Inside, SerialInv, ConsoleRight
<1>4. /\ UNCHANGED <<buf, head, tail, got, queued>>
      /\ UNCHANGED pc \/ \E x : pc' = [pc EXCEPT ![t] = x]
  BY <1>2, WaitKeeps DEF Sleep, queues
<1>5. DOMAIN value' = Sema /\ value'["console"] = value["console"]
  BY <1>1, <1>2, <1>3
<1>6. ConsoleRight'
  BY <1>3, <1>4, <1>5, ConsoleSame
<1> QED BY <1>2, <1>3, <1>4, <1>6, RingsSame, IerSame, FlushedSame DEF SerialInv

\* A thread returns from wait() in intq.c.
LEMMA WaitReturnStep ==
  ASSUME SerialInv, NEW t \in Thread, wait_return(t)
  PROVE  SerialInv'
<1> DEFINE q == QueueOf(t)
<1>1. q \in Queue /\ q # "console" /\ "console" \in Sema
  BY SMT DEF QueueOf, Queue, Sema
<1> HIDE DEF q
<1>2. /\ Running /\ pc[t] = "wait" /\ UNCHANGED <<mode, off>>
      /\ \/ /\ ~MustWait(q) /\ Finish(t, q, FirstWaiter(q))
            /\ value' = [value EXCEPT ![q] = @ + 1]
         \/ wait(t, q) /\ UNCHANGED <<ier, value>>
  BY DEF wait_return, q
<1>3. Inside(t) /\ RingsRight /\ IerRight /\ ConsoleRight /\ DOMAIN value = Sema
  BY <1>2 DEF Inside, SerialInv, ConsoleRight
<1>4. RingsRight' /\ IerRight' /\ (UNCHANGED pc \/ \E x : pc' = [pc EXCEPT ![t] = x])
  <2>1. CASE ~MustWait(q) /\ Finish(t, q, FirstWaiter(q))
    BY <1>1, <1>3, <2>1, FinishKeeps
  <2>2. CASE wait(t, q) /\ UNCHANGED <<ier, value>>
    BY <1>2, <1>3, <2>2, WaitKeeps, RingsSame, IerSame
  <2> QED BY <1>2, <2>1, <2>2
<1>5. DOMAIN value' = Sema /\ value'["console"] = value["console"]
  BY <1>1, <1>2, <1>3
<1>6. ConsoleRight'
  BY <1>3, <1>4, <1>5, ConsoleSame
<1> QED BY <1>2, <1>4, <1>6, FlushedSame DEF SerialInv

\* acquire_console() lets a writer in only when nobody is inside.
LEMMA AcquireStep ==
  ASSUME SerialInv, NEW t \in Writer, acquire_console(t)
  PROVE  SerialInv'
<1>1. /\ Running /\ pc[t] \in {"idle", "console"}
      /\ UNCHANGED <<mode, ier, buf, head, tail, got, queued, off>>
      /\ \/ /\ value["console"] > 0 /\ value' = [value EXCEPT !["console"] = 0]
            /\ pc' = [pc EXCEPT ![t] = "next"]
         \/ UNCHANGED value /\ pc' = [pc EXCEPT ![t] = "console"]
  BY DEF acquire_console, queues, Sleep
<1>2. RingsRight /\ IerRight /\ ConsoleRight
  BY DEF SerialInv
<1>3. RingsRight' /\ IerRight' /\ FlushedAtEnd'
  BY <1>1, <1>2, RingsSame, IerSame, FlushedSame
<1>4. ConsoleRight'
  <2>1. /\ "console" \in Sema /\ t \in Thread /\ Writer \subseteq Thread
        /\ DOMAIN value = Sema /\ DOMAIN pc = Thread
    BY <1>2 DEF Sema, Thread, ConsoleRight
  <2>2. DOMAIN pc' = Thread /\ \A u \in Writer : u # t => pc'[u] = pc[u]
    BY <1>1, <2>1
  <2>3. CASE /\ value["console"] > 0 /\ value' = [value EXCEPT !["console"] = 0]
             /\ pc' = [pc EXCEPT ![t] = "next"]
    <3>1. value["console"] # 0
      BY <2>3, SMT
    <3>2. \A u \in Writer : ~Inside(u)
      BY <1>2, <3>1 DEF ConsoleRight
    <3>3. DOMAIN value' = Sema /\ value'["console"] = 0
      BY <2>1, <2>3
    <3>4. \A u \in Writer : u # t => ~Inside(u)'
      BY <2>2, <3>2 DEF Inside
    <3> QED BY <2>2, <3>3, <3>4 DEF ConsoleRight, StringsWhole, Inside
  <2>4. CASE UNCHANGED value /\ pc' = [pc EXCEPT ![t] = "console"]
    <3>1. ~Inside(t)'
      <4>1. pc'[t] = "console"
        BY <2>1, <2>4
      <4> QED BY <4>1, SMT DEF Inside
    <3>2. \A u \in Writer : Inside(u)' => Inside(u)
      BY <2>2, <3>1 DEF Inside
    <3> QED BY <1>2, <2>2, <2>4, <3>2 DEF ConsoleRight, StringsWhole, Inside
  <2> QED BY <1>1, <2>3, <2>4
<1> QED BY <1>3, <1>4 DEF SerialInv

\* release_console() by the one writer that is inside.
LEMMA ReleaseStep ==
  ASSUME SerialInv, NEW t \in Writer, release_console(t)
  PROVE  SerialInv'
<1>1. /\ Running /\ Inside(t)
      /\ UNCHANGED <<mode, ier, buf, head, tail, got, queued, off>>
      /\ value' = [value EXCEPT !["console"] = @ + 1]
      /\ pc' = [pc EXCEPT ![t] = "idle"]
  BY DEF release_console, queues, Inside
<1>2. RingsRight /\ IerRight /\ ConsoleRight
  BY DEF SerialInv
<1>3. RingsRight' /\ IerRight' /\ FlushedAtEnd'
  BY <1>1, <1>2, RingsSame, IerSame, FlushedSame
<1>4. /\ "console" \in Sema /\ t \in Thread /\ Writer \subseteq Thread
      /\ DOMAIN value = Sema /\ DOMAIN pc = Thread /\ value["console"] = 0
  BY <1>1, <1>2 DEF Sema, Thread, ConsoleRight
<1>5. DOMAIN pc' = Thread /\ pc'[t] = "idle" /\ \A u \in Writer : u # t => pc'[u] = pc[u]
  BY <1>1, <1>4
<1>6. DOMAIN value' = Sema /\ value'["console"] = 1
  <2>1. DOMAIN value' = Sema /\ value'["console"] = value["console"] + 1
    BY <1>1, <1>4
  <2> QED BY <1>4, <2>1, SMT
<1>7. \A u \in Writer : ~Inside(u)'
  <2>1. ~Inside(t)'
    BY <1>5, SMT DEF Inside
  <2>2. \A u \in Writer : u # t => ~Inside(u)
    BY <1>1, <1>2 DEF ConsoleRight, StringsWhole, Inside
  <2> QED BY <1>5, <2>1, <2>2 DEF Inside
<1>8. ConsoleRight'
  BY <1>5, <1>6, <1>7 DEF ConsoleRight, StringsWhole, Inside
<1> QED BY <1>3, <1>8 DEF SerialInv

\* The handlers, the start of the queue, and the port.
LEMMA HandlerStep ==
  ASSUME SerialInv,
         \/ \E rx \in BOOLEAN : serial_interrupt(rx)
         \/ keyboard_interrupt \/ handler_putc
  PROVE  SerialInv'
<1>1. RingsRight /\ IerRight /\ ConsoleRight /\ "in" \in Queue /\ "tx" \in Queue
  BY DEF SerialInv, Queue
<1>2. Running /\ UNCHANGED <<value, pc, off>>
  BY DEF serial_interrupt, keyboard_interrupt, handler_putc, putc_poll, locks
<1>3. ConsoleRight'
  BY <1>1, <1>2 DEF ConsoleRight, StringsWhole, Inside
<1>4. FlushedAtEnd'
  BY <1>2, FlushedSame
<1>5. ASSUME NEW rx \in BOOLEAN, serial_interrupt(rx) PROVE RingsRight' /\ IerRight'
  <2> DEFINE puts == IF rx /\ ~intq_full("in") THEN {"in"} ELSE {}
             gets == IF thre /\ ~intq_empty("tx") THEN {"tx"} ELSE {}
  <2>1. Transfer(puts, gets) /\ write_ier
    BY <1>5 DEF serial_interrupt
  <2>2. /\ puts \in SUBSET Queue /\ gets \in SUBSET Queue
        /\ \A q \in puts : ~intq_full(q)
        /\ \A q \in gets : ~intq_empty(q)
    BY <1>1
  <2> QED BY <1>1, <2>1, <2>2, TransferStep, IerWritten
<1>6. CASE keyboard_interrupt
  <2>1. Transfer({"in"}, {}) /\ ~intq_full("in")
    BY <1>6 DEF keyboard_interrupt
  <2>2. {"in"} \in SUBSET Queue /\ {} \in SUBSET Queue
    BY <1>1
  <2>3. RingsRight'
    BY <1>1, <2>1, <2>2, TransferStep
  <2>4. IerRight'
    <3>1. CASE mode = "QUEUE"
      BY <1>6, <3>1, IerWritten DEF keyboard_interrupt, serial_notify
    <3>2. CASE mode # "QUEUE"
      BY <1>6, <3>2 DEF keyboard_interrupt, IerRight
    <3> QED BY <3>1, <3>2
  <2> QED BY <1>3, <1>4, <2>3, <2>4 DEF SerialInv
<1>7. CASE handler_putc
  <2> DEFINE gets == IF intq_full("tx") THEN {"tx"} ELSE {}
  <2>1. CASE mode = "QUEUE"
    <3>1. Transfer({"tx"}, gets) /\ write_ier
      BY <1>7, <2>1, SMT DEF handler_putc
    <3>2. {"tx"} \in SUBSET Queue /\ gets \in SUBSET Queue
      BY <1>1
    <3>3. \A q \in {"tx"} : intq_full(q) => q \in gets
      OBVIOUS
    <3>4. intq_full("tx") => ~intq_empty("tx")
      <4>1. /\ head["tx"] \in Slot /\ next(head["tx"]) = Succ(head["tx"])
        BY <1>1, NextIsSucc DEF RingsRight, Ring, RingOK
      <4>2. Succ(head["tx"]) # head["tx"]
        BY <4>1, SerialAssumption, SMT DEF Succ, Slot, N
      <4> QED BY <4>1, <4>2 DEF intq_full, intq_empty
    <3>5. \A q \in gets : ~intq_empty(q)
      BY <3>4
    <3> QED BY <1>1, <1>3, <1>4, <3>1, <3>2, <3>3, <3>5, TransferStep, IerWritten DEF SerialInv
  <2>2. CASE mode # "QUEUE"
    <3>1. mode = "POLL" /\ putc_poll /\ UNCHANGED mode
      BY <1>7, <2>2 DEF handler_putc
    <3>2. RingsRight'
      BY <1>1, <3>1, RingsSame DEF putc_poll, queues
    <3>3. IerRight'
      BY <2>2, <3>1 DEF IerRight
    <3> QED BY <1>3, <1>4, <3>2, <3>3 DEF SerialInv
  <2> QED BY <2>1, <2>2
<1> QED BY <1>3, <1>4, <1>5, <1>6, <1>7 DEF SerialInv

\* serial_flush() sends all that is queued.
LEMMA FlushStep ==
  ASSUME SerialInv, serial_flush
  PROVE  SerialInv'
<1>1. /\ RingsRight /\ ConsoleRight /\ "tx" \in Queue /\ UNCHANGED <<buf, head, value, pc>>
      /\ off' = TRUE /\ tail' = [tail EXCEPT !["tx"] = head["tx"]]
      /\ got' = [got EXCEPT !["tx"] = Number("tx", queued["tx"])]
      /\ queued' = [queued EXCEPT !["tx"] = 0]
  BY DEF SerialInv, serial_flush, locks, Queue
<1>2. ConsoleRight'
  BY <1>1 DEF ConsoleRight, StringsWhole, Inside
<1>3. DOMAIN tail' = Queue /\ DOMAIN got' = Queue /\ DOMAIN queued' = Queue
  BY <1>1 DEF RingsRight
<1>4. /\ tail'["tx"] = head["tx"] /\ got'["tx"] = (got["tx"] + queued["tx"]) % BYTES
      /\ queued'["tx"] = 0
  BY <1>1 DEF RingsRight, Number
<1>5. ASSUME NEW q \in Queue, q # "tx" PROVE Ring(q)'
  <2>1. tail'[q] = tail[q] /\ got'[q] = got[q] /\ queued'[q] = queued[q]
    BY <1>1, <1>5 DEF RingsRight
  <2> QED BY <1>1, <2>1 DEF RingsRight, Ring
<1>6. Ring("tx")'
  <2>1. /\ head["tx"] \in Slot /\ tail["tx"] \in Slot /\ got["tx"] \in Nat
        /\ buf["tx"] \in [Slot -> Nat] /\ queued["tx"] = Dist(head["tx"], tail["tx"])
    BY <1>1 DEF RingsRight, Ring, RingOK
  <2>2. queued["tx"] \in Nat /\ 0 \in Nat /\ 0 = Dist(head["tx"], head["tx"])
    BY <2>1, SerialAssumption, SMT DEF Dist, Slot, N
  <2>3. got'["tx"] \in Nat
    BY <1>4, <2>1, <2>2, NumberOn
  <2>4. 0..(0 - 1) = {}
    BY SMT
  <2> QED BY <1>1, <1>4, <2>1, <2>2, <2>3, <2>4 DEF Ring, RingOK
<1>7. RingsRight'
  BY <1>1, <1>3, <1>5, <1>6 DEF RingsRight
<1> QED BY <1>1, <1>2, <1>4, <1>7 DEF SerialInv, FlushedAtEnd, IerRight, Running

\* The steps that change neither a queue nor a thread.
LEMMA OtherStep ==
  ASSUME SerialInv, serial_init_queue \/ transmit \/ UNCHANGED vars
  PROVE  SerialInv'
<1>1. UNCHANGED <<buf, head, tail, got, queued, value, pc, off>>
  BY DEF serial_init_queue, transmit, vars, queues, locks
<1>2. RingsRight' /\ ConsoleRight' /\ FlushedAtEnd'
  BY <1>1, RingsSame DEF SerialInv, ConsoleRight, StringsWhole, Inside, FlushedAtEnd
<1>3. IerRight'
  <2>1. CASE serial_init_queue
    BY <2>1, IerWritten DEF serial_init_queue
  <2>2. CASE transmit \/ UNCHANGED vars
    <3>1. UNCHANGED <<mode, ier, head, tail, panic, off>>
      BY <2>2 DEF transmit, vars, queues
    <3> QED BY <3>1 DEF SerialInv, IerRight, Running, intq_empty, intq_full, next
  <2> QED BY <2>1, <2>2
<1> QED BY <1>2, <1>3 DEF SerialInv

\* Initially the rings are empty and nobody writes.
LEMMA SerialInvInit ==
  ASSUME Init
  PROVE  SerialInv
<1>1. 0 \in Slot /\ 0 \in Nat /\ 0 = Dist(0, 0) /\ 0..(0 - 1) = {} /\ 1 # 0
  BY SerialAssumption, SMT DEF Slot, Dist, N
<1>2. /\ buf = [q \in Queue |-> [i \in Slot |-> 0]]
      /\ head = [q \in Queue |-> 0] /\ tail = [q \in Queue |-> 0]
      /\ got = [q \in Queue |-> 0] /\ queued = [q \in Queue |-> 0]
  BY DEF Init, Slot, N
<1>3. RingsRight
  <2>1. ASSUME NEW q \in Queue PROVE Ring(q)
    <3>1. /\ buf[q] = [i \in Slot |-> 0] /\ head[q] = 0 /\ tail[q] = 0
          /\ got[q] = 0 /\ queued[q] = 0
      BY <1>2
    <3>2. [i \in Slot |-> 0] \in [Slot -> Nat]
      BY <1>1
    <3> QED BY <1>1, <3>1, <3>2 DEF Ring, RingOK
  <2> QED BY <1>2, <2>1 DEF RingsRight
<1>4. ConsoleRight
  <2>1. ASSUME NEW t \in Writer PROVE ~Inside(t)
    <3>1. pc[t] = "idle"
      BY DEF Init, Thread
    <3> QED BY <3>1, SMT DEF Inside
  <2>2. DOMAIN value = Sema /\ value["console"] = 1 /\ DOMAIN pc = Thread
    BY DEF Init, Sema
  <2> QED BY <2>1, <2>2 DEF ConsoleRight, StringsWhole, Inside
<1>5. FlushedAtEnd
  BY DEF Init, FlushedAtEnd
<1>6. IerRight
  <2>1. mode # "QUEUE"
    BY SMT DEF Init
  <2> QED BY <2>1 DEF IerRight
<1> QED BY <1>3, <1>4, <1>5, <1>6 DEF SerialInv

\* Every step keeps the invariant.
LEMMA SerialInvStep ==
  ASSUME SerialInv, [Next]_vars
  PROVE  SerialInv'
<1>1. ASSUME NEW t \in Reader, input_getc(t) PROVE SerialInv'
  BY <1>1, GetcStep
<1>2. ASSUME NEW t \in Writer, serial_putc(t) \/ acquire_console(t) \/ release_console(t)
      PROVE  SerialInv'
  BY <1>2, PutcStep, AcquireStep, ReleaseStep
<1>3. ASSUME NEW t \in Thread, lock_acquire(t) \/ wait_return(t) PROVE SerialInv'
  BY <1>3, LockStep, WaitReturnStep
<1>4. CASE \/ \E rx \in BOOLEAN : serial_interrupt(rx)
           \/ keyboard_interrupt \/ handler_putc
  BY <1>4, HandlerStep
<1>5. CASE serial_flush
  BY <1>5, FlushStep
<1>6. CASE serial_init_queue \/ transmit \/ UNCHANGED vars
  BY <1>6, OtherStep
<1> QED BY <1>1, <1>2, <1>3, <1>4, <1>5, <1>6 DEF Next

\* The rings of the invariant are the queues of the property.
LEMMA SerialInvImplies ==
  ASSUME SerialInv
  PROVE  NoByteLost /\ IerRight /\ StringsWhole
<1>1. ASSUME NEW q \in Queue
      PROVE  LET size == (head[q] + INTQ_BUFSIZE - tail[q]) % INTQ_BUFSIZE IN
             /\ queued[q] = size
             /\ \A i \in 0..(size - 1) :
                  buf[q][(tail[q] + i) % INTQ_BUFSIZE] = Number(q, i)
  <2>1. /\ head[q] \in Slot /\ tail[q] \in Slot /\ queued[q] = Dist(head[q], tail[q])
        /\ \A i \in 0..(queued[q] - 1) : buf[q][Cell(tail[q], i)] = (got[q] + i) % BYTES
    BY DEF SerialInv, RingsRight, Ring, RingOK
  <2>2. queued[q] = (head[q] + INTQ_BUFSIZE - tail[q]) % INTQ_BUFSIZE /\ queued[q] \in Slot
    BY <2>1, RingArithmetic
  <2>3. ASSUME NEW i \in 0..(queued[q] - 1) PROVE i \in Slot
    BY <2>2, SerialAssumption, SMT DEF Slot, N
  <2>4. \A i \in 0..(queued[q] - 1) : buf[q][(tail[q] + i) % INTQ_BUFSIZE] = Number(q, i)
    BY <2>1, <2>3, RingArithmetic DEF Number
  <2> QED BY <2>2, <2>4
<1>2. InOrder
  BY <1>1 DEF InOrder
<1> QED BY <1>2 DEF SerialInv, ConsoleRight, NoByteLost

\* intq.c and serial.c: what is in a queue is always what was put and not yet
\* taken, in order, where the ring wraps and where a handler makes room for
\* its own byte too, and nothing is unsent when the machine is switched off.
THEOREM NoByteEverLost == Spec => []NoByteLost
<1>1. SerialInv /\ [Next]_vars => SerialInv'
  BY SerialInvStep
<1> QED BY <1>1, SerialInvInit, SerialInvImplies, PTL DEF Spec

\* write_ier() and serial_notify(): the port is always told to interrupt for
\* exactly the work its handler has.
THEOREM IerAlwaysRight == Spec => []IerRight
<1>1. SerialInv /\ [Next]_vars => SerialInv'
  BY SerialInvStep
<1> QED BY <1>1, SerialInvInit, SerialInvImplies, PTL DEF Spec

\* acquire_console(): at most one thread is ever inside putbuf(), however many
\* write and wherever they sleep.
THEOREM StringsAlwaysWhole == Spec => []StringsWhole
<1>1. SerialInv /\ [Next]_vars => SerialInv'
  BY SerialInvStep
<1> QED BY <1>1, SerialInvInit, SerialInvImplies, PTL DEF Spec
=============================================================================
