-------------------------------- MODULE Disk --------------------------------
(***************************************************************************)
(* One channel of devices/disk.c with its two disks: detection at start-up *)
(* and the transfer of single sectors by PIO commands whose completion is  *)
(* announced by an interrupt.  The controller is the other actor: it       *)
(* works on a command while the threads and the handler run.  A thread's   *)
(* steps are the accesses to the controller and to the semaphore.          *)
(***************************************************************************)
EXTENDS Naturals

CONSTANTS DiskThread, main_thread, NoHolder,
          Sector, Value,    \* sectors of a disk, contents of a sector
          MaxSpurious       \* interrupts that no command asked for

ASSUME DiskAssumption ==
  /\ main_thread \in DiskThread /\ NoHolder \notin DiskThread /\ MaxSpurious \in Nat
  /\ Sector # {} /\ Value # {}

Dev == {0, 1}
Command == {"identify", "read", "write"}

VARIABLES
  is_ata, lock, expecting_interrupt, completion_wait,   \* struct channel
  dpc, op,               \* where a thread is, and the transfer it is in
  sel, lba, cmd, bsy, drq, reg, intrq,                  \* the controller
  data,                 \* what the disks hold
  disk_panic,
  spurious, late        \* history: unasked interrupts; a wait has given up

channel == <<is_ata, lock, expecting_interrupt, completion_wait>>
controller == <<sel, lba, cmd, bsy, drq, reg, intrq>>
dvars == <<channel, dpc, op, controller, data, disk_panic, spurious, late>>

\* A transfer: the command, the disk it is for, the sector and its contents.
Op(c, d, s, v) == [cmd |-> c, dev |-> d, sec |-> s, val |-> v]
SomeSector == CHOOSE s \in Sector : TRUE
SomeValue == CHOOSE v \in Value : TRUE
Idle == Op("read", 0, SomeSector, SomeValue)   \* in no transfer

\* disk_init() up to reset_channel().
DiskInit ==
  /\ is_ata = [d \in Dev |-> FALSE] /\ lock = NoHolder
  /\ expecting_interrupt = FALSE /\ completion_wait = 0
  /\ dpc = [t \in DiskThread |-> IF t = main_thread THEN "probe" ELSE "idle"]
  /\ op = [t \in DiskThread |-> Idle]
  /\ sel = 0 /\ lba = SomeSector /\ cmd = "none" /\ bsy = FALSE /\ drq = FALSE
  /\ reg = SomeValue /\ intrq = FALSE
  /\ data = [d \in Dev |-> [s \in Sector |-> SomeValue]]
  /\ spurious = 0 /\ late = FALSE /\ disk_panic = FALSE

\* disk_init() has not returned.
Booting == dpc[main_thread] = "probe" \/ op[main_thread].cmd = "identify"
At(t, p) == ~disk_panic /\ dpc[t] = p
Goto(t, p) == dpc' = [dpc EXCEPT ![t] = p]
PANIC == disk_panic' = TRUE

\* What a register holds after a write: a controller that is not idle may take
\* the value, keep the old one or, where several bytes are written, mix them.
Written(S, new) == IF bsy \/ drq THEN S ELSE {new}

\* The disk the main thread identifies next, from d on; then it is like others.
IdentifyFrom(d, ata) ==
  IF \E e \in Dev : e >= d /\ ata[e]
  THEN /\ Goto(main_thread, "select")
       /\ op' = [op EXCEPT ![main_thread] =
                   Op("identify", CHOOSE e \in Dev : e >= d /\ ata[e] /\ (e > d => ~ata[d]),
                      SomeSector, SomeValue)]
  ELSE Goto(main_thread, "idle") /\ op' = [op EXCEPT ![main_thread] = Idle]

\* check_device_type() of both disks: what it finds is up to the hardware.
check_device_type ==
  /\ At(main_thread, "probe")
  /\ is_ata' \in [Dev -> BOOLEAN]
  /\ IdentifyFrom(0, is_ata')
  /\ UNCHANGED <<lock, expecting_interrupt, completion_wait, controller, data, spurious, late, disk_panic>>

\* disk_read() and disk_write(), with the contents a write is to leave.
disk_read(t, d, s) ==
  /\ At(t, "idle") /\ ~Booting /\ is_ata[d]
  /\ op' = [op EXCEPT ![t] = Op("read", d, s, SomeValue)] /\ Goto(t, "lock")
  /\ UNCHANGED <<channel, controller, data, spurious, late, disk_panic>>
disk_write(t, d, s, v) ==
  /\ At(t, "idle") /\ ~Booting /\ is_ata[d]
  /\ op' = [op EXCEPT ![t] = Op("write", d, s, v)] /\ Goto(t, "lock")
  /\ UNCHANGED <<channel, controller, data, spurious, late, disk_panic>>

channel_acquire(t) ==
  /\ At(t, "lock") /\ lock = NoHolder
  /\ lock' = t /\ Goto(t, "select")
  /\ UNCHANGED <<is_ata, expecting_interrupt, completion_wait, op, controller, data, spurious, late, disk_panic>>

\* wait_until_idle() ends because the controller is idle or because the time is
\* up, and the caller goes on in both cases; reading the status takes back an
\* interrupt that was not delivered yet.
wait_until_idle == intrq' = FALSE /\ late' = (late \/ bsy \/ drq)

\* select_device_wait(): a wait and select_device(), then another wait.
select_device(t) ==
  /\ At(t, "select") /\ wait_until_idle
  /\ sel' \in Written(Dev, op[t].dev) /\ Goto(t, "settle")
  /\ UNCHANGED <<channel, op, lba, cmd, bsy, drq, reg, data, spurious, disk_panic>>
select_device_wait(t) ==
  /\ At(t, "settle") /\ wait_until_idle
  /\ Goto(t, IF op[t].cmd = "identify" THEN "expect" ELSE "address")
  /\ UNCHANGED <<channel, op, sel, lba, cmd, bsy, drq, reg, data, spurious, disk_panic>>

select_sector(t) ==
  /\ At(t, "address")
  /\ sel' \in Written(Dev, op[t].dev) /\ lba' \in Written(Sector, op[t].sec) /\ Goto(t, "expect")
  /\ UNCHANGED <<channel, op, cmd, bsy, drq, reg, intrq, data, spurious, late, disk_panic>>

\* Fault: the interrupt is not announced to the handler.
expect_interrupt_skip(t) ==
  /\ At(t, "expect") /\ Goto(t, "command")
  /\ UNCHANGED <<channel, op, controller, data, spurious, late, disk_panic>>

\* issue_pio_command(), two steps.
expect_interrupt(t) ==
  /\ At(t, "expect")
  /\ expecting_interrupt' = TRUE /\ Goto(t, "command")
  /\ UNCHANGED <<is_ata, lock, completion_wait, op, controller, data, spurious, late, disk_panic>>
issue_pio_command(t) ==
  /\ At(t, "command")
  /\ \/ cmd' = op[t].cmd /\ bsy' = TRUE /\ drq' = FALSE
     \/ (bsy \/ drq) /\ UNCHANGED <<cmd, bsy, drq>>      \* a command too soon may be ignored
  /\ Goto(t, IF op[t].cmd = "write" THEN "ready" ELSE "complete")
  /\ UNCHANGED <<channel, op, sel, lba, reg, intrq, data, spurious, late, disk_panic>>

\* sema_down (&c->completion_wait).
wait_completion(t) ==
  /\ At(t, "complete") /\ completion_wait > 0
  /\ completion_wait' = completion_wait - 1
  /\ Goto(t, IF op[t].cmd = "write" THEN "done" ELSE "ready")
  /\ UNCHANGED <<is_ata, lock, expecting_interrupt, op, controller, data, spurious, late, disk_panic>>

\* Fault: a write does not wait for its completion.
output_sector_done(t) ==
  /\ At(t, "ready") /\ ~bsy /\ drq /\ op[t].cmd = "write"
  /\ reg' = op[t].val /\ drq' = FALSE /\ bsy' = TRUE /\ Goto(t, "done")
  /\ UNCHANGED <<channel, op, sel, lba, cmd, intrq, data, spurious, late, disk_panic>>

\* wait_while_busy() and, if the controller asks for data, the transfer.  What
\* comes of a transfer in the direction it does not ask for is undefined.
input_sector(t) ==
  /\ At(t, "ready") /\ ~bsy /\ drq /\ op[t].cmd # "write"
  /\ \E v \in IF cmd = "store" THEN Value ELSE {reg} : op' = [op EXCEPT ![t].val = v]
  /\ drq' \in (IF cmd = "store" THEN BOOLEAN ELSE {FALSE}) /\ reg' = SomeValue /\ Goto(t, "done")
  /\ UNCHANGED <<channel, sel, lba, cmd, bsy, intrq, data, spurious, late, disk_panic>>
output_sector(t) ==
  /\ At(t, "ready") /\ ~bsy /\ drq /\ op[t].cmd = "write"
  /\ IF cmd = "store" THEN reg' = op[t].val /\ drq' = FALSE /\ bsy' = TRUE
     ELSE drq' \in BOOLEAN /\ UNCHANGED <<reg, bsy>>
  /\ Goto(t, "complete")
  /\ UNCHANGED <<channel, op, sel, lba, cmd, intrq, data, spurious, late, disk_panic>>

\* wait_while_busy() returns false: no data are asked for, or the controller is
\* still busy when the time is up.
command_failed(t) ==
  /\ At(t, "ready") /\ (bsy \/ ~drq) /\ late' = (late \/ bsy)
  /\ IF op[t].cmd = "identify"
     THEN /\ is_ata' = [is_ata EXCEPT ![op[t].dev] = FALSE]
          /\ IdentifyFrom(op[t].dev + 1, is_ata)
          /\ UNCHANGED disk_panic
     ELSE PANIC /\ UNCHANGED <<is_ata, dpc, op>>
  /\ UNCHANGED <<lock, expecting_interrupt, completion_wait, controller, data, spurious>>

\* The end of a transfer: lock_release(), or the next disk of disk_init().
transfer_end(t) ==
  /\ At(t, "done")
  /\ IF op[t].cmd = "identify"
     THEN IdentifyFrom(op[t].dev + 1, is_ata) /\ UNCHANGED lock
     ELSE lock' = NoHolder /\ Goto(t, "idle") /\ op' = [op EXCEPT ![t] = Idle]
  /\ UNCHANGED <<is_ata, expecting_interrupt, completion_wait, controller, data, spurious, late, disk_panic>>

\* The body of interrupt_handler(), for an interrupt of this channel.
Handle ==
  IF expecting_interrupt THEN completion_wait' = completion_wait + 1 /\ intrq' = FALSE
  ELSE UNCHANGED <<completion_wait, intrq>>

interrupt_handler ==
  /\ ~disk_panic /\ intrq /\ Handle
  /\ UNCHANGED <<is_ata, lock, expecting_interrupt, dpc, op, sel, lba, cmd, bsy, drq, reg,
                 data, spurious, late, disk_panic>>
spurious_interrupt ==
  /\ ~disk_panic /\ spurious < MaxSpurious /\ spurious' = spurious + 1 /\ Handle
  /\ UNCHANGED <<is_ata, lock, expecting_interrupt, dpc, op, sel, lba, cmd, bsy, drq, reg,
                 data, late, disk_panic>>

\* The controller: a sector is ready to be read, or the answer to identify.
device_read ==
  /\ ~disk_panic /\ bsy /\ cmd \in {"read", "identify"}
  /\ reg' = IF cmd = "read" THEN data[sel][lba] ELSE SomeValue
  /\ bsy' = FALSE /\ drq' = TRUE /\ intrq' = TRUE /\ cmd' = "none"
  /\ UNCHANGED <<channel, dpc, op, sel, lba, data, spurious, late, disk_panic>>
\* It asks for the data of a write, without an interrupt, and stores them.
device_accept ==
  /\ ~disk_panic /\ bsy /\ cmd = "write"
  /\ bsy' = FALSE /\ drq' = TRUE /\ cmd' = "store"
  /\ UNCHANGED <<channel, dpc, op, sel, lba, reg, intrq, data, spurious, late, disk_panic>>
device_store ==
  /\ ~disk_panic /\ bsy /\ cmd = "store"
  /\ data' = [data EXCEPT ![sel][lba] = reg] /\ reg' = SomeValue
  /\ bsy' = FALSE /\ intrq' = TRUE /\ cmd' = "none"
  /\ UNCHANGED <<channel, dpc, op, sel, lba, drq, spurious, late, disk_panic>>
\* It rejects a command.
device_error ==
  /\ ~disk_panic /\ bsy /\ cmd \in Command
  /\ bsy' = FALSE /\ intrq' = TRUE /\ cmd' = "none"
  /\ UNCHANGED <<channel, dpc, op, sel, lba, drq, reg, data, spurious, late, disk_panic>>

transfer(t) ==
  \/ channel_acquire(t) \/ select_device(t) \/ select_device_wait(t) \/ select_sector(t)
  \/ expect_interrupt(t) \/ issue_pio_command(t) \/ wait_completion(t)
  \/ input_sector(t) \/ output_sector(t) \/ command_failed(t) \/ transfer_end(t)
device == device_read \/ device_accept \/ device_store \/ device_error

DiskNext ==
  \/ check_device_type
  \/ \E t \in DiskThread :
       \/ transfer(t)
       \/ \E d \in Dev, s \in Sector :
            disk_read(t, d, s) \/ \E v \in Value : disk_write(t, d, s, v)
  \/ interrupt_handler \/ spurious_interrupt \/ device

DiskSpec == DiskInit /\ [][DiskNext]_dvars

\* A runnable thread runs, a raised interrupt is delivered (interrupts are on in
\* issue_pio_command() by assertion), and the controller answers every command.
DiskFair ==
  /\ WF_dvars(check_device_type) /\ \A t \in DiskThread : WF_dvars(transfer(t))
  /\ WF_dvars(interrupt_handler) /\ WF_dvars(device)
DiskFairSpec == DiskSpec /\ DiskFair

-----------------------------------------------------------------------------
\* Threads between the selection of a disk and the end of its transfer.
Active == {t \in DiskThread : dpc[t] \notin {"probe", "idle", "lock"}}

\* Every interrupt was asked for, or every wait ended in time: the code relies on
\* one of the two.
Undisturbed == spurious = 0 \/ ~late

\* "Internally synchronizes accesses to disks": one thread at a time uses the
\* registers.  It gives a command to an idle controller that is set to its disk
\* and sector, also after an interrupt that no command asked for, as long as
\* wait_until_idle() does not give up; and it does not give up before there was
\* such an interrupt.
CommandClean ==
  \A t \in Active : ~disk_panic =>
    /\ Active = {t}
    /\ dpc[t] = "command" /\ Undisturbed =>
         ~bsy /\ ~drq /\ sel = op[t].dev /\ (op[t].cmd # "identify" => lba = op[t].sec)

\* disk_read() returns what the sector holds, although the semaphore may count
\* the completion of another command: wait_while_busy() looks at the controller.
ReadRight ==
  \A t \in DiskThread : dpc[t] = "done" /\ op[t].cmd = "read" /\ Undisturbed =>
    op[t].val = data[op[t].dev][op[t].sec]

\* disk_write() "returns after the disk has acknowledged receiving the data" ...
WriteStored ==
  \A t \in DiskThread : dpc[t] = "done" /\ op[t].cmd = "write" => op[t].val = data[op[t].dev][op[t].sec]

\* ... unless an interrupt came that no command asked for: expecting_interrupt is
\* never cleared, and one such interrupt counts as the completion of the write.
WriteAcknowledged == spurious = 0 => WriteStored

\* Threads that share the registers of a channel do not disturb each other's
\* transfers.
DiskDataRight == CommandClean /\ ReadRight /\ WriteAcknowledged

\* A thread that has the channel gives it back, and disk_init() ends: no
\* completion is lost, unless the kernel panics because a command failed or a
\* wait has given up (a controller that ignores a command sends no interrupt).
TransferEnds ==
  \A t \in DiskThread : []<>(t \notin Active \/ disk_panic \/ late)
=============================================================================
