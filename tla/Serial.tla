------------------------------- MODULE Serial -------------------------------
(***************************************************************************)
(* Character input and output: the interrupt queues of devices/intq.c      *)
(* between threads and interrupt handlers, the input buffer                *)
(* (devices/input.c), the serial port (devices/serial.c), the keyboard     *)
(* handler and the console lock (lib/kernel/console.c).                    *)
(*                                                                         *)
(* A queue function runs with interrupts off from its start until it       *)
(* returns or blocks, so that each stretch between two blocking points is  *)
(* one step, and handlers run between such steps.  Bytes are numbered      *)
(* modulo BYTES in the order in which they are put, so that a lost,        *)
(* repeated or exchanged byte shows in the queue.                          *)
(***************************************************************************)
EXTENDS Naturals, Sequences, FiniteSets

CONSTANTS Reader, Writer,   \* threads in input_getc() and in putbuf()
          main,             \* the thread that starts the kernel, a writer
          INTQ_BUFSIZE, BYTES,
          Length,           \* characters of one putbuf()
          NULL

ASSUME SerialAssumption ==
  /\ main \in Writer /\ Reader \cap Writer = {} /\ NULL \notin Reader \cup Writer
  /\ INTQ_BUFSIZE \in Nat \ {0, 1} /\ BYTES \in Nat \ {0, 1} /\ Length \in Nat \ {0}

Thread == Reader \cup Writer
Queue == {"in", "tx"}
Sema == Queue \cup {"console"}

VARIABLES
  mode,                 \* enum { UNINIT, POLL, QUEUE }
  ier, thre,            \* the port: enabled interrupts, THR empty
  buf, head, tail,      \* struct intq of the input buffer and of txq
  not_empty, not_full,  \* the thread that waits for each condition
  value, waiters,       \* q->lock and console_lock
  pc, blocked, left,    \* where each thread is; characters left to write
  got, queued,          \* number of the next byte to take; how many were put since
  panic, off            \* a failed assertion; the machine is switched off

queues == <<buf, head, tail, not_empty, not_full, got, queued>>
locks  == <<value, waiters>>
vars   == <<mode, ier, thre, queues, locks, pc, blocked, left, panic, off>>

Init ==
  /\ mode = "UNINIT" /\ ier = {} /\ thre = TRUE
  /\ buf = [q \in Queue |-> [i \in 0..(INTQ_BUFSIZE - 1) |-> 0]]
  /\ head = [q \in Queue |-> 0] /\ tail = head
  /\ not_empty = [q \in Queue |-> NULL] /\ not_full = not_empty
  /\ value = [s \in Sema |-> 1] /\ waiters = [s \in Sema |-> <<>>]
  /\ pc = [t \in Thread |-> "idle"] /\ blocked = {} /\ left = [w \in Writer |-> 0]
  /\ got = [q \in Queue |-> 0] /\ queued = got
  /\ panic = FALSE /\ off = FALSE

Running == ~panic /\ ~off
QueueOf(t) == IF t \in Reader THEN "in" ELSE "tx"

next(pos) == (pos + 1) % INTQ_BUFSIZE
Number(q, i) == (got[q] + i) % BYTES
intq_empty(q) == head[q] = tail[q]
intq_full(q) == next(head[q]) = tail[q]
\* The condition on which a caller of intq_getc() or intq_putc() waits.
MustWait(q) == IF q = "in" THEN intq_empty(q) ELSE intq_full(q)

\* intq_putc() on the queues of puts and intq_getc() on those of gets, none of
\* which has to wait; signal() forgets the waiters that Signalled returns.
\* Fault: intq_putc() does not signal.
Signalled_by_get(puts, gets) == {not_full[q] : q \in gets \ puts}
Signalled(puts, gets) == {not_empty[q] : q \in puts} \cup {not_full[q] : q \in gets}
Transfer(puts, gets) ==
  /\ buf' = [q \in Queue |-> IF q \in puts THEN [buf[q] EXCEPT ![head[q]] = Number(q, queued[q])]
                             ELSE buf[q]]
  /\ head' = [q \in Queue |-> IF q \in puts THEN next(head[q]) ELSE head[q]]
  /\ tail' = [q \in Queue |-> IF q \in gets THEN next(tail[q]) ELSE tail[q]]
  /\ got' = [q \in Queue |-> IF q \in gets THEN Number(q, 1) ELSE got[q]]
  /\ queued' = [q \in Queue |-> queued[q] + (IF q \in puts THEN 1 ELSE 0)
                                         - (IF q \in gets THEN 1 ELSE 0)]
  /\ not_empty' = [q \in Queue |-> IF q \in puts THEN NULL ELSE not_empty[q]]
  /\ not_full' = [q \in Queue |-> IF q \in gets THEN NULL ELSE not_full[q]]

\* The interrupts the port may raise, after the step.
write_ier ==
  ier' = (IF head'["tx"] # tail'["tx"] THEN {"XMIT"} ELSE {})
         \cup (IF next(head'["in"]) # tail'["in"] THEN {"RECV"} ELSE {})
\* Fault: the port is not told that the input buffer changed.
serial_notify_skip == UNCHANGED ier
serial_notify == IF mode = "QUEUE" THEN write_ier ELSE UNCHANGED ier

\* sema_up() and the part of sema_down() that waits.
FirstWaiter(s) == IF waiters[s] = <<>> THEN {} ELSE {Head(waiters[s])}
Rest(s) == IF waiters[s] = <<>> THEN <<>> ELSE Tail(waiters[s])
Sleep(t, s, point) ==
  /\ waiters' = [waiters EXCEPT ![s] = Append(@, t)]
  /\ blocked' = blocked \cup {t}
  /\ pc' = [pc EXCEPT ![t] = point]

\* wait(), entered with q->lock held: the caller is the queue's one waiter, or
\* the assertion that its condition holds fails.
wait(t, q) ==
  IF MustWait(q)
  THEN /\ IF q = "in" THEN not_empty' = [not_empty EXCEPT ![q] = t] /\ UNCHANGED not_full
                      ELSE not_full' = [not_full EXCEPT ![q] = t] /\ UNCHANGED not_empty
       /\ pc' = [pc EXCEPT ![t] = "wait"]
       /\ UNCHANGED <<buf, head, tail, got, queued, panic>>
  ELSE panic' = TRUE /\ UNCHANGED <<queues, pc>>

\* The end of intq_getc() in input_getc(), or of intq_putc() in serial_putc(),
\* when a byte or room is there.  freed is who else the step wakes.
Finish(t, q, freed) ==
  /\ IF q = "in" THEN Transfer({}, {q}) ELSE Transfer({q}, {})
  /\ write_ier
  /\ blocked' = blocked \ (freed \cup IF q = "in" THEN Signalled({}, {q}) ELSE Signalled({q}, {}))
  /\ pc' = [pc EXCEPT ![t] = IF q = "in" THEN "idle" ELSE "next"]
  /\ left' = IF q = "in" THEN left ELSE [left EXCEPT ![t] = @ - 1]

\* A thread enters intq_getc() or intq_putc(): it finishes, waits for the
\* condition, or first waits for q->lock.
Enter(t, q) ==
  \/ ~MustWait(q) /\ Finish(t, q, {}) /\ UNCHANGED <<locks, panic>>
  \/ /\ MustWait(q) /\ value[q] > 0
     /\ value' = [value EXCEPT ![q] = 0] /\ wait(t, q) /\ blocked' = blocked \cup {t}
     /\ UNCHANGED <<ier, waiters, left>>
  \/ /\ MustWait(q) /\ value[q] = 0 /\ Sleep(t, q, "lock")
     /\ UNCHANGED <<ier, queues, value, left, panic>>

\* input_getc() by a process that reads the console.
input_getc(t) ==
  /\ Running /\ mode = "QUEUE" /\ pc[t] = "idle" /\ Enter(t, "in")
  /\ UNCHANGED <<mode, thre, off>>

\* putc_poll() of a byte that was never queued, before the queue is set up.
putc_poll ==
  /\ thre' = FALSE /\ UNCHANGED <<ier, queues, locks, pc, blocked, panic, off>>

\* serial_putc() for the next character of a string, with interrupts on.
serial_putc(t) ==
  /\ Running /\ pc[t] = "next" /\ left[t] > 0
  /\ \/ mode = "QUEUE" /\ Enter(t, "tx") /\ UNCHANGED <<mode, thre, off>>
     \/ /\ mode # "QUEUE" /\ mode' = "POLL" /\ putc_poll
        /\ left' = [left EXCEPT ![t] = @ - 1]

\* A thread that slept for q->lock goes on in sema_down(): it takes the lock
\* and calls wait(), or sleeps again.
lock_acquire(t) ==
  LET q == QueueOf(t) IN
  /\ Running /\ pc[t] = "lock" /\ t \notin blocked
  /\ \/ /\ value[q] > 0
        /\ value' = [value EXCEPT ![q] = 0] /\ wait(t, q)
        /\ blocked' = IF MustWait(q) THEN blocked \cup {t} ELSE blocked
        /\ UNCHANGED waiters
     \/ value[q] = 0 /\ Sleep(t, q, "lock") /\ UNCHANGED <<queues, value, panic>>
  /\ UNCHANGED <<mode, ier, thre, left, off>>

\* A thread that was signalled releases q->lock and looks at the queue again;
\* it may take the lock back before the thread it has just woken runs.
wait_return(t) ==
  LET q == QueueOf(t) IN
  /\ Running /\ pc[t] = "wait" /\ t \notin blocked
  /\ waiters' = [waiters EXCEPT ![q] = Rest(q)]
  /\ \/ /\ ~MustWait(q) /\ Finish(t, q, FirstWaiter(q))
        /\ value' = [value EXCEPT ![q] = @ + 1] /\ UNCHANGED panic
     \/ /\ MustWait(q) /\ wait(t, q)
        /\ blocked' = (blocked \ FirstWaiter(q)) \cup {t}
        /\ UNCHANGED <<ier, value, left>>
  /\ UNCHANGED <<mode, thre, off>>

\* Fault: the console lock is not taken.
acquire_console_free(t) ==
  /\ Running /\ (mode # "QUEUE" => t = main) /\ pc[t] = "idle"
  /\ pc' = [pc EXCEPT ![t] = "next"] /\ left' = [left EXCEPT ![t] = Length]
  /\ value' = [value EXCEPT !["console"] = 0]
  /\ UNCHANGED <<mode, ier, thre, queues, waiters, blocked, panic, off>>

\* putbuf(): acquire_console(); before the queue is set up only main runs.  The
\* branch for a thread that has the lock already, and with it the counter
\* console_lock_depth, is left out: putbuf() calls nothing that prints, unless an
\* assertion fails, and then the lock is not used any more (console_panic()).
acquire_console(t) ==
  /\ Running /\ (mode # "QUEUE" => t = main)
  /\ \/ pc[t] = "idle"
     \/ pc[t] = "console" /\ t \notin blocked
  /\ \/ /\ value["console"] > 0
        /\ value' = [value EXCEPT !["console"] = 0]
        /\ pc' = [pc EXCEPT ![t] = "next"] /\ left' = [left EXCEPT ![t] = Length]
        /\ UNCHANGED <<waiters, blocked>>
     \/ value["console"] = 0 /\ Sleep(t, "console", "console") /\ UNCHANGED <<value, left>>
  /\ UNCHANGED <<mode, ier, thre, queues, panic, off>>

\* The end of putbuf(): release_console(), whose console_lock_depth is 0.
release_console(t) ==
  /\ Running /\ pc[t] = "next" /\ left[t] = 0
  /\ value' = [value EXCEPT !["console"] = @ + 1]
  /\ waiters' = [waiters EXCEPT !["console"] = Rest("console")]
  /\ blocked' = blocked \ FirstWaiter("console")
  /\ pc' = [pc EXCEPT ![t] = "idle"]
  /\ UNCHANGED <<mode, ier, thre, queues, left, panic, off>>

serial_init_queue ==
  /\ Running /\ mode # "QUEUE" /\ pc[main] = "idle"
  /\ mode' = "QUEUE"
  /\ UNCHANGED <<thre, queues, locks, pc, blocked, left, panic, off>>
  /\ write_ier

\* The handler of the serial port: one byte in, when rx says the port has one,
\* and one byte out, as there is room for each; the port calls again for more.
serial_interrupt(rx) ==
  LET puts == IF rx /\ ~intq_full("in") THEN {"in"} ELSE {}
      gets == IF thre /\ ~intq_empty("tx") THEN {"tx"} ELSE {}
  IN
  /\ Running /\ mode = "QUEUE" /\ ((rx /\ "RECV" \in ier) \/ (thre /\ "XMIT" \in ier))
  /\ Transfer(puts, gets)
  /\ thre' = (thre /\ gets = {})
  /\ blocked' = blocked \ Signalled(puts, gets)
  /\ write_ier
  /\ UNCHANGED <<mode, locks, pc, left, panic, off>>

\* A key press; a key that finds the buffer full is dropped.
keyboard_interrupt ==
  /\ Running /\ mode # "UNINIT" /\ ~intq_full("in")
  /\ Transfer({"in"}, {})
  /\ blocked' = blocked \ Signalled({"in"}, {})
  /\ serial_notify
  /\ UNCHANGED <<mode, thre, locks, pc, left, panic, off>>

\* serial_putc() with interrupts off, by a handler that prints: it takes no
\* lock, and makes room in a full queue by sending its oldest byte itself.
\* Fault: a handler overwrites the oldest byte of a full queue.
handler_putc_full ==
  /\ Running /\ mode = "QUEUE" /\ Transfer({"tx"}, {})
  /\ blocked' = blocked \ Signalled({"tx"}, {})
  /\ write_ier
  /\ UNCHANGED <<mode, thre, locks, pc, left, panic, off>>
handler_putc ==
  LET gets == IF intq_full("tx") THEN {"tx"} ELSE {} IN
  /\ Running
  /\ \/ /\ mode = "QUEUE" /\ Transfer({"tx"}, gets)
        /\ thre' = (thre /\ gets = {})
        /\ blocked' = blocked \ Signalled({"tx"}, gets)
        /\ write_ier
        /\ UNCHANGED <<locks, pc, panic, off>>
     \/ mode = "POLL" /\ putc_poll
  /\ UNCHANGED <<mode, left>>

\* power_off(): serial_flush() sends all that is queued, then the machine stops.
serial_flush ==
  /\ Running /\ mode = "QUEUE"
  /\ tail' = [tail EXCEPT !["tx"] = head["tx"]]
  /\ got' = [got EXCEPT !["tx"] = Number("tx", queued["tx"])]
  /\ queued' = [queued EXCEPT !["tx"] = 0]
  /\ IF intq_empty("tx") THEN UNCHANGED <<not_full, blocked, thre>>
     ELSE /\ not_full' = [not_full EXCEPT !["tx"] = NULL]
          /\ blocked' = blocked \ {not_full["tx"]}
          /\ thre' = FALSE
  /\ off' = TRUE
  /\ UNCHANGED <<mode, ier, buf, head, not_empty, locks, pc, left, panic>>

\* The port sends the byte in its THR.
transmit == Running /\ ~thre /\ thre' = TRUE
            /\ UNCHANGED <<mode, ier, queues, locks, pc, blocked, left, panic, off>>

reader_step(t) == lock_acquire(t) \/ wait_return(t)
writer_step(t) == reader_step(t) \/ serial_putc(t) \/ release_console(t)
                  \/ (pc[t] = "console" /\ acquire_console(t))

tx_interrupt(rx) == thre /\ "XMIT" \in ier /\ serial_interrupt(rx)

Next ==
  \/ \E t \in Reader : input_getc(t)
  \/ \E t \in Writer : serial_putc(t) \/ acquire_console(t) \/ release_console(t)
  \/ \E t \in Thread : lock_acquire(t) \/ wait_return(t)
  \/ \E rx \in BOOLEAN : serial_interrupt(rx)
  \/ serial_init_queue \/ keyboard_interrupt \/ handler_putc \/ serial_flush \/ transmit

Spec == Init /\ [][Next]_vars

\* Threads that can run do run (Threads, ReadyRuns), the port's interrupt is
\* delivered, and the port goes on sending.  Nobody has to call, or to type.
SerialFair ==
  /\ \A t \in Reader : WF_vars(reader_step(t))
  /\ \A t \in Writer : WF_vars(writer_step(t))
  /\ WF_vars(\E rx \in BOOLEAN : tx_interrupt(rx)) /\ WF_vars(transmit)
FairSpec == Spec /\ SerialFair

-----------------------------------------------------------------------------
\* What is in a queue is exactly what was put and not yet taken, oldest first:
\* no byte is lost, repeated or overtaken, also where the ring wraps and where
\* a handler sends the oldest byte itself to make room for its own.
InOrder ==
  \A q \in Queue :
    LET size == (head[q] + INTQ_BUFSIZE - tail[q]) % INTQ_BUFSIZE IN
    /\ queued[q] = size
    /\ \A i \in 0..(size - 1) :
         buf[q][(tail[q] + i) % INTQ_BUFSIZE] = Number(q, i)

\* The port may interrupt whenever there is work for its handler: while bytes
\* are queued it is told to report an empty THR, and it reports received bytes
\* exactly while the input buffer has room, although the buffer also changes
\* in readers and in the keyboard's handler.
IerRight ==
  mode = "QUEUE" /\ Running =>
    /\ ~intq_empty("tx") => "XMIT" \in ier
    /\ "RECV" \in ier <=> ~intq_full("in")

\* acquire_console(): the characters of one putbuf() are not mixed with those
\* of another thread, although the writer may sleep for room between them.
StringsWhole ==
  \A t, u \in Writer : t # u => ~(pc[t] \in {"next", "lock", "wait"} /\ pc[u] \in {"next", "lock", "wait"})

\* serial_flush() leaves nothing unsent when the machine is switched off.
FlushedAtEnd == off => queued["tx"] = 0

\* No byte is lost, from the first to the last that is sent.
NoByteLost == InOrder /\ FlushedAtEnd

\* A byte in the input buffer is taken once a reader sleeps for it: the buffer
\* is not for ever filled with a reader asleep unless bytes are taken for ever.
InputFlows ==
  \/ []<>(intq_empty("in") \/ (\A t \in Reader : pc[t] = "idle") \/ ~Running)
  \/ []<><<got'["in"] # got["in"]>>_vars

\* Queued output is sent: serial_interrupt() is asked for as long as there is some.
OutputFlows ==
  []<>(intq_empty("tx") \/ ~Running) \/ []<><<got'["tx"] # got["tx"]>>_vars

\* Bytes go on flowing in both directions.
BytesFlow == InputFlows /\ OutputFlows

\* No assertion of intq.c fails, however many threads read the console.
NoPanic == ~panic
=============================================================================
