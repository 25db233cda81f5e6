------------------------------- MODULE Terminal -------------------------------
(***************************************************************************)
(* The console and what is below it: the console lock with its depth       *)
(* (lib/kernel/console.c), the serial port with its transmit queue         *)
(* (devices/serial.c), the input buffer that the serial port and the       *)
(* keyboard fill (devices/input.c, kbd.c), and the interrupt queues        *)
(* (devices/intq.c).  A section with interrupts off is one step, up to the *)
(* point where it blocks.  The UART is modelled from its use: a byte to be *)
(* sent, a byte received, and the interrupts that IER enables.             *)
(***************************************************************************)
EXTENDS Integers, SequencesExt

CONSTANTS
  Writer, Reader, NoThread,
  INTQ_BUFSIZE,
  MaxOut, MaxIn         \* bounds on the characters printed and received

VARIABLES
  pc,
  txq,          \* serial.c: the transmit queue
  buffer,       \* input.c: the input buffer
  ier,          \* the interrupts that are enabled
  thre, dr,     \* may the UART take a byte, has it received one?
  console_lock, console_lock_depth,
  left,         \* of each writer, the characters left of its nested messages
  halted,       \* has the kernel panicked?
  message,      \* history: the number of the last message of each writer
  printed, wire,        \* history: the characters printed, and those sent
  keys, taken           \* history: the keys accepted, and those returned

terminalVars == <<pc, txq, buffer, ier, thre, dr, console_lock,
  console_lock_depth, left, halted, message, printed, wire,
  keys, taken>>
-----------------------------------------------------------------------------
(* Interrupt queues: a ring that is full with one slot unused. *)

intq_init ==
  [buf |-> [i \in 0..(INTQ_BUFSIZE - 1) |-> 0], head |-> 0, tail |-> 0,
   not_full |-> NoThread, not_empty |-> NoThread, lock |-> NoThread]

next(pos) == (pos + 1) % INTQ_BUFSIZE
intq_empty(q) == q.head = q.tail

intq_full(q) == next(q.head) = q.tail

\* What intq_putc and intq_getc do when they need not wait; signal ends the
\* wait of the thread that not_empty, not_full names.
intq_putc(q, byte) ==
  [q EXCEPT !.buf[q.head] = byte, !.head = next(@), !.not_empty = NoThread]
intq_getc(q) == [q EXCEPT !.tail = next(@), !.not_full = NoThread]
FirstByte(q) == q.buf[q.tail]

\* The bytes in the queue, oldest first.
Content(q) ==
  [i \in 1..((q.head - q.tail) % INTQ_BUFSIZE) |->
     q.buf[(q.tail + i - 1) % INTQ_BUFSIZE]]

\* signal: the thread in *waiter becomes ready.
signal(pcs, t) == IF t = NoThread THEN pcs ELSE [pcs EXCEPT ![t] = "woken"]

TerminalInit ==
  /\ pc = [t \in Writer \cup Reader |-> "idle"]
  /\ txq = intq_init /\ buffer = intq_init
  /\ ier = {"recv"} /\ thre = TRUE /\ dr = FALSE
  /\ console_lock = NoThread /\ console_lock_depth = 0
  /\ left = [t \in Writer |-> <<>>]
  /\ halted = FALSE
  /\ message = [t \in Writer |-> 0] /\ printed = <<>> /\ wire = <<>>
  /\ keys = <<>> /\ taken = <<>>
-----------------------------------------------------------------------------
(* The serial port. *)

\* Fault: `=' for `|=', so that the receive bit overwrites the transmit bit.
write_ier_overwrites(tx, in) ==
  IF ~intq_full(in) THEN {"recv"} ELSE IF intq_empty(tx) THEN {} ELSE {"xmit"}

write_ier(tx, in) ==
  (IF intq_empty(tx) THEN {} ELSE {"xmit"})
    \cup (IF intq_full(in) THEN {} ELSE {"recv"})

\* serial_putc with interrupts off on entry, as in an interrupt handler: from a
\* full queue the oldest byte is sent by polling, which makes room.
serial_putc_polled(byte) ==
  LET full == intq_full(txq)
      tx == IF full THEN intq_getc(txq) ELSE txq
  IN /\ txq' = intq_putc(tx, byte)
     /\ ier' = write_ier(txq', buffer)
     /\ wire' = IF full THEN Append(wire, FirstByte(txq)) ELSE wire
     /\ thre' = IF full THEN FALSE ELSE thre
     /\ pc' = IF full THEN signal(pc, txq.not_full) ELSE pc
     /\ printed' = Append(printed, byte)

\* input_putc: a byte, here its number, joins the input buffer.
input_putc ==
  /\ buffer' = intq_putc(buffer, Len(keys) + 1)
  /\ keys' = Append(keys, Len(keys) + 1)

\* serial_interrupt: at most one byte is received and one is sent, as the UART
\* has no FIFO enabled.
serial_interrupt ==
  /\ ("recv" \in ier /\ dr) \/ ("xmit" \in ier /\ thre)
  /\ LET recv == ~intq_full(buffer) /\ dr
         send == ~intq_empty(txq) /\ thre
         pcs == IF recv THEN signal(pc, buffer.not_empty) ELSE pc
     IN /\ IF recv THEN input_putc /\ dr' = FALSE
                   ELSE UNCHANGED <<buffer, keys, dr>>
        /\ IF send THEN /\ txq' = intq_getc(txq)
                        /\ wire' = Append(wire, FirstByte(txq))
                        /\ thre' = FALSE
                   ELSE UNCHANGED <<txq, wire, thre>>
        /\ pc' = IF send THEN signal(pcs, txq.not_full) ELSE pcs
  /\ ier' = write_ier(txq', buffer')
  /\ UNCHANGED <<console_lock, console_lock_depth, left, halted,
                 message, printed, taken>>

\* The UART has sent its byte, or receives one.
TransmitDone ==
  /\ ~thre /\ thre' = TRUE
  /\ UNCHANGED <<pc, txq, buffer, ier, dr, console_lock, console_lock_depth,
       left, halted, message, printed, wire, keys, taken>>

ByteArrives ==
  /\ ~dr /\ Len(keys) < MaxIn
  /\ dr' = TRUE
  /\ UNCHANGED <<pc, txq, buffer, ier, thre, console_lock, console_lock_depth,
       left, halted, message, printed, wire, keys, taken>>

\* keyboard_interrupt for the press of an ordinary key: it is dropped when the
\* buffer is full.
keyboard_interrupt ==
  /\ Len(keys) < MaxIn /\ ~intq_full(buffer)
  /\ input_putc
  /\ pc' = signal(pc, buffer.not_empty)
  /\ ier' = write_ier(txq, buffer')
  /\ UNCHANGED <<txq, thre, dr, console_lock, console_lock_depth, left, halted,
                 message, printed, wire, taken>>
-----------------------------------------------------------------------------
(* The console lock and its writers. *)

\* acquire_console at the start of printf, puts, putbuf: a thread that holds
\* the lock already (a message printed while it prints) adds to the depth.
acquire_console(t) ==
  /\ Len(printed) < MaxOut
  /\ \/ /\ pc[t] = "idle" /\ console_lock = NoThread
        /\ console_lock' = t /\ pc' = [pc EXCEPT ![t] = "printing"]
        /\ left' = [left EXCEPT ![t] = <<2>>]
        /\ message' = [message EXCEPT ![t] = 1 + Max({message[u] : u \in Writer})]
        /\ UNCHANGED console_lock_depth
     \/ /\ pc[t] = "printing" /\ console_lock = t /\ Len(left[t]) = 1
        /\ console_lock_depth' = console_lock_depth + 1
        /\ left' = [left EXCEPT ![t] = Append(@, 1)]
        /\ UNCHANGED <<pc, console_lock, message>>
  /\ UNCHANGED <<txq, buffer, ier, thre, dr, halted, printed,
                 wire, keys, taken>>

\* Fault: the lock is released whatever the depth.
release_console_always(t) ==
  /\ pc[t] = "printing" /\ left[t] # <<>> /\ Last(left[t]) = 0
  /\ left' = [left EXCEPT ![t] = Front(@)]
  /\ console_lock' = NoThread /\ UNCHANGED console_lock_depth
  /\ pc' = IF Len(left[t]) = 1 THEN [pc EXCEPT ![t] = "idle"] ELSE pc
  /\ UNCHANGED <<txq, buffer, ier, thre, dr, halted, message,
                 printed, wire, keys, taken>>

release_console(t) ==
  /\ pc[t] = "printing" /\ left[t] # <<>> /\ Last(left[t]) = 0
  /\ left' = [left EXCEPT ![t] = Front(@)]
  /\ IF console_lock_depth > 0
     THEN console_lock_depth' = console_lock_depth - 1 /\ UNCHANGED console_lock
     ELSE console_lock' = NoThread /\ UNCHANGED console_lock_depth
  /\ pc' = IF Len(left[t]) = 1 THEN [pc EXCEPT ![t] = "idle"] ELSE pc
  /\ UNCHANGED <<txq, buffer, ier, thre, dr, halted, message,
                 printed, wire, keys, taken>>

\* putchar_have_lock: serial_putc with interrupts on queues the byte, or sleeps
\* as the thread that not_full names.
serial_putc(t) ==
  /\ pc[t] = "printing" /\ left[t] # <<>> /\ Last(left[t]) > 0
  /\ IF ~intq_full(txq)
     THEN /\ txq' = intq_putc(txq, message[t])
          /\ ier' = write_ier(txq', buffer)
          /\ printed' = Append(printed, message[t])
          /\ left' = [left EXCEPT ![t] = Front(@) \o <<Last(@) - 1>>]
          /\ UNCHANGED pc
     ELSE /\ txq.lock = NoThread
          /\ txq' = [txq EXCEPT !.lock = t, !.not_full = t]
          /\ pc' = [pc EXCEPT ![t] = "wait"]
          /\ UNCHANGED <<ier, printed, left>>
  /\ UNCHANGED <<buffer, thre, dr, console_lock, console_lock_depth, halted,
                 message, wire, keys, taken>>

\* The woken thread releases the lock of the queue and looks again.
WakeWriter(t) ==
  /\ pc[t] = "woken"
  /\ txq' = [txq EXCEPT !.lock = NoThread]
  /\ pc' = [pc EXCEPT ![t] = "printing"]
  /\ UNCHANGED <<buffer, ier, thre, dr, console_lock, console_lock_depth, left,
                 halted, message, printed, wire, keys, taken>>

\* An interrupt handler prints: acquire_console takes no lock for it.
InterruptPrints ==
  /\ Len(printed) < MaxOut
  /\ serial_putc_polled(0)
  /\ UNCHANGED <<buffer, dr, console_lock, console_lock_depth, left, halted,
                 message, keys, taken>>

\* A panic turns interrupts off, prints without the lock (console_panic), and
\* sends what is queued by polling (serial_flush).
Panic ==
  LET full == intq_full(txq)
      tx == intq_putc(IF full THEN intq_getc(txq) ELSE txq, 0)
      sent == IF full THEN <<FirstByte(txq)>> ELSE <<>>
  IN /\ printed' = Append(printed, 0)
     /\ wire' = wire \o sent \o Content(tx)
     /\ txq' = [tx EXCEPT !.tail = tx.head, !.not_full = NoThread]
     /\ halted' = TRUE
     /\ UNCHANGED <<pc, buffer, ier, thre, dr, console_lock,
          console_lock_depth, left, message, keys, taken>>
-----------------------------------------------------------------------------
(* The reader of the input buffer; nothing in the kernel calls input_getc yet, *)
(* and intq.c supports one waiting thread.                                    *)

\* input_getc: take a key, or sleep as the thread that not_empty names.
input_getc(t) ==
  /\ pc[t] = "idle"
  /\ IF ~intq_empty(buffer)
     THEN /\ taken' = Append(taken, FirstByte(buffer))
          /\ buffer' = intq_getc(buffer)
          /\ ier' = write_ier(txq, buffer')
          /\ UNCHANGED pc
     ELSE /\ buffer.lock = NoThread
          /\ buffer' = [buffer EXCEPT !.lock = t, !.not_empty = t]
          /\ pc' = [pc EXCEPT ![t] = "wait"]
          /\ UNCHANGED <<taken, ier>>
  /\ UNCHANGED <<txq, thre, dr, console_lock, console_lock_depth, left, halted,
                 message, printed, wire, keys>>

WakeReader(t) ==
  /\ pc[t] = "woken"
  /\ buffer' = [buffer EXCEPT !.lock = NoThread]
  /\ pc' = [pc EXCEPT ![t] = "idle"]
  /\ UNCHANGED <<txq, ier, thre, dr, console_lock, console_lock_depth, left,
                 halted, message, printed, wire, keys, taken>>

WriterNext(t) ==
  acquire_console(t) \/ serial_putc(t) \/ WakeWriter(t) \/ release_console(t)
ReaderNext(t) == input_getc(t) \/ WakeReader(t)

TerminalNext ==
  /\ ~halted
  /\ \/ \E t \in Writer : WriterNext(t)
     \/ \E t \in Reader : ReaderNext(t)
     \/ serial_interrupt \/ keyboard_interrupt \/ InterruptPrints
     \/ TransmitDone \/ ByteArrives
     \/ Panic

\* The UART sends what it is given, and an interrupt that stays enabled and
\* pending is taken.
TerminalFairness ==
  /\ WF_terminalVars(~halted /\ serial_interrupt)
  /\ WF_terminalVars(~halted /\ TransmitDone)

TerminalSpec ==
  TerminalInit /\ [][TerminalNext]_terminalVars /\ TerminalFairness
-----------------------------------------------------------------------------
\* What leaves through the serial port is what was printed, in that order, by
\* interrupt or by polling (serial_putc, serial_interrupt), and after a panic
\* all of it; the messages of two threads are not mixed, although a thread may
\* print while it prints (acquire_console); the keys come back in the order in
\* which they were accepted (input_putc, input_getc).
StreamsInOrder ==
  /\ printed = wire \o Content(txq)
  /\ halted => wire = printed
  /\ \A i, j, k \in DOMAIN printed :
       i < j /\ j < k /\ printed[i] = printed[k] /\ printed[i] # 0
         => printed[j] \in {printed[i], 0}
  /\ keys = taken \o Content(buffer)

\* A thread that sleeps for room in the transmit queue is woken by the serial
\* interrupt, and one that sleeps for a key once a byte has arrived (intq.c
\* wait and signal, write_ier).
SleepersWake ==
  /\ \A t \in Writer : pc[t] = "wait" ~> pc[t] # "wait" \/ halted
  /\ \A t \in Reader :
       pc[t] = "wait" /\ dr ~> pc[t] # "wait" \/ halted
=============================================================================
