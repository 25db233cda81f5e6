----------------------------- MODULE MCDevices ------------------------------
(***************************************************************************)
(* Threads that sleep until an interrupt wakes them, in one run: on the    *)
(* timer (Timer), on the console and its queues (Terminal), on the disks   *)
(* (Ide).  The parts share no variable; a behaviour is one of the part     *)
(* that `part' names.                                                      *)
(***************************************************************************)
EXTENDS Timer

CONSTANTS t1, t2, w1, w2, r1, NoThread

VARIABLES
  part,
  tpc, txq, buffer, ier, thre, dr, console_lock, console_lock_depth, left,
  panicked, message, printed, wire, keys, taken,
  ipc, req, lock, expecting_interrupt, completion_wait, is_ata, boot, halted,
  selected, state, irq, data, media, spurious, written

\* The console with keys, and with more to print but no keys.
T == INSTANCE Terminal WITH
       Writer <- {w1, w2}, Reader <- {r1}, INTQ_BUFSIZE <- 3, MaxOut <- 2,
       MaxIn <- 2, pc <- tpc, halted <- panicked
Out == INSTANCE Terminal WITH
       Writer <- {w1, w2}, Reader <- {r1}, INTQ_BUFSIZE <- 3, MaxOut <- 3,
       MaxIn <- 0, pc <- tpc, halted <- panicked
D == INSTANCE Ide WITH
       Thread <- {t1, t2}, Disk <- {0, 1}, Size <- 1, Value <- {1, 2},
       MaxSpurious <- 1, pc <- ipc

terminalVars == <<tpc, txq, buffer, ier, thre, dr, console_lock,
  console_lock_depth, left, panicked, message, printed, wire, keys, taken>>
ideVars == <<ipc, req, lock, expecting_interrupt, completion_wait, is_ata, boot,
  halted, selected, state, irq, data, media, spurious, written>>
allVars == <<part, timerVars, terminalVars, ideVars>>

\* A part that does not run has one initial state.
MCInit ==
  /\ part \in {"timer", "terminal", "output", "ide"}
  /\ TimerInit /\ T!TerminalInit /\ D!IdeInit
  /\ part # "timer" => current = t1
  /\ part # "ide" => is_ata = {}

MCNext ==
  /\ UNCHANGED part
  /\ \/ part = "timer" /\ TimerNext /\ UNCHANGED <<terminalVars, ideVars>>
     \/ part = "terminal" /\ T!TerminalNext /\ UNCHANGED <<timerVars, ideVars>>
     \/ part = "output" /\ Out!TerminalNext /\ UNCHANGED <<timerVars, ideVars>>
     \/ part = "ide" /\ D!IdeNext /\ UNCHANGED <<timerVars, terminalVars>>

\* Fairness of Timer while it runs; the initial states of the other parts enable
\* none of the steps that are fair in them.
MCSpec ==
  /\ MCInit /\ [][MCNext]_allVars
  /\ WF_timerVars(part = "timer" /\ (WakeSleeper \/ IntrReturn))
  /\ WF_timerVars(part = "timer" /\ Call(Resume))
  /\ SF_timerVars(part = "timer" /\ IntrEnter)
  /\ T!TerminalFairness /\ D!IdeFairness
-----------------------------------------------------------------------------
\* The serial port sends what was printed, messages are not mixed, and keys
\* come back in order (serial_putc, serial_interrupt, acquire_console).
StreamsInOrder == T!StreamsInOrder

\* Whoever sleeps on an interrupt queue is woken (intq.c wait and signal).
SleepersWake == T!SleepersWake

\* A read returns what was last written to the sector (ide_read, ide_write).
ReadsLastWrite == D!ReadsLastWrite

\* A disk request is served (interrupt_handler, issue_pio_command).
RequestsEnd == D!RequestsEnd
=============================================================================
