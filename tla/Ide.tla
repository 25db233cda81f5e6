--------------------------------- MODULE Ide ---------------------------------
(***************************************************************************)
(* The IDE driver under the block layer (devices/ide.c, block.c): one      *)
(* channel with its two disks, the threads that read and write sectors,    *)
(* and the completion interrupt.  The channel's registers and the disks    *)
(* are modelled from their use.  A disk that is busy becomes ready within  *)
(* the time that wait_until_idle and wait_while_busy allow.                *)
(***************************************************************************)
EXTENDS Integers

CONSTANTS
  Thread, NoThread,
  Disk,                 \* the devices of the channel
  Size, Value,          \* sectors of a disk, contents of a sector
  MaxSpurious           \* bound on interrupts that no command caused

VARIABLES
  pc, req,              \* of each thread, its step and its request
  lock, expecting_interrupt, completion_wait,   \* struct channel
  is_ata, boot,         \* the ATA disks, and those not yet identified
  halted,               \* has the driver panicked?
  selected, state, irq, data,   \* the registers, the disk's state, its buffer
  media, spurious,
  written               \* history: the sector contents handed to the disk

ideVars == <<pc, req, lock, expecting_interrupt, completion_wait, is_ata, boot,
             halted, selected, state, irq, data, media, spurious, written>>
driverVars == <<lock, expecting_interrupt, completion_wait, is_ata, boot, halted>>
diskVars == <<selected, state, irq, data, media, spurious, written>>

Idle == [op |-> "none"]
Place == Disk \X (0..(Size - 1))

\* ide_init after check_device_type: any of the disks may be an ATA disk.
IdeInit ==
  /\ pc = [t \in Thread |-> "idle"] /\ req = [t \in Thread |-> Idle]
  /\ lock = NoThread /\ expecting_interrupt = FALSE /\ completion_wait = 0
  /\ is_ata \in SUBSET Disk /\ boot = is_ata
  /\ halted = FALSE
  /\ selected = <<>> /\ state = "idle" /\ irq = FALSE /\ data = 0
  /\ media = [p \in Place |-> 0] /\ spurious = 0
  /\ written = media

Goto(t, l) == pc' = [pc EXCEPT ![t] = l]
-----------------------------------------------------------------------------
(* Threads. *)

\* identify_ata_device starts, while no other thread uses the disks.
Identify(t) ==
  /\ boot # {} /\ \A u \in Thread : pc[u] = "idle"
  /\ \E d \in boot :
       /\ req' = [req EXCEPT ![t] = [op |-> "identify", place |-> <<d, 0>>]]
       /\ boot' = boot \ {d}
  /\ Goto(t, "select")
  /\ UNCHANGED <<lock, expecting_interrupt, completion_wait, is_ata, halted, diskVars>>

\* block_read, block_write: check_sector panics beyond the end of the disk.
Request(t) ==
  /\ boot = {} /\ pc[t] = "idle" /\ \A u \in Thread : req[u].op # "identify"
  /\ \E d \in is_ata, s \in 0..Size,
        r \in [op : {"read"}, buffer : {0}] \cup [op : {"write"}, buffer : Value] :
       IF s < Size
       THEN /\ req' = [req EXCEPT ![t] =
                         [op |-> r.op, place |-> <<d, s>>, buffer |-> r.buffer]]
            /\ Goto(t, "lock") /\ UNCHANGED halted
       ELSE halted' = TRUE /\ UNCHANGED <<pc, req>>
  /\ UNCHANGED <<lock, expecting_interrupt, completion_wait, is_ata, boot, diskVars>>

AcquireChannel(t) ==
  /\ pc[t] = "lock" /\ lock = NoThread
  /\ lock' = t /\ Goto(t, "select")
  /\ UNCHANGED <<req, expecting_interrupt, completion_wait, is_ata, boot, halted,
                 diskVars>>

\* wait_until_idle: reading the status clears a pending interrupt, unless the
\* interrupt controller has latched it.
wait_until_idle == state = "idle" /\ irq' \in {FALSE, irq}

\* select_device_wait, whose device register and the sector's registers are
\* written once the disk is idle.
select_device_wait(place) == wait_until_idle /\ selected' = place

select_sector(t) ==
  /\ pc[t] = "select" /\ Goto(t, "command")
  /\ select_device_wait(req[t].place)
  /\ UNCHANGED <<req, driverVars, state, data, media, spurious, written>>

\* Writing the command register starts the disk.
StartDisk(op) == state' = IF op = "write" THEN "preparing" ELSE "reading"

\* Fault: the command is written before the interrupt is expected.
issue_then_expect(t) ==
  /\ \/ /\ pc[t] = "command" /\ Goto(t, "issue")
        /\ StartDisk(req[t].op) /\ UNCHANGED expecting_interrupt
     \/ /\ pc[t] = "issue"
        /\ Goto(t, IF req[t].op = "write" THEN "busy" ELSE "completion")
        /\ expecting_interrupt' = TRUE /\ UNCHANGED state
  /\ UNCHANGED <<req, lock, completion_wait, is_ata, boot, halted, selected, irq,
                 data, media, spurious, written>>

issue_pio_command(t) ==
  /\ \/ /\ pc[t] = "command" /\ Goto(t, "issue")
        /\ expecting_interrupt' = TRUE /\ UNCHANGED state
     \/ /\ pc[t] = "issue"
        /\ Goto(t, IF req[t].op = "write" THEN "busy" ELSE "completion")
        /\ StartDisk(req[t].op) /\ UNCHANGED expecting_interrupt
  /\ UNCHANGED <<req, lock, completion_wait, is_ata, boot, halted, selected, irq,
                 data, media, spurious, written>>

\* sema_down: before the transfer of a read, after that of a write.
AwaitCompletion(t) ==
  /\ pc[t] = "completion" /\ completion_wait > 0
  /\ completion_wait' = completion_wait - 1
  /\ Goto(t, IF req[t].op = "write" THEN "release" ELSE "busy")
  /\ UNCHANGED <<req, lock, expecting_interrupt, is_ata, boot, halted, diskVars>>

\* Fault: the transfer starts without waiting for the disk.
transfer_at_once(t) ==
  /\ pc[t] = "busy" /\ Goto(t, "transfer")
  /\ UNCHANGED <<req, driverVars, diskVars>>

\* wait_while_busy, and what the callers do when DRQ is clear: the disk is
\* given up while it is identified, the kernel panics later.
wait_while_busy(t) ==
  /\ pc[t] = "busy" /\ state \in {"ready", "idle"}
  /\ IF state = "ready"
     THEN Goto(t, "transfer") /\ UNCHANGED <<req, is_ata, halted>>
     ELSE IF req[t].op = "identify"
     THEN /\ is_ata' = is_ata \ {req[t].place[1]} /\ UNCHANGED halted
          /\ req' = [req EXCEPT ![t] = Idle] /\ Goto(t, "idle")
     ELSE halted' = TRUE /\ UNCHANGED <<pc, req, is_ata>>
  /\ UNCHANGED <<lock, expecting_interrupt, completion_wait, boot, diskVars>>

\* input_sector, output_sector; an identified disk is registered, or given up
\* when it is too large.
Transfer(t) ==
  /\ pc[t] = "transfer"
  /\ \/ /\ req[t].op = "write"
        /\ data' = req[t].buffer /\ state' = "storing"
        /\ written' = [written EXCEPT ![req[t].place] = req[t].buffer]
        /\ Goto(t, "completion") /\ UNCHANGED <<req, is_ata>>
     \/ /\ req[t].op = "read"
        /\ req' = [req EXCEPT ![t].buffer = data]
        /\ state' = "idle" /\ Goto(t, "release")
        /\ UNCHANGED <<data, written, is_ata>>
     \/ /\ req[t].op = "identify"
        /\ is_ata' \in {is_ata, is_ata \ {req[t].place[1]}}
        /\ req' = [req EXCEPT ![t] = Idle]
        /\ state' = "idle" /\ Goto(t, "idle")
        /\ UNCHANGED <<data, written>>
  /\ UNCHANGED <<lock, expecting_interrupt, completion_wait, boot, halted, selected,
                 irq, media, spurious>>

ReleaseChannel(t) ==
  /\ pc[t] = "release"
  /\ lock' = NoThread /\ Goto(t, "idle")
  /\ req' = [req EXCEPT ![t] = Idle]
  /\ UNCHANGED <<expecting_interrupt, completion_wait, is_ata, boot, halted, diskVars>>
-----------------------------------------------------------------------------
(* The disk and its interrupt. *)

\* A command ends: data to read with an interrupt, room for data to write
\* without one, data stored with an interrupt; or an error, with DRQ clear.
DiskWorks ==
  /\ \/ /\ state = "reading" /\ state' = "ready"
        /\ data' = media[selected] /\ irq' = TRUE /\ UNCHANGED media
     \/ /\ state = "preparing" /\ state' = "ready" /\ UNCHANGED <<data, irq, media>>
     \/ /\ state = "storing" /\ state' = "idle"
        /\ media' = [media EXCEPT ![selected] = data]
        /\ irq' = TRUE /\ UNCHANGED data
     \/ /\ state \in {"reading", "preparing"} /\ state' = "idle"
        /\ irq' = TRUE /\ UNCHANGED <<data, media>>
  /\ UNCHANGED <<pc, req, driverVars, selected, spurious, written>>

\* interrupt_handler, for an interrupt of the disk or for a spurious one; once
\* a command has been issued, expecting_interrupt stays set.
interrupt_handler ==
  /\ \/ irq /\ irq' = FALSE /\ UNCHANGED spurious
     \/ spurious < MaxSpurious /\ spurious' = spurious + 1 /\ UNCHANGED irq
  /\ completion_wait' = IF expecting_interrupt THEN completion_wait + 1
                        ELSE completion_wait
  /\ UNCHANGED <<pc, req, lock, expecting_interrupt, is_ata, boot, halted, selected,
                 state, data, media, written>>

Proceed(t) ==
  \/ AcquireChannel(t) \/ select_sector(t) \/ issue_pio_command(t)
  \/ AwaitCompletion(t) \/ wait_while_busy(t) \/ Transfer(t) \/ ReleaseChannel(t)

IdeNext ==
  /\ ~halted
  /\ \/ \E t \in Thread : Identify(t) \/ Request(t) \/ Proceed(t)
     \/ DiskWorks \/ interrupt_handler

\* Threads run, the disk works, its interrupts are taken.
IdeFairness ==
  /\ \A t \in Thread : WF_ideVars(~halted /\ Proceed(t))
  /\ WF_ideVars(~halted /\ DiskWorks)
  /\ WF_ideVars(~halted /\ irq /\ interrupt_handler)

IdeSpec == IdeInit /\ [][IdeNext]_ideVars /\ IdeFairness
-----------------------------------------------------------------------------
\* ide_read returns what was last handed to that sector of that disk, although
\* the disks share the channel's registers, and although ide_write and the
\* wait for completion may end early after a spurious interrupt.
ReadsLastWrite ==
  \A t \in Thread :
    pc[t] = "release" /\ req[t].op = "read" => req[t].buffer = written[req[t].place]

\* A request that has got the channel is served, and each disk is identified,
\* unless a disk fails: no completion interrupt is missed, the one that comes
\* before sema_down included (issue_pio_command, interrupt_handler).
RequestsEnd ==
  \A t \in Thread : pc[t] \notin {"idle", "lock"} ~> pc[t] = "idle" \/ halted
=============================================================================
