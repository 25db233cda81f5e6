# Pintos kernel: TLA+ models, model checks and proofs

This directory specifies parts of the Pintos kernel in `src/pintos/src` and the
shell of `src/project0`. The modules are translated from the C code; `PROJECT.json` maps each definition to
its lines. TLC checks the models on small instances. TLAPS proves for every
instance the main safety results about semaphores, locks, condition variables,
the timer, processes, the disk channel, file writes, directory listings and the
shell's job list.

## The system

Pintos is a uniprocessor kernel. Threads (`threads/thread.c`) are scheduled by
priority from an ordered run queue; semaphores, locks with priority donation and
condition variables (`threads/synch.c`) block and wake them; the timer
(`devices/timer.c`) wakes sleepers and ends time slices from interrupt context
(`threads/interrupt.c`). User processes (`userprog/process.c`,
`userprog/syscall.c`) are threads whose creation, exit and wait are synchronised
by three semaphores in `struct thread`. Below them are the page and block
allocators, the file system (inodes, directories, free map) on the IDE driver,
and the console, serial and keyboard devices with their interrupt queues.
`src/project0` is a separate program, a shell with job control. `PROJECT.json`
lists every part with its status under "components".

## Modules

| Module | Models | State and actions |
|---|---|---|
| `KernelList` | `list_insert`, `list_remove`, `list_insert_ordered`, `list_sort` (`lib/kernel/list.c`) | operators on sequences |
| `Scheduler` | `threads/thread.c` | run queue, status, priorities, time slice; one operator per function |
| `Synch` | `threads/synch.c` | semaphore values and waiters, holders, donations; an action per call |
| `SynchAbs` | what semaphores and locks promise | counts and owners, each call atomic |
| `Timer` | `devices/timer.c`, end of `intr_handler` | sleep list, interrupt context, deferred yield |
| `Process` | exec, load, exit, wait | a location per thread, the three semaphores, child lists |
| `Monitor`, `MonitorAbs` | condition variables; the monitor they implement | lock, waiters with the priority recorded at the wait, a semaphore per waiter |
| `Terminal` | `console.c`, `serial.c`, `intq.c`, `input.c`, and `kbd.c` as a source of bytes | console lock and depth, the two queues with their waiting threads, the UART's registers |
| `Ide` | `ide.c`, the checks of `block.c` | one channel and its lock, `expecting_interrupt`, `completion_wait`, two disks |
| `FileSystem` | `filesys.c`, `directory.c`, open inodes of `inode.c`, file calls of `syscall.c` | `fs`: free map, inodes on disk, open counts; per process: descriptors, current directory, program. A call is one step |
| `MkdirRace` | `filesys_create` of a directory, in steps | extends `FileSystem` |
| `InodeWrite` | `inode_write_at`, `inode_read_at` | the inode on disk and in memory, sector contents, a step per disk access |
| `SectorTree` | `sector_allocate`, `byte_to_sector`, the release in `inode_close` | pointer blocks word by word, unwritten words arbitrary |
| `DirListing` | `dir_readdir` against `dir_add` and `dir_remove` | slots of one directory, the reader's position |
| `FreeMap` | `free-map.c`, `bitmap.c` | the bits in their elements, the map's file, failed writes, restarts |
| `Descriptors` | `file.c`, descriptors of `syscall.c` | `file_list` and next descriptor, positions, `deny_write_cnt` |
| `LinkedList` | `list.c`, pointer by pointer | `prev` and `next` of two lists beside the sequences they stand for |
| `HashTable` | `hash.c` | buckets, `elem_cnt`, the set inserted |
| `Heap` | `palloc.c`, `malloc.c` | page bits, arenas, free list, the two locks, a location per thread |
| `AddressSpace` | `pagedir.c`, `process_activate`, `process_exit` | page directories and frames with accessed and dirty bits, CR3, TLB |
| `Loader` | `load`, `load_segment`, `setup_stack` | program headers, the bytes of user pages, the stack |
| `Division`, `Sorting`, `Format` | `arithmetic.c`, `stdlib.c`, `stdio.c` | pure algorithms, a state per input |
| `Shell` | `project0/msh.c`, `jobs.c` | job list, children, pending SIGCHLD, the shell's location |

`Timer` extends `Synch`, which extends `Scheduler` and `KernelList`. `Process`,
`Monitor`, `InodeWrite` and `Heap` use atomic semaphores and locks; that `Synch`
implements those is run `synch` and theorem `Refinement`. `HashTable` takes
lists to be sequences, which `LinkedList` shows. `FileSystem` takes files to be
sequences of blocks, which `InodeWrite` and `SectorTree` take apart.

`MCSynch`, `MCProcess` and `MCMkdirRace` hold what the configurations need.
`MCUserProcesses`, `MCDevices`, `MCFileSystem` and `MCLibrary` put modules that
share no variable in one run: `layer` or `part`, chosen in the initial state,
names the one that takes the steps, so the run is the union of their separate
runs.

**Atomicity.** With one CPU, a section with interrupts off is one step. A thread
that blocks in `sema_down` ends the step there; when it is switched to again it
tests the value in a new step (`Resume`), and nothing else can happen first,
because interrupts are still off. `thread_create` has interrupts on between
`thread_unblock` and `check_preemption`: two steps, with `creating` in between.
In `Process` a step ends at each access to state that another thread can see, in
`InodeWrite` and `Ide` at each point where the thread may sleep, in `Heap` at
each bit of the page map. A signal handler of `Shell` runs to its end between
two of the shell's steps; that Ctrl-C may interrupt the SIGCHLD handler is left
out.

**Abstractions.** `lock_holding` is the set of locks held by a thread and
`lock_waiting` its front, which is all that is read. `Timer` counts ticks
relative to now. `Process` leaves priorities out, `load` succeeds or fails, and
free pages are alike, so the lowest is taken. Kernel threads of `Synch` never
exit. The UART, the disks and the TLB are modelled from how the code uses them.
File contents are small values, `Loader` and `Format` have scaled-down page and
word sizes with the C code's wrap-around, and `Division` has words of `Width`
bits. Operators commented "Fault:" are deliberate errors: a property is shown to
depend on the code by substituting one of them.

## Runs

| Run | Expectation | What it shows |
|---|---|---|
| `synch` | holds | A thread is on the one list its status names; a lock has a holder exactly while taken; no wakeup is lost; loans are returned; the highest waiter is woken; the primitives implement `SynchAbs` |
| `processes` | holds | No freed `struct thread` is reachable from its parent; wait returns the right status once; exec knows whether the load succeeded; calls return; zombies of loaded processes are destroyed. In the shell the job list agrees with the children, only a job that is waited for is in the foreground, and the end of that job is not missed |
| `devices` | holds | On the timer nobody wakes early or is forgotten behind a later sleeper, the highest priority runs and equal priorities take turns; serial output and keys stay in order and messages unmixed; sleepers on a queue are woken; a disk read returns the last write and requests end, spurious interrupts or not |
| `filesys` | holds | Open counts are the references there are (plus what `thread_exit` leaves behind); directories form a tree; a running program's file does not change; readers see what one writer wrote; a file's blocks have sectors of their own and are released; listings return what stays exactly once; the free map survives restarts; descriptors keep their file and position |
| `library` | holds | Condition variables implement `MonitorAbs`; lists are sequences, hash tables sets, pages and blocks are owned once; CR3, TLB and page directories agree; division, `printf`, sorting and search are right; a loaded program finds its segments and arguments |
| `ready_order` | violated | A donation to a READY holder does not move it on `ready_list`, so a lower priority runs |
| `donation` | violated | A waiter that does not outrank the holder when it asks is not recorded in the lock; the holder drops below it when it returns another loan |
| `condvar` | violated | `cond_signal` goes by the priority recorded at the wait; a waiter whose priority has risen since is passed over |
| `exit_destroys` | violated | A child whose load failed is taken off the child list, so nobody ups its `exit_mutex` and it is never destroyed |
| `mkdir_race` | violated | `filesys_create` closes a new directory twice after its entry is visible; a process that has made it its current directory meanwhile loses the inode |
| `lost_extension` | violated | `inode_write_at` writes back an inode it copied before releasing the lock, over another thread's extension |
| `wait_forever` | violated | `fg` reads the job's pid after it has unblocked signals; when the job ends just then, `waitfg(0)` waits with no job in the foreground |

The violated ones are "findings" of `PROJECT.json`. `HighestPriorityRuns` fails
with locks and holds without them, which is why `devices` can check it on the
timer. Three more findings belong to passing runs, whose properties state what
the code does and not what its comments say. `NumbersExact` says that a
remainder is exact if and only if it fits in a word, since `umod64` and `smod64`
return 32 bits (`arithmetic.c:131`).
`BlocksHaveSectors` excludes files that grew from inside the indirect block
across its end, where the code writes past a buffer (`inode.c:249`), and files
so long that they use words of the double indirect block that were never cleared
(`inode.c:167`). `SectorTree` reaches both, and without either condition the
property fails.

**Bounds.** `synch`: three threads, two locks, a semaphore that handlers up,
three priorities. Three threads are the fewest for a third one to take what a
woken one was promised, two locks for a donation chain and for two loans.
`MaxValue` 1 bounds `sema_up`; `TIME_SLICE` 1 lets every tick preempt.
`processes`: four pages and four tids, `main` included: grandchildren and
orphans occur, and pages are used again; programs exit with -1. In the shell
three children and two job slots, so that the list is full; job IDs to 3.
`exit_destroys` needs one parent and one child, `wait_forever` one child.
`devices`: three threads, sleeps of 1 or 2 ticks, slices of 2, so that sleepers
meet in either order and slices expire in mid-sleep; two writers and a reader on
queues of two bytes (`INTQ_BUFSIZE` 3), once with two bytes each way and once
with three bytes of output, which fill the queue, and no input; two threads, two
disks of a sector each, two values and one spurious interrupt.
`filesys`: two processes, four sectors, files of one block and two open files
each, enough to remove what the other has open or runs; a file of four bytes in
sectors of two, so that writes are partial, cross a sector and leave a hole; one
direct block and pointer blocks of eight words, of which two are cleared (the
code clears a quarter), so that 29 blocks reach the first word of the double
indirect block that is not cleared; three names; seven bits in elements of two, so that groups cross
elements and the last is partial; four descriptors on two inodes. `mkdir_race`
has the same processes and sectors, `lost_extension` two writers of three bytes.
`library`, and `condvar` for its first part: three threads of two priorities in
a monitor; four list elements, two with equal keys; five
hash keys, so that the bucket count grows and shrinks; two threads on four pages, two
blocks to an arena; two processes with two pages, whose directories and tables
do not all fit in four frames; every dividend and divisor of 8 bits for words of
4; arrays of up to six of three numbers; pages of 32 bytes, two segments and
three arguments, where sums wrap around and segments overlap, touch and end
mid-page. Symmetry is used where no liveness is checked, in the `MCSynch` runs
and in `filesys`. Deadlock is not checked where a run ends by itself: when all
bounded output, input or growth is done, an algorithm has returned, or the shell
or the kernel has stopped.

**Fairness.** `Timer`: weak for the interrupt handler and for `Resume` (the CPU
does not stop), strong for the interrupt itself, since the 8254 keeps
interrupting and an interrupt stays pending while interrupts are off. `Process`:
weak for each thread's kernel steps, since processes have equal priorities and
take turns (`SleepersRunAgain`); programs are not obliged to do anything.
`Terminal`: weak for the serial interrupt and for the UART to finish a byte;
writers and the reader owe nothing. `Ide`: weak for a thread that has the
channel, for a disk that works on a command and for its interrupt, until a disk
fails. `Shell`: weak for the shell's steps and for a pending SIGCHLD that is not
blocked, both of which the operating system provides; no command or child is
obliged to end.

## Proofs

| Module | Theorems |
|---|---|
| `List_proofs` | lemmas: what insertion, ordered insertion, removal and sorting return |
| `Synch_proofs` | lemmas on how scheduling changes the run queue; `ListInvariant`, `TypeCorrect`, `OneList`; `Ownership`, `Loans`, `Refinement`; `HighestWoken`, `WakeupsKept` |
| `Monitor_proofs` | `MonitorInvariant`, `MonitorRefinement` |
| `Timer_proofs` | `SleepInvariant`, `SleepersStayInOrder`, `NobodyWokenEarly`, `HighestAlwaysRuns` |
| `Process_proofs` | `ProcessInvariant`, `ChildrenStay`, `WaitsTell`, `ExecTells` |
| `Files_proofs` | `WriteInvariant`, `ReadersSeeWrites`, `InodeStaysConsistent`, `LengthGrows` (`InodeWrite`); `ListInvariant`, `ListsExactlyOnce` (`DirListing`) |
| `Ide_proofs` | `IdeInvariant`, `ReadsReturnLastWrite` |
| `Shell_proofs` | `ShellInvariant`, `JobsKeepChildren`, `ForegroundWaited` |

Each rests on an inductive invariant, named below, that holds initially, is kept
by every action and implies the property. An action property follows from the
invariant and the action.

**Semaphores and locks** (any finite set of threads, any locks and semaphores,
any priorities and time slice; `SchedulerAssumption`, `SynchAssumption`). The
invariant is `ListInv`: types, the run queue holds exactly the READY threads,
each waiting list exactly the threads blocked there. `ThreadsOnOneList` alone is
not inductive, as the steps also need the types. `LockOwnership` is inductive
relative to `ListInv`, and `LoanReturned` relative to both: only `lock_acquire`
raises another thread, and that thread holds a lock. `NoLostWakeup` counts the
woken threads of each semaphore. `Refinement` maps values and holders to counts
and owners; every step is an abstract step or a stutter. `TypeCorrect` is proved
and not checked by a run of its own.

**Condition variables** (`PriorityAssumption`: priorities are integers).
`MonitorInv`: at most one thread has taken the lock's semaphore; the waiters are
listed once each, in the order of the priorities recorded, with their semaphores
at 0; and a thread that is about to release the lock in `cond_wait` is on the
list. The last is what makes the release an abstract wait, and the first what
keeps a signal out of the gap before it.

**Timer** (any number of threads and any sleeping times; `TimerAssumption`).
`SleepInv`: the run queue as above; `sleep_list` in the order of the remaining
ticks, holding exactly the blocked threads; and for every thread its
`sleep_mutex`, status and place in `sema_down` agree: the thread is the only
waiter while it sleeps, and the value is 1 from its wake-up until it tests the
value again. The last part is what makes `sema_up` in `timer_interrupt` unblock
the thread just taken off `sleep_list`, and no other. It follows that nobody is
overdue behind a later sleeper and nobody wakes early. For `HighestRuns`,
`RankInv` adds that the run queue is in the order of the priorities, and that
its front outranks the running thread only in a handler that will yield when it
returns. Ordering holds here because a thread changes no priority but its own;
with locks it fails (`ready_order`).

**Processes** (any pages, statuses and number of threads; `ProcessAssumption`).
`ProcessInv` has two halves. `LinkInv` says who can reach a `struct thread`: its
parent only, through `child_list` or a local variable of `exec` or `wait`, and
while it does, the thread lives and its `exit_mutex` is 0. The other half says
what a parent may conclude from a semaphore: a positive `load_mutex` means that
the load is over, a positive `wait_mutex` that the child stands at its
`exit_mutex` with its executable closed, and nobody has had the status of a
child that is still listed. `WaitsTell` needs also that live threads share no tid
but `TID_ERROR`, as pages are used again.

**Writing a file** (any sector size and length; hypothesis `Constants` with
exactly one writer, since two can lose an extension, `lost_extension`).
`WriteInv`: the inode on disk, its copy in memory and the writer's copy are the
same but for the steps between a change and its being written or read back; each
has `eof` within `length` and exactly the sectors that its length needs, in the
order of their allocation; every byte of a sector is the last value stored for it, or zero;
and the bounce buffer is the sector as it is. `LengthGrows` states
`LengthNeverShrinks` for one writer.

**Listing a directory** (any names, hypothesis `Names`: a free slot, `.` and
`..` are no entry's name). `ListInv`: no name is in two slots; a name that has
been there since the open is in a slot of its own, and was returned once if the
slot is behind the reader's position, else not at all.

**Disk channel** (any threads, disks, sectors and spurious interrupts;
hypothesis `Constants`: a thread is not `NoThread`, disks have sectors).
`IdeInv`: one thread uses the channel, under its lock or alone at boot; how far
its request has got bounds what the disk may be doing, whichever interrupts have
come; and a sector differs from what was handed to the disk only while the disk
stores it.

**Shell** (any children and list length; `ShellAssumption`). `ShellInv`: a job
has a child of its own that is not reaped; what `waitpid` has yet to report has
stopped or ended; the child that `eval` has forked and not yet added is on no
slot; and a job is in the foreground only while the shell is in `waitfg` for it
or on its way there, or when the shell has gone. The third is what blocking
SIGCHLD around `fork` is for.

The invariants of `Ide`, `InodeWrite` and `DirListing` have hypotheses in their
theorems instead of assumptions in the modules, because the runs instantiate
these; the runs check the same definitions through the instances of
`MCFileSystem` and `MCDevices`.

**Only model-checked.**

- Liveness under fairness, which is beyond the prover.
- What is defined by folding over a sequence or recursively, which takes
  induction over data: closing all files in `Descriptors`, releasing blocks in
  `SectorTree`, the bits of `FreeMap`, walking the pointers of `LinkedList`,
  `HashTable`, `Division`, `Sorting`, `Format` and `Loader`; in `FileSystem` the
  open counts, the resolution of paths and the exit of a process.
- `Terminal`, `Heap` and `AddressSpace`, which have no proofs.

## Not modelled

Cases that the models exclude although the code can meet them:

- `printf` with a negative `*` width and the flag `0` pads on both sides
  (`stdio.c:390`); `Format` leaves the combination out.
- `setup_stack` does not check that the arguments fit in one page. `Loader` lets
  it write on below the page, over a segment or into a page fault of the kernel;
  `ProgramImage` claims of the segments only what lies outside the stack.
- After growth across the end of the indirect block `SectorTree` claims nothing
  more of the file; what the words written past the buffer destroy is left out.
  What `inode_close` releases can depend on words that were never written
  (`inode.c:123`, `400`, `413`); `ReleasesAllBlocks` names the lengths it holds
  for.
- Races inside `inode_open`, `inode_close` and the free map's
  `bitmap_scan_and_flip`, which take no lock: calls are atomic in `FileSystem`
  and `FreeMap`, except for the one `MkdirRace` takes apart.
- Two writers of one sector, which may lose an update: `InodeWrite`'s safety
  properties are checked with one writer. A full disk during a write.
- Writes to a program's file while it is being loaded.
- Two threads that read the keyboard at once.
- `LoanReturned` speaks of threads that hold no lock. One that does can keep or
  get a priority from a lock that its waiter no longer waits for, as
  `lock_acquire` never takes a lock off `lock_waiting` (`synch.c:265`).
- `get_dir` reads the bytes of a file as entries when a path goes through it
  (`directory.c:169`); in `FileSystem` a file's bytes make no entry.
- `sema_try_down` and `lock_try_acquire`, which nothing calls.

Parts left out: boot code and start-up (`loader.S`, `start.S`, most of
`init.c`), descriptor tables (`gdt.c`, `tss.c`), the IDT and PIC, scan codes of
`kbd.c`, `vga.c`, `partition.c`, the other port I/O devices, timing calibration,
checks of user pointers, `string.c`, `random.c`, `ustar.c`, `fsutil.c` and the
shell exercises: set-up that runs once, hardware, or sequential code without
state. `vm/` holds no code and mlfqs is not implemented. Hazards that no
property covers carry a note in `PROJECT.json`.
