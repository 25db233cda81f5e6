----------------------------- MODULE Scheduler ------------------------------
(***************************************************************************)
(* The priority scheduler of threads/thread.c on one CPU.                  *)
(*                                                                         *)
(* A section that runs with interrupts off is one step.  What a section    *)
(* does before it reaches schedule() is passed on as the intermediate      *)
(* ready list `rl', thread states `st' and priorities `prio', because a    *)
(* single section may insert into ready_list, raise a priority and then    *)
(* give up the CPU.  Operators named after a function of thread.c set      *)
(* current', status', ready_list' and thread_ticks'.                       *)
(***************************************************************************)
EXTENDS KernelList

CONSTANTS
  Thread,        \* the struct threads that can be in use, idle's excepted
  idle_thread,   \* the idle thread
  PRI_MAX,       \* the highest priority; PRI_MIN is 0
  TIME_SLICE     \* timer ticks to give each thread

ASSUME SchedulerAssumption ==
  /\ IsFiniteSet(Thread) /\ idle_thread \notin Thread
  /\ PRI_MAX \in Nat
  /\ TIME_SLICE \in Nat \ {0}

VARIABLES
  current,       \* the thread whose stack the CPU is on: thread_current ()
  status,        \* struct thread: status; "NONE" when there is no such thread
  priority,      \* struct thread: priority, donations included
  old_priority,  \* struct thread: old_priority, without donations
  ready_list,    \* the run queue
  thread_ticks,  \* timer ticks since the last thread switch
  creating       \* threads in thread_create, between thread_unblock and
                 \* check_preemption

schedVars == <<current, status, priority, old_priority, ready_list,
               thread_ticks, creating>>

AnyThread == Thread \cup {idle_thread}
PRI_MIN == 0
Priority == PRI_MIN..PRI_MAX
Status == {"NONE", "RUNNING", "READY", "BLOCKED"}

SchedTypeOK ==
  /\ current \in AnyThread
  /\ status \in [AnyThread -> Status]
  /\ priority \in [AnyThread -> Priority]
  /\ old_priority \in [AnyThread -> Priority]
  /\ ready_list \in Seq(Thread)
  /\ thread_ticks \in 0..(TIME_SLICE - 1)
  /\ creating \in SUBSET Thread

\* After thread_init and thread_start: the initial thread runs, the idle
\* thread has started and blocked, and no other thread exists.
SchedInit(initial_thread, default) ==
  /\ current = initial_thread
  /\ status = [t \in AnyThread |-> IF t = initial_thread THEN "RUNNING"
                                   ELSE IF t = idle_thread THEN "BLOCKED"
                                   ELSE "NONE"]
  /\ priority = [t \in AnyThread |-> IF t = initial_thread THEN default
                                     ELSE PRI_MIN]
  /\ old_priority = priority
  /\ ready_list = <<>>
  /\ thread_ticks = 0
  /\ creating = {}
-----------------------------------------------------------------------------
\* schedule, next_thread_to_run and thread_schedule_tail: the CPU goes to the
\* front of the run queue, or to the idle thread when the queue is empty.
Schedule(rl, st) ==
  LET next == IF rl = <<>> THEN idle_thread ELSE Head(rl)
  IN  /\ current' = next
      /\ ready_list' = IF rl = <<>> THEN rl ELSE Tail(rl)
      /\ status' = [st EXCEPT ![next] = "RUNNING"]
      /\ thread_ticks' = 0

\* The section ends without a thread switch.
Continue(rl, st) ==
  /\ ready_list' = rl
  /\ status' = st
  /\ UNCHANGED <<current, thread_ticks>>

ThreadBlock(rl, st) == Schedule(rl, [st EXCEPT ![current] = "BLOCKED"])

ThreadYield(rl, st, prio) ==
  Schedule(IF current = idle_thread THEN rl
           ELSE InsertOrdered(rl, current, prio),
           [st EXCEPT ![current] = "READY"])

\* check_preemption looks at the front of the run queue only.  In an
\* interrupt handler it requests the yield that intr_handler does last, so
\* that for one sema_up the step as a whole is the same.
CheckPreemption(rl, st, prio) ==
  IF rl # <<>> /\ prio[Head(rl)] > prio[current]
  THEN ThreadYield(rl, st, prio)
  ELSE Continue(rl, st)

\* thread_unblock of thread t, then check_preemption.
UnblockAndCheck(t, rl, st, prio) ==
  CheckPreemption(InsertOrdered(rl, t, prio), [st EXCEPT ![t] = "READY"], prio)

\* thread_tick: the running thread yields when its time slice is used up.
ThreadTick ==
  /\ IF thread_ticks + 1 >= TIME_SLICE
     THEN ThreadYield(ready_list, status, priority)
     ELSE /\ thread_ticks' = thread_ticks + 1
          /\ UNCHANGED <<current, status, ready_list>>
  /\ UNCHANGED <<priority, old_priority, creating>>

\* thread_create of a kernel thread up to thread_unblock, once its struct
\* thread is set up: the tid comes from lock_acquire and lock_release calls
\* made before this step.
ThreadCreate(t, p) ==
  LET prio == [priority EXCEPT ![t] = p]
  IN  /\ status[t] = "NONE"
      /\ priority' = prio
      /\ old_priority' = [old_priority EXCEPT ![t] = p]
      /\ Continue(InsertOrdered(ready_list, t, prio),
                  [status EXCEPT ![t] = "READY"])
      /\ creating' = creating \cup {current}

\* The end of thread_create.  Interrupts were on since thread_unblock, so the
\* thread may have lost the CPU and got it back in between.
ThreadCreateReturn ==
  /\ current \in creating
  /\ creating' = creating \ {current}
  /\ CheckPreemption(ready_list, status, priority)
  /\ UNCHANGED <<priority, old_priority>>

\* thread_set_priority: priority follows unless it differs from old_priority,
\* which the code takes to mean that it was donated.
ThreadSetPriority(p) ==
  LET prio == IF priority[current] = old_priority[current]
              THEN [priority EXCEPT ![current] = p] ELSE priority
  IN  /\ priority' = prio
      /\ old_priority' = [old_priority EXCEPT ![current] = p]
      /\ CheckPreemption(ready_list, status, prio)
      /\ UNCHANGED creating

\* One turn of idle's loop: it blocks, and runs again if nobody else can.
Idle ==
  /\ current = idle_thread
  /\ ThreadBlock(ready_list, status)
  /\ UNCHANGED <<priority, old_priority, creating>>
=============================================================================
