------------------------------- MODULE Timer --------------------------------
(***************************************************************************)
(* Sleeping threads and the timer interrupt of devices/timer.c, on top of  *)
(* the scheduler and the semaphores.                                       *)
(*                                                                         *)
(* A thread's sleep_mutex is identified with the thread: every Thread is a *)
(* Semaphore here.  The clock is kept relative: remaining[t] stands for    *)
(* t->tick_to_wake - ticks; timer_interrupt only asks whether it is        *)
(* positive, and compare_ticks, which compares two tick_to_wake fields, is *)
(* the same comparison of what remains.  No locks are in use, so no        *)
(* priority is donated.                                                    *)
(***************************************************************************)
EXTENDS Synch

CONSTANT MaxSleep   \* bound on the argument of timer_sleep

ASSUME TimerAssumption == Thread \subseteq Semaphore /\ MaxSleep \in Nat

VARIABLES
  sleep_list,         \* threads that called timer_sleep, by wake-up time
  remaining,          \* tick_to_wake - ticks of the threads on sleep_list,
                      \* 0 for the others
  in_external_intr,   \* is the timer interrupt being handled?
  yield_on_return     \* should the current thread yield when it is done?

intrVars == <<in_external_intr, yield_on_return>>
timerVars == <<vars, sleep_list, remaining, intrVars>>

TimerInit ==
  /\ Init
  /\ sleep_list = <<>>
  /\ remaining = [t \in Thread |-> 0]
  /\ in_external_intr = FALSE
  /\ yield_on_return = FALSE

\* Fault: list_push_back instead of list_insert_ordered in timer_sleep.
SleepersPushBack(n) == Append(sleep_list, current)

\* list_insert_ordered with compare_ticks: earlier wake-up times first, equal
\* ones in the order of the calls.
SleepersWith(n) ==
  InsertOrdered(sleep_list, current,
                [t \in Thread |-> IF t = current THEN -n ELSE -remaining[t]])

\* timer_sleep of n > 0 ticks; with n <= 0 it returns at once.
TimerSleep(n) ==
  /\ ~in_external_intr
  /\ Running
  /\ remaining' = [remaining EXCEPT ![current] = n]
  /\ sleep_list' = SleepersWith(n)
  /\ TestValue(current, priority)
  /\ UNCHANGED <<priority, old_priority, creating, max_priority, lock_waiting,
                 intrVars>>
-----------------------------------------------------------------------------
\* intr_handler enters timer_interrupt: the tick is counted and thread_tick
\* asks for a yield when the time slice is used up.
IntrEnter ==
  /\ ~in_external_intr
  /\ InterruptsOn
  /\ in_external_intr' = TRUE
  /\ yield_on_return' = (thread_ticks + 1 >= TIME_SLICE)
  /\ thread_ticks' = thread_ticks + 1
  /\ remaining' = [t \in Thread |-> IF remaining[t] = 0 THEN 0
                                    ELSE remaining[t] - 1]
  /\ UNCHANGED <<current, status, priority, old_priority, ready_list, creating,
                 synchVars, sleep_list>>

\* Fault: timer_interrupt lets a thread go one tick early.
FrontIsDueEarly == sleep_list # <<>> /\ remaining[Head(sleep_list)] <= 1

\* The test of timer_interrupt's loop.
FrontIsDue == sleep_list # <<>> /\ remaining[Head(sleep_list)] <= 0

\* Fault: check_preemption does nothing in interrupt context.
RequestNoYield(rl) == yield_on_return' = yield_on_return

\* check_preemption in interrupt context, with run queue rl.
RequestYield(rl) ==
  yield_on_return' =
    (yield_on_return \/ (rl # <<>> /\ priority[Head(rl)] > priority[current]))

\* One turn of timer_interrupt's loop: pop the front of sleep_list and sema_up
\* its sleep_mutex.
WakeSleeper ==
  LET t == Head(sleep_list)
  IN  /\ in_external_intr
      /\ FrontIsDue
      /\ sleep_list' = Tail(sleep_list)
      /\ value' = [value EXCEPT ![t] = @ + 1]
      /\ \E sorted \in ListSort(waiters[t], priority) :
           LET woken == {Head(w) : w \in {sorted} \ {<<>>}}
               rl == IF woken = {} THEN ready_list
                     ELSE InsertOrdered(ready_list, Head(sorted), priority)
           IN  /\ waiters' = [waiters EXCEPT ![t] = SubSeq(sorted, 2, Len(sorted))]
               /\ ready_list' = rl
               /\ status' = [u \in AnyThread |-> IF u \in woken THEN "READY"
                                                 ELSE status[u]]
               /\ RequestYield(rl)
      /\ UNCHANGED <<current, priority, old_priority, creating, thread_ticks, wait,
                     holder, max_priority, lock_waiting, remaining,
                     in_external_intr>>

\* The loop is done: intr_handler leaves the interrupt context and yields if
\* that was asked for.
IntrReturn ==
  /\ in_external_intr
  /\ ~FrontIsDue
  /\ in_external_intr' = FALSE
  /\ yield_on_return' = FALSE
  /\ \/ yield_on_return /\ ThreadYield(ready_list, status, priority)
     \/ ~yield_on_return /\ Continue(ready_list, status)
  /\ UNCHANGED <<priority, old_priority, creating, synchVars, sleep_list,
                 remaining>>
-----------------------------------------------------------------------------
\* A call of thread.c or synch.c, outside interrupt context.
Call(A) == ~in_external_intr /\ A /\ UNCHANGED <<sleep_list, remaining, intrVars>>

TimerNext ==
  \/ \E n \in 1..MaxSleep : TimerSleep(n)
  \/ IntrEnter
  \/ WakeSleeper
  \/ IntrReturn
  \/ Call(Resume)
  \/ Call(Yield)
  \/ \E t \in Thread, p \in CreatePriority : Call(Create(t, p))
  \/ Call(CreateReturn)
  \/ \E p \in NewPriority : Call(SetPriority(p))
  \/ Call(IdleLoop)

\* The CPU does not stop: an interrupt handler finishes, and a thread that is
\* switched to in sema_down goes on.  The 8254 keeps interrupting, and an
\* interrupt that arrives while interrupts are off stays pending until they
\* are on: hence strong fairness.
Fairness ==
  /\ WF_timerVars(WakeSleeper \/ IntrReturn)
  /\ WF_timerVars(Call(Resume))
  /\ SF_timerVars(IntrEnter)

TimerSpec == TimerInit /\ [][TimerNext]_timerVars /\ Fairness
-----------------------------------------------------------------------------
\* Outside the interrupt handler, sleep_list holds exactly the threads whose
\* time has not come, soonest first, and they are exactly the blocked threads:
\* nobody is overdue behind a later sleeper, and nobody sleeps that
\* timer_interrupt will not find (timer_sleep, timer_interrupt).
SleepersInOrder ==
  /\ IsInjective(sleep_list)
  /\ \A i, j \in DOMAIN sleep_list :
       i < j => remaining[sleep_list[i]] <= remaining[sleep_list[j]]
  /\ \A t \in Thread :
       /\ t \in Range(sleep_list) <=> status[t] = "BLOCKED"
       /\ ~in_external_intr =>
            (t \in Range(sleep_list) <=> remaining[t] > 0)

\* timer_sleep does not return early: a thread leaves sleep_list only once its
\* ticks have passed, and wakes only by leaving it.
NoEarlyWakeup ==
  [][\A t \in Thread :
       /\ t \in Range(sleep_list) /\ t \notin Range(sleep_list')
            => remaining[t] = 0
       /\ status[t] = "BLOCKED" /\ status'[t] # "BLOCKED"
            => t \in Range(sleep_list)]_timerVars

\* Outside the interrupt handler no ready thread has a higher priority than
\* the running one, unless that one is about to yield in thread_create:
\* check_preemption is called wherever such a thread could appear.
HighestRuns == ~in_external_intr => HighestPriorityRuns

\* A thread of higher priority than t wants the CPU.
Outranked(t) ==
  \E u \in Thread : /\ status[u] \in {"READY", "RUNNING"}
                    /\ priority[u] > priority[t]

\* A thread that sleeps or is ready gets the CPU, unless one of higher priority
\* wants it: timer_interrupt finds every sleeper, and TIME_SLICE and the
\* list_insert_ordered of thread_yield make threads of equal priority take
\* turns.
SleepersRunAgain ==
  \A t \in Thread :
    status[t] \in {"READY", "BLOCKED"} ~> status[t] = "RUNNING" \/ Outranked(t)
=============================================================================
