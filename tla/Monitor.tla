------------------------------- MODULE Monitor -------------------------------
(***************************************************************************)
(* Condition variables (threads/synch.c): a lock, one condition and        *)
(* threads that wait, signal and broadcast inside it.  The semaphores are  *)
(* the atomic ones that module Synch shows sema_down and sema_up to be; a  *)
(* switch of threads can happen between any two of these steps.            *)
(***************************************************************************)
EXTENDS KernelList

CONSTANTS Thread, NoThread, Priority

ASSUME PriorityAssumption == Priority \subseteq Int

VARIABLES
  pc,
  prio,         \* thread->priority
  value,        \* lock->semaphore.value
  holder,       \* lock->holder
  waiters,      \* cond->waiters: struct semaphore_elem, as [thread, priority]
  sema          \* waiter.semaphore.value of each thread

monitorVars == <<pc, prio, value, holder, waiters, sema>>

MonitorInit ==
  /\ pc = [t \in Thread |-> "out"]
  /\ prio \in [Thread -> Priority]
  /\ value = 1 /\ holder = NoThread
  /\ waiters = <<>> /\ sema = [t \in Thread |-> 0]
-----------------------------------------------------------------------------
Goto(t, l) == pc' = [pc EXCEPT ![t] = l]

\* lock_acquire: the semaphore goes down first and the holder is set in a later
\* step.  lock_try_acquire, which nobody calls, is left out.
AcquireSema(t) ==
  /\ pc[t] \in {"out", "reacquire"} /\ value > 0
  /\ value' = value - 1 /\ Goto(t, "acquired")
  /\ UNCHANGED <<prio, holder, waiters, sema>>

SetHolder(t) ==
  /\ pc[t] = "acquired"
  /\ holder' = t /\ Goto(t, "in")
  /\ UNCHANGED <<prio, value, waiters, sema>>

\* lock_release, with interrupts off.
lock_release == holder' = NoThread /\ value' = value + 1

Leave(t) ==
  /\ pc[t] = "in" /\ holder = t
  /\ lock_release /\ Goto(t, "out")
  /\ UNCHANGED <<prio, waiters, sema>>

\* Fault: the waiters are kept in the order of their arrival.
InsertLast(ws, w) == Append(ws, w)

\* compare_priorities_sema and list_insert_ordered: behind every waiter whose
\* priority is not smaller.
InsertWaiter(ws, w) ==
  InsertOrdered(ws, w, [v \in Range(ws) \cup {w} |-> v.priority])

\* cond_wait up to lock_release: a fresh semaphore joins the waiters.
BeginWait(t) ==
  /\ pc[t] = "in" /\ holder = t
  /\ sema' = [sema EXCEPT ![t] = 0]
  /\ waiters' = InsertWaiter(waiters, [thread |-> t, priority |-> prio[t]])
  /\ Goto(t, "waiting")
  /\ UNCHANGED <<prio, value, holder>>

ReleaseToWait(t) ==
  /\ pc[t] = "waiting"
  /\ lock_release /\ Goto(t, "released")
  /\ UNCHANGED <<prio, waiters, sema>>

\* sema_down of the waiter's own semaphore; lock_acquire follows.
EndWait(t) ==
  /\ pc[t] = "released" /\ sema[t] > 0
  /\ sema' = [sema EXCEPT ![t] = @ - 1] /\ Goto(t, "reacquire")
  /\ UNCHANGED <<prio, value, holder, waiters>>

\* The loop body that cond_signal runs once and cond_broadcast until the list
\* is empty.
PopWaiter ==
  /\ waiters' = Tail(waiters)
  /\ sema' = [sema EXCEPT ![Head(waiters).thread] = @ + 1]

\* cond_signal.
cond_signal(t) ==
  /\ pc[t] = "in" /\ holder = t /\ waiters # <<>>
  /\ PopWaiter
  /\ UNCHANGED <<pc, prio, value, holder>>

\* cond_broadcast: sema_up may yield after each signal.
cond_broadcast(t) ==
  /\ pc[t] \in {"in", "broadcast"} /\ holder = t
  /\ IF waiters # <<>>
     THEN PopWaiter /\ Goto(t, "broadcast")
     ELSE pc[t] = "broadcast" /\ Goto(t, "in") /\ UNCHANGED <<waiters, sema>>
  /\ UNCHANGED <<prio, value, holder>>

\* thread_set_priority and donations change a priority at any time, that of a
\* waiting thread included: waiter.priority keeps the old one.
ChangePriority(t) ==
  /\ \E p \in Priority : prio' = [prio EXCEPT ![t] = p]
  /\ UNCHANGED <<pc, value, holder, waiters, sema>>

MonitorNext ==
  \E t \in Thread :
    \/ AcquireSema(t) \/ SetHolder(t) \/ Leave(t)
    \/ BeginWait(t) \/ ReleaseToWait(t) \/ EndWait(t)
    \/ cond_signal(t) \/ cond_broadcast(t)
    \/ ChangePriority(t)

MonitorSpec == MonitorInit /\ [][MonitorNext]_monitorVars
-----------------------------------------------------------------------------
\* A thread waits in the abstract monitor from the release of the lock until
\* its semaphore is upped, under the priority of its semaphore_elem.
AbsInside == {t \in Thread : pc[t] \in {"in", "waiting", "broadcast"}}
AbsWaiting ==
  {<<w.thread, w.priority>> :
     w \in {v \in Range(waiters) : pc[v.thread] = "released" /\ sema[v.thread] = 0}}

Abs == INSTANCE MonitorAbs WITH inside <- AbsInside, waiting <- AbsWaiting

\* cond_wait, cond_signal and cond_broadcast implement the monitor of
\* MonitorAbs: waiting releases the lock atomically although cond_wait takes
\* three steps, no signal falls between the release and sema_down, and signals
\* go by the priority recorded at the wait.
ImplementsMonitor == Abs!AbsSpec

\* cond_signal wakes a thread with the highest priority of those that wait, as
\* the test of it says (cond_signal).
SignalsHighest ==
  [][\A t \in Thread : cond_signal(t) =>
       \A w \in Range(waiters) : prio[w.thread] <= prio[Head(waiters).thread]]_monitorVars
=============================================================================
