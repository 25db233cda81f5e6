------------------------------- MODULE Synch --------------------------------
(***************************************************************************)
(* Semaphores and priority-donating locks of threads/synch.c, called by    *)
(* the running thread in any order their assertions allow and by interrupt *)
(* handlers.                                                               *)
(*                                                                         *)
(* A lock's semaphore is identified with the lock.  wait[t] is the         *)
(* semaphore in whose sema_down loop thread t is: while t is blocked there *)
(* and, after sema_up woke it, until it has the CPU again and tests the    *)
(* value once more.  That test runs with interrupts off as soon as t is    *)
(* switched to, so until wait[current] = NULL nothing else can happen.     *)
(*                                                                         *)
(* Two lists are abstracted.  lock_holding is the set of locks whose       *)
(* holder is the thread: both are updated in the same section and only the *)
(* largest max_priority of the list is ever read.  lock_waiting is reduced *)
(* to its front: list_push_back is the only operation on it, list_empty    *)
(* and list_begin are all that is read, and linking a waiting_elem into a  *)
(* second list never changes the first list's head.                        *)
(***************************************************************************)
EXTENDS Scheduler

CONSTANTS
  Lock,         \* the struct locks
  Semaphore,    \* the struct semaphores that are not part of a lock
  IntrSema,     \* those that interrupt handlers up
  NULL,
  PRI_DEFAULT,  \* priority of the initial thread
  CreatePriority, \* priorities that thread_create is called with
  NewPriority,  \* priorities that thread_set_priority is called with
  MaxValue      \* bound on the value of a semaphore

ASSUME SynchAssumption ==
  /\ Lock \cap Semaphore = {}
  /\ IntrSema \subseteq Semaphore
  /\ NULL \notin Lock \cup Semaphore \cup AnyThread
  /\ PRI_DEFAULT \in Priority
  /\ CreatePriority \subseteq Priority
  /\ NewPriority \subseteq Priority
  /\ MaxValue \in Nat \ {0}

VARIABLES
  value,         \* struct semaphore: value
  waiters,       \* struct semaphore: waiters
  wait,          \* the semaphore a thread is downing, or NULL
  holder,        \* struct lock: holder
  max_priority,  \* struct lock: max_priority
  lock_waiting   \* struct thread: the front of lock_waiting, or NULL

synchVars == <<value, waiters, wait, holder, max_priority, lock_waiting>>
vars == <<schedVars, synchVars>>

Sema == Lock \cup Semaphore

SynchTypeOK ==
  /\ value \in [Sema -> Nat]
  /\ waiters \in [Sema -> Seq(Thread)]
  /\ wait \in [Thread -> Sema \cup {NULL}]
  /\ holder \in [Lock -> Thread \cup {NULL}]
  /\ max_priority \in [Lock -> Priority]
  /\ lock_waiting \in [Thread -> Lock \cup {NULL}]

\* Every variable keeps the type its C declaration gives it (threads/thread.h,
\* threads/synch.h), and priorities stay within PRI_MIN..PRI_MAX.
TypeOK == SchedTypeOK /\ SynchTypeOK

\* sema_init and lock_init.
SynchInit ==
  /\ value = [s \in Sema |-> IF s \in Lock THEN 1 ELSE 0]
  /\ waiters = [s \in Sema |-> <<>>]
  /\ wait = [t \in Thread |-> NULL]
  /\ holder = [l \in Lock |-> NULL]
  /\ max_priority = [l \in Lock |-> 0]
  /\ lock_waiting = [t \in Thread |-> NULL]

Init == SynchInit /\ \E t \in Thread : SchedInit(t, PRI_DEFAULT)

\* The current thread may make a call: it is not the idle thread, not in
\* thread_create and not inside an interrupts-off section of sema_down.
Running == current \in Thread \ creating /\ wait[current] = NULL
InterruptsOn == current \in Thread => wait[current] = NULL

lock_holding(t) == {l \in Lock : holder[l] = t}
-----------------------------------------------------------------------------
\* lock_acquire after its sema_down: the current thread owns the lock.
Acquired(s) ==
  holder' = IF s \in Lock THEN [holder EXCEPT ![s] = current] ELSE holder

\* One test of sema_down's loop by the current thread: take the semaphore or
\* join its waiters and block.  prio is the priorities after any donation.
TestValue(s, prio) ==
  \/ /\ value[s] > 0
     /\ value' = [value EXCEPT ![s] = @ - 1]
     /\ wait' = [wait EXCEPT ![current] = NULL]
     /\ Acquired(s)
     /\ Continue(ready_list, status)
     /\ UNCHANGED waiters
  \/ /\ value[s] = 0
     /\ wait' = [wait EXCEPT ![current] = s]
     /\ waiters' = [waiters EXCEPT ![s] = InsertOrdered(@, current, prio)]
     /\ ThreadBlock(ready_list, status)
     /\ UNCHANGED <<value, holder>>

SemaDown(s) ==
  /\ Running
  /\ TestValue(s, priority)
  /\ UNCHANGED <<priority, old_priority, creating, max_priority, lock_waiting>>

\* Fault: `if' instead of `while' in sema_down.
ResumeOnce ==
  /\ current \in Thread
  /\ wait[current] # NULL
  /\ value' = [value EXCEPT ![wait[current]] = @ - 1]
  /\ wait' = [wait EXCEPT ![current] = NULL]
  /\ Acquired(wait[current])
  /\ Continue(ready_list, status)
  /\ UNCHANGED <<waiters, priority, old_priority, creating, max_priority,
                 lock_waiting>>

\* A thread that sema_up woke is back on the CPU and tests the value again.
\* Somebody else may have taken the semaphore; for a lock, nothing is donated
\* to that new holder.
Resume ==
  /\ current \in Thread
  /\ wait[current] # NULL
  /\ TestValue(wait[current], priority)
  /\ UNCHANGED <<priority, old_priority, creating, max_priority, lock_waiting>>

\* Fault: list_front instead of list_pop_front in sema_up.
UpWithoutPop(s, prio) ==
  /\ value' = [value EXCEPT ![s] = @ + 1]
  /\ IF waiters[s] = <<>> THEN CheckPreemption(ready_list, status, prio)
     ELSE UnblockAndCheck(Head(waiters[s]), ready_list, status, prio)
  /\ UNCHANGED waiters

\* Fault: sema_up takes a list of one waiter for an empty one.
UpMissesLast(s, prio) ==
  /\ value' = [value EXCEPT ![s] = @ + 1]
  /\ IF Len(waiters[s]) <= 1
     THEN CheckPreemption(ready_list, status, prio) /\ UNCHANGED waiters
     ELSE /\ UnblockAndCheck(Head(waiters[s]), ready_list, status, prio)
          /\ waiters' = [waiters EXCEPT ![s] = Tail(@)]

\* sema_up: sort the waiters, unblock the first, increment, check_preemption.
Up(s, prio) ==
  /\ value' = [value EXCEPT ![s] = @ + 1]
  /\ \/ /\ waiters[s] = <<>>
        /\ CheckPreemption(ready_list, status, prio)
        /\ UNCHANGED waiters
     \/ /\ waiters[s] # <<>>
        /\ \E sorted \in ListSort(waiters[s], prio) :
             /\ waiters' = [waiters EXCEPT ![s] = Tail(sorted)]
             /\ UnblockAndCheck(Head(sorted), ready_list, status, prio)

SemaUp(s) ==
  /\ Running
  /\ value[s] < MaxValue
  /\ Up(s, priority)
  /\ UNCHANGED <<priority, old_priority, creating, wait, holder, max_priority,
                 lock_waiting>>

\* sema_up from an external interrupt handler, whatever thread it interrupts.
IntrSemaUp(s) ==
  /\ InterruptsOn
  /\ value[s] < MaxValue
  /\ Up(s, priority)
  /\ UNCHANGED <<priority, old_priority, creating, wait, holder, max_priority,
                 lock_waiting>>
-----------------------------------------------------------------------------
\* The test of lock_acquire's donation loop, for lock l once the threads in
\* donees have been raised to the current thread's priority.
Donates(l, donees) ==
  /\ l # NULL
  /\ holder[l] # NULL
  /\ holder[l] \notin donees
  /\ priority[current] > priority[holder[l]]

\* The locks that the donation loop goes through, starting with `lock': each
\* next one is the front of the holder's lock_waiting.  There is exactly one
\* such sequence.
DonationChains(lock) ==
  { c \in UNION {[1..n -> Lock] : n \in 0..Cardinality(Lock)} :
      LET l(i) == IF i = 1 THEN lock ELSE lock_waiting[holder[c[i - 1]]]
          donees(i) == {holder[c[j]] : j \in 1..(i - 1)}
      IN  /\ \A i \in DOMAIN c : c[i] = l(i) /\ Donates(c[i], donees(i))
          /\ ~Donates(l(Len(c) + 1), donees(Len(c) + 1)) }

\* Priorities after the loop went through chain c.
Donated(c) ==
  [t \in AnyThread |-> IF \E i \in DOMAIN c : holder[c[i]] = t
                       THEN priority[current] ELSE priority[t]]

LockAcquire(l) ==
  /\ Running
  /\ holder[l] # current
  /\ \/ /\ holder[l] = NULL
        /\ TestValue(l, priority)
        /\ UNCHANGED <<priority, max_priority, lock_waiting>>
     \/ /\ holder[l] # NULL
        /\ lock_waiting' = [lock_waiting EXCEPT
                              ![current] = IF @ = NULL THEN l ELSE @]
        /\ \E c \in DonationChains(l) :
             /\ priority' = Donated(c)
             /\ max_priority' = [m \in Lock |->
                  IF m \in Range(c) /\ priority[current] > max_priority[m]
                  THEN priority[current] ELSE max_priority[m]]
             /\ TestValue(l, Donated(c))
  /\ UNCHANGED <<old_priority, creating>>

\* Fault: lock_release keeps the donation when no other lock is held.
PriorityKept(l) == priority[current]

\* The priority that lock_release leaves its caller: the largest max_priority
\* of the locks it still holds, if that exceeds its own old_priority.
PriorityAfterRelease(l) ==
  Max({old_priority[current]} \cup
      {max_priority[m] : m \in lock_holding(current) \ {l}})

\* lock_release reads the second element of the waiters before sema_up sorts
\* them.
LockRelease(l) ==
  LET prio == [priority EXCEPT ![current] = PriorityAfterRelease(l)]
  IN  /\ Running
      /\ holder[l] = current
      /\ max_priority' = [max_priority EXCEPT
                            ![l] = IF Len(waiters[l]) > 1
                                   THEN priority[waiters[l][2]] ELSE 0]
      /\ priority' = prio
      /\ holder' = [holder EXCEPT ![l] = NULL]
      /\ Up(l, prio)
      /\ UNCHANGED <<old_priority, creating, wait, lock_waiting>>
-----------------------------------------------------------------------------
Yield ==
  /\ Running
  /\ ThreadYield(ready_list, status, priority)
  /\ UNCHANGED <<priority, old_priority, creating, synchVars>>

Tick == InterruptsOn /\ ThreadTick /\ UNCHANGED synchVars
Create(t, p) == Running /\ ThreadCreate(t, p) /\ UNCHANGED synchVars
CreateReturn == InterruptsOn /\ ThreadCreateReturn /\ UNCHANGED synchVars
SetPriority(p) == Running /\ ThreadSetPriority(p) /\ UNCHANGED synchVars
IdleLoop == Idle /\ UNCHANGED synchVars

Next ==
  \/ \E s \in Semaphore : SemaDown(s) \/ SemaUp(s)
  \/ \E s \in IntrSema : IntrSemaUp(s)
  \/ \E l \in Lock : LockAcquire(l) \/ LockRelease(l)
  \/ Resume
  \/ Yield
  \/ Tick
  \/ \E t \in Thread, p \in CreatePriority : Create(t, p)
  \/ CreateReturn
  \/ \E p \in NewPriority : SetPriority(p)
  \/ IdleLoop

Spec == Init /\ [][Next]_vars
-----------------------------------------------------------------------------
\* A thread's single `elem' is on at most one list, and on the one its status
\* says: ready_list exactly when it is READY, the waiters of exactly the
\* semaphore it is downing when it is BLOCKED; the only RUNNING thread is the
\* current one (the comment on `elem' in threads/thread.h).
ThreadsOnOneList ==
  /\ IsInjective(ready_list)
  /\ \A t \in Thread : t \in Range(ready_list) <=> status[t] = "READY"
  /\ \A s \in Sema : IsInjective(waiters[s])
  /\ \A s \in Sema, t \in Thread :
       t \in Range(waiters[s]) <=> status[t] = "BLOCKED" /\ wait[t] = s
  /\ \A t \in AnyThread : status[t] = "RUNNING" <=> t = current

\* A lock has a holder exactly while its semaphore is taken, and its value is
\* never above 1, so that two threads are never both past lock_acquire
\* although a woken waiter races with threads that find the lock free.
LockOwnership ==
  \A l \in Lock : /\ value[l] \in {0, 1}
                  /\ value[l] = 0 <=> holder[l] # NULL

\* Threads that sema_up has taken off the waiters of s and that have not
\* tested its value since.
Woken(s) == {t \in Thread : wait[t] = s /\ status[t] # "BLOCKED"}

\* No wakeup is lost: while threads wait for a semaphore whose value is
\* positive, at least as many woken threads are on their way to it, although
\* sema_down by a third thread may take the value before a woken one runs.
NoLostWakeup ==
  \A s \in Sema :
    waiters[s] # <<>> => Cardinality(Woken(s)) >= value[s]

\* A donated priority is given back: a thread that holds no lock runs at the
\* priority it was created with or last set, whatever order it took and
\* released its locks in (lock_release's last branch).
LoanReturned ==
  \A t \in Thread :
    lock_holding(t) = {} => priority[t] = old_priority[t]

\* sema_up wakes a waiter of the highest priority, even when donations
\* reached the waiters after they had queued up.
WakesHighest ==
  [][\A s \in Sema, t \in Thread :
       t \in Range(waiters[s]) /\ t \notin Range(waiters'[s]) =>
         \A u \in Range(waiters'[s]) : priority'[t] >= priority'[u]]_vars

\* No ready thread has a higher priority than the running one, unless that one
\* is on its way to check_preemption: what check_preemption is for.
HighestPriorityRuns ==
  current \in Thread \ creating =>
    \A t \in Range(ready_list) : priority[t] <= priority[current]

\* Priority donation does its work: no thread waits for a lock whose holder
\* runs at a lower priority than its own (lock_acquire, lock_release).
DonationCoversWaiters ==
  \A l \in Lock : holder[l] # NULL =>
    \A t \in Range(waiters[l]) : priority[holder[l]] >= priority[t]

\* What the primitives promise their callers, scheduling left out.
Abstract == INSTANCE SynchAbs
  WITH count <- [s \in Semaphore |-> value[s]], owner <- holder

\* The interrupts-off sections of synch.c implement atomic semaphores and
\* locks: a semaphore is only decremented when positive and a lock only goes
\* from its owner to nobody and from nobody to one thread.
ImplementsAbstract == Abstract!Spec
=============================================================================
