---------------------------- MODULE Timer_proofs ----------------------------
(***************************************************************************)
(* Proofs about timer_sleep and timer_interrupt (devices/timer.c) for any  *)
(* number of threads, any priorities and any sleeping times.               *)
(***************************************************************************)
EXTENDS Timer, Synch_proofs

\* Nobody but t downs the sleep_mutex of t: its value is 1 from the sema_up
\* that wakes t until t has tested it again, and 0 otherwise.
SleepMutexOK ==
  /\ value \in [Sema -> Nat]
  /\ waiters \in [Sema -> Seq(Thread)]
  /\ wait \in [Thread -> Sema \cup {NULL}]
  /\ \A t \in Thread :
       /\ wait[t] \in {t, NULL}
       /\ status[t] = "BLOCKED" => wait[t] = t
       /\ waiters[t] = IF status[t] = "BLOCKED" THEN <<t>> ELSE <<>>
       /\ value[t] = IF wait[t] = t /\ status[t] # "BLOCKED" THEN 1 ELSE 0

\* The time slice is only exceeded by an interrupt that will end in a yield.
SliceOK ==
  /\ thread_ticks \in 0..TIME_SLICE
  /\ ~in_external_intr \/ ~yield_on_return
       => thread_ticks \in 0..(TIME_SLICE - 1)

\* Inside the interrupt handler, threads that are due may still be listed.
SleepListOK ==
  /\ sleep_list \in Seq(Thread)
  /\ remaining \in [Thread -> Nat]
  /\ IsInjective(sleep_list)
  /\ \A i, j \in 1..Len(sleep_list) :
       i < j => remaining[sleep_list[i]] <= remaining[sleep_list[j]]
  /\ \A t \in Thread : t \in Range(sleep_list) <=> status[t] = "BLOCKED"
  /\ \A t \in Thread : t \notin Range(sleep_list) => remaining[t] = 0
  /\ ~in_external_intr => \A t \in Range(sleep_list) : remaining[t] > 0

\* The inductive invariant.
SleepInv ==
  /\ ReadyOK(current, ready_list, status)
  /\ SliceOK
  /\ SleepMutexOK
  /\ SleepListOK
-----------------------------------------------------------------------------
\* A thread that joins an empty list is alone on it.
LEMMA InsertEmpty ==
  ASSUME NEW t \in Thread, NEW key
  PROVE  InsertOrdered(<<>>, t, key) = <<t>>
<1> DEFINE list == <<>>
           r == InsertOrdered(list, t, key)
<1>0. list \in Seq(Thread)
  OBVIOUS
<1>1. Len(list) = 0
  OBVIOUS
<1> HIDE DEF list
<1>2. r \in Seq(Thread)
  BY <1>0, InsertOrderedProps, Zenon
<1>3. PICK k \in 1..(Len(list) + 1) :
        /\ Len(r) = Len(list) + 1
        /\ \A j \in 1..(Len(list) + 1) :
             r[j] = IF j < k THEN list[j] ELSE IF j = k THEN t ELSE list[j - 1]
        /\ \A j \in 1..Len(list) : j < k => ~(key[t] > key[list[j]])
        /\ k <= Len(list) => key[t] > key[list[k]]
  BY <1>0, InsertPosition, Zenon
<1> HIDE DEF r
<1>4. k = 1 /\ Len(r) = 1
  BY <1>1, <1>3
<1>5. r[1] = t
  BY <1>1, <1>3, <1>4
<1>6. r = <<t>>
  BY <1>2, <1>4, <1>5
<1> QED BY <1>6 DEF r, list

\* Sorting a list of one leaves it.
LEMMA SortSingleton ==
  ASSUME NEW t \in Thread, NEW key, NEW sorted \in ListSort(<<t>>, key)
  PROVE  sorted = <<t>>
<1> DEFINE list == <<t>>
<1>0. list \in Seq(Thread)
  OBVIOUS
<1>1. Len(list) = 1 /\ list[1] = t /\ sorted \in ListSort(list, key)
  OBVIOUS
<1> HIDE DEF list
<1>2. sorted \in Seq(Thread) /\ Len(sorted) = 1 /\ Range(sorted) = Range(list)
  BY <1>0, <1>1, ListSortProps, Zenon
<1>3. 1 \in 1..Len(sorted)
  BY <1>2
<1>4. sorted[1] \in Range(list)
  BY <1>2, <1>3, ElementsByIndex, Zenon
<1>5. \E i \in 1..Len(list) : list[i] = sorted[1]
  <2>1. \A x : x \in Range(list) <=> \E i \in 1..Len(list) : list[i] = x
    BY <1>0, ElementsByIndex, Zenon
  <2> QED BY <1>4, <2>1, Zenon
<1>6. sorted[1] = t
  BY <1>1, <1>5
<1> QED BY <1>2, <1>6
-----------------------------------------------------------------------------
\* Initially nobody sleeps (thread_init, timer_init).
LEMMA SleepInvInit == TimerInit => SleepInv
<1> SUFFICES ASSUME SynchInit, NEW c \in Thread, SchedInit(c, PRI_DEFAULT),
                    TimerInit
             PROVE  SleepInv
  BY Zenon DEF TimerInit, Init
<1> USE SchedulerAssumption, SynchAssumption, TimerAssumption
<1>1. \A u : u \notin Range(<<>>)
  BY DEF Range
<1>2. IsInjective(<<>>)
  BY DEF IsInjective
<1>3. ReadyOK(current, ready_list, status)
  BY <1>1, <1>2 DEF SchedInit, ReadyOK, QueueOK, AnyThread, Status
<1>4. SliceOK
  BY DEF SchedInit, TimerInit, SliceOK
<1>5. \A t \in Thread :
        status[t] # "BLOCKED" /\ t # NULL /\ t \in Sema /\ t \notin Lock
  BY DEF SchedInit, AnyThread, Sema
<1>6. SleepMutexOK
  BY <1>5 DEF SynchInit, SleepMutexOK
<1>7. SleepListOK
  BY <1>1, <1>2, <1>5 DEF TimerInit, SleepListOK
<1> QED BY <1>3, <1>4, <1>6, <1>7 DEF SleepInv

\* The semaphores do not notice a step that blocks and wakes nobody.
LEMMA MutexKept ==
  ASSUME SleepMutexOK, UNCHANGED <<value, waiters, wait>>,
         \A t \in Thread : status'[t] = "BLOCKED" <=> status[t] = "BLOCKED"
  PROVE  SleepMutexOK'
BY DEF SleepMutexOK

\* Nor does sleep_list.
LEMMA SleepersKept ==
  ASSUME SleepListOK, UNCHANGED <<sleep_list, remaining, in_external_intr>>,
         \A t \in Thread : status'[t] = "BLOCKED" <=> status[t] = "BLOCKED"
  PROVE  SleepListOK'
BY DEF SleepListOK

\* A call that blocks and wakes nobody keeps the invariant.
LEMMA QuietCall ==
  ASSUME SleepInv, Outcome(BlockedIn(status)), ~in_external_intr,
         UNCHANGED <<value, waiters, wait, sleep_list, remaining, intrVars>>
  PROVE  SleepInv'
<1>1. \A t \in Thread : status'[t] = "BLOCKED" <=> status[t] = "BLOCKED"
  BY DEF Outcome, BlockedIn
<1>2. SleepMutexOK' /\ SleepListOK'
  BY <1>1, MutexKept, SleepersKept DEF SleepInv, intrVars
<1>3. ReadyOK(current, ready_list, status)'
  BY DEF Outcome
<1>4. SliceOK'
  <2>1. thread_ticks' \in 0..(TIME_SLICE - 1) /\ TIME_SLICE \in Nat
    BY SchedulerAssumption DEF Outcome
  <2> QED BY <2>1 DEF SliceOK
<1> QED BY <1>2, <1>3, <1>4 DEF SleepInv
-----------------------------------------------------------------------------
\* list_insert_ordered with compare_ticks keeps sleep_list in order.
LEMMA SleepersInserted ==
  ASSUME SleepInv, NEW n \in Nat, current \in Thread,
         current \notin Range(sleep_list),
         remaining' = [remaining EXCEPT ![current] = n],
         sleep_list' = SleepersWith(n)
  PROVE  /\ sleep_list' \in Seq(Thread) /\ IsInjective(sleep_list')
         /\ Range(sleep_list') = Range(sleep_list) \cup {current}
         /\ \A i, j \in 1..Len(sleep_list') :
              i < j => remaining'[sleep_list'[i]] <= remaining'[sleep_list'[j]]
<1> DEFINE key == [t \in Thread |-> IF t = current THEN -n ELSE -remaining[t]]
<1>1. /\ sleep_list \in Seq(Thread) /\ IsInjective(sleep_list)
      /\ remaining \in [Thread -> Nat]
      /\ \A i, j \in 1..Len(sleep_list) :
           i < j => remaining[sleep_list[i]] <= remaining[sleep_list[j]]
  BY DEF SleepInv, SleepListOK
<1>2. sleep_list' = InsertOrdered(sleep_list, current, key)
  BY DEF SleepersWith
<1>3. /\ key[current] = -n
      /\ \A i \in 1..Len(sleep_list) :
           /\ sleep_list[i] \in Thread /\ sleep_list[i] # current
           /\ key[sleep_list[i]] = -remaining[sleep_list[i]]
           /\ remaining'[sleep_list[i]] = remaining[sleep_list[i]]
           /\ remaining[sleep_list[i]] \in Nat
      /\ remaining'[current] = n
  <2>1. \A i \in 1..Len(sleep_list) : sleep_list[i] \in Range(sleep_list)
    BY <1>1, ElementsByIndex
  <2>2. \A i \in 1..Len(sleep_list) : sleep_list[i] \in Thread
    BY <1>1
  <2> QED BY <1>1, <2>1, <2>2
<1> HIDE DEF key
<1>4. /\ sleep_list' \in Seq(Thread) /\ IsInjective(sleep_list')
      /\ Range(sleep_list') = Range(sleep_list) \cup {current}
  BY <1>1, <1>2, InsertOrderedProps
<1>5. /\ DOMAIN sleep_list = 1..Len(sleep_list)
      /\ DOMAIN sleep_list' = 1..Len(sleep_list')
      /\ \A i \in 1..Len(sleep_list') : sleep_list'[i] \in Thread
      /\ current \in Thread => \A t \in Thread : remaining'[t] \in Nat
  BY <1>1, <1>4
<1>6. IsOrdered(sleep_list, key)
  BY <1>1, <1>3, <1>5 DEF IsOrdered
<1>7. key[current] \in Int /\ \A i \in 1..Len(sleep_list) : key[sleep_list[i]] \in Int
  BY <1>3
<1>8. IsOrdered(sleep_list', key)
  BY <1>1, <1>2, <1>6, <1>7, InsertKeepsOrder, Zenon
<1>9. \A t \in Thread : key[t] = -remaining'[t]
  BY <1>1 DEF key
<1>10. ASSUME NEW i \in 1..Len(sleep_list'), NEW j \in 1..Len(sleep_list'), i < j
       PROVE  remaining'[sleep_list'[i]] <= remaining'[sleep_list'[j]]
  <2>1. key[sleep_list'[i]] >= key[sleep_list'[j]]
    BY <1>5, <1>8, <1>10, Zenon DEF IsOrdered
  <2> QED BY <1>5, <1>9, <2>1
<1> QED BY <1>4, <1>10, Zenon

\* timer_sleep: the caller finds its sleep_mutex at 0 and blocks.
LEMMA SleepStep ==
  ASSUME SleepInv, NEW n \in 1..MaxSleep, TimerSleep(n)
  PROVE  SleepInv'
<1> USE SchedulerAssumption, SynchAssumption, TimerAssumption
<1>1. /\ ~in_external_intr /\ current \in Thread /\ wait[current] = NULL
      /\ remaining' = [remaining EXCEPT ![current] = n]
      /\ sleep_list' = SleepersWith(n) /\ TestValue(current, priority)
      /\ UNCHANGED intrVars /\ n \in Nat /\ n > 0
  BY DEF TimerSleep, Running
<1>2. /\ current # NULL /\ current \in Sema /\ Thread \subseteq AnyThread
      /\ status[current] = "RUNNING" /\ current \in AnyThread
      /\ ReadyOK(current, ready_list, status)
  BY <1>1 DEF SleepInv, ReadyOK, Sema, AnyThread
<1>3. value[current] = 0 /\ waiters[current] = <<>>
  BY <1>1, <1>2, Zenon DEF SleepInv, SleepMutexOK
<1>4. /\ wait' = [wait EXCEPT ![current] = current]
      /\ waiters' = [waiters EXCEPT ![current] = <<current>>]
      /\ ThreadBlock(ready_list, status) /\ value' = value
  <2>1. InsertOrdered(waiters[current], current, priority) = <<current>>
    BY <1>1, <1>3, InsertEmpty
  <2>2. ~(value[current] > 0)
    BY <1>3
  <2> QED BY <1>1, <2>1, <2>2 DEF TestValue
<1>5. Outcome(BlockedIn(status) \cup {current})
  <2>1. Outcome(BlockedIn(status) \cup ({current} \cap Thread))
    BY <1>2, <1>4, BlockOutcome
  <2>2. {current} \cap Thread = {current}
    BY <1>1
  <2> QED BY <2>1, <2>2
<1>6. \A t \in Thread :
        status'[t] = "BLOCKED" <=> status[t] = "BLOCKED" \/ t = current
  BY <1>5 DEF Outcome, BlockedIn
<1>7. SleepMutexOK'
  <2>1. /\ value \in [Sema -> Nat] /\ waiters \in [Sema -> Seq(Thread)]
        /\ wait \in [Thread -> Sema \cup {NULL}]
        /\ <<current>> \in Seq(Thread)
        /\ \A t \in Thread : t \in Sema
    BY <1>1 DEF SleepInv, SleepMutexOK, Sema
  <2>2. /\ waiters' \in [Sema -> Seq(Thread)]
        /\ wait' \in [Thread -> Sema \cup {NULL}]
    BY <1>2, <1>4, <2>1
  <2>3. ASSUME NEW t \in Thread, t # current
        PROVE  /\ wait'[t] = wait[t] /\ waiters'[t] = waiters[t]
               /\ status'[t] = "BLOCKED" <=> status[t] = "BLOCKED"
    BY <1>4, <1>6, <2>1, <2>3
  <2>4. /\ wait'[current] = current /\ waiters'[current] = <<current>>
        /\ status'[current] = "BLOCKED" /\ value'[current] = 0
    BY <1>1, <1>2, <1>3, <1>4, <1>6, <2>1
  <2>5. ASSUME NEW t \in Thread
        PROVE  /\ wait'[t] \in {t, NULL}
               /\ status'[t] = "BLOCKED" => wait'[t] = t
               /\ waiters'[t] = IF status'[t] = "BLOCKED" THEN <<t>> ELSE <<>>
               /\ value'[t] = IF wait'[t] = t /\ status'[t] # "BLOCKED"
                              THEN 1 ELSE 0
    <3>1. CASE t = current
      BY <2>4, <3>1
    <3>2. CASE t # current
      BY <1>4, <2>3, <3>2, Zenon DEF SleepInv, SleepMutexOK
    <3> QED BY <3>1, <3>2
  <2>6. value' \in [Sema -> Nat]
    BY <1>4, <2>1
  <2> QED BY <2>2, <2>5, <2>6 DEF SleepMutexOK
<1>8. SleepListOK'
  <2>1. current \notin Range(sleep_list)
    BY <1>1, <1>2 DEF SleepInv, SleepListOK
  <2>2. /\ sleep_list' \in Seq(Thread) /\ IsInjective(sleep_list')
        /\ Range(sleep_list') = Range(sleep_list) \cup {current}
        /\ \A i, j \in 1..Len(sleep_list') :
             i < j => remaining'[sleep_list'[i]] <= remaining'[sleep_list'[j]]
    BY <1>1, <2>1, SleepersInserted, Zenon
  <2>3. /\ remaining \in [Thread -> Nat] /\ sleep_list \in Seq(Thread)
        /\ \A t \in Thread : t \in Range(sleep_list) <=> status[t] = "BLOCKED"
        /\ \A t \in Thread : t \notin Range(sleep_list) => remaining[t] = 0
        /\ \A t \in Range(sleep_list) : remaining[t] > 0
    BY <1>1 DEF SleepInv, SleepListOK
  <2>4. \A t \in Range(sleep_list) : t \in Thread
    BY <2>3, ElementsByIndex
  <2>5. /\ remaining' \in [Thread -> Nat] /\ remaining'[current] = n
        /\ \A t \in Thread : t # current => remaining'[t] = remaining[t]
    BY <1>1, <2>3
  <2>6. \A t \in Range(sleep_list') : remaining'[t] > 0
    BY <1>1, <2>2, <2>3, <2>4, <2>5
  <2>7. \A t \in Thread : t \notin Range(sleep_list') => remaining'[t] = 0
    BY <2>2, <2>3, <2>5
  <2>8. \A t \in Thread : t \in Range(sleep_list') <=> status'[t] = "BLOCKED"
    BY <1>6, <2>2, <2>3
  <2> QED BY <2>2, <2>5, <2>6, <2>7, <2>8, Zenon DEF SleepListOK
<1>9. ReadyOK(current, ready_list, status)'
  BY <1>5 DEF Outcome
<1>10. SliceOK'
  <2>1. thread_ticks' \in 0..(TIME_SLICE - 1) /\ TIME_SLICE \in Nat
    BY <1>5 DEF Outcome
  <2> QED BY <2>1 DEF SliceOK
<1> QED BY <1>7, <1>8, <1>9, <1>10 DEF SleepInv

\* A woken thread finds its sleep_mutex at 1 and goes on (sema_down).
LEMMA ResumeStep ==
  ASSUME SleepInv, Call(Resume)
  PROVE  SleepInv'
<1> USE SchedulerAssumption, SynchAssumption, TimerAssumption
<1>1. /\ ~in_external_intr /\ current \in Thread /\ wait[current] # NULL
      /\ TestValue(wait[current], priority)
      /\ UNCHANGED <<sleep_list, remaining, intrVars>>
  BY DEF Call, Resume
<1>2. /\ current # NULL /\ current \in Sema /\ wait[current] = current
      /\ status[current] = "RUNNING" /\ ReadyOK(current, ready_list, status)
      /\ value[current] = 1
  BY <1>1, Zenon DEF SleepInv, SleepMutexOK, ReadyOK, Sema, AnyThread
<1>3. /\ value' = [value EXCEPT ![current] = 0] /\ waiters' = waiters
      /\ wait' = [wait EXCEPT ![current] = NULL]
      /\ Continue(ready_list, status)
  <2>1. ~(value[current] = 0) /\ value[current] - 1 = 0
    BY <1>2
  <2> QED BY <1>1, <1>2, <2>1 DEF TestValue
<1>4. UNCHANGED <<ready_list, status, current, thread_ticks>>
  BY <1>3 DEF Continue
<1>5. SleepMutexOK'
  <2>1. /\ value \in [Sema -> Nat] /\ waiters \in [Sema -> Seq(Thread)]
        /\ wait \in [Thread -> Sema \cup {NULL}]
        /\ \A t \in Thread : t \in Sema
    BY DEF SleepInv, SleepMutexOK, Sema
  <2>2. /\ value' \in [Sema -> Nat]
        /\ wait' \in [Thread -> Sema \cup {NULL}]
    BY <1>2, <1>3, <2>1, Zenon
  <2>3. ASSUME NEW t \in Thread, t # current
        PROVE  wait'[t] = wait[t] /\ value'[t] = value[t]
    BY <1>3, <2>1, <2>3
  <2>4. wait'[current] = NULL /\ value'[current] = 0
    BY <1>1, <1>2, <1>3, <2>1
  <2> QED BY <1>1, <1>2, <1>3, <1>4, <2>1, <2>2, <2>3, <2>4
       DEF SleepInv, SleepMutexOK
<1>6. SleepListOK'
  BY <1>1, <1>4, SleepersKept DEF SleepInv, intrVars
<1>7. ReadyOK(current, ready_list, status)' /\ SliceOK'
  BY <1>1, <1>2, <1>4 DEF SleepInv, SliceOK, intrVars
<1> QED BY <1>5, <1>6, <1>7 DEF SleepInv
-----------------------------------------------------------------------------
\* A tick brings every wake-up time closer by the same amount, so it does not
\* change their order (timer_interrupt).
LEMMA EnterStep ==
  ASSUME SleepInv, IntrEnter
  PROVE  SleepInv'
<1> USE SchedulerAssumption, SynchAssumption, TimerAssumption
<1>1. /\ ~in_external_intr /\ in_external_intr' = TRUE
      /\ yield_on_return' = (thread_ticks + 1 >= TIME_SLICE)
      /\ thread_ticks' = thread_ticks + 1
      /\ remaining' = [t \in Thread |-> IF remaining[t] = 0 THEN 0
                                        ELSE remaining[t] - 1]
      /\ UNCHANGED <<current, status, ready_list, value, waiters, wait,
                     sleep_list>>
  BY DEF IntrEnter, synchVars
<1>2. SliceOK'
  <2>1. thread_ticks \in 0..(TIME_SLICE - 1) /\ TIME_SLICE \in Nat
    BY <1>1 DEF SleepInv, SliceOK
  <2>2. thread_ticks' \in 0..TIME_SLICE
    BY <1>1, <2>1
  <2>3. ~yield_on_return' => thread_ticks' \in 0..(TIME_SLICE - 1)
    <3>1. ~yield_on_return' => ~(thread_ticks + 1 >= TIME_SLICE)
      BY <1>1, Zenon
    <3>2. ~(thread_ticks + 1 >= TIME_SLICE)
            => thread_ticks' \in 0..(TIME_SLICE - 1)
      BY <1>1, <2>1
    <3> QED BY <3>1, <3>2, Zenon
  <2> QED BY <1>1, <2>2, <2>3 DEF SliceOK
<1>3. SleepListOK'
  <2>1. /\ remaining \in [Thread -> Nat] /\ sleep_list \in Seq(Thread)
        /\ \A i \in 1..Len(sleep_list) : sleep_list[i] \in Thread
        /\ \A i, j \in 1..Len(sleep_list) :
             i < j => remaining[sleep_list[i]] <= remaining[sleep_list[j]]
        /\ \A t \in Thread : t \notin Range(sleep_list) => remaining[t] = 0
    BY DEF SleepInv, SleepListOK
  <2>2. \A t \in Thread :
          /\ remaining[t] \in Nat /\ remaining'[t] \in Nat
          /\ remaining'[t] = IF remaining[t] = 0 THEN 0 ELSE remaining[t] - 1
    BY <1>1, <2>1
  <2>3. ASSUME NEW i \in 1..Len(sleep_list), NEW j \in 1..Len(sleep_list), i < j
        PROVE  remaining'[sleep_list[i]] <= remaining'[sleep_list[j]]
    <3>1. /\ sleep_list[i] \in Thread /\ sleep_list[j] \in Thread
          /\ remaining[sleep_list[i]] <= remaining[sleep_list[j]]
      BY <2>1, <2>3
    <3> DEFINE x == remaining[sleep_list[i]]
               y == remaining[sleep_list[j]]
    <3>2. /\ x \in Nat /\ y \in Nat
          /\ remaining'[sleep_list[i]] = IF x = 0 THEN 0 ELSE x - 1
          /\ remaining'[sleep_list[j]] = IF y = 0 THEN 0 ELSE y - 1
      BY <2>2, <3>1, Zenon
    <3>3. x <= y
      BY <3>1
    <3> HIDE DEF x, y
    <3> QED BY <3>2, <3>3
  <2>4. remaining' \in [Thread -> Nat]
    BY <1>1, <2>2
  <2>5. \A t \in Thread : t \notin Range(sleep_list) => remaining'[t] = 0
    BY <2>1, <2>2
  <2> QED BY <1>1, <2>3, <2>4, <2>5 DEF SleepInv, SleepListOK
<1>4. SleepMutexOK'
  BY <1>1, MutexKept DEF SleepInv
<1>5. ReadyOK(current, ready_list, status)'
  BY <1>1 DEF SleepInv, ReadyOK, QueueOK
<1> QED BY <1>2, <1>3, <1>4, <1>5 DEF SleepInv

\* What one turn of timer_interrupt's loop does: the front of sleep_list, the
\* only waiter of its sleep_mutex, becomes READY.
LEMMA WakeEffect ==
  ASSUME SleepInv, WakeSleeper
  PROVE  LET h == Head(sleep_list)
         IN  /\ sleep_list # <<>> /\ h \in Thread /\ h \in Range(sleep_list)
             /\ status[h] = "BLOCKED" /\ remaining[h] = 0
             /\ sleep_list' = Tail(sleep_list)
             /\ value' = [value EXCEPT ![h] = @ + 1]
             /\ waiters' = [waiters EXCEPT ![h] = <<>>]
             /\ ready_list' = InsertOrdered(ready_list, h, priority)
             /\ status' = [u \in AnyThread |-> IF u = h THEN "READY"
                                               ELSE status[u]]
             /\ RequestYield(ready_list')
             /\ UNCHANGED <<current, thread_ticks, wait, remaining,
                            in_external_intr, priority, creating>>
<1> DEFINE h == Head(sleep_list)
<1>1. /\ sleep_list # <<>> /\ sleep_list \in Seq(Thread)
      /\ remaining[h] <= 0 /\ remaining \in [Thread -> Nat]
  BY DEF WakeSleeper, FrontIsDue, SleepInv, SleepListOK
<1>2. h \in Thread /\ h \in Range(sleep_list)
  BY <1>1, PopFrontProps
<1>3. status[h] = "BLOCKED" /\ remaining[h] = 0 /\ waiters[h] = <<h>>
  <2> HIDE DEF h
  <2>1. status[h] = "BLOCKED"
    BY <1>2 DEF SleepInv, SleepListOK
  <2>2. remaining[h] = 0
    BY <1>1, <1>2
  <2>3. waiters[h] = <<h>>
    BY <1>2, <2>1, Zenon DEF SleepInv, SleepMutexOK
  <2> QED BY <2>1, <2>2, <2>3
<1>4. PICK sorted \in ListSort(waiters[h], priority) :
        LET woken == {Head(w) : w \in {sorted} \ {<<>>}}
            rl == IF woken = {} THEN ready_list
                  ELSE InsertOrdered(ready_list, Head(sorted), priority)
        IN  /\ waiters' = [waiters EXCEPT ![h] = SubSeq(sorted, 2, Len(sorted))]
            /\ ready_list' = rl
            /\ status' = [u \in AnyThread |-> IF u \in woken THEN "READY"
                                              ELSE status[u]]
            /\ RequestYield(rl)
  BY Zenon DEF WakeSleeper
<1>5. sorted = <<h>>
  BY <1>2, <1>3, SortSingleton
<1>6. /\ SubSeq(sorted, 2, Len(sorted)) = <<>> /\ Head(sorted) = h
      /\ {Head(w) : w \in {sorted} \ {<<>>}} = {h}
  BY <1>5
<1>7. /\ waiters' = [waiters EXCEPT ![h] = <<>>]
      /\ ready_list' = InsertOrdered(ready_list, h, priority)
      /\ status' = [u \in AnyThread |-> IF u = h THEN "READY" ELSE status[u]]
      /\ RequestYield(ready_list')
  BY <1>4, <1>6, Zenon
<1>8. /\ sleep_list' = Tail(sleep_list)
      /\ value' = [value EXCEPT ![h] = @ + 1]
      /\ UNCHANGED <<current, thread_ticks, wait, remaining, in_external_intr,
                     priority, creating>>
  BY DEF WakeSleeper
<1> QED BY <1>1, <1>2, <1>3, <1>7, <1>8

\* One turn of timer_interrupt's loop keeps the invariant.
LEMMA WakeStep ==
  ASSUME SleepInv, WakeSleeper
  PROVE  SleepInv'
<1> USE SchedulerAssumption, SynchAssumption, TimerAssumption
<1> DEFINE h == Head(sleep_list)
<1>1. /\ sleep_list # <<>> /\ h \in Thread /\ h \in Range(sleep_list)
      /\ status[h] = "BLOCKED" /\ remaining[h] = 0
      /\ sleep_list' = Tail(sleep_list)
      /\ value' = [value EXCEPT ![h] = @ + 1]
      /\ waiters' = [waiters EXCEPT ![h] = <<>>]
      /\ ready_list' = InsertOrdered(ready_list, h, priority)
      /\ status' = [u \in AnyThread |-> IF u = h THEN "READY" ELSE status[u]]
      /\ yield_on_return => yield_on_return'
      /\ UNCHANGED <<current, thread_ticks, wait, remaining, in_external_intr>>
      /\ in_external_intr
  BY WakeEffect, Zenon DEF WakeSleeper, RequestYield
<1>2. /\ IsInjective(sleep_list) /\ sleep_list \in Seq(Thread)
      /\ \A i, j \in 1..Len(sleep_list) :
           i < j => remaining[sleep_list[i]] <= remaining[sleep_list[j]]
      /\ \A t \in Thread : t \in Range(sleep_list) <=> status[t] = "BLOCKED"
      /\ \A t \in Thread : t \notin Range(sleep_list) => remaining[t] = 0
      /\ remaining \in [Thread -> Nat]
  BY DEF SleepInv, SleepListOK
<1>3. /\ Tail(sleep_list) \in Seq(Thread) /\ IsInjective(Tail(sleep_list))
      /\ Range(Tail(sleep_list)) = Range(sleep_list) \ {h}
  BY <1>1, <1>2, PopFrontProps
<1>4. /\ Len(Tail(sleep_list)) = Len(sleep_list) - 1
      /\ \A i \in 1..Len(Tail(sleep_list)) :
           i + 1 \in 1..Len(sleep_list) /\ Tail(sleep_list)[i] = sleep_list[i + 1]
  BY <1>1, <1>2
<1> HIDE DEF h
<1>5. /\ Thread \subseteq AnyThread /\ status \in [AnyThread -> Status]
      /\ ready_list \in Seq(Thread) /\ IsInjective(ready_list)
      /\ current \in AnyThread
      /\ \A t \in Thread : t \in Range(ready_list) <=> status[t] = "READY"
      /\ \A t \in AnyThread : status[t] = "RUNNING" <=> t = current
  BY DEF SleepInv, ReadyOK, QueueOK, AnyThread
<1>6. /\ status' \in [AnyThread -> Status] /\ status'[h] = "READY"
      /\ \A u \in AnyThread : u # h => status'[u] = status[u]
  BY <1>1, <1>5 DEF Status
<1>7. SleepListOK'
  <2>1. ASSUME NEW i \in 1..Len(sleep_list'), NEW j \in 1..Len(sleep_list'), i < j
        PROVE  remaining'[sleep_list'[i]] <= remaining'[sleep_list'[j]]
    <3>1. /\ i + 1 \in 1..Len(sleep_list) /\ j + 1 \in 1..Len(sleep_list)
          /\ sleep_list'[i] = sleep_list[i + 1]
          /\ sleep_list'[j] = sleep_list[j + 1]
      BY <1>1, <1>4
    <3>2. i + 1 < j + 1
      BY <1>4, <2>1
    <3>3. remaining[sleep_list[i + 1]] <= remaining[sleep_list[j + 1]]
      BY <1>2, <3>1, <3>2, Zenon
    <3> QED BY <1>1, <3>1, <3>3
  <2>2. \A t \in Thread : t \in Range(sleep_list') <=> status'[t] = "BLOCKED"
    BY <1>1, <1>2, <1>3, <1>5, <1>6
  <2>3. \A t \in Thread : t \notin Range(sleep_list') => remaining'[t] = 0
    BY <1>1, <1>2, <1>3
  <2> QED BY <1>1, <1>2, <1>3, <2>1, <2>2, <2>3 DEF SleepListOK
<1>8. SleepMutexOK'
  <2>1. /\ value \in [Sema -> Nat] /\ waiters \in [Sema -> Seq(Thread)]
        /\ wait \in [Thread -> Sema \cup {NULL}]
        /\ \A t \in Thread : t \in Sema
    BY DEF SleepInv, SleepMutexOK, Sema
  <2>2. wait[h] = h /\ value[h] = 0
    BY <1>1, Zenon DEF SleepInv, SleepMutexOK
  <2>3. /\ value' \in [Sema -> Nat] /\ waiters' \in [Sema -> Seq(Thread)]
        /\ wait' \in [Thread -> Sema \cup {NULL}]
    <3>1. h \in Sema /\ value[h] \in Nat
      BY <1>1, <2>1, Zenon
    <3>2. value[h] + 1 \in Nat /\ <<>> \in Seq(Thread)
      BY <3>1
    <3>3. value' \in [Sema -> Nat]
      BY <1>1, <2>1, <3>2, Zenon
    <3>4. waiters' \in [Sema -> Seq(Thread)]
      BY <1>1, <2>1, <3>2, Zenon
    <3> QED BY <1>1, <2>1, <3>3, <3>4, Zenon
  <2>4. ASSUME NEW t \in Thread, t # h
        PROVE  /\ value'[t] = value[t] /\ waiters'[t] = waiters[t]
               /\ wait'[t] = wait[t] /\ status'[t] = status[t]
    BY <1>1, <1>5, <1>6, <2>1, <2>4
  <2>5. /\ value'[h] = 1 /\ waiters'[h] = <<>> /\ wait'[h] = h
        /\ status'[h] # "BLOCKED"
    BY <1>1, <1>6, <2>1, <2>2
  <2> QED BY <2>3, <2>4, <2>5 DEF SleepInv, SleepMutexOK
<1>9. ReadyOK(current, ready_list, status)'
  <2>1. h \notin Range(ready_list) /\ h # current
    BY <1>1, <1>5
  <2>2. /\ ready_list' \in Seq(Thread) /\ IsInjective(ready_list')
        /\ Range(ready_list') = Range(ready_list) \cup {h}
    BY <1>1, <1>5, <2>1, InsertOrderedProps
  <2> QED BY <1>1, <1>5, <1>6, <2>1, <2>2 DEF ReadyOK, QueueOK
<1>10. SliceOK'
  BY <1>1 DEF SleepInv, SliceOK
<1> QED BY <1>7, <1>8, <1>9, <1>10 DEF SleepInv

\* The handler returns once the front, and so everybody, has time left.
LEMMA ReturnStep ==
  ASSUME SleepInv, IntrReturn
  PROVE  SleepInv'
<1> USE SchedulerAssumption, SynchAssumption, TimerAssumption
<1>1. /\ ~FrontIsDue /\ in_external_intr' = FALSE
      /\ UNCHANGED <<value, waiters, wait, sleep_list, remaining>>
      /\ \/ yield_on_return /\ ThreadYield(ready_list, status, priority)
         \/ ~yield_on_return /\ Continue(ready_list, status)
  BY DEF IntrReturn, synchVars
<1>2. ReadyOK(current, ready_list, status) /\ SliceOK
  BY DEF SleepInv
<1>3. Outcome(BlockedIn(status))
  <2>1. CASE ThreadYield(ready_list, status, priority)
    BY <1>2, <2>1, YieldOutcome
  <2>2. CASE ~yield_on_return /\ Continue(ready_list, status)
    BY <1>2, <2>2, ContinueOutcome DEF SliceOK
  <2> QED BY <1>1, <2>1, <2>2
<1>4. \A t \in Thread : status'[t] = "BLOCKED" <=> status[t] = "BLOCKED"
  BY <1>3 DEF Outcome, BlockedIn
<1>5. SleepMutexOK'
  BY <1>1, <1>4, MutexKept DEF SleepInv
<1>6. \A t \in Range(sleep_list) : remaining[t] > 0
  <2> SUFFICES ASSUME NEW t \in Range(sleep_list) PROVE remaining[t] > 0
    OBVIOUS
  <2>1. /\ sleep_list \in Seq(Thread) /\ remaining \in [Thread -> Nat]
        /\ \A i, j \in 1..Len(sleep_list) :
             i < j => remaining[sleep_list[i]] <= remaining[sleep_list[j]]
    BY DEF SleepInv, SleepListOK
  <2>2. PICK i \in 1..Len(sleep_list) : sleep_list[i] = t
    BY <2>1, ElementsByIndex
  <2>3. /\ sleep_list # <<>> /\ Head(sleep_list) = sleep_list[1]
        /\ 1 \in 1..Len(sleep_list) /\ sleep_list[1] \in Thread
        /\ sleep_list[i] \in Thread /\ (i = 1 \/ 1 < i)
    BY <2>1, <2>2
  <2>4. remaining[sleep_list[1]] > 0
    BY <1>1, <2>1, <2>3 DEF FrontIsDue
  <2>5. remaining[sleep_list[1]] <= remaining[sleep_list[i]]
    BY <2>1, <2>3
  <2> QED BY <2>1, <2>2, <2>3, <2>4, <2>5
<1>7. SleepListOK'
  BY <1>1, <1>4, <1>6 DEF SleepInv, SleepListOK
<1>8. ReadyOK(current, ready_list, status)'
  BY <1>3 DEF Outcome, ReadyOK, QueueOK
<1>9. SliceOK'
  <2>1. thread_ticks' \in 0..(TIME_SLICE - 1) /\ TIME_SLICE \in Nat
    BY <1>3 DEF Outcome
  <2> QED BY <2>1 DEF SliceOK
<1> QED BY <1>5, <1>7, <1>8, <1>9 DEF SleepInv

\* The other calls block and wake nobody.
LEMMA OtherCallStep ==
  ASSUME SleepInv,
         \/ Call(Yield) \/ Call(CreateReturn) \/ Call(IdleLoop)
         \/ \E t \in Thread, p \in CreatePriority : Call(Create(t, p))
         \/ \E p \in NewPriority : Call(SetPriority(p))
  PROVE  SleepInv'
<1> USE SchedulerAssumption
<1>1. /\ ~in_external_intr
      /\ UNCHANGED <<value, waiters, wait, sleep_list, remaining, intrVars>>
  BY DEF Call, Yield, CreateReturn, IdleLoop, Create, SetPriority, synchVars
<1>2. /\ ReadyOK(current, ready_list, status)
      /\ thread_ticks \in 0..(TIME_SLICE - 1)
  BY <1>1 DEF SleepInv, SliceOK
<1>3. CASE Yield
  BY <1>1, <1>2, <1>3, YieldOutcome, QuietCall DEF Yield
<1>4. CASE CreateReturn
  BY <1>1, <1>2, <1>4, PreemptionOutcome, QuietCall
     DEF CreateReturn, ThreadCreateReturn
<1>5. CASE IdleLoop
  <2>1. current = idle_thread /\ ThreadBlock(ready_list, status)
    BY <1>5 DEF IdleLoop, Idle
  <2>2. Outcome(BlockedIn(status) \cup ({current} \cap Thread))
    BY <1>2, <2>1, BlockOutcome
  <2>3. BlockedIn(status) \cup ({current} \cap Thread) = BlockedIn(status)
    BY <2>1
  <2> QED BY <1>1, <2>2, <2>3, QuietCall
<1>6. ASSUME NEW t \in Thread, NEW p, Create(t, p) PROVE SleepInv'
  <2> DEFINE pr == [priority EXCEPT ![t] = p]
  <2>1. /\ status[t] = "NONE"
        /\ Continue(InsertOrdered(ready_list, t, pr),
                    [status EXCEPT ![t] = "READY"])
    BY <1>6 DEF Create, ThreadCreate
  <2> HIDE DEF pr
  <2>2. Outcome(BlockedIn(status) \ {t})
    BY <1>2, <2>1, UnblockOutcome
  <2>3. BlockedIn(status) \ {t} = BlockedIn(status)
    BY <2>1 DEF BlockedIn
  <2> QED BY <1>1, <2>2, <2>3, QuietCall
<1>7. ASSUME NEW p, SetPriority(p) PROVE SleepInv'
  <2>1. PICK pr : CheckPreemption(ready_list, status, pr)
    BY <1>7 DEF SetPriority, ThreadSetPriority
  <2>2. Outcome(BlockedIn(status))
    BY <1>2, <2>1, PreemptionOutcome
  <2> QED BY <1>1, <2>2, QuietCall
<1> QED BY <1>3, <1>4, <1>5, <1>6, <1>7 DEF Call

\* Every step keeps the invariant.
LEMMA SleepInvNext == SleepInv /\ [TimerNext]_timerVars => SleepInv'
<1> SUFFICES ASSUME SleepInv, [TimerNext]_timerVars PROVE SleepInv'
  OBVIOUS
<1>1. CASE TimerNext
  BY <1>1, SleepStep, EnterStep, WakeStep, ReturnStep, ResumeStep,
     OtherCallStep, Zenon DEF TimerNext
<1>2. CASE UNCHANGED timerVars
  BY <1>2 DEF timerVars, vars, schedVars, synchVars, intrVars, SleepInv,
     ReadyOK, QueueOK, SliceOK, SleepMutexOK, SleepListOK
<1> QED BY <1>1, <1>2
-----------------------------------------------------------------------------
\* The invariant behind the two theorems: a thread's sleep_mutex, its status
\* and its place on sleep_list agree whenever it can be interrupted.
THEOREM SleepInvariant == TimerSpec => []SleepInv
BY SleepInvInit, SleepInvNext, PTL DEF TimerSpec

\* sleep_list always holds exactly the blocked threads, soonest first, and none
\* of them is overdue outside timer_interrupt (timer_sleep, timer_interrupt).
THEOREM SleepersStayInOrder == TimerSpec => []SleepersInOrder
<1>1. SleepInv => SleepersInOrder
  <2> SUFFICES ASSUME SleepInv PROVE SleepersInOrder
    OBVIOUS
  <2>1. sleep_list \in Seq(Thread) /\ remaining \in [Thread -> Nat]
    BY DEF SleepInv, SleepListOK
  <2>2. DOMAIN sleep_list = 1..Len(sleep_list)
    BY <2>1
  <2>3. /\ IsInjective(sleep_list)
        /\ \A i, j \in DOMAIN sleep_list :
             i < j => remaining[sleep_list[i]] <= remaining[sleep_list[j]]
        /\ \A t \in Thread : t \in Range(sleep_list) <=> status[t] = "BLOCKED"
    BY <2>2 DEF SleepInv, SleepListOK
  <2>4. ASSUME NEW t \in Thread, ~in_external_intr
        PROVE  t \in Range(sleep_list) <=> remaining[t] > 0
    <3>1. t \in Range(sleep_list) => remaining[t] > 0
      BY <2>4 DEF SleepInv, SleepListOK
    <3>2. t \notin Range(sleep_list) => remaining[t] = 0
      BY DEF SleepInv, SleepListOK
    <3>3. remaining[t] = 0 => ~(remaining[t] > 0)
      OBVIOUS
    <3> QED BY <3>1, <3>2, <3>3, Zenon
  <2> QED BY <2>3, <2>4, Zenon DEF SleepersInOrder
<1> QED BY <1>1, SleepInvariant, PTL

\* timer_sleep never returns early: a thread leaves sleep_list only when no
\* ticks remain, and is unblocked only from there (timer_interrupt).
THEOREM NobodyWokenEarly == TimerSpec => NoEarlyWakeup
<1> DEFINE OnTime ==
      \A t \in Thread :
        /\ t \in Range(sleep_list) /\ t \notin Range(sleep_list')
             => remaining[t] = 0
        /\ status[t] = "BLOCKED" /\ status'[t] # "BLOCKED"
             => t \in Range(sleep_list)
<1>1. SleepInv /\ [TimerNext]_timerVars => [OnTime]_timerVars
  <2> SUFFICES ASSUME SleepInv, TimerNext, NEW t \in Thread,
                      t \in Range(sleep_list), t \notin Range(sleep_list')
               PROVE  remaining[t] = 0
    BY Zenon DEF SleepInv, SleepListOK
  <2>1. CASE WakeSleeper
    <3>1. /\ sleep_list # <<>> /\ sleep_list' = Tail(sleep_list)
          /\ remaining[Head(sleep_list)] = 0
      BY <2>1, WakeEffect
    <3>2. sleep_list \in Seq(Thread) /\ IsInjective(sleep_list)
      BY DEF SleepInv, SleepListOK
    <3>3. Range(Tail(sleep_list)) = Range(sleep_list) \ {Head(sleep_list)}
      BY <3>1, <3>2, PopFrontProps
    <3> QED BY <3>1, <3>3
  <2>2. CASE \E n \in 1..MaxSleep : TimerSleep(n)
    <3>1. PICK n \in 1..MaxSleep : TimerSleep(n)
      BY <2>2
    <3>2. /\ current \in Thread /\ sleep_list \in Seq(Thread)
          /\ sleep_list' = SleepersWith(n)
      BY <3>1 DEF TimerSleep, Running, SleepInv, SleepListOK
    <3>3. Range(sleep_list') = Range(sleep_list) \cup {current}
      BY <3>2, InsertOrderedProps DEF SleepersWith
    <3> QED BY <3>3
  <2>3. CASE sleep_list' = sleep_list
    BY <2>3
  <2> QED BY <2>1, <2>2, <2>3 DEF TimerNext, IntrEnter, IntrReturn, Call
<1> QED BY <1>1, SleepInvariant, PTL DEF TimerSpec, NoEarlyWakeup
-----------------------------------------------------------------------------
\* The run queue is in the order of the priorities: only the current thread
\* and a new one change theirs.  The front of the queue may outrank the current
\* thread only in an interrupt handler that will yield.
RankInv ==
  /\ priority \in [AnyThread -> Priority]
  /\ IsOrdered(ready_list, priority)
  /\ ~in_external_intr \/ ~yield_on_return => HighestPriorityRuns

\* A section that leaves the queue ranked keeps the invariant.
LEMMA RankedGivesInv ==
  ASSUME priority' \in [AnyThread -> Priority],
         Ranked(current', ready_list', priority')
  PROVE  RankInv'
BY Zenon DEF Ranked, RankInv, HighestPriorityRuns

\* So does one that leaves the queue and the priorities alone.
LEMMA RankKept ==
  ASSUME RankInv, UNCHANGED <<current, ready_list, priority, creating>>,
         ~in_external_intr \/ ~yield_on_return
  PROVE  RankInv'
BY Zenon DEF RankInv, HighestPriorityRuns

\* A test of sema_down's loop blocks the current thread or changes nothing.
LEMMA TestRank ==
  ASSUME SleepInv, RankInv, ~in_external_intr, NEW s, TestValue(s, priority),
         UNCHANGED <<priority, creating>>
  PROVE  RankInv'
<1>1. CASE Continue(ready_list, status)
  <2>1. UNCHANGED <<current, ready_list, priority, creating>>
    BY <1>1, Zenon DEF Continue
  <2> QED BY <2>1, RankKept, Zenon
<1>2. CASE ThreadBlock(ready_list, status)
  <2>1. PICK st : Schedule(ready_list, st)
    BY <1>2, Zenon DEF ThreadBlock
  <2>2. ready_list \in Seq(Thread) /\ IsInjective(ready_list)
    BY Zenon DEF SleepInv, ReadyOK, QueueOK
  <2>3. priority \in [AnyThread -> Priority] /\ IsOrdered(ready_list, priority)
    BY Zenon DEF RankInv
  <2>4. Ranked(current', ready_list', priority)
    BY <2>1, <2>2, <2>3, ScheduleRank, Zenon
  <2>5. priority' = priority
    OBVIOUS
  <2> QED BY <2>3, <2>4, <2>5, RankedGivesInv, Zenon
<1> QED BY <1>1, <1>2, Zenon DEF TestValue

\* One turn of timer_interrupt's loop asks for a yield when the thread that it
\* wakes outranks the current one.
LEMMA WakeRank == ASSUME SleepInv, RankInv, WakeSleeper PROVE RankInv'
<1>1. PICK h \in Thread :
        /\ ready_list' = InsertOrdered(ready_list, h, priority)
        /\ RequestYield(ready_list')
        /\ UNCHANGED <<current, in_external_intr, priority, creating>>
  BY WakeEffect, Zenon
<1>2. ready_list \in Seq(Thread)
  BY Zenon DEF SleepInv, ReadyOK, QueueOK
<1>3. priority \in [AnyThread -> Priority] /\ IsOrdered(ready_list, priority)
  BY Zenon DEF RankInv
<1>4. ready_list' \in Seq(Thread) /\ ready_list' # <<>>
  <2>1. /\ InsertOrdered(ready_list, h, priority) \in Seq(Thread)
        /\ InsertOrdered(ready_list, h, priority) # <<>>
    BY <1>2, InsertOrderedProps
  <2> QED BY <1>1, <2>1, Zenon
<1>5. IsOrdered(ready_list', priority)
  <2>1. priority[h] \in Int /\ \A i \in 1..Len(ready_list) : priority[ready_list[i]] \in Int
    BY <1>2, <1>3, PrioritiesAreInts, Zenon
  <2> QED BY <1>1, <1>2, <1>3, <2>1, InsertKeepsOrder, Zenon
<1>6. ASSUME ~yield_on_return', current \in Thread, NEW t \in Range(ready_list')
      PROVE  priority[t] <= priority[current]
  <2>1. ~(priority[Head(ready_list')] > priority[current])
    BY <1>1, <1>4, <1>6, Zenon DEF RequestYield
  <2>2. \A i \in 1..Len(ready_list') : priority[ready_list'[i]] \in Int
    BY <1>3, <1>4, PrioritiesAreInts, Zenon
  <2>3. priority[t] <= priority[Head(ready_list')]
    BY <1>4, <1>5, <2>2, OrderedFront, Zenon
  <2>4. t \in Thread /\ Head(ready_list') \in Thread
    <3>1. \E i \in 1..Len(ready_list') : ready_list'[i] = t
      BY <1>4, ElementsByIndex, Zenon
    <3>2. Head(ready_list') \in Thread
      BY <1>4, PopFrontProps, Zenon
    <3> QED BY <1>4, <3>1, <3>2
  <2>5. priority[t] \in Int /\ priority[Head(ready_list')] \in Int /\ priority[current] \in Int
    BY <1>3, <1>4, <1>6, <2>4, PrioritiesAreInts, Zenon
  <2> QED BY <2>1, <2>3, <2>5
<1>7. in_external_intr'
  <2>1. in_external_intr
    BY Zenon DEF WakeSleeper
  <2> QED BY <1>1, <2>1, Zenon
<1> QED BY <1>1, <1>3, <1>5, <1>6, <1>7, Zenon DEF RankInv, HighestPriorityRuns

\* Every step keeps the ranks.
LEMMA RankNext == SleepInv /\ RankInv /\ [TimerNext]_timerVars => RankInv'
<1> SUFFICES ASSUME SleepInv, RankInv, [TimerNext]_timerVars PROVE RankInv'
  OBVIOUS
<1>0. /\ ReadyOK(current, ready_list, status) /\ ready_list \in Seq(Thread)
      /\ IsInjective(ready_list)
      /\ \A t \in Thread : t \in Range(ready_list) <=> status[t] = "READY"
      /\ \A t \in AnyThread : status[t] = "RUNNING" <=> t = current
      /\ priority \in [AnyThread -> Priority] /\ IsOrdered(ready_list, priority)
  BY Zenon DEF SleepInv, ReadyOK, QueueOK, RankInv
<1>r. \A u \in Range(ready_list) : u \in AnyThread
  <2>1. \A i \in 1..Len(ready_list) : ready_list[i] \in AnyThread
    BY <1>0 DEF AnyThread
  <2>2. \A u \in Range(ready_list) : \E i \in 1..Len(ready_list) : ready_list[i] = u
    BY <1>0, ElementsByIndex, Zenon
  <2> QED BY <2>1, <2>2, Zenon
<1>1. ASSUME NEW n \in 1..MaxSleep, TimerSleep(n) PROVE RankInv'
  BY <1>1, TestRank, Zenon DEF TimerSleep
<1>2. CASE Call(Resume)
  BY <1>2, TestRank, Zenon DEF Call, Resume
<1>3. CASE IntrEnter
  BY <1>3, RankKept, Zenon DEF IntrEnter
<1>4. CASE WakeSleeper
  BY <1>4, WakeRank, Zenon
<1>5. CASE IntrReturn
  <2>1. UNCHANGED <<priority, creating>>
    BY <1>5, Zenon DEF IntrReturn
  <2>2. CASE yield_on_return /\ ThreadYield(ready_list, status, priority)
    <3>1. Ranked(current', ready_list', priority)
      BY <1>0, <2>2, YieldRank, Zenon
    <3> QED BY <1>0, <2>1, <3>1, RankedGivesInv, Zenon
  <2>3. CASE ~yield_on_return /\ Continue(ready_list, status)
    BY <2>1, <2>3, RankKept, Zenon DEF Continue
  <2> QED BY <1>5, <2>2, <2>3, Zenon DEF IntrReturn
<1>6. CASE Call(Yield)
  <2>1. ThreadYield(ready_list, status, priority) /\ priority' = priority
    BY <1>6, Zenon DEF Call, Yield
  <2>2. Ranked(current', ready_list', priority)
    BY <1>0, <2>1, YieldRank, Zenon
  <2> QED BY <1>0, <2>1, <2>2, RankedGivesInv, Zenon
<1>7. CASE Call(CreateReturn)
  <2>1. CheckPreemption(ready_list, status, priority) /\ priority' = priority
    BY <1>7, Zenon DEF Call, CreateReturn, ThreadCreateReturn
  <2>2. Ranked(current', ready_list', priority)
    BY <1>0, <2>1, PreemptionRank, Zenon
  <2> QED BY <1>0, <2>1, <2>2, RankedGivesInv, Zenon
<1>8. CASE Call(IdleLoop)
  <2>1. priority' = priority /\ \E st : Schedule(ready_list, st)
    BY <1>8, Zenon DEF Call, IdleLoop, Idle, ThreadBlock
  <2>2. Ranked(current', ready_list', priority)
    BY <1>0, <2>1, ScheduleRank, Zenon
  <2> QED BY <1>0, <2>1, <2>2, RankedGivesInv, Zenon
<1>9. ASSUME NEW t \in Thread, NEW p \in CreatePriority, Call(Create(t, p))
      PROVE  RankInv'
  <2>1. /\ status[t] = "NONE" /\ priority' = [priority EXCEPT ![t] = p]
        /\ ready_list' = InsertOrdered(ready_list, t, priority')
        /\ creating' = creating \cup {current} /\ current' = current
    BY <1>9, Zenon DEF Call, Create, ThreadCreate, Continue
  <2>2. t \notin Range(ready_list) /\ t \in AnyThread /\ p \in Priority
    BY <1>0, <2>1, SynchAssumption DEF AnyThread
  <2>3. priority' \in [AnyThread -> Priority]
    BY <1>0, <2>1, <2>2
  <2>4. \A u \in Range(ready_list) : priority'[u] = priority[u]
    <3>1. \A u \in Range(ready_list) : u \in AnyThread /\ u # t
      BY <1>r, <2>2, Zenon
    <3> QED BY <1>0, <2>1, <3>1, Zenon
  <2>5. IsOrdered(ready_list, priority')
    BY <1>0, <2>4, SameOrder, Zenon
  <2>6. priority'[t] \in Int /\ \A i \in 1..Len(ready_list) : priority'[ready_list[i]] \in Int
    BY <1>0, <2>3, PrioritiesAreInts, Zenon
  <2>7. IsOrdered(ready_list', priority')
    BY <1>0, <2>1, <2>5, <2>6, InsertKeepsOrder, Zenon
  <2> QED BY <2>1, <2>3, <2>7, Zenon DEF RankInv, HighestPriorityRuns
<1>10. ASSUME NEW p \in NewPriority, Call(SetPriority(p)) PROVE RankInv'
  <2>1. /\ current \in Thread
        /\ priority' \in {priority, [priority EXCEPT ![current] = p]}
        /\ CheckPreemption(ready_list, status, priority')
    BY <1>10, Zenon DEF Call, SetPriority, Running, ThreadSetPriority
  <2>2. current \notin Range(ready_list) /\ p \in Priority /\ current \in AnyThread
    BY <1>0, <2>1, SynchAssumption DEF AnyThread
  <2>3. priority' \in [AnyThread -> Priority]
    BY <1>0, <2>1, <2>2
  <2>4. \A u \in Range(ready_list) : priority'[u] = priority[u]
    <3>1. \A u \in Range(ready_list) : u \in AnyThread /\ u # current
      BY <1>r, <2>2, Zenon
    <3> QED BY <1>0, <2>1, <3>1, Zenon
  <2>5. IsOrdered(ready_list, priority')
    BY <1>0, <2>4, SameOrder, Zenon
  <2>6. Ranked(current', ready_list', priority')
    BY <1>0, <2>1, <2>3, <2>5, PreemptionRank, Zenon
  <2> QED BY <2>3, <2>6, RankedGivesInv, Zenon
<1>11. CASE UNCHANGED timerVars
  BY <1>11, Zenon DEF timerVars, vars, schedVars, synchVars, intrVars, RankInv,
     HighestPriorityRuns
<1> QED BY <1>1, <1>2, <1>3, <1>4, <1>5, <1>6, <1>7, <1>8, <1>9, <1>10, <1>11,
           Zenon DEF TimerNext

\* For any number of threads and any priorities: outside the interrupt handler
\* a thread of the highest priority runs, unless it is about to yield in
\* thread_create (check_preemption, timer_interrupt, intr_handler).
THEOREM HighestAlwaysRuns == TimerSpec => []HighestRuns
<1>1. TimerInit => RankInv
  <2> HAVE TimerInit
  <2>1. PICK t \in Thread : SchedInit(t, PRI_DEFAULT)
    BY Zenon DEF TimerInit, Init
  <2>2. ready_list = <<>> /\ priority \in [AnyThread -> Priority]
    BY <2>1, SynchAssumption, SchedulerAssumption DEF SchedInit, Priority, PRI_MIN
  <2>3. IsOrdered(ready_list, priority) /\ Range(ready_list) = {}
    BY <2>2 DEF IsOrdered, Range
  <2> QED BY <2>2, <2>3, Zenon DEF RankInv, HighestPriorityRuns
<1>2. RankInv => HighestRuns
  BY Zenon DEF RankInv, HighestRuns
<1> QED BY <1>1, <1>2, RankNext, SleepInvariant, PTL DEF TimerSpec
=============================================================================
