---------------------------- MODULE Synch_proofs ----------------------------
(***************************************************************************)
(* Proofs about threads/thread.c and threads/synch.c for any number of     *)
(* threads, locks and semaphores and any priorities.  First, what the      *)
(* sections of thread.c do to the run queue and to the thread states,      *)
(* whatever they were called from.                                         *)
(***************************************************************************)
EXTENDS Synch, List_proofs, FiniteSetTheorems

\* The run queue holds the READY threads, each once.
QueueOK(rl, st) ==
  /\ rl \in Seq(Thread)
  /\ st \in [AnyThread -> Status]
  /\ IsInjective(rl)
  /\ \A t \in Thread : t \in Range(rl) <=> st[t] = "READY"

\* Besides, `cur' is the thread that is RUNNING.
ReadyOK(cur, rl, st) ==
  /\ QueueOK(rl, st)
  /\ cur \in AnyThread
  /\ \A t \in AnyThread : st[t] = "RUNNING" <=> t = cur

\* The state a section leaves, when Blocked are the BLOCKED threads, the idle
\* thread excepted.
Outcome(Blocked) ==
  /\ ReadyOK(current', ready_list', status')
  /\ thread_ticks' \in 0..(TIME_SLICE - 1)
  /\ \A t \in Thread : status'[t] = "BLOCKED" <=> t \in Blocked

BlockedIn(st) == {t \in Thread : st[t] = "BLOCKED"}

\* schedule () makes the front of the run queue, or idle, the one RUNNING
\* thread.  Its caller has given the RUNNING state up.
LEMMA ScheduleOutcome ==
  ASSUME NEW rl, NEW st, QueueOK(rl, st),
         \A t \in AnyThread : st[t] # "RUNNING",
         Schedule(rl, st)
  PROVE  Outcome(BlockedIn(st))
<1> DEFINE next == IF rl = <<>> THEN idle_thread ELSE Head(rl)
<1>1. /\ rl \in Seq(Thread) /\ st \in [AnyThread -> Status] /\ IsInjective(rl)
      /\ \A t \in Thread : t \in Range(rl) <=> st[t] = "READY"
  BY DEF QueueOK
<1>2. /\ current' = next
      /\ ready_list' = IF rl = <<>> THEN rl ELSE Tail(rl)
      /\ status' = [st EXCEPT ![next] = "RUNNING"]
      /\ thread_ticks' = 0
  BY DEF Schedule
<1>3. thread_ticks' \in 0..(TIME_SLICE - 1)
  BY <1>2, SchedulerAssumption
<1>4. idle_thread \notin Thread /\ idle_thread \in AnyThread
      /\ Thread \subseteq AnyThread
  BY SchedulerAssumption DEF AnyThread
<1>5. "RUNNING" \in Status
  BY DEF Status
<1>6. CASE rl = <<>>
  <2>1. \A t \in Thread : st[t] # "READY"
    <3>1. \A t : t \notin Range(rl)
      BY <1>6 DEF Range
    <3> QED BY <1>1, <3>1
  <2>2. /\ current' = idle_thread /\ ready_list' = rl
        /\ status' = [st EXCEPT ![idle_thread] = "RUNNING"]
    BY <1>2, <1>6
  <2>3. status' \in [AnyThread -> Status]
    BY <1>1, <1>4, <1>5, <2>2
  <2>4. /\ \A t \in Thread : status'[t] = st[t]
        /\ \A t \in AnyThread : status'[t] = "RUNNING" <=> t = idle_thread
    BY <1>1, <1>4, <2>2
  <2> QED BY <1>1, <1>3, <1>4, <2>2, <2>3, <2>4
          DEF Outcome, ReadyOK, QueueOK, BlockedIn
<1>7. CASE rl # <<>>
  <2>1. /\ Head(rl) \in Thread /\ Tail(rl) \in Seq(Thread)
        /\ Head(rl) \in Range(rl)
        /\ Range(Tail(rl)) = Range(rl) \ {Head(rl)} /\ IsInjective(Tail(rl))
    BY <1>1, <1>7, PopFrontProps
  <2>2. /\ current' = Head(rl) /\ ready_list' = Tail(rl)
        /\ status' = [st EXCEPT ![Head(rl)] = "RUNNING"]
    BY <1>2, <1>7
  <2>3. status' \in [AnyThread -> Status]
    BY <1>1, <1>4, <1>5, <2>1, <2>2
  <2>4. /\ \A t \in AnyThread : t # Head(rl) => status'[t] = st[t]
        /\ status'[Head(rl)] = "RUNNING" /\ st[Head(rl)] = "READY"
    BY <1>1, <1>4, <2>1, <2>2
  <2>5. \A t \in Thread : t \in Range(Tail(rl)) <=> status'[t] = "READY"
    BY <1>1, <1>4, <2>1, <2>4
  <2>6. \A t \in AnyThread : status'[t] = "RUNNING" <=> t = Head(rl)
    BY <2>4
  <2>7. \A t \in Thread : status'[t] = "BLOCKED" <=> st[t] = "BLOCKED"
    BY <1>4, <2>4
  <2>8. ReadyOK(current', ready_list', status')
    BY <1>4, <2>1, <2>2, <2>3, <2>5, <2>6 DEF ReadyOK, QueueOK
  <2> QED BY <1>3, <2>7, <2>8 DEF Outcome, BlockedIn
<1> QED BY <1>6, <1>7

\* A section without a thread switch.
LEMMA ContinueOutcome ==
  ASSUME NEW rl, NEW st, ReadyOK(current, rl, st),
         thread_ticks \in 0..(TIME_SLICE - 1),
         Continue(rl, st)
  PROVE  Outcome(BlockedIn(st))
BY DEF Continue, Outcome, BlockedIn

\* thread_block adds the running thread to the BLOCKED ones.
LEMMA BlockOutcome ==
  ASSUME NEW rl, NEW st, ReadyOK(current, rl, st), ThreadBlock(rl, st)
  PROVE  Outcome(BlockedIn(st) \cup ({current} \cap Thread))
<1> DEFINE st1 == [st EXCEPT ![current] = "BLOCKED"]
<1>1. /\ rl \in Seq(Thread) /\ st \in [AnyThread -> Status] /\ IsInjective(rl)
      /\ \A t \in Thread : t \in Range(rl) <=> st[t] = "READY"
      /\ current \in AnyThread
      /\ \A t \in AnyThread : st[t] = "RUNNING" <=> t = current
  BY DEF ReadyOK, QueueOK
<1>2. /\ st1 \in [AnyThread -> Status]
      /\ st1[current] = "BLOCKED"
      /\ \A t \in AnyThread : t # current => st1[t] = st[t]
  BY <1>1 DEF Status
<1>3. Schedule(rl, st1)
  BY DEF ThreadBlock
<1> HIDE DEF st1
<1>4. Thread \subseteq AnyThread
  BY DEF AnyThread
<1>5. QueueOK(rl, st1) /\ \A t \in AnyThread : st1[t] # "RUNNING"
  BY <1>1, <1>2, <1>4 DEF QueueOK
<1>6. Outcome(BlockedIn(st1))
  BY <1>3, <1>5, ScheduleOutcome
<1>7. BlockedIn(st1) = BlockedIn(st) \cup ({current} \cap Thread)
  BY <1>2, <1>4 DEF BlockedIn
<1> QED BY <1>6, <1>7

\* thread_yield leaves the BLOCKED threads alone.
LEMMA YieldOutcome ==
  ASSUME NEW rl, NEW st, NEW prio, ReadyOK(current, rl, st),
         ThreadYield(rl, st, prio)
  PROVE  Outcome(BlockedIn(st))
<1> DEFINE st1 == [st EXCEPT ![current] = "READY"]
           rl1 == IF current = idle_thread THEN rl
                  ELSE InsertOrdered(rl, current, prio)
<1>1. /\ rl \in Seq(Thread) /\ st \in [AnyThread -> Status] /\ IsInjective(rl)
      /\ \A t \in Thread : t \in Range(rl) <=> st[t] = "READY"
      /\ current \in AnyThread
      /\ \A t \in AnyThread : st[t] = "RUNNING" <=> t = current
  BY DEF ReadyOK, QueueOK
<1>2. /\ st1 \in [AnyThread -> Status]
      /\ st1[current] = "READY"
      /\ \A t \in AnyThread : t # current => st1[t] = st[t]
  BY <1>1 DEF Status
<1>3. Schedule(rl1, st1)
  BY DEF ThreadYield
<1>4. Thread \subseteq AnyThread /\ idle_thread \notin Thread
      /\ \A t \in AnyThread : t # idle_thread => t \in Thread
  BY SchedulerAssumption DEF AnyThread
<1>5. QueueOK(rl1, st1)
  <2>1. CASE current = idle_thread
    <3>1. rl1 = rl
      BY <2>1
    <3> HIDE DEF st1, rl1
    <3> QED BY <1>1, <1>2, <1>4, <2>1, <3>1 DEF QueueOK
  <2>2. CASE current # idle_thread
    <3>1. rl1 = InsertOrdered(rl, current, prio) /\ current \in Thread
      BY <1>1, <1>4, <2>2
    <3>2. current \notin Range(rl)
      BY <1>1, <1>4, <3>1
    <3> HIDE DEF st1, rl1
    <3>3. /\ rl1 \in Seq(Thread) /\ IsInjective(rl1)
          /\ Range(rl1) = Range(rl) \cup {current}
      BY <1>1, <3>1, <3>2, InsertOrderedProps
    <3> QED BY <1>1, <1>2, <1>4, <3>1, <3>3 DEF QueueOK
  <2> QED BY <2>1, <2>2
<1> HIDE DEF st1, rl1
<1>6. \A t \in AnyThread : st1[t] # "RUNNING"
  BY <1>1, <1>2
<1>7. Outcome(BlockedIn(st1))
  BY <1>3, <1>5, <1>6, ScheduleOutcome
<1>8. BlockedIn(st1) = BlockedIn(st)
  BY <1>1, <1>2, <1>4 DEF BlockedIn
<1> QED BY <1>7, <1>8

\* check_preemption yields or does nothing.
LEMMA PreemptionOutcome ==
  ASSUME NEW rl, NEW st, NEW prio, ReadyOK(current, rl, st),
         thread_ticks \in 0..(TIME_SLICE - 1),
         CheckPreemption(rl, st, prio)
  PROVE  Outcome(BlockedIn(st))
<1>1. ThreadYield(rl, st, prio) \/ Continue(rl, st)
  BY DEF CheckPreemption
<1> QED BY <1>1, YieldOutcome, ContinueOutcome

\* thread_unblock, with or without check_preemption, makes one thread READY.
LEMMA UnblockOutcome ==
  ASSUME NEW t \in Thread, NEW rl, NEW st, NEW prio, ReadyOK(current, rl, st),
         st[t] \notin {"READY", "RUNNING"},
         thread_ticks \in 0..(TIME_SLICE - 1),
         \/ UnblockAndCheck(t, rl, st, prio)
         \/ Continue(InsertOrdered(rl, t, prio), [st EXCEPT ![t] = "READY"])
  PROVE  Outcome(BlockedIn(st) \ {t})
<1> DEFINE st1 == [st EXCEPT ![t] = "READY"]
           rl1 == InsertOrdered(rl, t, prio)
<1>1. /\ rl \in Seq(Thread) /\ st \in [AnyThread -> Status] /\ IsInjective(rl)
      /\ \A u \in Thread : u \in Range(rl) <=> st[u] = "READY"
      /\ current \in AnyThread
      /\ \A u \in AnyThread : st[u] = "RUNNING" <=> u = current
  BY DEF ReadyOK, QueueOK
<1>2. Thread \subseteq AnyThread
  BY DEF AnyThread
<1>3. /\ st1 \in [AnyThread -> Status]
      /\ st1[t] = "READY"
      /\ \A u \in AnyThread : u # t => st1[u] = st[u]
  BY <1>1, <1>2 DEF Status
<1>4. CheckPreemption(rl1, st1, prio) \/ Continue(rl1, st1)
  BY DEF UnblockAndCheck
<1>5. /\ rl1 \in Seq(Thread) /\ IsInjective(rl1)
      /\ Range(rl1) = Range(rl) \cup {t}
  BY <1>1, InsertOrderedProps
<1> HIDE DEF st1, rl1
<1>6. ReadyOK(current, rl1, st1)
  BY <1>1, <1>2, <1>3, <1>5 DEF ReadyOK, QueueOK
<1>7. Outcome(BlockedIn(st1))
  BY <1>4, <1>6, PreemptionOutcome, ContinueOutcome
<1>8. BlockedIn(st1) = BlockedIn(st) \ {t}
  BY <1>2, <1>3 DEF BlockedIn
<1> QED BY <1>7, <1>8
-----------------------------------------------------------------------------
\* The run queue is in the order of the priorities, and no thread on it comes
\* before `cur'.
Ranked(cur, rl, prio) ==
  /\ IsOrdered(rl, prio)
  /\ cur \in Thread => \A t \in Range(rl) : prio[t] <= prio[cur]

\* The keys of the run queue are integers.
LEMMA PrioritiesAreInts ==
  ASSUME NEW rl \in Seq(Thread), NEW prio \in [AnyThread -> Priority]
  PROVE  /\ \A i \in 1..Len(rl) : prio[rl[i]] \in Int
         /\ \A t \in Thread : prio[t] \in Int
<1>1. \A t \in Thread : prio[t] \in Int
  BY SchedulerAssumption DEF AnyThread, Priority, PRI_MIN
<1>2. \A i \in 1..Len(rl) : rl[i] \in Thread
  OBVIOUS
<1> QED BY <1>1, <1>2, Zenon

\* schedule () picks a thread of the highest priority from an ordered queue.
LEMMA ScheduleRank ==
  ASSUME NEW rl \in Seq(Thread), NEW st, NEW prio \in [AnyThread -> Priority],
         IsInjective(rl), IsOrdered(rl, prio), Schedule(rl, st)
  PROVE  Ranked(current', ready_list', prio)
<1>1. CASE rl = <<>>
  <2>1. current' = idle_thread /\ ready_list' = rl
    BY <1>1, Zenon DEF Schedule
  <2> QED BY <2>1, SchedulerAssumption, Zenon DEF Ranked
<1>2. CASE rl # <<>>
  <2>1. current' = Head(rl) /\ ready_list' = Tail(rl)
    BY <1>2, Zenon DEF Schedule
  <2>2. \A i \in 1..Len(rl) : prio[rl[i]] \in Int
    BY PrioritiesAreInts, Zenon
  <2>3. IsOrdered(Tail(rl), prio) /\ \A x \in Range(rl) : prio[x] <= prio[Head(rl)]
    BY <1>2, <2>2, OrderedFront, Zenon
  <2>4. Range(Tail(rl)) = Range(rl) \ {Head(rl)}
    BY <1>2, PopFrontProps, Zenon
  <2> QED BY <2>1, <2>3, <2>4, Zenon DEF Ranked
<1> QED BY <1>1, <1>2, Zenon

\* So does thread_yield.
LEMMA YieldRank ==
  ASSUME NEW rl, NEW st, NEW prio \in [AnyThread -> Priority],
         ReadyOK(current, rl, st), IsOrdered(rl, prio), ThreadYield(rl, st, prio)
  PROVE  Ranked(current', ready_list', prio)
<1>1. /\ rl \in Seq(Thread) /\ IsInjective(rl) /\ current \in AnyThread
      /\ \A t \in Thread : t \in Range(rl) <=> st[t] = "READY"
      /\ \A t \in AnyThread : st[t] = "RUNNING" <=> t = current
  BY Zenon DEF ReadyOK, QueueOK
<1>2. PICK st1 : Schedule(IF current = idle_thread THEN rl
                          ELSE InsertOrdered(rl, current, prio), st1)
  BY Zenon DEF ThreadYield
<1>3. CASE current = idle_thread
  <2>1. Schedule(rl, st1)
    BY <1>2, <1>3, Zenon
  <2> QED BY <1>1, <2>1, ScheduleRank, Zenon
<1>4. CASE current # idle_thread
  <2>1. current \in Thread /\ Schedule(InsertOrdered(rl, current, prio), st1)
    BY <1>1, <1>2, <1>4, Zenon DEF AnyThread
  <2>2. current \notin Range(rl)
    <3>1. st[current] = "RUNNING"
      BY <1>1, Zenon
    <3> QED BY <1>1, <2>1, <3>1
  <2>3. /\ InsertOrdered(rl, current, prio) \in Seq(Thread)
        /\ IsInjective(InsertOrdered(rl, current, prio))
    BY <1>1, <2>1, <2>2, InsertOrderedProps, Zenon
  <2>4. prio[current] \in Int /\ \A i \in 1..Len(rl) : prio[rl[i]] \in Int
    BY <1>1, <2>1, PrioritiesAreInts, Zenon
  <2>5. IsOrdered(InsertOrdered(rl, current, prio), prio)
    BY <1>1, <2>1, <2>4, InsertKeepsOrder, Zenon
  <2> QED BY <2>1, <2>3, <2>5, ScheduleRank, Zenon
<1> QED BY <1>3, <1>4, Zenon

\* check_preemption looks at the front only, which is enough.
LEMMA PreemptionRank ==
  ASSUME NEW rl, NEW st, NEW prio \in [AnyThread -> Priority],
         ReadyOK(current, rl, st), IsOrdered(rl, prio),
         CheckPreemption(rl, st, prio)
  PROVE  Ranked(current', ready_list', prio)
<1>1. CASE rl # <<>> /\ prio[Head(rl)] > prio[current]
  BY <1>1, YieldRank, Zenon DEF CheckPreemption
<1>2. CASE ~(rl # <<>> /\ prio[Head(rl)] > prio[current])
  <2>1. current' = current /\ ready_list' = rl
    BY <1>2, Zenon DEF CheckPreemption, Continue
  <2>2. ASSUME current \in Thread, NEW t \in Range(rl) PROVE prio[t] <= prio[current]
    <3>1. rl \in Seq(Thread)
      BY Zenon DEF ReadyOK, QueueOK
    <3>2. rl # <<>>
      <4>1. rl = <<>> => Range(rl) = {}
        BY DEF Range
      <4> QED BY <2>2, <4>1, Zenon
    <3>3. Head(rl) \in Thread /\ t \in Thread
      <4>1. \E i \in 1..Len(rl) : rl[i] = t
        BY <3>1, ElementsByIndex, Zenon
      <4> QED BY <3>1, <3>2, <4>1
    <3>4. \A i \in 1..Len(rl) : prio[rl[i]] \in Int
      BY <3>1, PrioritiesAreInts, Zenon
    <3>5. prio[t] <= prio[Head(rl)]
      BY <3>1, <3>2, <3>4, OrderedFront, Zenon
    <3>6. prio[t] \in Int /\ prio[Head(rl)] \in Int /\ prio[current] \in Int
      BY <2>2, <3>1, <3>3, PrioritiesAreInts, Zenon
    <3>7. ~(prio[Head(rl)] > prio[current])
      BY <1>2, <3>2, Zenon
    <3> QED BY <3>5, <3>6, <3>7
  <2> QED BY <2>1, <2>2, Zenon DEF Ranked
<1> QED BY <1>1, <1>2, Zenon
-----------------------------------------------------------------------------
(* Locks, semaphores and donation. *)

\* The part of ThreadsOnOneList about semaphores: wts[s] holds the threads of
\* Blocked that are downing s, each once.
WaitersOK(wts, wt, Blocked) ==
  \A s \in Sema :
    /\ IsInjective(wts[s])
    /\ \A t \in Thread : t \in Range(wts[s]) <=> t \in Blocked /\ wt[t] = s

\* The inductive invariant behind type correctness and ThreadsOnOneList.
ListInv ==
  /\ TypeOK
  /\ ReadyOK(current, ready_list, status)
  /\ WaitersOK(waiters, wait, BlockedIn(status))

\* What a step leaves of ListInv when it is about the scheduler and the
\* semaphores only.
ListStep ==
  /\ ReadyOK(current', ready_list', status')
  /\ thread_ticks' \in 0..(TIME_SLICE - 1)
  /\ WaitersOK(waiters', wait', BlockedIn(status'))
  /\ value' \in [Sema -> Nat]
  /\ waiters' \in [Sema -> Seq(Thread)]
  /\ wait' \in [Thread -> Sema \cup {NULL}]

\* The BLOCKED threads after a section are the ones its outcome names.
LEMMA OutcomeGivesStep ==
  ASSUME NEW Blocked \in SUBSET Thread, Outcome(Blocked)
  PROVE  /\ ReadyOK(current', ready_list', status')
         /\ thread_ticks' \in 0..(TIME_SLICE - 1)
         /\ BlockedIn(status') = Blocked
BY DEF Outcome, BlockedIn

\* A step that changes no semaphore and no waiting thread.
LEMMA QuietStep ==
  ASSUME ListInv, Outcome(BlockedIn(status)), UNCHANGED <<value, waiters, wait>>
  PROVE  ListStep
<1>1. BlockedIn(status) \in SUBSET Thread
  BY DEF BlockedIn
<1> QED BY <1>1, OutcomeGivesStep DEF ListStep, ListInv, TypeOK, SynchTypeOK

\* A test of sema_down's loop leaves every thread on the list its state says.
LEMMA TestValueStep ==
  ASSUME ListInv, current \in Thread, NEW s \in Sema, NEW prio,
         TestValue(s, prio)
  PROVE  /\ ListStep
         /\ holder' \in [Lock -> Thread \cup {NULL}]
<1>1. /\ value \in [Sema -> Nat] /\ waiters \in [Sema -> Seq(Thread)]
      /\ wait \in [Thread -> Sema \cup {NULL}]
      /\ holder \in [Lock -> Thread \cup {NULL}]
      /\ thread_ticks \in 0..(TIME_SLICE - 1)
  BY DEF ListInv, TypeOK, SchedTypeOK, SynchTypeOK
<1>2. ReadyOK(current, ready_list, status)
      /\ WaitersOK(waiters, wait, BlockedIn(status))
  BY DEF ListInv
<1>3. BlockedIn(status) \in SUBSET Thread /\ current \notin BlockedIn(status)
  <2>1. current \in AnyThread /\ status[current] = "RUNNING"
    BY <1>2 DEF ReadyOK
  <2> QED BY <2>1 DEF BlockedIn
<1>4. CASE /\ value[s] > 0
           /\ value' = [value EXCEPT ![s] = @ - 1]
           /\ wait' = [wait EXCEPT ![current] = NULL]
           /\ Acquired(s)
           /\ Continue(ready_list, status)
           /\ UNCHANGED waiters
  <2>1. Outcome(BlockedIn(status))
    BY <1>1, <1>2, <1>4, ContinueOutcome
  <2>2. /\ ReadyOK(current', ready_list', status')
        /\ thread_ticks' \in 0..(TIME_SLICE - 1)
        /\ BlockedIn(status') = BlockedIn(status)
    BY <1>3, <2>1, OutcomeGivesStep
  <2>3. /\ value' \in [Sema -> Nat] /\ waiters' \in [Sema -> Seq(Thread)]
        /\ wait' \in [Thread -> Sema \cup {NULL}]
    BY <1>1, <1>4
  <2>4. WaitersOK(waiters', wait', BlockedIn(status))
    BY <1>1, <1>2, <1>3, <1>4 DEF WaitersOK
  <2>5. holder' \in [Lock -> Thread \cup {NULL}]
    BY <1>1, <1>4 DEF Acquired
  <2> QED BY <2>2, <2>3, <2>4, <2>5 DEF ListStep
<1>5. CASE /\ value[s] = 0
           /\ wait' = [wait EXCEPT ![current] = s]
           /\ waiters' = [waiters EXCEPT ![s] = InsertOrdered(@, current, prio)]
           /\ ThreadBlock(ready_list, status)
           /\ UNCHANGED <<value, holder>>
  <2> DEFINE B == BlockedIn(status) \cup {current}
             w == InsertOrdered(waiters[s], current, prio)
  <2>1. Outcome(B) /\ B \in SUBSET Thread
    <3>1. {current} \cap Thread = {current}
      OBVIOUS
    <3>2. Outcome(BlockedIn(status) \cup ({current} \cap Thread))
      BY <1>2, <1>5, BlockOutcome
    <3> QED BY <1>3, <3>1, <3>2
  <2>2. /\ ReadyOK(current', ready_list', status')
        /\ thread_ticks' \in 0..(TIME_SLICE - 1)
        /\ BlockedIn(status') = B
    BY <2>1, OutcomeGivesStep
  <2>3. waiters[s] \in Seq(Thread) /\ IsInjective(waiters[s])
        /\ current \notin Range(waiters[s])
    BY <1>1, <1>2, <1>3 DEF WaitersOK
  <2>4. /\ w \in Seq(Thread) /\ IsInjective(w)
        /\ Range(w) = Range(waiters[s]) \cup {current}
    BY <2>3, InsertOrderedProps
  <2>5. waiters' = [waiters EXCEPT ![s] = w]
    BY <1>5
  <2> HIDE DEF w
  <2>6. /\ value' \in [Sema -> Nat] /\ waiters' \in [Sema -> Seq(Thread)]
        /\ wait' \in [Thread -> Sema \cup {NULL}]
        /\ holder' \in [Lock -> Thread \cup {NULL}]
    BY <1>1, <1>5, <2>4, <2>5
  <2>7. WaitersOK(waiters', wait', B)
    <3> SUFFICES ASSUME NEW r \in Sema
                 PROVE  /\ IsInjective(waiters'[r])
                        /\ \A t \in Thread : t \in Range(waiters'[r]) <=>
                                               t \in B /\ wait'[t] = r
      BY DEF WaitersOK
    <3>1. /\ IsInjective(waiters[r])
          /\ \A t \in Thread : t \in Range(waiters[r]) <=>
                                 t \in BlockedIn(status) /\ wait[t] = r
      BY <1>2 DEF WaitersOK
    <3>2. /\ wait'[current] = s
          /\ \A t \in Thread : t # current => wait'[t] = wait[t]
      BY <1>1, <1>5
    <3>3. CASE r = s
      <4>1. waiters'[r] = w
        BY <1>1, <2>5, <3>3
      <4> QED BY <1>3, <2>4, <3>1, <3>2, <3>3, <4>1
    <3>4. CASE r # s
      <4>1. waiters'[r] = waiters[r]
        BY <1>1, <2>5, <3>4
      <4> QED BY <1>3, <3>1, <3>2, <3>4, <4>1
    <3> QED BY <3>3, <3>4
  <2> QED BY <2>2, <2>6, <2>7 DEF ListStep
<1> QED BY <1>4, <1>5 DEF TestValue

\* sema_up leaves every thread on the list its state says.
LEMMA UpStep ==
  ASSUME ListInv, NEW s \in Sema, NEW prio, Up(s, prio), UNCHANGED wait
  PROVE  ListStep
<1>1. /\ value \in [Sema -> Nat] /\ waiters \in [Sema -> Seq(Thread)]
      /\ wait \in [Thread -> Sema \cup {NULL}]
      /\ thread_ticks \in 0..(TIME_SLICE - 1)
  BY DEF ListInv, TypeOK, SchedTypeOK, SynchTypeOK
<1>2. ReadyOK(current, ready_list, status)
      /\ WaitersOK(waiters, wait, BlockedIn(status))
  BY DEF ListInv
<1>3. BlockedIn(status) \in SUBSET Thread
  BY DEF BlockedIn
<1>4. value' \in [Sema -> Nat] /\ wait' \in [Thread -> Sema \cup {NULL}]
  BY <1>1 DEF Up
<1>5. CASE waiters[s] = <<>> /\ CheckPreemption(ready_list, status, prio)
           /\ UNCHANGED waiters
  <2>1. Outcome(BlockedIn(status))
    BY <1>1, <1>2, <1>5, PreemptionOutcome
  <2>2. /\ ReadyOK(current', ready_list', status')
        /\ thread_ticks' \in 0..(TIME_SLICE - 1)
        /\ BlockedIn(status') = BlockedIn(status)
    BY <1>3, <2>1, OutcomeGivesStep
  <2> QED BY <1>1, <1>2, <1>4, <1>5, <2>2 DEF ListStep
<1>6. ASSUME waiters[s] # <<>>, NEW sorted \in ListSort(waiters[s], prio),
             waiters' = [waiters EXCEPT ![s] = Tail(sorted)],
             UnblockAndCheck(Head(sorted), ready_list, status, prio)
      PROVE  ListStep
  <2> DEFINE h == Head(sorted)
             w == Tail(sorted)
             B == BlockedIn(status) \ {h}
  <2>1. waiters[s] \in Seq(Thread) /\ IsInjective(waiters[s])
    BY <1>1, <1>2 DEF WaitersOK
  <2>2. /\ sorted \in Seq(Thread) /\ Len(sorted) = Len(waiters[s])
        /\ Range(sorted) = Range(waiters[s]) /\ IsInjective(sorted)
    BY <2>1, ListSortProps
  <2>3. sorted # <<>>
    BY <1>6, <2>1, <2>2
  <2>4. /\ h \in Thread /\ h \in Range(waiters[s]) /\ w \in Seq(Thread)
        /\ Range(w) = Range(waiters[s]) \ {h} /\ IsInjective(w)
    BY <2>2, <2>3, PopFrontProps
  <2>5. waiters' = [waiters EXCEPT ![s] = w]
        /\ UnblockAndCheck(h, ready_list, status, prio)
    BY <1>6
  <2> HIDE DEF h, w
  <2>6. h \in BlockedIn(status) /\ wait[h] = s
    BY <1>2, <2>4 DEF WaitersOK
  <2>7. status[h] \notin {"READY", "RUNNING"}
    BY <2>6 DEF BlockedIn
  <2>8. Outcome(B)
    BY <1>1, <1>2, <2>4, <2>5, <2>7, UnblockOutcome, Zenon
  <2>9. /\ ReadyOK(current', ready_list', status')
        /\ thread_ticks' \in 0..(TIME_SLICE - 1)
        /\ BlockedIn(status') = B
    BY <1>3, <2>8, OutcomeGivesStep
  <2>10. waiters' \in [Sema -> Seq(Thread)]
    BY <1>1, <2>4, <2>5
  <2>11. WaitersOK(waiters', wait', B)
    <3> SUFFICES ASSUME NEW r \in Sema
                 PROVE  /\ IsInjective(waiters'[r])
                        /\ \A t \in Thread : t \in Range(waiters'[r]) <=>
                                               t \in B /\ wait[t] = r
      BY DEF WaitersOK
    <3>1. /\ IsInjective(waiters[r])
          /\ \A t \in Thread : t \in Range(waiters[r]) <=>
                                 t \in BlockedIn(status) /\ wait[t] = r
      BY <1>2 DEF WaitersOK
    <3>2. CASE r = s
      <4>1. waiters'[r] = w
        BY <1>1, <2>5, <3>2
      <4> QED BY <2>4, <3>1, <3>2, <4>1
    <3>3. CASE r # s
      <4>1. waiters'[r] = waiters[r]
        BY <1>1, <2>5, <3>3
      <4> QED BY <2>6, <3>1, <3>3, <4>1
    <3> QED BY <3>2, <3>3
  <2> QED BY <1>4, <2>9, <2>10, <2>11 DEF ListStep
<1> QED BY <1>5, <1>6 DEF Up

\* The types of the variables that scheduling and semaphores do not touch.
DonationTypeOK ==
  /\ creating \in SUBSET Thread
  /\ priority \in [AnyThread -> Priority]
  /\ old_priority \in [AnyThread -> Priority]
  /\ holder \in [Lock -> Thread \cup {NULL}]
  /\ max_priority \in [Lock -> Priority]
  /\ lock_waiting \in [Thread -> Lock \cup {NULL}]

\* ListInv after a step, from its two halves.
LEMMA StepGivesInv ==
  ASSUME ListStep, DonationTypeOK'
  PROVE  ListInv'
<1>1. /\ current' \in AnyThread /\ status' \in [AnyThread -> Status]
      /\ ready_list' \in Seq(Thread)
  BY DEF ListStep, ReadyOK, QueueOK
<1>2. SchedTypeOK' /\ SynchTypeOK'
  BY <1>1 DEF ListStep, DonationTypeOK, SchedTypeOK, SynchTypeOK
<1>3. ReadyOK(current', ready_list', status')
      /\ WaitersOK(waiters', wait', BlockedIn(status'))
  BY DEF ListStep
<1>4. BlockedIn(status)' = BlockedIn(status')
  BY DEF BlockedIn
<1>5. ReadyOK(current, ready_list, status)' = ReadyOK(current', ready_list', status')
  BY DEF ReadyOK, QueueOK
<1>6. WaitersOK(waiters, wait, BlockedIn(status))'
        = WaitersOK(waiters', wait', BlockedIn(status'))
  BY DEF WaitersOK, BlockedIn
<1> QED BY <1>2, <1>3, <1>5, <1>6 DEF ListInv, TypeOK
-----------------------------------------------------------------------------
\* lock_release's new priority is one of the priorities it looks at.
LEMMA PriorityAfterReleaseType ==
  ASSUME DonationTypeOK, current \in Thread, NEW l \in Lock
  PROVE  /\ PriorityAfterRelease(l) \in Priority
         /\ lock_holding(current) \ {l} = {} =>
              PriorityAfterRelease(l) = old_priority[current]
<1> DEFINE S == {old_priority[current]} \cup
                {max_priority[m] : m \in lock_holding(current) \ {l}}
<1>1. old_priority[current] \in Priority
  BY DEF DonationTypeOK, AnyThread
<1>2. \A m \in lock_holding(current) : max_priority[m] \in Priority
  BY DEF DonationTypeOK, lock_holding
<1>3. S \in SUBSET (0..PRI_MAX) /\ S # {} /\ PRI_MAX \in Nat
  BY <1>1, <1>2, SchedulerAssumption DEF Priority, PRI_MIN
<1>4. PriorityAfterRelease(l) = Max(S)
  BY DEF PriorityAfterRelease
<1> HIDE DEF S
<1>5. Max(S) \in S
  BY <1>3, MaxExists, Zenon
<1>6. S \subseteq Priority
  BY <1>3 DEF Priority, PRI_MIN
<1>7. lock_holding(current) \ {l} = {} => S = {old_priority[current]}
  BY DEF S
<1> QED BY <1>4, <1>5, <1>6, <1>7

\* Init and every action keep ListInv.
LEMMA ListInvInit == Init => ListInv
<1> SUFFICES ASSUME SynchInit, NEW t \in Thread, SchedInit(t, PRI_DEFAULT)
             PROVE  ListInv
  BY DEF Init
<1> USE SchedulerAssumption, SynchAssumption
<1>1. TypeOK
  BY DEF SynchInit, SchedInit, TypeOK, SchedTypeOK, SynchTypeOK, AnyThread,
         Status, Priority, PRI_MIN, Sema
<1>2. \A u : u \notin Range(<<>>)
  BY DEF Range
<1>3. IsInjective(<<>>)
  BY DEF IsInjective
<1>4. ReadyOK(current, ready_list, status)
  BY <1>1, <1>2, <1>3 DEF SchedInit, TypeOK, SchedTypeOK, ReadyOK, QueueOK,
                          AnyThread
<1>5. BlockedIn(status) = {}
  BY DEF SchedInit, BlockedIn, AnyThread
<1>6. WaitersOK(waiters, wait, BlockedIn(status))
  BY <1>2, <1>3, <1>5 DEF SynchInit, WaitersOK
<1> QED BY <1>1, <1>4, <1>6 DEF ListInv

\* Every step of the specification keeps ListInv, by the lemmas on its actions.
LEMMA ListInvNext == ListInv /\ [Next]_vars => ListInv'
<1> SUFFICES ASSUME ListInv, [Next]_vars PROVE ListInv'
  OBVIOUS
<1> USE SchedulerAssumption, SynchAssumption
<1>1. DonationTypeOK /\ thread_ticks \in 0..(TIME_SLICE - 1)
      /\ ReadyOK(current, ready_list, status) /\ current \in AnyThread
      /\ Thread \subseteq AnyThread
  BY DEF ListInv, TypeOK, SchedTypeOK, SynchTypeOK, DonationTypeOK, AnyThread
<1>2. SUFFICES ListStep /\ DonationTypeOK'
  BY StepGivesInv
<1>3. ASSUME NEW s \in Semaphore, SemaDown(s) PROVE ListStep /\ DonationTypeOK'
  <2>1. s \in Sema /\ current \in Thread /\ TestValue(s, priority)
        /\ UNCHANGED <<priority, old_priority, creating, max_priority, lock_waiting>>
    BY <1>3 DEF SemaDown, Running, Sema
  <2>2. ListStep /\ holder' \in [Lock -> Thread \cup {NULL}]
    BY <2>1, TestValueStep
  <2> QED BY <1>1, <2>1, <2>2 DEF DonationTypeOK
<1>4. ASSUME NEW s \in Semaphore, SemaUp(s) \/ IntrSemaUp(s)
      PROVE  ListStep /\ DonationTypeOK'
  <2>1. s \in Sema /\ Up(s, priority) /\ UNCHANGED wait
        /\ UNCHANGED <<priority, old_priority, creating, holder, max_priority,
                       lock_waiting>>
    BY <1>4 DEF SemaUp, IntrSemaUp, Sema
  <2>2. ListStep
    BY <2>1, UpStep
  <2> QED BY <1>1, <2>1, <2>2 DEF DonationTypeOK
<1>5. ASSUME NEW l \in Lock, LockAcquire(l) PROVE ListStep /\ DonationTypeOK'
  <2>1. l \in Sema /\ current \in Thread
        /\ UNCHANGED <<old_priority, creating>>
    BY <1>5 DEF LockAcquire, Running, Sema
  <2>2. CASE TestValue(l, priority)
             /\ UNCHANGED <<priority, max_priority, lock_waiting>>
    <3>1. ListStep /\ holder' \in [Lock -> Thread \cup {NULL}]
      BY <2>1, <2>2, TestValueStep
    <3> QED BY <1>1, <2>1, <2>2, <3>1 DEF DonationTypeOK
  <2>3. ASSUME lock_waiting' = [lock_waiting EXCEPT
                                  ![current] = IF @ = NULL THEN l ELSE @],
               NEW c, priority' = Donated(c),
               max_priority' = [m \in Lock |->
                  IF m \in Range(c) /\ priority[current] > max_priority[m]
                  THEN priority[current] ELSE max_priority[m]],
               TestValue(l, Donated(c))
        PROVE  ListStep /\ DonationTypeOK'
    <3>1. ListStep /\ holder' \in [Lock -> Thread \cup {NULL}]
      BY <2>1, <2>3, TestValueStep
    <3>2. priority' \in [AnyThread -> Priority]
      BY <1>1, <2>1, <2>3 DEF Donated, DonationTypeOK
    <3>3. max_priority' \in [Lock -> Priority]
      BY <1>1, <2>1, <2>3 DEF DonationTypeOK
    <3>4. lock_waiting' \in [Thread -> Lock \cup {NULL}]
      BY <1>1, <2>1, <2>3 DEF DonationTypeOK
    <3> QED BY <1>1, <2>1, <3>1, <3>2, <3>3, <3>4 DEF DonationTypeOK
  <2> QED BY <1>5, <2>2, <2>3 DEF LockAcquire
<1>6. ASSUME NEW l \in Lock, LockRelease(l) PROVE ListStep /\ DonationTypeOK'
  <2> DEFINE prio == [priority EXCEPT ![current] = PriorityAfterRelease(l)]
  <2>1. /\ l \in Sema /\ current \in Thread /\ Up(l, prio)
        /\ UNCHANGED <<wait, old_priority, creating, lock_waiting>>
        /\ priority' = prio
        /\ holder' = [holder EXCEPT ![l] = NULL]
        /\ max_priority' = [max_priority EXCEPT
                              ![l] = IF Len(waiters[l]) > 1
                                     THEN priority[waiters[l][2]] ELSE 0]
    BY <1>6 DEF LockRelease, Running, Sema
  <2>2. ListStep
    BY <2>1, UpStep
  <2>3. priority' \in [AnyThread -> Priority]
    <3>1. PriorityAfterRelease(l) \in Priority
      BY <1>1, <2>1, PriorityAfterReleaseType
    <3> QED BY <1>1, <2>1, <3>1 DEF DonationTypeOK
  <2>4. max_priority' \in [Lock -> Priority]
    <3>1. waiters[l] \in Seq(Thread)
      BY <2>1 DEF ListInv, TypeOK, SynchTypeOK
    <3>2. Len(waiters[l]) > 1 => waiters[l][2] \in Thread
      BY <3>1
    <3>3. 0 \in Priority
      BY DEF Priority, PRI_MIN
    <3> QED BY <1>1, <2>1, <3>2, <3>3 DEF DonationTypeOK
  <2>5. holder' \in [Lock -> Thread \cup {NULL}]
    BY <1>1, <2>1 DEF DonationTypeOK
  <2> QED BY <1>1, <2>1, <2>2, <2>3, <2>4, <2>5 DEF DonationTypeOK
<1>7. CASE Resume
  <2>1. /\ current \in Thread /\ TestValue(wait[current], priority)
        /\ wait[current] # NULL
        /\ UNCHANGED <<priority, old_priority, creating, max_priority, lock_waiting>>
    BY <1>7 DEF Resume
  <2>2. wait[current] \in Sema
    BY <2>1 DEF ListInv, TypeOK, SynchTypeOK
  <2>3. ListStep /\ holder' \in [Lock -> Thread \cup {NULL}]
    BY <2>1, <2>2, TestValueStep
  <2> QED BY <1>1, <2>1, <2>3 DEF DonationTypeOK
<1>8. CASE Yield
  <2>1. Outcome(BlockedIn(status))
    BY <1>1, <1>8, YieldOutcome DEF Yield
  <2>2. ListStep
    BY <1>8, <2>1, QuietStep DEF Yield, synchVars
  <2> QED BY <1>1, <1>8, <2>2 DEF Yield, DonationTypeOK, synchVars
<1>9. CASE Tick
  <2>1. CASE ThreadYield(ready_list, status, priority)
    BY <1>1, <2>1, <1>9, YieldOutcome, QuietStep
       DEF Tick, ThreadTick, DonationTypeOK, synchVars
  <2>2. CASE /\ thread_ticks + 1 < TIME_SLICE
             /\ thread_ticks' = thread_ticks + 1
             /\ UNCHANGED <<current, status, ready_list>>
    <3>1. thread_ticks' \in 0..(TIME_SLICE - 1)
      BY <1>1, <2>2
    <3>2. Outcome(BlockedIn(status))
      BY <1>1, <2>2, <3>1 DEF Outcome, BlockedIn
    <3>3. ListStep
      BY <1>9, <3>2, QuietStep DEF Tick, synchVars
    <3> QED BY <1>1, <1>9, <3>3 DEF Tick, ThreadTick, DonationTypeOK, synchVars
  <2>3. thread_ticks \in Int /\ TIME_SLICE \in Int
    BY <1>1
  <2> QED BY <1>9, <2>1, <2>2, <2>3 DEF Tick, ThreadTick
<1>10. ASSUME NEW t \in Thread, NEW p \in CreatePriority, Create(t, p)
       PROVE  ListStep /\ DonationTypeOK'
  <2> DEFINE prio == [priority EXCEPT ![t] = p]
  <2>1. /\ status[t] = "NONE" /\ priority' = prio
        /\ old_priority' = [old_priority EXCEPT ![t] = p]
        /\ Continue(InsertOrdered(ready_list, t, prio),
                    [status EXCEPT ![t] = "READY"])
        /\ creating' = creating \cup {current} /\ current \in Thread
        /\ UNCHANGED synchVars
    BY <1>10 DEF Create, ThreadCreate, Running
  <2>2. Outcome(BlockedIn(status) \ {t})
    BY <1>1, <2>1, UnblockOutcome
  <2>3. BlockedIn(status) \ {t} = BlockedIn(status)
    BY <2>1 DEF BlockedIn
  <2>4. ListStep
    BY <2>1, <2>2, <2>3, QuietStep, Zenon DEF synchVars
  <2>5. p \in Priority
    OBVIOUS
  <2> QED BY <1>1, <2>1, <2>4, <2>5 DEF DonationTypeOK, synchVars
<1>11. ASSUME NEW p \in NewPriority, SetPriority(p)
       PROVE  ListStep /\ DonationTypeOK'
  <2>1. PICK prio : /\ prio \in {priority, [priority EXCEPT ![current] = p]}
                    /\ priority' = prio
                    /\ old_priority' = [old_priority EXCEPT ![current] = p]
                    /\ CheckPreemption(ready_list, status, prio)
                    /\ UNCHANGED <<creating, synchVars>>
    BY <1>11 DEF SetPriority, ThreadSetPriority
  <2>2. Outcome(BlockedIn(status))
    BY <1>1, <2>1, PreemptionOutcome
  <2>3. ListStep
    BY <2>1, <2>2, QuietStep DEF synchVars
  <2>4. p \in Priority
    OBVIOUS
  <2> QED BY <1>1, <2>1, <2>3, <2>4 DEF DonationTypeOK, synchVars
<1>12. CASE IdleLoop
  <2>1. ThreadBlock(ready_list, status) /\ current = idle_thread
        /\ UNCHANGED <<priority, old_priority, creating, synchVars>>
    BY <1>12 DEF IdleLoop, Idle
  <2>2. Outcome(BlockedIn(status) \cup ({current} \cap Thread))
    BY <1>1, <2>1, BlockOutcome
  <2>3. BlockedIn(status) \cup ({current} \cap Thread) = BlockedIn(status)
    BY <2>1
  <2>4. ListStep
    BY <2>1, <2>2, <2>3, QuietStep DEF synchVars
  <2> QED BY <1>1, <2>1, <2>4 DEF DonationTypeOK, synchVars
<1>13. CASE CreateReturn
  <2>1. /\ CheckPreemption(ready_list, status, priority)
        /\ creating' = creating \ {current}
        /\ UNCHANGED <<priority, old_priority, synchVars>>
    BY <1>13 DEF CreateReturn, ThreadCreateReturn
  <2>2. Outcome(BlockedIn(status))
    BY <1>1, <2>1, PreemptionOutcome
  <2>3. ListStep
    BY <2>1, <2>2, QuietStep DEF synchVars
  <2> QED BY <1>1, <2>1, <2>3 DEF DonationTypeOK, synchVars
<1>14. CASE UNCHANGED vars
  <2>1. Outcome(BlockedIn(status))
    BY <1>1, <1>14 DEF Outcome, BlockedIn, vars, schedVars
  <2>2. ListStep
    BY <1>14, <2>1, QuietStep DEF vars, synchVars
  <2> QED BY <1>1, <1>14, <2>2 DEF DonationTypeOK, vars, schedVars, synchVars
<1> QED BY <1>3, <1>4, <1>5, <1>6, <1>7, <1>8, <1>9, <1>10, <1>11, <1>12,
           <1>13, <1>14 DEF Next
-----------------------------------------------------------------------------
\* ListInv holds in every reachable state.
THEOREM ListInvariant == Spec => []ListInv
BY ListInvInit, ListInvNext, PTL DEF Spec

\* Every variable keeps its C type, and priorities stay in range, for any
\* number of threads, locks and semaphores (threads/thread.h, threads/synch.h).
THEOREM TypeCorrect == Spec => []TypeOK
<1>1. ListInv => TypeOK
  BY DEF ListInv
<1> QED BY <1>1, ListInvariant, PTL

\* The `elem' of a thread is always on exactly the list that its status names
\* (the comment on `elem' in threads/thread.h).
THEOREM OneList == Spec => []ThreadsOnOneList
<1>1. ListInv => ThreadsOnOneList
  BY DEF ListInv, ReadyOK, QueueOK, WaitersOK, BlockedIn, ThreadsOnOneList
<1> QED BY <1>1, ListInvariant, PTL
-----------------------------------------------------------------------------
(* Locks and semaphores keep their promises: ownership, donation that is   *)
(* given back, and the refinement of SynchAbs.                             *)

\* What a test of sema_down's loop does to values and holders.
LEMMA TakeOnTest ==
  ASSUME ListInv, current \in Thread, NEW s \in Sema, NEW prio,
         TestValue(s, prio)
  PROVE  \/ UNCHANGED <<value, holder>>
         \/ /\ value[s] > 0
            /\ value' = [value EXCEPT ![s] = value[s] - 1]
            /\ s \in Lock => holder' = [holder EXCEPT ![s] = current]
            /\ s \notin Lock => holder' = holder
BY DEF TestValue, Acquired

\* How each step changes values and holders: the only steps that matter for
\* ownership, loans and the refinement.
TakeStep ==
  /\ current \in Thread
  /\ \E s \in Sema :
       /\ value[s] > 0
       /\ value' = [value EXCEPT ![s] = value[s] - 1]
       /\ s \in Lock => holder' = [holder EXCEPT ![s] = current]
       /\ s \notin Lock => holder' = holder

PostStep ==
  \E s \in Semaphore : /\ value' = [value EXCEPT ![s] = value[s] + 1]
                       /\ holder' = holder

FreeStep ==
  /\ current \in Thread
  /\ \E l \in Lock : /\ holder[l] = current
                     /\ value' = [value EXCEPT ![l] = value[l] + 1]
                     /\ holder' = [holder EXCEPT ![l] = NULL]

\* Every step takes one semaphore, posts one, frees one lock, or leaves
\* values and holders alone.
LEMMA OwnershipStep ==
  ASSUME ListInv, [Next]_vars
  PROVE  TakeStep \/ PostStep \/ FreeStep \/ UNCHANGED <<value, holder>>
<1> USE SynchAssumption
<1>1. ASSUME NEW s \in Semaphore, SemaDown(s)
      PROVE  TakeStep \/ UNCHANGED <<value, holder>>
  <2>1. s \in Sema /\ current \in Thread /\ TestValue(s, priority)
    BY <1>1 DEF SemaDown, Running, Sema
  <2> QED BY <2>1, TakeOnTest DEF TakeStep
<1>2. ASSUME NEW s \in Semaphore, SemaUp(s) \/ IntrSemaUp(s) PROVE PostStep
  BY <1>2 DEF SemaUp, IntrSemaUp, Up, PostStep
<1>3. ASSUME NEW l \in Lock, LockAcquire(l)
      PROVE  TakeStep \/ UNCHANGED <<value, holder>>
  <2>1. PICK prio : l \in Sema /\ current \in Thread /\ TestValue(l, prio)
    BY <1>3 DEF LockAcquire, Running, Sema
  <2> QED BY <2>1, TakeOnTest DEF TakeStep
<1>4. ASSUME NEW l \in Lock, LockRelease(l) PROVE FreeStep
  BY <1>4, Zenon DEF LockRelease, Running, Up, FreeStep
<1>5. CASE Resume
  <2>1. /\ current \in Thread /\ TestValue(wait[current], priority)
        /\ wait[current] \in Sema
    BY <1>5 DEF Resume, ListInv, TypeOK, SynchTypeOK
  <2> QED BY <2>1, TakeOnTest DEF TakeStep
<1>6. CASE \/ Yield \/ Tick \/ IdleLoop \/ CreateReturn
           \/ \E t \in Thread, p \in CreatePriority : Create(t, p)
           \/ \E p \in NewPriority : SetPriority(p)
           \/ UNCHANGED vars
  BY <1>6 DEF Yield, Tick, IdleLoop, CreateReturn, Create, SetPriority, vars, synchVars
<1> QED BY <1>1, <1>2, <1>3, <1>4, <1>5, <1>6 DEF Next

\* A lock's value and its holder change together.
LEMMA OwnershipNext ==
  ListInv /\ LockOwnership /\ [Next]_vars => LockOwnership'
<1> SUFFICES ASSUME ListInv, LockOwnership, [Next]_vars
             PROVE  LockOwnership'
  OBVIOUS
<1> USE SynchAssumption
<1>1. /\ value \in [Sema -> Nat] /\ holder \in [Lock -> Thread \cup {NULL}]
      /\ NULL \notin Thread /\ Lock \subseteq Sema
  BY DEF ListInv, TypeOK, SynchTypeOK, Sema, AnyThread
<1>2. \A l \in Lock : value[l] \in {0, 1} /\ (value[l] = 0 <=> holder[l] # NULL)
  BY DEF LockOwnership
<1>3. SUFFICES ASSUME NEW l \in Lock
               PROVE  value'[l] \in {0, 1} /\ (value'[l] = 0 <=> holder'[l] # NULL)
  BY DEF LockOwnership
<1>4. CASE TakeStep
  <2>1. PICK s \in Sema : /\ value[s] > 0
                          /\ value' = [value EXCEPT ![s] = value[s] - 1]
                          /\ s \in Lock => holder' = [holder EXCEPT ![s] = current]
                          /\ s \notin Lock => holder' = holder
    BY <1>4, Zenon DEF TakeStep
  <2>2. CASE s = l
    <3>1. value'[l] = value[l] - 1 /\ holder'[l] = current
      BY <1>1, <2>1, <2>2
    <3>2. value[l] = 1
      BY <1>2, <2>1, <2>2
    <3>3. current # NULL
      BY <1>1, <1>4 DEF TakeStep
    <3> QED BY <3>1, <3>2, <3>3
  <2>3. CASE s # l
    <3>1. value'[l] = value[l] /\ holder'[l] = holder[l]
      BY <1>1, <2>1, <2>3
    <3> QED BY <1>2, <3>1
  <2> QED BY <2>2, <2>3
<1>5. CASE PostStep
  <2>1. value'[l] = value[l] /\ holder'[l] = holder[l]
    BY <1>1, <1>5 DEF PostStep
  <2> QED BY <1>2, <2>1
<1>6. CASE FreeStep
  <2>1. PICK k \in Lock : /\ holder[k] = current /\ current \in Thread
                          /\ value' = [value EXCEPT ![k] = value[k] + 1]
                          /\ holder' = [holder EXCEPT ![k] = NULL]
    BY <1>6, Zenon DEF FreeStep
  <2>2. CASE k = l
    <3>1. value[l] = 0
      BY <1>1, <1>2, <2>1, <2>2
    <3>2. value'[l] = 1 /\ holder'[l] = NULL
      BY <1>1, <2>1, <2>2, <3>1
    <3> QED BY <3>2
  <2>3. CASE k # l
    <3>1. value'[l] = value[l] /\ holder'[l] = holder[l]
      BY <1>1, <2>1, <2>3
    <3> QED BY <1>2, <3>1
  <2> QED BY <2>2, <2>3
<1>7. CASE UNCHANGED <<value, holder>>
  BY <1>2, <1>7
<1> QED BY <1>4, <1>5, <1>6, <1>7, OwnershipStep

\* A lock has a holder exactly while its semaphore is taken, however many
\* woken waiters and newcomers race for it (lock_acquire, lock_release).
THEOREM Ownership == Spec => []LockOwnership
<1>1. Init => LockOwnership
  BY SynchAssumption DEF Init, SynchInit, LockOwnership, Sema
<1> QED BY <1>1, OwnershipNext, ListInvariant, PTL DEF Spec
-----------------------------------------------------------------------------
\* Only lock_acquire raises somebody else's priority, and only of a thread
\* that holds a lock and keeps holding it through the step.
LEMMA LoanNext ==
  ListInv /\ LockOwnership /\ LoanReturned /\ [Next]_vars => LoanReturned'
<1> SUFFICES ASSUME ListInv, LockOwnership, LoanReturned, [Next]_vars,
                    NEW t \in Thread, \A m \in Lock : holder'[m] # t
             PROVE  priority'[t] = old_priority'[t]
  BY DEF LoanReturned, lock_holding
<1> USE SynchAssumption
<1>1. /\ value \in [Sema -> Nat] /\ holder \in [Lock -> Thread \cup {NULL}]
      /\ priority \in [AnyThread -> Priority]
      /\ old_priority \in [AnyThread -> Priority]
      /\ t \in AnyThread /\ current \in AnyThread
  BY DEF ListInv, TypeOK, SchedTypeOK, SynchTypeOK, AnyThread
<1>2. (\A m \in Lock : holder[m] # t) => priority[t] = old_priority[t]
  BY DEF LoanReturned, lock_holding
<1>3. CASE UNCHANGED <<priority, old_priority>> /\ TakeStep
  <2>1. \A m \in Lock : holder[m] # t
    <3> SUFFICES ASSUME NEW m \in Lock, holder[m] = t PROVE FALSE
      OBVIOUS
    <3>1. value[m] = 0
      BY <1>1 DEF LockOwnership, AnyThread
    <3>2. holder'[m] = holder[m]
      BY <1>1, <1>3, <3>1 DEF TakeStep
    <3> QED BY <3>2
  <2> QED BY <1>2, <1>3, <2>1
<1>4. CASE UNCHANGED <<priority, old_priority, holder>>
  BY <1>2, <1>4
<1>5. ASSUME NEW s \in Semaphore, SemaDown(s)
      PROVE  priority'[t] = old_priority'[t]
  <2>1. s \in Sema /\ current \in Thread /\ TestValue(s, priority)
        /\ UNCHANGED <<priority, old_priority>>
    BY <1>5 DEF SemaDown, Running, Sema
  <2> QED BY <1>3, <1>4, <2>1, TakeOnTest DEF TakeStep
<1>6. ASSUME NEW s \in Semaphore, SemaUp(s) \/ IntrSemaUp(s)
      PROVE  priority'[t] = old_priority'[t]
  BY <1>4, <1>6 DEF SemaUp, IntrSemaUp
<1>7. ASSUME NEW l \in Lock, LockAcquire(l)
      PROVE  priority'[t] = old_priority'[t]
  <2>1. l \in Sema /\ current \in Thread /\ UNCHANGED old_priority
    BY <1>7 DEF LockAcquire, Running, Sema
  <2>2. CASE TestValue(l, priority) /\ UNCHANGED priority
    BY <1>3, <1>4, <2>1, <2>2, TakeOnTest DEF TakeStep
  <2>3. ASSUME holder[l] # NULL, NEW c \in DonationChains(l),
               priority' = Donated(c), TestValue(l, Donated(c))
        PROVE  priority'[t] = old_priority'[t]
    <3>1. value[l] = 0
      BY <2>3 DEF LockOwnership
    <3>2. UNCHANGED holder
      BY <2>1, <2>3, <3>1, TakeOnTest
    <3>3. \A i \in DOMAIN c : c[i] \in Lock
      <4>1. c \in UNION {[1..n -> Lock] : n \in 0..Cardinality(Lock)}
        BY <2>3 DEF DonationChains
      <4>2. PICK n : c \in [1..n -> Lock]
        BY <4>1, Zenon
      <4> QED BY <4>2
    <3>4. \A i \in DOMAIN c : holder[c[i]] # t
      BY <3>2, <3>3
    <3>5. priority'[t] = priority[t]
      BY <1>1, <2>3, <3>4 DEF Donated
    <3> QED BY <1>2, <2>1, <3>2, <3>5
  <2> QED BY <1>7, <2>2, <2>3 DEF LockAcquire
<1>8. ASSUME NEW l \in Lock, LockRelease(l)
      PROVE  priority'[t] = old_priority'[t]
  <2>1. /\ current \in Thread /\ holder[l] = current
        /\ priority' = [priority EXCEPT ![current] = PriorityAfterRelease(l)]
        /\ holder' = [holder EXCEPT ![l] = NULL]
        /\ UNCHANGED old_priority
    BY <1>8 DEF LockRelease, Running
  <2>2. \A m \in Lock : m # l => holder[m] # t
    BY <1>1, <2>1
  <2>3. CASE t = current
    <3>1. lock_holding(current) \ {l} = {}
      BY <2>2, <2>3 DEF lock_holding
    <3>2. DonationTypeOK
      BY DEF ListInv, TypeOK, SchedTypeOK, SynchTypeOK, DonationTypeOK
    <3>3. PriorityAfterRelease(l) = old_priority[current]
      BY <2>1, <3>1, <3>2, PriorityAfterReleaseType
    <3> QED BY <1>1, <2>1, <2>3, <3>3
  <2>4. CASE t # current
    <3>1. \A m \in Lock : holder[m] # t
      BY <2>1, <2>2, <2>4
    <3> QED BY <1>1, <1>2, <2>1, <2>4, <3>1
  <2> QED BY <2>3, <2>4
<1>9. CASE Resume
  <2>1. /\ current \in Thread /\ TestValue(wait[current], priority)
        /\ wait[current] \in Sema /\ UNCHANGED <<priority, old_priority>>
    BY <1>9 DEF Resume, ListInv, TypeOK, SynchTypeOK
  <2> QED BY <1>3, <1>4, <2>1, TakeOnTest DEF TakeStep
<1>10. CASE Yield \/ Tick \/ IdleLoop \/ CreateReturn \/ UNCHANGED vars
  BY <1>4, <1>10 DEF Yield, Tick, ThreadTick, IdleLoop, Idle, CreateReturn,
                     ThreadCreateReturn, vars, schedVars, synchVars
<1>11. ASSUME NEW u \in Thread, NEW p \in CreatePriority, Create(u, p)
       PROVE  priority'[t] = old_priority'[t]
  <2>1. /\ priority' = [priority EXCEPT ![u] = p]
        /\ old_priority' = [old_priority EXCEPT ![u] = p]
        /\ UNCHANGED holder
    BY <1>11 DEF Create, ThreadCreate, synchVars
  <2> QED BY <1>1, <1>2, <2>1
<1>12. ASSUME NEW p \in NewPriority, SetPriority(p)
       PROVE  priority'[t] = old_priority'[t]
  <2>1. /\ priority' = IF priority[current] = old_priority[current]
                       THEN [priority EXCEPT ![current] = p] ELSE priority
        /\ old_priority' = [old_priority EXCEPT ![current] = p]
        /\ UNCHANGED holder
    BY <1>12 DEF SetPriority, ThreadSetPriority, synchVars
  <2> QED BY <1>1, <1>2, <2>1
<1> QED BY <1>5, <1>6, <1>7, <1>8, <1>9, <1>10, <1>11, <1>12 DEF Next

\* A thread that holds no lock runs at its own priority (lock_release).
THEOREM Loans == Spec => []LoanReturned
<1>1. Init => LoanReturned
  BY DEF Init, SchedInit, LoanReturned
<1> QED BY <1>1, LoanNext, ListInvariant, Ownership, PTL DEF Spec
-----------------------------------------------------------------------------
\* synch.c implements the atomic semaphores and locks of SynchAbs.
THEOREM Refinement == Spec => ImplementsAbstract
<1> USE SynchAssumption
<1>1. Init => Abstract!Init
  BY DEF Init, SynchInit, Abstract!Init, Sema
<1>2. ListInv /\ LockOwnership /\ [Next]_vars
        => [Abstract!Next]_<<[s \in Semaphore |-> value[s]], holder>>
  <2> SUFFICES ASSUME ListInv, LockOwnership, [Next]_vars
               PROVE  [Abstract!Next]_<<[s \in Semaphore |-> value[s]], holder>>
    OBVIOUS
  <2>1. /\ value \in [Sema -> Nat] /\ holder \in [Lock -> Thread \cup {NULL}]
        /\ NULL \notin Thread /\ Lock \subseteq Sema /\ Semaphore \subseteq Sema
        /\ \A s \in Sema : s \notin Lock => s \in Semaphore
    BY DEF ListInv, TypeOK, SynchTypeOK, Sema, AnyThread
  <2>2. ASSUME NEW s \in Sema, value[s] > 0, current \in Thread,
               value' = [value EXCEPT ![s] = value[s] - 1],
               s \in Lock => holder' = [holder EXCEPT ![s] = current],
               s \notin Lock => holder' = holder
        PROVE  Abstract!Next
    <3>1. CASE s \in Lock
      <4>1. holder[s] = NULL
        BY <2>2, <3>1 DEF LockOwnership
      <4>2. [r \in Semaphore |-> value[r]]' = [r \in Semaphore |-> value[r]]
        BY <2>1, <2>2, <3>1
      <4>3. Abstract!Acquire(s, current)
        BY <2>2, <3>1, <4>1, <4>2 DEF Abstract!Acquire
      <4> QED BY <2>2, <3>1, <4>3 DEF Abstract!Next
    <3>2. CASE s \notin Lock
      <4>1. s \in Semaphore
        BY <2>1, <3>2
      <4>2. [r \in Semaphore |-> value'[r]]
              = [[r \in Semaphore |-> value[r]] EXCEPT ![s] = @ - 1]
        BY <2>1, <2>2, <4>1, Zenon
      <4>3. Abstract!Down(s)
        BY <2>2, <3>2, <4>1, <4>2 DEF Abstract!Down
      <4> QED BY <4>1, <4>3 DEF Abstract!Next
    <3> QED BY <3>1, <3>2
  <2>3. ASSUME NEW s \in Semaphore, holder' = holder,
               value' = [value EXCEPT ![s] = value[s] + 1]
        PROVE  Abstract!Next
    <3>1. [r \in Semaphore |-> value'[r]]
            = [[r \in Semaphore |-> value[r]] EXCEPT ![s] = @ + 1]
      BY <2>1, <2>3, Zenon
    <3>2. Abstract!Up(s)
      BY <2>3, <3>1 DEF Abstract!Up
    <3> QED BY <3>2 DEF Abstract!Next
  <2>4. ASSUME NEW l \in Lock, holder[l] = current, current \in Thread,
               value' = [value EXCEPT ![l] = value[l] + 1],
               holder' = [holder EXCEPT ![l] = NULL]
        PROVE  Abstract!Next
    <3>1. [r \in Semaphore |-> value'[r]] = [r \in Semaphore |-> value[r]]
      BY <2>1, <2>4
    <3>2. Abstract!Release(l)
      BY <2>1, <2>4, <3>1 DEF Abstract!Release
    <3> QED BY <3>2 DEF Abstract!Next
  <2> QED BY <2>2, <2>3, <2>4, OwnershipStep DEF TakeStep, PostStep, FreeStep
<1> QED BY <1>1, <1>2, ListInvariant, Ownership, PTL
        DEF Spec, ImplementsAbstract, Abstract!Spec
-----------------------------------------------------------------------------
(* No wakeup is lost and the highest-priority waiter is woken.             *)

\* What a step may do to the values, the waiters and the threads in sema_down:
\* take s, wait for s, up s with nobody waiting, and wake h.
Takes(s) ==
  /\ current \in Thread /\ wait[current] \in {NULL, s}
  /\ value[s] > 0 /\ value' = [value EXCEPT ![s] = value[s] - 1]
  /\ wait' = [wait EXCEPT ![current] = NULL]
  /\ UNCHANGED waiters

Waits(s) ==
  /\ current \in Thread /\ wait[current] \in {NULL, s}
  /\ value[s] = 0 /\ UNCHANGED value
  /\ wait' = [wait EXCEPT ![current] = s]
  /\ \E w \in Seq(Thread) : /\ waiters' = [waiters EXCEPT ![s] = w]
                            /\ Range(w) = Range(waiters[s]) \cup {current}

Posts(s) ==
  /\ waiters[s] = <<>>
  /\ value' = [value EXCEPT ![s] = value[s] + 1]
  /\ UNCHANGED <<waiters, wait>>

Wakes(s, h) ==
  /\ h \in Range(waiters[s])
  /\ value' = [value EXCEPT ![s] = value[s] + 1]
  /\ UNCHANGED wait
  /\ \E w \in Seq(Thread) :
       /\ waiters' = [waiters EXCEPT ![s] = w]
       /\ Range(w) = Range(waiters[s]) \ {h}
       /\ \A u \in Range(w) : priority'[h] >= priority'[u]

Effect(s) == Takes(s) \/ Waits(s) \/ Posts(s) \/ \E h \in Thread : Wakes(s, h)

\* sema_down's loop takes the semaphore or waits.
LEMMA TestValueEffect ==
  ASSUME ListInv, current \in Thread, NEW s \in Sema, NEW prio,
         wait[current] \in {NULL, s}, TestValue(s, prio)
  PROVE  Takes(s) \/ Waits(s)
<1>1. waiters[s] \in Seq(Thread)
  BY DEF ListInv, TypeOK, SynchTypeOK
<1>2. /\ InsertOrdered(waiters[s], current, prio) \in Seq(Thread)
      /\ Range(InsertOrdered(waiters[s], current, prio))
           = Range(waiters[s]) \cup {current}
  BY <1>1, InsertOrderedProps
<1> QED BY <1>2 DEF TestValue, Takes, Waits

\* sema_up posts or wakes the first of the sorted waiters.
LEMMA UpEffect ==
  ASSUME ListInv, NEW s \in Sema, priority' \in [AnyThread -> Priority],
         Up(s, priority'), UNCHANGED wait
  PROVE  Posts(s) \/ \E h \in Thread : Wakes(s, h)
<1>1. CASE waiters[s] = <<>> /\ UNCHANGED waiters
  BY <1>1 DEF Up, Posts
<1>2. ASSUME waiters[s] # <<>>, NEW sorted \in ListSort(waiters[s], priority'),
             waiters' = [waiters EXCEPT ![s] = Tail(sorted)]
      PROVE  \E h \in Thread : Wakes(s, h)
  <2>1. waiters[s] \in Seq(Thread) /\ IsInjective(waiters[s])
    BY DEF ListInv, TypeOK, SynchTypeOK, WaitersOK
  <2>2. /\ sorted \in Seq(Thread) /\ Len(sorted) = Len(waiters[s])
        /\ Range(sorted) = Range(waiters[s]) /\ IsInjective(sorted)
    BY <2>1, ListSortProps
  <2>3. sorted # <<>>
    BY <1>2, <2>1, <2>2
  <2>4. /\ Head(sorted) \in Thread /\ Head(sorted) \in Range(waiters[s])
        /\ Tail(sorted) \in Seq(Thread)
        /\ Range(Tail(sorted)) = Range(waiters[s]) \ {Head(sorted)}
    BY <2>2, <2>3, PopFrontProps
  <2>5. \A t \in Thread : priority'[t] \in Int
    BY SchedulerAssumption DEF AnyThread, Priority, PRI_MIN
  <2>6. \A u \in Range(Tail(sorted)) : priority'[Head(sorted)] >= priority'[u]
    BY <2>1, <2>3, <2>5, ListSortFirst
  <2>7. value' = [value EXCEPT ![s] = value[s] + 1]
    BY DEF Up
  <2>8. Wakes(s, Head(sorted))
    BY <1>2, <2>4, <2>6, <2>7, Zenon DEF Wakes
  <2> QED BY <2>4, <2>8
<1> QED BY <1>1, <1>2 DEF Up

\* Every step has one of the four effects on one semaphore, or none.
LEMMA StepEffect ==
  ASSUME ListInv, ListInv', [Next]_vars
  PROVE  \/ \E s \in Sema : Effect(s)
         \/ UNCHANGED <<value, waiters, wait>>
<1> USE SynchAssumption
<1>1. Lock \subseteq Sema /\ Semaphore \subseteq Sema
      /\ priority' \in [AnyThread -> Priority]
  BY DEF ListInv, TypeOK, SchedTypeOK, Sema
<1>2. ASSUME NEW s \in Semaphore, SemaDown(s) PROVE Effect(s)
  BY <1>1, <1>2, TestValueEffect DEF SemaDown, Running, Effect
<1>3. ASSUME NEW s \in Semaphore, SemaUp(s) \/ IntrSemaUp(s) PROVE Effect(s)
  <2>1. Up(s, priority') /\ UNCHANGED wait
    BY <1>3 DEF SemaUp, IntrSemaUp
  <2> QED BY <1>1, <2>1, UpEffect DEF Effect
<1>4. ASSUME NEW l \in Lock, LockAcquire(l) PROVE Effect(l)
  <2>1. PICK prio : current \in Thread /\ wait[current] = NULL
                    /\ TestValue(l, prio)
    BY <1>4 DEF LockAcquire, Running
  <2> QED BY <1>1, <2>1, TestValueEffect DEF Effect
<1>5. ASSUME NEW l \in Lock, LockRelease(l) PROVE Effect(l)
  <2>1. Up(l, priority') /\ UNCHANGED wait
    BY <1>5 DEF LockRelease
  <2> QED BY <1>1, <2>1, UpEffect DEF Effect
<1>6. CASE Resume
  <2>1. /\ current \in Thread /\ TestValue(wait[current], priority)
        /\ wait[current] \in Sema
    BY <1>6 DEF Resume, ListInv, TypeOK, SynchTypeOK
  <2> QED BY <2>1, TestValueEffect DEF Effect
<1>7. CASE \/ Yield \/ Tick \/ IdleLoop \/ CreateReturn
           \/ \E t \in Thread, p \in CreatePriority : Create(t, p)
           \/ \E p \in NewPriority : SetPriority(p)
           \/ UNCHANGED vars
  BY <1>7 DEF Yield, Tick, IdleLoop, CreateReturn, Create, SetPriority, vars, synchVars
<1> QED BY <1>1, <1>2, <1>3, <1>4, <1>5, <1>6, <1>7 DEF Next

\* sema_up never wakes a thread while one of higher priority stays behind.
THEOREM HighestWoken == Spec => WakesHighest
<1>1. ListInv /\ ListInv' /\ [Next]_vars =>
        \A s \in Sema, t \in Thread :
          t \in Range(waiters[s]) /\ t \notin Range(waiters'[s]) =>
            \A u \in Range(waiters'[s]) : priority'[t] >= priority'[u]
  <2> SUFFICES ASSUME ListInv, ListInv', [Next]_vars, NEW s \in Sema,
                      NEW t \in Thread, t \in Range(waiters[s]),
                      t \notin Range(waiters'[s])
               PROVE  \A u \in Range(waiters'[s]) : priority'[t] >= priority'[u]
    OBVIOUS
  <2>1. waiters \in [Sema -> Seq(Thread)]
    BY DEF ListInv, TypeOK, SynchTypeOK
  <2>2. PICK r \in Sema : Waits(r) \/ \E h \in Thread : Wakes(r, h)
    BY StepEffect DEF Effect, Takes, Posts
  <2>3. r = s
    BY <2>1, <2>2 DEF Waits, Wakes
  <2>4. CASE Waits(s)
    BY <2>1, <2>4 DEF Waits
  <2>5. ASSUME NEW h \in Thread, Wakes(s, h)
        PROVE  \A u \in Range(waiters'[s]) : priority'[t] >= priority'[u]
    <3>1. PICK w : /\ waiters'[s] = w /\ Range(w) = Range(waiters[s]) \ {h}
                   /\ \A u \in Range(w) : priority'[h] >= priority'[u]
      BY <2>1, <2>5 DEF Wakes
    <3> QED BY <3>1
  <2> QED BY <2>2, <2>3, <2>4, <2>5
<1> QED BY <1>1, ListInvariant, PTL DEF Spec, WakesHighest
-----------------------------------------------------------------------------
\* A thread in sema_down is woken exactly if it is not among the waiters.
LEMMA WokenByLists ==
  ASSUME ListInv, NEW s \in Sema
  PROVE  Woken(s) = {t \in Thread : wait[t] = s /\ t \notin Range(waiters[s])}
BY DEF ListInv, WaitersOK, BlockedIn, Woken

\* Each effect keeps NoLostWakeup.
LEMMA NoLostWakeupNext ==
  ListInv /\ ListInv' /\ NoLostWakeup /\ [Next]_vars => NoLostWakeup'
<1> SUFFICES ASSUME ListInv, ListInv', NoLostWakeup, [Next]_vars,
                    NEW s \in Sema, waiters'[s] # <<>>
             PROVE  Cardinality(Woken(s)') >= value'[s]
  BY DEF NoLostWakeup
<1> DEFINE W == {t \in Thread : wait[t] = s /\ t \notin Range(waiters[s])}
           V == {t \in Thread : wait'[t] = s /\ t \notin Range(waiters'[s])}
<1>1. Woken(s) = W /\ Woken(s)' = V
  <2>1. Woken(s) = W
    BY WokenByLists, Zenon
  <2>2. \A t \in Thread :
          t \in Range(waiters'[s]) <=> status'[t] = "BLOCKED" /\ wait'[t] = s
    <3>1. WaitersOK(waiters', wait', BlockedIn(status'))
      BY Zenon DEF ListInv
    <3> QED BY <3>1, Zenon DEF WaitersOK, BlockedIn
  <2>3. Woken(s)' = {t \in Thread : wait'[t] = s /\ status'[t] # "BLOCKED"}
    BY Zenon DEF Woken
  <2> QED BY <2>1, <2>2, <2>3, Zenon
<1>2. /\ value \in [Sema -> Nat] /\ waiters \in [Sema -> Seq(Thread)]
      /\ wait \in [Thread -> Sema \cup {NULL}] /\ NULL \notin Sema
      /\ value' \in [Sema -> Nat]
  BY SynchAssumption DEF ListInv, TypeOK, SynchTypeOK, Sema
<1>3. /\ IsFiniteSet(W) /\ IsFiniteSet(V)
      /\ Cardinality(W) \in Nat /\ Cardinality(V) \in Nat
  <2>1. W \subseteq Thread /\ V \subseteq Thread /\ IsFiniteSet(Thread)
    BY SchedulerAssumption
  <2>2. IsFiniteSet(W) /\ IsFiniteSet(V)
    BY <2>1, FS_Subset
  <2> QED BY <2>2, FS_CardinalityType
<1>4. waiters[s] # <<>> => Cardinality(W) >= value[s]
  BY <1>1, Zenon DEF NoLostWakeup
<1>5. SUFFICES Cardinality(V) >= value'[s]
  BY <1>1
<1>6. CASE UNCHANGED <<value, waiters, wait>>
  <2>1. V = W
    BY <1>6
  <2> QED BY <1>4, <1>6, <2>1
<1>7. ASSUME NEW r \in Sema, r # s, Effect(r) PROVE Cardinality(V) >= value'[s]
  <2>1. value'[s] = value[s] /\ waiters'[s] = waiters[s]
    BY <1>2, <1>7 DEF Effect, Takes, Waits, Posts, Wakes
  <2>2. \A t \in Thread : wait'[t] = s <=> wait[t] = s
    BY <1>2, <1>7 DEF Effect, Takes, Waits, Posts, Wakes
  <2>3. V = W
    BY <2>1, <2>2
  <2> QED BY <1>4, <2>1, <2>3, Zenon
<1>8. CASE Takes(s)
  <2>1. V = W \ {current}
    BY <1>2, <1>8 DEF Takes
  <2>2. Cardinality(V) >= Cardinality(W) - 1
    <3> HIDE DEF V, W
    <3>1. Cardinality(W \ {current}) =
            IF current \in W THEN Cardinality(W) - 1 ELSE Cardinality(W)
      BY <1>3, FS_RemoveElement, Zenon
    <3> QED BY <1>3, <2>1, <3>1
  <2>3. value'[s] = value[s] - 1 /\ waiters[s] # <<>>
    BY <1>2, <1>8 DEF Takes
  <2> HIDE DEF V, W
  <2>4. value[s] \in Nat /\ Cardinality(W) >= value[s]
    BY <1>2, <1>4, <2>3, Zenon
  <2> QED BY <1>3, <2>2, <2>3, <2>4
<1>9. CASE Waits(s)
  <2>1. value'[s] = 0
    BY <1>2, <1>9 DEF Waits
  <2> QED BY <1>3, <2>1
<1>10. CASE Posts(s)
  BY <1>10 DEF Posts
<1>11. ASSUME NEW h \in Thread, Wakes(s, h) PROVE Cardinality(V) >= value'[s]
  <2>1. PICK w \in Seq(Thread) : /\ waiters' = [waiters EXCEPT ![s] = w]
                                 /\ Range(w) = Range(waiters[s]) \ {h}
    BY <1>11, Zenon DEF Wakes
  <2>2. /\ waiters'[s] = w /\ h \in Range(waiters[s]) /\ UNCHANGED wait
        /\ value'[s] = value[s] + 1
    BY <1>2, <1>11, <2>1 DEF Wakes
  <2>3. wait[h] = s
    BY <2>2 DEF ListInv, WaitersOK
  <2>4. V = W \cup {h} /\ h \notin W
    BY <2>1, <2>2, <2>3
  <2>5. Cardinality(V) = Cardinality(W) + 1
    <3> HIDE DEF V, W
    <3> QED BY <1>3, <2>4, FS_AddElement
  <2>6. waiters[s] # <<>>
    BY <2>2 DEF Range
  <2> HIDE DEF V, W
  <2>7. value[s] \in Nat /\ Cardinality(W) >= value[s]
    BY <1>2, <1>4, <2>6, Zenon
  <2> QED BY <1>3, <2>2, <2>5, <2>7
<1> QED BY <1>6, <1>7, <1>8, <1>9, <1>10, <1>11, StepEffect, Zenon DEF Effect

\* No wakeup is lost: while threads wait for a positive semaphore, enough
\* woken threads are on their way to it (sema_up, sema_down).
THEOREM WakeupsKept == Spec => []NoLostWakeup
<1>1. Init => NoLostWakeup
  BY DEF Init, SynchInit, NoLostWakeup
<1> QED BY <1>1, NoLostWakeupNext, ListInvariant, PTL DEF Spec
=============================================================================
