--------------------------- MODULE Monitor_proofs ---------------------------
(***************************************************************************)
(* Condition variables implement the abstract monitor, for any threads and *)
(* priorities.                                                             *)
(***************************************************************************)
EXTENDS Monitor, List_proofs

Waiter == [thread : Thread, priority : Priority]

\* The locations at which a thread has taken the lock's semaphore.
Locked == {"acquired", "in", "waiting", "broadcast"}

MonitorTypes ==
  /\ pc \in [Thread -> Locked \cup {"out", "released", "reacquire"}]
  /\ prio \in [Thread -> Priority]
  /\ value \in {0, 1}
  /\ sema \in [Thread -> Nat]
  /\ waiters \in Seq(Waiter)

\* At most one thread has taken the lock, and then its semaphore is 0.
OneLocked ==
  \A t \in Thread : pc[t] \in Locked =>
    /\ value = 0
    /\ \A u \in Thread : pc[u] \in Locked => u = t

\* The waiters are in the order of their priorities, each thread once, between
\* its insertion and the up of its semaphore.
WaitersInOrder ==
  /\ \A i \in 1..Len(waiters) :
       /\ pc[waiters[i].thread] \in {"waiting", "released"}
       /\ sema[waiters[i].thread] = 0
  /\ \A i, j \in 1..Len(waiters) : i < j =>
       /\ waiters[i].thread # waiters[j].thread
       /\ waiters[i].priority >= waiters[j].priority

\* A thread that is about to release the lock in cond_wait is on the list.
WaitingListed ==
  \A t \in Thread : pc[t] = "waiting" =>
    \E i \in 1..Len(waiters) : waiters[i].thread = t

MonitorInv == MonitorTypes /\ OneLocked /\ WaitersInOrder /\ WaitingListed
-----------------------------------------------------------------------------
\* list_insert_ordered puts a waiter before the first one of lower priority.
LEMMA InsertWaiterProps ==
  ASSUME NEW ws \in Seq(Waiter), NEW w \in Waiter
  PROVE  \E k \in 1..(Len(ws) + 1) :
           /\ InsertWaiter(ws, w) \in Seq(Waiter)
           /\ Len(InsertWaiter(ws, w)) = Len(ws) + 1
           /\ \A j \in 1..(Len(ws) + 1) :
                InsertWaiter(ws, w)[j] = IF j < k THEN ws[j]
                                         ELSE IF j = k THEN w ELSE ws[j - 1]
           /\ \A j \in 1..Len(ws) : j < k => ~(w.priority > ws[j].priority)
           /\ k <= Len(ws) => w.priority > ws[k].priority
<1> DEFINE key == [v \in Range(ws) \cup {w} |-> v.priority]
<1>1. InsertWaiter(ws, w) = InsertOrdered(ws, w, key)
  BY Zenon DEF InsertWaiter
<1>2. key[w] = w.priority /\ \A j \in 1..Len(ws) : key[ws[j]] = ws[j].priority
  <2>1. \A j \in 1..Len(ws) : ws[j] \in Range(ws)
    BY ElementsByIndex, Zenon
  <2> QED BY <2>1, Zenon
<1> HIDE DEF key
<1>3. PICK k \in 1..(Len(ws) + 1) :
        /\ InsertOrdered(ws, w, key) \in Seq(Waiter)
        /\ Len(InsertOrdered(ws, w, key)) = Len(ws) + 1
        /\ \A j \in 1..(Len(ws) + 1) :
             InsertOrdered(ws, w, key)[j] = IF j < k THEN ws[j]
                                            ELSE IF j = k THEN w ELSE ws[j - 1]
        /\ \A j \in 1..Len(ws) : j < k => ~(key[w] > key[ws[j]])
        /\ k <= Len(ws) => key[w] > key[ws[k]]
  BY InsertPosition, Zenon
<1>4. k <= Len(ws) => w.priority > ws[k].priority
  <2>1. k <= Len(ws) => k \in 1..Len(ws)
    OBVIOUS
  <2> QED BY <1>2, <1>3, <2>1, Zenon
<1>5. \A j \in 1..Len(ws) : j < k => ~(w.priority > ws[j].priority)
  BY <1>2, <1>3, Zenon
<1> QED BY <1>1, <1>3, <1>4, <1>5, Zenon

\* Of a list that is not empty, the first waiter and the others.
LEMMA TailWaiters ==
  ASSUME NEW ws \in Seq(Waiter), ws # <<>>
  PROVE  /\ Head(ws) = ws[1] /\ 1 \in 1..Len(ws)
         /\ Tail(ws) \in Seq(Waiter) /\ Len(Tail(ws)) = Len(ws) - 1
         /\ \A i \in 1..Len(Tail(ws)) : i + 1 \in 1..Len(ws) /\ Tail(ws)[i] = ws[i + 1]
OBVIOUS

\* The priorities of waiters can be compared.
LEMMA WaiterFields ==
  ASSUME NEW ws \in Seq(Waiter), NEW i \in 1..Len(ws)
  PROVE  ws[i].thread \in Thread /\ ws[i].priority \in Priority /\ ws[i].priority \in Int
<1>1. ws[i] \in Waiter
  OBVIOUS
<1> QED BY <1>1, PriorityAssumption, Zenon DEF Waiter
-----------------------------------------------------------------------------
\* Initially nobody has the lock and nobody waits (cond_init, lock_init).
LEMMA InitInv == MonitorInit => MonitorInv
<1> SUFFICES ASSUME MonitorInit PROVE MonitorInv
  OBVIOUS
<1>1. MonitorTypes
  BY DEF MonitorInit, MonitorTypes
<1>2. OneLocked /\ WaitingListed
  BY DEF MonitorInit, OneLocked, WaitingListed, Locked
<1>3. WaitersInOrder
  <2>1. 1..Len(waiters) = {}
    BY DEF MonitorInit
  <2> QED BY <2>1 DEF WaitersInOrder
<1> QED BY <1>1, <1>2, <1>3 DEF MonitorInv

\* A step that leaves the list and the semaphores of the waiters alone, and takes
\* no thread off it or into cond_wait, keeps what is said of the list.
LEMMA ListKept ==
  ASSUME MonitorInv, waiters' = waiters, MonitorTypes',
         \A t \in Thread : pc[t] \in {"waiting", "released"} /\ sema[t] = 0 =>
           pc'[t] \in {"waiting", "released"} /\ sema'[t] = 0,
         \A t \in Thread : pc'[t] = "waiting" => pc[t] = "waiting"
  PROVE  WaitersInOrder' /\ WaitingListed'
<1>1. \A i \in 1..Len(waiters) : waiters[i].thread \in Thread
  BY WaiterFields DEF MonitorInv, MonitorTypes
<1>2. WaitersInOrder'
  BY <1>1 DEF MonitorInv, WaitersInOrder
<1>3. WaitingListed'
  BY DEF MonitorInv, WaitingListed
<1> QED BY <1>2, <1>3

\* The first waiter may leave the list when its semaphore is upped, unless its
\* thread still has the lock; nobody but the caller t has it.
LEMMA PopKept ==
  ASSUME MonitorInv, NEW t \in Thread, pc[t] \in {"in", "broadcast"},
         waiters # <<>>, PopWaiter,
         \A u \in Thread : u # t => pc'[u] = pc[u],
         pc'[t] \in {"in", "broadcast"}
  PROVE  /\ WaitersInOrder' /\ WaitingListed'
         /\ sema' \in [Thread -> Nat] /\ waiters' \in Seq(Waiter)
         /\ pc[waiters[1].thread] = "released" /\ sema[waiters[1].thread] = 0
         /\ waiters[1].thread # t
<1>1. /\ waiters \in Seq(Waiter) /\ sema \in [Thread -> Nat]
      /\ pc \in [Thread -> Locked \cup {"out", "released", "reacquire"}]
  BY DEF MonitorInv, MonitorTypes
<1>2. /\ Head(waiters) = waiters[1] /\ 1 \in 1..Len(waiters)
      /\ waiters' \in Seq(Waiter) /\ Len(waiters') = Len(waiters) - 1
      /\ \A i \in 1..Len(waiters') :
           i + 1 \in 1..Len(waiters) /\ waiters'[i] = waiters[i + 1]
  BY <1>1, TailWaiters DEF PopWaiter
<1> DEFINE h == waiters[1].thread
<1>3. h \in Thread /\ \A i \in 1..Len(waiters) : waiters[i].thread \in Thread
  BY <1>1, <1>2, WaiterFields, Zenon
<1>4. sema' = [sema EXCEPT ![h] = @ + 1]
  BY <1>2 DEF PopWaiter
<1>5. \A u \in Thread : pc[u] # "waiting"
  BY DEF MonitorInv, OneLocked, Locked
<1>6. pc[h] = "released" /\ sema[h] = 0 /\ h # t
  BY <1>2, <1>3, <1>5 DEF MonitorInv, WaitersInOrder
<1>7. ASSUME NEW i \in 1..Len(waiters')
      PROVE  /\ pc'[waiters'[i].thread] \in {"waiting", "released"}
             /\ sema'[waiters'[i].thread] = 0
  <2> DEFINE u == waiters[i + 1].thread
  <2>1. i + 1 \in 1..Len(waiters) /\ waiters'[i].thread = u /\ u \in Thread
    BY <1>2, <1>3
  <2>2. pc[u] \in {"waiting", "released"} /\ sema[u] = 0
    BY <2>1 DEF MonitorInv, WaitersInOrder
  <2>3. u # h
    <3>1. 1 < i + 1
      BY <1>2
    <3> QED BY <1>2, <2>1, <3>1 DEF MonitorInv, WaitersInOrder
  <2>4. u # t
    BY <2>2
  <2> HIDE DEF u, h
  <2>5. sema'[u] = sema[u]
    BY <1>1, <1>3, <1>4, <2>1, <2>3
  <2> QED BY <2>1, <2>2, <2>4, <2>5
<1>8. ASSUME NEW i \in 1..Len(waiters'), NEW j \in 1..Len(waiters'), i < j
      PROVE  /\ waiters'[i].thread # waiters'[j].thread
             /\ waiters'[i].priority >= waiters'[j].priority
  <2>1. i + 1 < j + 1 /\ i + 1 \in 1..Len(waiters) /\ j + 1 \in 1..Len(waiters)
    BY <1>2, <1>8
  <2>2. waiters'[i] = waiters[i + 1] /\ waiters'[j] = waiters[j + 1]
    BY <1>2
  <2> QED BY <2>1, <2>2 DEF MonitorInv, WaitersInOrder
<1>9. WaitersInOrder'
  BY <1>7, <1>8 DEF WaitersInOrder
<1>10. WaitingListed'
  <2>1. \A u \in Thread : pc'[u] # "waiting"
    BY <1>5
  <2> QED BY <2>1 DEF WaitingListed
<1>11. sema' \in [Thread -> Nat]
  BY <1>1, <1>3, <1>4
<1> QED BY <1>2, <1>6, <1>9, <1>10, <1>11
-----------------------------------------------------------------------------
\* A step that takes the lock only when its semaphore is up, or only moves the
\* thread that has it, keeps the lock exclusive.
LEMMA LockKept ==
  ASSUME MonitorInv, NEW t \in Thread,
         \A u \in Thread : u # t => pc'[u] = pc[u],
         \/ pc[t] \in Locked /\ value' = value
         \/ pc[t] \in Locked /\ pc'[t] \notin Locked
         \/ pc[t] \notin Locked /\ pc'[t] \notin Locked /\ value' = value
         \/ value = 1 /\ value' = 0
  PROVE  OneLocked'
BY DEF MonitorInv, OneLocked

\* cond_wait inserts its waiter in order (BeginWait).
LEMMA InsertKept ==
  ASSUME MonitorInv, NEW t \in Thread, BeginWait(t)
  PROVE  /\ waiters' \in Seq(Waiter) /\ WaitersInOrder' /\ WaitingListed'
         /\ \A x : x \in Range(waiters') <=>
              x \in Range(waiters) \/ x = [thread |-> t, priority |-> prio[t]]
<1> DEFINE w == [thread |-> t, priority |-> prio[t]]
<1>1. /\ waiters \in Seq(Waiter) /\ sema \in [Thread -> Nat] /\ w \in Waiter
      /\ pc \in [Thread -> Locked \cup {"out", "released", "reacquire"}]
      /\ prio[t] \in Int
  BY PriorityAssumption, Zenon DEF MonitorInv, MonitorTypes, Waiter
<1>2. /\ waiters' = InsertWaiter(waiters, w) /\ pc[t] = "in"
      /\ pc' = [pc EXCEPT ![t] = "waiting"] /\ sema' = [sema EXCEPT ![t] = 0]
  BY DEF BeginWait, Goto
<1>0. w.thread = t /\ w.priority = prio[t]
  OBVIOUS
<1> HIDE DEF w
<1>3. PICK k \in 1..(Len(waiters) + 1) :
        /\ waiters' \in Seq(Waiter) /\ Len(waiters') = Len(waiters) + 1
        /\ \A j \in 1..(Len(waiters) + 1) :
             waiters'[j] = IF j < k THEN waiters[j]
                           ELSE IF j = k THEN w ELSE waiters[j - 1]
        /\ \A j \in 1..Len(waiters) : j < k => ~(w.priority > waiters[j].priority)
        /\ k <= Len(waiters) => w.priority > waiters[k].priority
  BY <1>1, <1>2, InsertWaiterProps, Zenon
<1>4. \A j \in 1..Len(waiters') :
        \/ j < k /\ j \in 1..Len(waiters) /\ waiters'[j] = waiters[j]
        \/ j = k /\ waiters'[j] = w
        \/ j > k /\ j - 1 \in 1..Len(waiters) /\ waiters'[j] = waiters[j - 1]
  BY <1>3
<1>5. \A i \in 1..Len(waiters) :
        /\ waiters[i].thread \in Thread /\ waiters[i].priority \in Int
        /\ pc[waiters[i].thread] \in {"waiting", "released"}
        /\ sema[waiters[i].thread] = 0
        /\ waiters[i].thread # t
  BY <1>1, <1>2, WaiterFields DEF MonitorInv, WaitersInOrder
<1>6. \A i, j \in 1..Len(waiters) : i < j =>
        /\ waiters[i].thread # waiters[j].thread
        /\ waiters[i].priority >= waiters[j].priority
  BY DEF MonitorInv, WaitersInOrder
<1>7. ASSUME NEW j \in 1..Len(waiters')
      PROVE  /\ pc'[waiters'[j].thread] \in {"waiting", "released"}
             /\ sema'[waiters'[j].thread] = 0
  <2>1. CASE waiters'[j] = w
    BY <1>0, <1>1, <1>2, <2>1
  <2>2. ASSUME NEW i \in 1..Len(waiters), waiters'[j] = waiters[i]
        PROVE  /\ pc'[waiters'[j].thread] \in {"waiting", "released"}
               /\ sema'[waiters'[j].thread] = 0
    BY <1>1, <1>2, <1>5, <2>2
  <2> QED BY <1>4, <2>1, <2>2
<1>8. \A i \in 1..Len(waiters) :
        /\ i < k => waiters[i].priority >= prio[t]
        /\ i >= k => prio[t] >= waiters[i].priority
  <2> TAKE i \in 1..Len(waiters)
  <2>1. i < k => waiters[i].priority >= prio[t]
    <3>1. i < k => ~(w.priority > waiters[i].priority)
      BY <1>3
    <3>2. prio[t] \in Int /\ waiters[i].priority \in Int
      BY <1>1, <1>5
    <3> QED BY <1>0, <3>1, <3>2
  <2>2. i >= k => prio[t] >= waiters[i].priority
    <3> HAVE i >= k
    <3>1. k \in 1..Len(waiters) /\ prio[t] > waiters[k].priority
      BY <1>0, <1>3
    <3>2. k < i => waiters[k].priority >= waiters[i].priority
      BY <1>6, <3>1
    <3>3. waiters[k].priority \in Int /\ waiters[i].priority \in Int
      BY <1>5, <3>1
    <3>4. k = i \/ k < i
      OBVIOUS
    <3> QED BY <1>1, <3>1, <3>2, <3>3, <3>4
  <2> QED BY <2>1, <2>2
<1>9. ASSUME NEW i \in 1..Len(waiters'), NEW j \in 1..Len(waiters'), i < j
      PROVE  /\ waiters'[i].thread # waiters'[j].thread
             /\ waiters'[i].priority >= waiters'[j].priority
  <2>1. CASE j < k
    BY <1>4, <1>6, <1>9, <2>1
  <2>2. CASE i < k /\ j = k
    BY <1>0, <1>4, <1>5, <1>8, <2>2
  <2>3. CASE i < k /\ j > k
    <3>1. /\ i \in 1..Len(waiters) /\ j - 1 \in 1..Len(waiters) /\ i < j - 1
          /\ waiters'[i] = waiters[i] /\ waiters'[j] = waiters[j - 1]
      BY <1>4, <2>3
    <3> QED BY <1>6, <3>1
  <2>4. CASE i = k /\ j > k
    <3>1. /\ j - 1 \in 1..Len(waiters) /\ j - 1 >= k
          /\ waiters'[i] = w /\ waiters'[j] = waiters[j - 1]
      BY <1>4, <2>4
    <3> QED BY <1>0, <1>5, <1>8, <3>1
  <2>5. CASE i > k
    <3>1. /\ i - 1 \in 1..Len(waiters) /\ j - 1 \in 1..Len(waiters) /\ i - 1 < j - 1
          /\ waiters'[i] = waiters[i - 1] /\ waiters'[j] = waiters[j - 1]
      BY <1>4, <1>9, <2>5
    <3> QED BY <1>6, <3>1
  <2>6. j < k \/ (i < k /\ j = k) \/ (i < k /\ j > k) \/ (i = k /\ j > k) \/ i > k
    BY <1>9
  <2> QED BY <2>1, <2>2, <2>3, <2>4, <2>5, <2>6
<1>10. WaitersInOrder'
  BY <1>7, <1>9 DEF WaitersInOrder
<1>11. WaitingListed'
  <2>1. k \in 1..Len(waiters') /\ waiters'[k].thread = t
    BY <1>0, <1>3
  <2>2. \A u \in Thread : pc'[u] = "waiting" => u = t
    BY <1>1, <1>2 DEF MonitorInv, OneLocked, Locked
  <2> QED BY <2>1, <2>2 DEF WaitingListed
<1>12. \A x : x \in Range(waiters') <=> x \in Range(waiters) \/ x = w
  <2>1. \A i \in 1..Len(waiters) : \E j \in 1..Len(waiters') : waiters'[j] = waiters[i]
    <3> TAKE i \in 1..Len(waiters)
    <3>1. CASE i < k
      BY <1>3, <3>1
    <3>2. CASE i >= k
      <4>1. i + 1 \in 1..Len(waiters') /\ waiters'[i + 1] = waiters[i]
        BY <1>3, <3>2
      <4> QED BY <4>1
    <3> QED BY <3>1, <3>2
  <2>2. k \in 1..Len(waiters') /\ waiters'[k] = w
    BY <1>3
  <2>3. \A j \in 1..Len(waiters') :
          waiters'[j] = w \/ \E i \in 1..Len(waiters) : waiters'[j] = waiters[i]
    BY <1>4
  <2>4. /\ \A x : x \in Range(waiters') <=> \E i \in 1..Len(waiters') : waiters'[i] = x
        /\ \A x : x \in Range(waiters) <=> \E i \in 1..Len(waiters) : waiters[i] = x
    BY <1>1, <1>3, ElementsByIndex
  <2> QED BY <2>1, <2>2, <2>3, <2>4, Zenon
<1> QED BY <1>3, <1>10, <1>11, <1>12 DEF w
-----------------------------------------------------------------------------
\* Every step of the threads inside and around the monitor keeps the invariant.
LEMMA StepInv == MonitorInv /\ [MonitorNext]_monitorVars => MonitorInv'
<1> SUFFICES ASSUME MonitorInv, [MonitorNext]_monitorVars
             PROVE  MonitorInv'
  OBVIOUS
<1> USE DEF Locked
<1>0. MonitorTypes
  BY DEF MonitorInv
<1>1. ASSUME NEW t \in Thread, AcquireSema(t) PROVE MonitorInv'
  <2>1. MonitorTypes'
    BY <1>0, <1>1 DEF MonitorTypes, AcquireSema, Goto
  <2>2. OneLocked'
    BY <1>0, <1>1, LockKept DEF MonitorTypes, AcquireSema, Goto
  <2>3. WaitersInOrder' /\ WaitingListed'
    <3>1. pc[t] \in {"out", "reacquire"} /\ pc' = [pc EXCEPT ![t] = "acquired"]
      BY <1>1 DEF AcquireSema, Goto
    <3> QED BY <1>0, <1>1, <2>1, <3>1, ListKept DEF AcquireSema, MonitorTypes
  <2> QED BY <2>1, <2>2, <2>3 DEF MonitorInv
<1>2. ASSUME NEW t \in Thread, SetHolder(t) PROVE MonitorInv'
  <2>1. MonitorTypes'
    BY <1>0, <1>2 DEF MonitorTypes, SetHolder, Goto
  <2>2. OneLocked'
    BY <1>0, <1>2, LockKept DEF MonitorTypes, SetHolder, Goto
  <2>3. WaitersInOrder' /\ WaitingListed'
    BY <1>0, <1>2, <2>1, ListKept DEF SetHolder, Goto, MonitorTypes
  <2> QED BY <2>1, <2>2, <2>3 DEF MonitorInv
<1>3. ASSUME NEW t \in Thread, Leave(t) PROVE MonitorInv'
  <2>0. value = 0
    BY <1>3 DEF MonitorInv, OneLocked, Leave
  <2>1. MonitorTypes'
    BY <1>0, <1>3, <2>0 DEF MonitorTypes, Leave, lock_release, Goto
  <2>2. OneLocked'
    BY <1>0, <1>3, LockKept DEF MonitorTypes, Leave, Goto
  <2>3. WaitersInOrder' /\ WaitingListed'
    BY <1>0, <1>3, <2>1, ListKept DEF Leave, Goto, MonitorTypes
  <2> QED BY <2>1, <2>2, <2>3 DEF MonitorInv
<1>4. ASSUME NEW t \in Thread, BeginWait(t) PROVE MonitorInv'
  <2>1. waiters' \in Seq(Waiter) /\ WaitersInOrder' /\ WaitingListed'
    BY <1>4, InsertKept
  <2>2. MonitorTypes'
    BY <1>0, <1>4, <2>1 DEF MonitorTypes, BeginWait, Goto
  <2>3. OneLocked'
    BY <1>0, <1>4, LockKept DEF MonitorTypes, BeginWait, Goto
  <2> QED BY <2>1, <2>2, <2>3 DEF MonitorInv
<1>5. ASSUME NEW t \in Thread, ReleaseToWait(t) PROVE MonitorInv'
  <2>0. value = 0
    BY <1>5 DEF MonitorInv, OneLocked, ReleaseToWait
  <2>1. MonitorTypes'
    BY <1>0, <1>5, <2>0 DEF MonitorTypes, ReleaseToWait, lock_release, Goto
  <2>2. OneLocked'
    BY <1>0, <1>5, LockKept DEF MonitorTypes, ReleaseToWait, Goto
  <2>3. WaitersInOrder' /\ WaitingListed'
    BY <1>0, <1>5, <2>1, ListKept DEF ReleaseToWait, Goto, MonitorTypes
  <2> QED BY <2>1, <2>2, <2>3 DEF MonitorInv
<1>6. ASSUME NEW t \in Thread, EndWait(t) PROVE MonitorInv'
  <2>1. MonitorTypes'
    BY <1>0, <1>6 DEF MonitorTypes, EndWait, Goto
  <2>2. OneLocked'
    BY <1>0, <1>6, LockKept DEF MonitorTypes, EndWait, Goto
  <2>3. WaitersInOrder' /\ WaitingListed'
    BY <1>0, <1>6, <2>1, ListKept DEF EndWait, Goto, MonitorTypes
  <2> QED BY <2>1, <2>2, <2>3 DEF MonitorInv
<1>7. ASSUME NEW t \in Thread, cond_signal(t) PROVE MonitorInv'
  <2>1. /\ WaitersInOrder' /\ WaitingListed'
        /\ sema' \in [Thread -> Nat] /\ waiters' \in Seq(Waiter)
    BY <1>7, PopKept DEF cond_signal
  <2>2. MonitorTypes'
    BY <1>0, <1>7, <2>1 DEF MonitorTypes, cond_signal
  <2>3. OneLocked'
    BY <1>7, LockKept DEF cond_signal
  <2> QED BY <2>1, <2>2, <2>3 DEF MonitorInv
<1>8. ASSUME NEW t \in Thread, cond_broadcast(t) PROVE MonitorInv'
  <2>1. CASE waiters # <<>>
    <3>1. /\ pc[t] \in {"in", "broadcast"} /\ PopWaiter
          /\ pc' = [pc EXCEPT ![t] = "broadcast"] /\ UNCHANGED <<prio, value, holder>>
      BY <1>8, <2>1 DEF cond_broadcast, Goto
    <3>2. pc'[t] = "broadcast" /\ \A u \in Thread : u # t => pc'[u] = pc[u]
      BY <1>0, <3>1 DEF MonitorTypes
    <3>3. /\ WaitersInOrder' /\ WaitingListed'
          /\ sema' \in [Thread -> Nat] /\ waiters' \in Seq(Waiter)
      BY <2>1, <3>1, <3>2, PopKept
    <3>4. MonitorTypes'
      BY <1>0, <3>1, <3>3, Zenon DEF MonitorTypes
    <3>5. OneLocked'
      BY <3>1, <3>2, LockKept
    <3> QED BY <3>3, <3>4, <3>5 DEF MonitorInv
  <2>2. CASE waiters = <<>>
    <3>1. /\ pc[t] = "broadcast" /\ pc' = [pc EXCEPT ![t] = "in"]
          /\ UNCHANGED <<waiters, sema, prio, value, holder>>
      BY <1>8, <2>2 DEF cond_broadcast, Goto
    <3>2. MonitorTypes'
      BY <1>0, <3>1 DEF MonitorTypes
    <3>3. OneLocked'
      BY <1>0, <3>1, LockKept DEF MonitorTypes
    <3>4. WaitersInOrder' /\ WaitingListed'
      BY <1>0, <3>1, <3>2, ListKept DEF MonitorTypes
    <3> QED BY <3>2, <3>3, <3>4 DEF MonitorInv
  <2> QED BY <2>1, <2>2
<1>9. ASSUME NEW t \in Thread, ChangePriority(t) PROVE MonitorInv'
  <2>1. MonitorTypes'
    BY <1>0, <1>9 DEF MonitorTypes, ChangePriority
  <2>2. OneLocked' /\ WaitersInOrder' /\ WaitingListed'
    BY <1>9 DEF MonitorInv, OneLocked, WaitersInOrder, WaitingListed, ChangePriority
  <2> QED BY <2>1, <2>2 DEF MonitorInv
<1>10. CASE UNCHANGED monitorVars
  BY <1>10 DEF monitorVars, MonitorInv, MonitorTypes, OneLocked, WaitersInOrder,
               WaitingListed
<1> QED
  BY <1>1, <1>2, <1>3, <1>4, <1>5, <1>6, <1>7, <1>8, <1>9, <1>10 DEF MonitorNext

\* The inductive invariant of condition variables: the lock is exclusive, and the
\* waiters are listed once each, by priority, until their semaphore is upped
\* (cond_wait, cond_signal).
THEOREM MonitorInvariant == MonitorSpec => []MonitorInv
BY InitInv, StepInv, PTL DEF MonitorSpec
-----------------------------------------------------------------------------
\* Who waits in the abstract monitor.
LEMMA AbsWaitingDef ==
  \A x : x \in AbsWaiting <=>
    \E w \in Range(waiters) : /\ pc[w.thread] = "released" /\ sema[w.thread] = 0
                              /\ x = <<w.thread, w.priority>>
BY DEF AbsWaiting

\* The abstract waiters change only through the list, or through the location
\* or the semaphore of a listed thread.
LEMMA AbsWaitingKept ==
  ASSUME waiters' = waiters,
         \A w \in Range(waiters) :
           (pc'[w.thread] = "released" /\ sema'[w.thread] = 0)
             <=> (pc[w.thread] = "released" /\ sema[w.thread] = 0)
  PROVE  AbsWaiting' = AbsWaiting
BY DEF AbsWaiting

\* What the invariant says of a member of the list.
LEMMA Listed ==
  ASSUME MonitorInv, NEW w \in Range(waiters)
  PROVE  /\ w \in Waiter /\ w.thread \in Thread /\ w.priority \in Priority
         /\ pc[w.thread] \in {"waiting", "released"} /\ sema[w.thread] = 0
<1>1. waiters \in Seq(Waiter)
  BY DEF MonitorInv, MonitorTypes
<1>2. PICK i \in 1..Len(waiters) : waiters[i] = w
  BY <1>1, ElementsByIndex
<1> QED BY <1>1, <1>2, WaiterFields DEF MonitorInv, WaitersInOrder

\* Whoever is inside has the lock, so nobody else is and nobody is about to wait.
LEMMA AloneInside ==
  ASSUME MonitorInv, NEW t \in Thread, pc[t] \in Locked
  PROVE  /\ \A u \in Thread : pc[u] \in Locked => u = t
         /\ pc[t] = "acquired" => AbsInside = {}
         /\ pc[t] \in {"in", "waiting", "broadcast"} => AbsInside = {t}
<1>1. \A u \in Thread : pc[u] \in Locked => u = t
  BY DEF MonitorInv, OneLocked
<1> QED BY <1>1 DEF AbsInside, Locked

\* A signal lets the first waiter go, which is a waiter of the abstract monitor
\* that no other outranks (cond_signal).
LEMMA PopSignals ==
  ASSUME MonitorInv, NEW t \in Thread, pc[t] \in {"in", "broadcast"},
         waiters # <<>>, PopWaiter,
         \A u \in Thread : u # t => pc'[u] = pc[u],
         pc'[t] \in {"in", "broadcast"}
  PROVE  Abs!AbsNext
<1>1. /\ waiters \in Seq(Waiter) /\ sema \in [Thread -> Nat]
  BY DEF MonitorInv, MonitorTypes
<1>2. /\ Head(waiters) = waiters[1] /\ 1 \in 1..Len(waiters)
      /\ waiters' = Tail(waiters)
      /\ Tail(waiters) \in Seq(Waiter) /\ Len(Tail(waiters)) = Len(waiters) - 1
      /\ \A i \in 1..Len(Tail(waiters)) :
           i + 1 \in 1..Len(waiters) /\ Tail(waiters)[i] = waiters[i + 1]
  BY <1>1, TailWaiters DEF PopWaiter
<1> DEFINE h == waiters[1]
           x == <<h.thread, h.priority>>
<1>3. /\ pc[h.thread] = "released" /\ sema[h.thread] = 0 /\ h.thread # t
      /\ h.thread \in Thread
  BY <1>1, <1>2, PopKept, WaiterFields
<1>4. sema' = [sema EXCEPT ![h.thread] = @ + 1]
  BY <1>2 DEF PopWaiter
<1>5. /\ \A y : y \in Range(waiters) <=> \E i \in 1..Len(waiters) : waiters[i] = y
      /\ \A y : y \in Range(waiters') <=> \E i \in 1..Len(waiters') : waiters'[i] = y
  <2>1. waiters' \in Seq(Waiter)
    BY <1>2
  <2>2. \A y : y \in Range(waiters) <=> \E i \in 1..Len(waiters) : waiters[i] = y
    BY <1>1, ElementsByIndex
  <2>3. \A y : y \in Range(waiters') <=> \E i \in 1..Len(waiters') : waiters'[i] = y
    BY <2>1, ElementsByIndex
  <2> QED BY <2>2, <2>3
<1>6. h \in Range(waiters)
  BY <1>2, <1>5
<1>7. x \in AbsWaiting
  BY <1>3, <1>6, AbsWaitingDef
<1>8. ASSUME NEW v \in AbsWaiting
      PROVE  v[2] <= x[2]
  <2>1. PICK i \in 1..Len(waiters) : v = <<waiters[i].thread, waiters[i].priority>>
    BY <1>5, AbsWaitingDef
  <2>2. h.priority \in Int /\ waiters[i].priority \in Int
    BY <1>1, <1>2, WaiterFields
  <2>3. 1 < i => h.priority >= waiters[i].priority
    BY <1>2 DEF MonitorInv, WaitersInOrder
  <2>4. i = 1 \/ 1 < i
    OBVIOUS
  <2> QED BY <2>1, <2>2, <2>3, <2>4
<1>9. ASSUME NEW w \in Range(waiters')
      PROVE  /\ w \in Range(waiters) /\ w.thread # h.thread /\ w.thread # t
             /\ w.thread \in Thread
             /\ pc'[w.thread] = pc[w.thread] /\ sema'[w.thread] = sema[w.thread]
  <2>1. PICK i \in 1..Len(waiters') : w = waiters[i + 1] /\ i + 1 \in 1..Len(waiters)
    BY <1>2, <1>5
  <2>2. w \in Range(waiters)
    BY <1>5, <2>1
  <2>3. w.thread # h.thread
    <3>1. 1 < i + 1
      BY <1>2
    <3> QED BY <1>2, <2>1, <3>1 DEF MonitorInv, WaitersInOrder
  <2>4. w.thread \in Thread /\ w.thread # t
    BY <2>2, Listed
  <2>5. sema'[w.thread] = sema[w.thread]
    BY <1>1, <1>3, <1>4, <2>3, <2>4
  <2> QED BY <2>2, <2>3, <2>4, <2>5
<1>10. ASSUME NEW w \in Range(waiters), w.thread # h.thread
       PROVE  w \in Range(waiters')
  <2>1. PICK i \in 1..Len(waiters) : w = waiters[i]
    BY <1>5
  <2>2. i # 1
    BY <1>10, <2>1
  <2>3. i - 1 \in 1..Len(waiters') /\ waiters'[i - 1] = waiters[i]
    BY <1>2, <2>2
  <2> QED BY <1>5, <2>1, <2>3
<1>11. AbsWaiting' = AbsWaiting \ {x}
  <2>1. \A y : y \in AbsWaiting' <=>
          \E w \in Range(waiters') : /\ pc'[w.thread] = "released"
                                     /\ sema'[w.thread] = 0
                                     /\ y = <<w.thread, w.priority>>
    BY DEF AbsWaiting
  <2>2. ASSUME NEW y \in AbsWaiting' PROVE y \in AbsWaiting \ {x}
    <3>1. PICK w \in Range(waiters') :
            /\ pc'[w.thread] = "released" /\ sema'[w.thread] = 0
            /\ y = <<w.thread, w.priority>>
      BY <2>1
    <3>2. y \in AbsWaiting
      BY <1>9, <3>1, AbsWaitingDef
    <3> QED BY <1>9, <3>1, <3>2
  <2>3. ASSUME NEW y \in AbsWaiting \ {x} PROVE y \in AbsWaiting'
    <3>1. PICK w \in Range(waiters) :
            /\ pc[w.thread] = "released" /\ sema[w.thread] = 0
            /\ y = <<w.thread, w.priority>>
      BY AbsWaitingDef
    <3>2. w.thread # h.thread
      <4> SUFFICES ASSUME w.thread = h.thread PROVE w = h
        BY <3>1
      <4>1. PICK i \in 1..Len(waiters) : w = waiters[i]
        BY <1>5
      <4>2. i = 1 \/ 1 < i
        OBVIOUS
      <4> QED BY <1>2, <4>1, <4>2 DEF MonitorInv, WaitersInOrder
    <3>3. w \in Range(waiters')
      BY <1>10, <3>2
    <3> QED BY <1>9, <2>1, <3>1, <3>3
  <2> QED BY <2>2, <2>3
<1>12. AbsInside = {t} /\ AbsInside' = AbsInside
  <2>1. AbsInside = {t}
    BY AloneInside DEF Locked
  <2>2. AbsInside' = AbsInside
    BY DEF AbsInside
  <2> QED BY <2>1, <2>2
<1> HIDE DEF h, x
<1>13. Abs!Signal(x)
  BY <1>8, <1>11, <1>12 DEF Abs!Signal
<1> QED BY <1>7, <1>13 DEF Abs!AbsNext

\* Every step is a step of the abstract monitor or leaves it unchanged: entering
\* is SetHolder, waiting is the release of the lock in cond_wait.
LEMMA StepRefines ==
  MonitorInv /\ [MonitorNext]_monitorVars => [Abs!AbsNext]_(Abs!absVars)
<1> SUFFICES ASSUME MonitorInv, [MonitorNext]_monitorVars
             PROVE  Abs!AbsNext \/ (AbsInside' = AbsInside /\ AbsWaiting' = AbsWaiting)
  BY DEF Abs!absVars
<1>0. /\ pc \in [Thread -> Locked \cup {"out", "released", "reacquire"}]
      /\ prio \in [Thread -> Priority] /\ sema \in [Thread -> Nat]
      /\ waiters \in Seq(Waiter)
  BY DEF MonitorInv, MonitorTypes
<1>a. \A w \in Range(waiters) :
        /\ w.thread \in Thread /\ w.priority \in Priority
        /\ pc[w.thread] \in {"waiting", "released"} /\ sema[w.thread] = 0
  BY Listed
<1>1. ASSUME NEW t \in Thread, AcquireSema(t)
      PROVE  AbsInside' = AbsInside /\ AbsWaiting' = AbsWaiting
  <2>1. AbsWaiting' = AbsWaiting
    BY <1>0, <1>a, <1>1, AbsWaitingKept DEF AcquireSema, Goto
  <2>2. AbsInside' = AbsInside
    BY <1>0, <1>1 DEF AbsInside, AcquireSema, Goto
  <2> QED BY <2>1, <2>2
<1>2. ASSUME NEW t \in Thread, SetHolder(t) PROVE Abs!AbsNext
  <2>1. AbsWaiting' = AbsWaiting
    BY <1>0, <1>a, <1>2, AbsWaitingKept DEF SetHolder, Goto
  <2>2. pc[t] = "acquired" /\ pc' = [pc EXCEPT ![t] = "in"]
    BY <1>2 DEF SetHolder, Goto
  <2>3. AbsInside = {}
    BY <2>2, AloneInside DEF Locked
  <2>4. AbsInside' = {t}
    BY <1>0, <2>2, <2>3 DEF AbsInside
  <2>5. \A x \in AbsWaiting : x[1] # t
    BY <2>2, AbsWaitingDef
  <2>6. Abs!Enter(t)
    BY <2>1, <2>3, <2>4, <2>5 DEF Abs!Enter
  <2> QED BY <2>6 DEF Abs!AbsNext
<1>3. ASSUME NEW t \in Thread, Leave(t) PROVE Abs!AbsNext
  <2>1. AbsWaiting' = AbsWaiting
    BY <1>0, <1>a, <1>3, AbsWaitingKept DEF Leave, Goto
  <2>2. pc[t] = "in" /\ pc' = [pc EXCEPT ![t] = "out"]
    BY <1>3 DEF Leave, Goto
  <2>3. AbsInside = {t}
    BY <2>2, AloneInside DEF Locked
  <2>4. AbsInside' = {}
    BY <1>0, <2>2, <2>3 DEF AbsInside
  <2>5. Abs!Leave
    BY <2>1, <2>4 DEF Abs!Leave
  <2> QED BY <2>5 DEF Abs!AbsNext
<1>4. ASSUME NEW t \in Thread, BeginWait(t)
      PROVE  AbsInside' = AbsInside /\ AbsWaiting' = AbsWaiting
  <2>1. /\ pc[t] = "in" /\ pc' = [pc EXCEPT ![t] = "waiting"]
        /\ sema' = [sema EXCEPT ![t] = 0]
    BY <1>4 DEF BeginWait, Goto
  <2>2. AbsInside' = AbsInside
    BY <1>0, <2>1 DEF AbsInside
  <2>3. \A x : x \in Range(waiters') <=>
          x \in Range(waiters) \/ x = [thread |-> t, priority |-> prio[t]]
    BY <1>4, InsertKept
  <2>4. \A w \in Range(waiters) :
          w.thread # t /\ pc'[w.thread] = pc[w.thread] /\ sema'[w.thread] = sema[w.thread]
    BY <1>0, <1>a, <2>1
  <2>5. \A w \in Range(waiters') : pc'[w.thread] = "released" => w \in Range(waiters)
    BY <1>0, <2>1, <2>3
  <2>6. AbsWaiting' = AbsWaiting
    <3>1. \A x : x \in AbsWaiting' <=>
            \E w \in Range(waiters') : /\ pc'[w.thread] = "released"
                                       /\ sema'[w.thread] = 0
                                       /\ x = <<w.thread, w.priority>>
      BY DEF AbsWaiting
    <3>2. ASSUME NEW x \in AbsWaiting' PROVE x \in AbsWaiting
      <4>1. PICK w \in Range(waiters') :
              /\ pc'[w.thread] = "released" /\ sema'[w.thread] = 0
              /\ x = <<w.thread, w.priority>>
        BY <3>1
      <4> QED BY <2>4, <2>5, <4>1, AbsWaitingDef
    <3>3. ASSUME NEW x \in AbsWaiting PROVE x \in AbsWaiting'
      <4>1. PICK w \in Range(waiters) :
              /\ pc[w.thread] = "released" /\ sema[w.thread] = 0
              /\ x = <<w.thread, w.priority>>
        BY AbsWaitingDef
      <4> QED BY <2>3, <2>4, <3>1, <4>1
    <3> QED BY <3>2, <3>3, Zenon
  <2> QED BY <2>2, <2>6
<1>5. ASSUME NEW t \in Thread, ReleaseToWait(t) PROVE Abs!AbsNext
  <2>1. /\ pc[t] = "waiting" /\ pc' = [pc EXCEPT ![t] = "released"]
        /\ waiters' = waiters /\ sema' = sema
    BY <1>5 DEF ReleaseToWait, Goto
  <2>2. AbsInside = {t}
    BY <2>1, AloneInside DEF Locked
  <2>3. AbsInside' = {}
    BY <1>0, <2>1, <2>2 DEF AbsInside
  <2>4. PICK k \in 1..Len(waiters) : waiters[k].thread = t
    BY <2>1 DEF MonitorInv, WaitingListed
  <2>5. waiters[k] \in Range(waiters)
    BY <1>0, <2>4, ElementsByIndex
  <2>6. \A w \in Range(waiters) : w.thread = t => w = waiters[k]
    <3> SUFFICES ASSUME NEW i \in 1..Len(waiters), waiters[i].thread = t
                 PROVE  i = k
      BY <1>0, ElementsByIndex
    <3>1. i < k \/ i = k \/ k < i
      OBVIOUS
    <3> QED BY <2>4, <3>1 DEF MonitorInv, WaitersInOrder
  <2> DEFINE p == waiters[k].priority
  <2>7. p \in Priority
    BY <1>a, <2>5
  <2>8. \A w \in Range(waiters) :
          /\ w.thread # t => pc'[w.thread] = pc[w.thread]
          /\ w.thread = t => pc'[w.thread] = "released" /\ pc[w.thread] = "waiting"
    BY <1>0, <1>a, <2>1
  <2>9. AbsWaiting' = AbsWaiting \cup {<<t, p>>}
    <3>1. \A x : x \in AbsWaiting' <=>
            \E w \in Range(waiters) : /\ pc'[w.thread] = "released"
                                      /\ sema[w.thread] = 0
                                      /\ x = <<w.thread, w.priority>>
      BY <2>1 DEF AbsWaiting
    <3>2. ASSUME NEW x \in AbsWaiting' PROVE x \in AbsWaiting \cup {<<t, p>>}
      BY <2>6, <2>8, <3>1, AbsWaitingDef
    <3>3. ASSUME NEW x \in AbsWaiting PROVE x \in AbsWaiting'
      BY <2>8, <3>1, AbsWaitingDef
    <3>4. <<t, p>> \in AbsWaiting'
      BY <1>a, <2>4, <2>5, <2>8, <3>1
    <3> QED BY <3>2, <3>3, <3>4
  <2> HIDE DEF p
  <2>10. Abs!Wait(t, p)
    BY <2>2, <2>3, <2>9 DEF Abs!Wait
  <2> QED BY <2>7, <2>10 DEF Abs!AbsNext
<1>6. ASSUME NEW t \in Thread, EndWait(t)
      PROVE  AbsInside' = AbsInside /\ AbsWaiting' = AbsWaiting
  <2>1. \A w \in Range(waiters) : w.thread # t
    BY <1>0, <1>a, <1>6 DEF EndWait
  <2>2. AbsWaiting' = AbsWaiting
    BY <1>0, <1>a, <1>6, <2>1, AbsWaitingKept DEF EndWait, Goto
  <2>3. AbsInside' = AbsInside
    BY <1>0, <1>6 DEF AbsInside, EndWait, Goto
  <2> QED BY <2>2, <2>3
<1>7. ASSUME NEW t \in Thread, cond_signal(t) PROVE Abs!AbsNext
  BY <1>7, PopSignals DEF cond_signal
<1>8. ASSUME NEW t \in Thread, cond_broadcast(t)
      PROVE  Abs!AbsNext \/ (AbsInside' = AbsInside /\ AbsWaiting' = AbsWaiting)
  <2>1. CASE waiters # <<>>
    <3>1. /\ pc[t] \in {"in", "broadcast"} /\ PopWaiter
          /\ pc' = [pc EXCEPT ![t] = "broadcast"]
      BY <1>8, <2>1 DEF cond_broadcast, Goto
    <3>2. pc'[t] = "broadcast" /\ \A u \in Thread : u # t => pc'[u] = pc[u]
      BY <1>0, <3>1
    <3> QED BY <2>1, <3>1, <3>2, PopSignals
  <2>2. CASE waiters = <<>>
    <3>1. /\ pc[t] = "broadcast" /\ pc' = [pc EXCEPT ![t] = "in"]
          /\ waiters' = waiters /\ sema' = sema
      BY <1>8, <2>2 DEF cond_broadcast, Goto
    <3>2. AbsWaiting' = AbsWaiting
      BY <1>0, <1>a, <3>1, AbsWaitingKept
    <3>3. AbsInside' = AbsInside
      BY <1>0, <3>1 DEF AbsInside
    <3> QED BY <3>2, <3>3
  <2> QED BY <2>1, <2>2
<1>9. ASSUME NEW t \in Thread, ChangePriority(t)
      PROVE  AbsInside' = AbsInside /\ AbsWaiting' = AbsWaiting
  BY <1>9 DEF ChangePriority, AbsInside, AbsWaiting
<1>10. CASE UNCHANGED monitorVars
  BY <1>10 DEF monitorVars, AbsInside, AbsWaiting
<1> QED
  BY <1>1, <1>2, <1>3, <1>4, <1>5, <1>6, <1>7, <1>8, <1>9, <1>10 DEF MonitorNext

\* cond_wait, cond_signal and cond_broadcast implement the abstract monitor, for
\* any threads, any priorities and any changes of priority while threads wait.
THEOREM MonitorRefinement == MonitorSpec => ImplementsMonitor
<1>1. MonitorInit => Abs!AbsInit
  BY DEF MonitorInit, Abs!AbsInit, AbsInside, AbsWaiting, Range
<1>2. MonitorInv /\ [MonitorNext]_monitorVars => [Abs!AbsNext]_(Abs!absVars)
  BY StepRefines
<1> QED
  BY <1>1, <1>2, MonitorInvariant, PTL DEF MonitorSpec, ImplementsMonitor, Abs!AbsSpec
=============================================================================
