------------------------------ MODULE SynchAbs ------------------------------
(***************************************************************************)
(* What threads/synch.h promises: counting semaphores and locks that are   *)
(* atomic, with no mention of priorities, waiting lists or scheduling.     *)
(* The rest of the kernel is modelled against this.                        *)
(***************************************************************************)
EXTENDS Naturals

CONSTANTS Thread, Lock, Semaphore, NULL

VARIABLES
  count,   \* value of each semaphore
  owner    \* the thread that holds each lock, or NULL

Init ==
  /\ count = [s \in Semaphore |-> 0]
  /\ owner = [l \in Lock |-> NULL]

Down(s) ==
  /\ count[s] > 0
  /\ count' = [count EXCEPT ![s] = @ - 1]
  /\ UNCHANGED owner

Up(s) ==
  /\ count' = [count EXCEPT ![s] = @ + 1]
  /\ UNCHANGED owner

Acquire(l, t) ==
  /\ owner[l] = NULL
  /\ owner' = [owner EXCEPT ![l] = t]
  /\ UNCHANGED count

Release(l) ==
  /\ owner[l] # NULL
  /\ owner' = [owner EXCEPT ![l] = NULL]
  /\ UNCHANGED count

Next ==
  \/ \E s \in Semaphore : Down(s) \/ Up(s)
  \/ \E l \in Lock : Release(l) \/ \E t \in Thread : Acquire(l, t)

Spec == Init /\ [][Next]_<<count, owner>>
=============================================================================
