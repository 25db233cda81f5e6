------------------------------ MODULE MonitorAbs ------------------------------
(***************************************************************************)
(* What a lock with a condition variable promises: one thread at a time is *)
(* inside, a thread gives up the monitor and begins to wait in one step,   *)
(* and a signal lets the waiter go that had the highest priority when it   *)
(* began to wait.                                                          *)
(***************************************************************************)
EXTENDS Naturals

CONSTANTS Thread, Priority

VARIABLES
  inside,       \* the threads inside the monitor
  waiting       \* the waiting threads, each with the priority it began with

absVars == <<inside, waiting>>

AbsInit == inside = {} /\ waiting = {}

Enter(t) ==
  /\ inside = {} /\ \A w \in waiting : w[1] # t
  /\ inside' = {t} /\ UNCHANGED waiting

Leave == inside' = {} /\ UNCHANGED waiting

Wait(t, p) ==
  /\ inside = {t} /\ inside' = {}
  /\ waiting' = waiting \cup {<<t, p>>}

Signal(w) ==
  /\ inside # {} /\ UNCHANGED inside
  /\ \A v \in waiting : v[2] <= w[2]
  /\ waiting' = waiting \ {w}

AbsNext ==
  \/ \E t \in Thread : Enter(t)
  \/ Leave
  \/ \E t \in Thread, p \in Priority : Wait(t, p)
  \/ \E w \in waiting : Signal(w)

AbsSpec == AbsInit /\ [][AbsNext]_absVars
=============================================================================
