---------------------------- MODULE Shell_proofs ----------------------------
(***************************************************************************)
(* The job list of the shell agrees with its children and the foreground   *)
(* job is waited for, for any number of children and any length of the     *)
(* list.                                                                   *)
(***************************************************************************)
EXTENDS Shell, List_proofs, FiniteSetTheorems

ChildState == {"none", "forked", "running", "stopped", "zombie"}
Changed == {"stopped", "zombie"}

ShellTypes ==
  /\ DOMAIN jobs = Slot
  /\ \A i \in Slot : /\ jobs[i].pid \in Pid \cup {0}
                     /\ jobs[i] = [pid |-> jobs[i].pid, jid |-> jobs[i].jid,
                                   state |-> jobs[i].state]
  /\ at \in {"prompt", "addjob", "found", "bgfg", "fg", "enter", "waitfg", "suspend", "gone"}
  /\ process \in [Pid -> ChildState]

\* What waitpid has not returned yet is a child that ended or stopped.
UnreportedChanged == unreported \subseteq {p \in Pid : process[p] \in Changed}

\* The child that eval has forked has no job yet, but was not reaped either.
EvalOK ==
  /\ at = "addjob" => /\ arg[1] \in Pid /\ process[arg[1]] # "none"
                      /\ \A i \in Slot : jobs[i].pid # arg[1]
  /\ at \in {"bgfg", "fg"} => arg[1] \in Slot
  /\ at \in {"addjob", "bgfg"} => arg[2] \in {"FG", "BG"}
  /\ at = "found" => arg[3] \in {"FG", "BG"}

\* A job is in the foreground only while the shell waits for it or is about to,
\* or when the shell has ended.
ForegroundOK ==
  /\ \A i, j \in Slot : jobs[i].state = "FG" /\ jobs[j].state = "FG" => i = j
  /\ \A i \in Slot : jobs[i].state = "FG" =>
       /\ InWaitFg \/ at \in {"fg", "gone"}
       /\ InWaitFg => jobs[i].pid = arg[1]
       /\ at = "fg" => i = arg[1]

\* The inductive invariant.
ShellInv ==
  ShellTypes /\ JobsHaveChildren /\ UnreportedChanged /\ EvalOK /\ ForegroundOK
-----------------------------------------------------------------------------
LEMMA ShellInvInit == ShellInit => ShellInv
<1> HAVE ShellInit
<1>1. \A i \in Slot : jobs[i] = Cleared
  BY DEF ShellInit
<1>2. ShellTypes
  BY <1>1 DEF ShellInit, ShellTypes, ChildState, Cleared
<1>3. JobsHaveChildren
  BY <1>1 DEF JobsHaveChildren, Cleared
<1>4. UnreportedChanged /\ EvalOK
  BY DEF ShellInit, UnreportedChanged, EvalOK
<1>5. ForegroundOK
  BY <1>1 DEF ForegroundOK, Cleared
<1> QED BY <1>2, <1>3, <1>4, <1>5, Zenon DEF ShellInv

\* A step that reaps and continues no child and leaves the job list alone.
LEMMA QuietStep ==
  ASSUME ShellInv, UNCHANGED <<jobs, arg>>,
         at' = at \/ at' = "gone" \/ (at = "suspend" /\ at' = "waitfg"),
         process' \in [Pid -> ChildState],
         \A q \in Pid : /\ process[q] # "none" => process'[q] # "none"
                        /\ process[q] \in Changed => process'[q] \in Changed,
         UnreportedChanged'
  PROVE  ShellInv'
<1>1. ShellTypes'
  BY DEF ShellInv, ShellTypes
<1>2. JobsHaveChildren'
  BY DEF ShellInv, ShellTypes, JobsHaveChildren, Changed
<1>3. EvalOK'
  BY DEF ShellInv, EvalOK
<1>4. ForegroundOK'
  BY DEF ShellInv, ForegroundOK, InWaitFg
<1> QED BY <1>1, <1>2, <1>3, <1>4, Zenon DEF ShellInv

\* A child that is not reaped changes.
LEMMA ChildStep ==
  ASSUME ShellInv, NEW p \in Pid,
         SetPgid(p) \/ \E to \in Changed : ChildChanges(p, to)
  PROVE  ShellInv'
<1>0. process \in [Pid -> ChildState] /\ UnreportedChanged
  BY Zenon DEF ShellInv, ShellTypes
<1>1. CASE SetPgid(p)
  <2>1. process' \in [Pid -> ChildState]
    BY <1>0, <1>1 DEF SetPgid, ChildState
  <2>2. \A q \in Pid : /\ process[q] # "none" => process'[q] # "none"
                       /\ process[q] \in Changed => process'[q] \in Changed
    BY <1>0, <1>1 DEF SetPgid, Changed
  <2>3. UnreportedChanged'
    BY <1>0, <1>1, <2>2 DEF SetPgid, UnreportedChanged
  <2>4. UNCHANGED <<jobs, arg>> /\ at' = at
    BY <1>1, Zenon DEF SetPgid
  <2> QED BY <2>1, <2>2, <2>3, <2>4, QuietStep, Zenon
<1>2. ASSUME NEW to \in Changed, ChildChanges(p, to) PROVE ShellInv'
  <2>1. process' \in [Pid -> ChildState]
    BY <1>0, <1>2 DEF ChildChanges, ChildState, Changed
  <2>2. \A q \in Pid : /\ process[q] # "none" => process'[q] # "none"
                       /\ process[q] \in Changed => process'[q] \in Changed
    BY <1>0, <1>2 DEF ChildChanges, Changed
  <2>3. UnreportedChanged'
    BY <1>0, <1>2, <2>2 DEF ChildChanges, UnreportedChanged
  <2>4. UNCHANGED <<jobs, arg>> /\ at' = at
    BY <1>2, Zenon DEF ChildChanges
  <2> QED BY <2>1, <2>2, <2>3, <2>4, QuietStep, Zenon
<1> QED BY <1>1, <1>2, Zenon

\* Ctrl-C and Ctrl-Z, which may end the shell.
LEMMA ForwardStep ==
  ASSUME ShellInv, NEW to \in Changed, ForwardSignal(to)
  PROVE  ShellInv'
<1> DEFINE p == fgpid(jobs)
<1>0. process \in [Pid -> ChildState] /\ UnreportedChanged
  BY Zenon DEF ShellInv, ShellTypes
<1>1. /\ UNCHANGED <<jobs, arg>>
      /\ process' = [process EXCEPT ![p] = IF process[p] = "running" THEN to ELSE process[p]]
      /\ unreported' = unreported \cup {q \in {p} : process[q] = "running"}
      /\ at' = IF process[p] = "forked" THEN "gone" ELSE Resume
  BY Zenon DEF ForwardSignal
<1>2. p \in Pid
  <2> DEFINE fg == {i \in Slot : jobs[i].state = "FG"}
  <2>1. p # 0
    BY Zenon DEF ForwardSignal
  <2>2. fg # {} /\ p = jobs[Min(fg)].pid
    BY <2>1, Zenon DEF fgpid
  <2>3. fg \in SUBSET Nat
    BY DEF Slot
  <2>4. Min(fg) \in Slot
    BY <2>2, <2>3, MinExists, Zenon
  <2>5. jobs[Min(fg)].pid \in Pid \cup {0}
    BY <2>4, Zenon DEF ShellInv, ShellTypes
  <2> QED BY <2>1, <2>2, <2>5, Zenon
<1> HIDE DEF p
<1>3. process' \in [Pid -> ChildState]
  BY <1>0, <1>1, <1>2 DEF ChildState, Changed
<1>4. \A q \in Pid : /\ process[q] # "none" => process'[q] # "none"
                     /\ process[q] \in Changed => process'[q] \in Changed
  BY <1>0, <1>1, <1>2 DEF Changed
<1>5. UnreportedChanged'
  <2>1. process[p] = "running" => process'[p] \in Changed
    BY <1>0, <1>1, <1>2
  <2> QED BY <1>0, <1>1, <1>2, <1>4, <2>1, Zenon DEF UnreportedChanged
<1>6. at' = at \/ at' = "gone" \/ (at = "suspend" /\ at' = "waitfg")
  BY <1>1, Zenon DEF Resume
<1> QED BY <1>1, <1>3, <1>4, <1>5, <1>6, QuietStep, Zenon

\* The shell ends.
LEMMA QuitStep == ASSUME ShellInv, Quit PROVE ShellInv'
<1>1. process' \in [Pid -> ChildState] /\ UnreportedChanged'
  BY Zenon DEF ShellInv, ShellTypes, Quit, UnreportedChanged
<1>2. process' = process /\ UNCHANGED <<jobs, arg>> /\ at' = "gone"
  BY Zenon DEF Quit
<1> QED BY <1>1, <1>2, QuietStep, Zenon

\* eval forks a child that no job has.
LEMMA ForkStep ==
  ASSUME ShellInv, NEW p \in Pid, NEW state \in {"FG", "BG"}, Fork(p, state)
  PROVE  ShellInv'
<1>0. /\ at = "prompt" /\ process[p] = "none" /\ at' = "addjob" /\ arg' = <<p, state>>
      /\ process' = [process EXCEPT ![p] = "forked"] /\ UNCHANGED <<jobs, unreported>>
  BY Zenon DEF Fork
<1>1. process \in [Pid -> ChildState]
  BY Zenon DEF ShellInv, ShellTypes
<1>2. process' \in [Pid -> ChildState] /\ process'[p] = "forked"
      /\ \A q \in Pid \ {p} : process'[q] = process[q]
  BY <1>0, <1>1 DEF ChildState
<1>3. \A i \in Slot : jobs[i].pid # p
  <2> SUFFICES ASSUME NEW i \in Slot, jobs[i].pid = p PROVE FALSE
    OBVIOUS
  <2>1. p # 0
    BY ShellAssumption, Zenon
  <2> QED BY <1>0, <2>1, Zenon DEF ShellInv, JobsHaveChildren
<1>4. ShellTypes'
  BY <1>0, <1>2 DEF ShellInv, ShellTypes
<1>5. JobsHaveChildren'
  <2>1. \A i \in Slot : jobs[i].pid # 0 => process'[jobs[i].pid] = process[jobs[i].pid]
    BY <1>2, <1>3, Zenon DEF ShellInv, ShellTypes
  <2> QED BY <1>0, <2>1, Zenon DEF ShellInv, JobsHaveChildren
<1>6. UnreportedChanged'
  <2>1. UnreportedChanged /\ p \notin unreported
    BY <1>0 DEF ShellInv, UnreportedChanged, Changed
  <2> QED BY <1>0, <1>2, <2>1, Zenon DEF UnreportedChanged
<1>7. EvalOK'
  <2>1. arg'[1] = p /\ arg'[2] = state
    BY <1>0
  <2> QED BY <1>0, <1>2, <1>3, <2>1 DEF EvalOK
<1>8. ForegroundOK'
  <2>1. \A i \in Slot : jobs[i].state # "FG"
    BY <1>0 DEF ShellInv, ForegroundOK, InWaitFg
  <2> QED BY <1>0, <2>1, Zenon DEF ForegroundOK, InWaitFg
<1> QED BY <1>4, <1>5, <1>6, <1>7, <1>8, Zenon DEF ShellInv

\* do_bgfg finds a job.
LEMMA FindStep ==
  ASSUME ShellInv, NEW i \in Slot, NEW field \in {"pid", "jid"},
         NEW state \in {"FG", "BG"}, FindJob(i, field, state)
  PROVE  ShellInv'
<1>0. /\ at = "prompt" /\ at' = "found" /\ UNCHANGED <<jobs, process, unreported>>
      /\ arg' = <<field, jobs[i][field], state>>
  BY Zenon DEF FindJob
<1>1. ShellTypes'
  BY <1>0 DEF ShellInv, ShellTypes
<1>2. JobsHaveChildren' /\ UnreportedChanged'
  BY <1>0, Zenon DEF ShellInv, JobsHaveChildren, UnreportedChanged
<1>3. EvalOK'
  BY <1>0 DEF EvalOK
<1>4. ForegroundOK'
  <2>1. \A k \in Slot : jobs[k].state # "FG"
    BY <1>0 DEF ShellInv, ForegroundOK, InWaitFg
  <2> QED BY <1>0, <2>1, Zenon DEF ForegroundOK, InWaitFg
<1> QED BY <1>1, <1>2, <1>3, <1>4, Zenon DEF ShellInv

\* do_bgfg looks the job up again, and ends the shell when it has gone.
LEMMA FindAgainStep == ASSUME ShellInv, FindAgain PROVE ShellInv'
<1> DEFINE same == {i \in Slot : jobs[i][arg[1]] = arg[2]}
<1>0. /\ at = "found" /\ UNCHANGED <<jobs, process, unreported>>
      /\ at' = IF same = {} THEN "gone" ELSE "bgfg"
      /\ arg' = IF same = {} THEN NoArg ELSE <<Min(same), arg[3]>>
  BY Zenon DEF FindAgain
<1>1. same # {} => Min(same) \in Slot
  <2>1. same \in SUBSET Nat
    BY DEF Slot
  <2> QED BY <2>1, MinExists, Zenon
<1> HIDE DEF same
<1>2. ShellTypes'
  BY <1>0 DEF ShellInv, ShellTypes
<1>3. JobsHaveChildren' /\ UnreportedChanged'
  BY <1>0, Zenon DEF ShellInv, JobsHaveChildren, UnreportedChanged
<1>4. EvalOK'
  <2>1. arg[3] \in {"FG", "BG"}
    BY <1>0, Zenon DEF ShellInv, EvalOK
  <2> QED BY <1>0, <1>1, <2>1 DEF EvalOK
<1>5. ForegroundOK'
  <2>1. \A k \in Slot : jobs[k].state # "FG"
    BY <1>0 DEF ShellInv, ForegroundOK, InWaitFg
  <2> QED BY <1>0, <2>1, Zenon DEF ForegroundOK, InWaitFg
<1> QED BY <1>2, <1>3, <1>4, <1>5, Zenon DEF ShellInv

\* The fg command reads the pid of its job, which may have been deleted.
LEMMA CallWaitStep == ASSUME ShellInv, CallWaitFg PROVE ShellInv'
<1>0. /\ at = "fg" /\ at' = "enter" /\ arg' = <<jobs[arg[1]].pid>>
      /\ UNCHANGED <<jobs, process, unreported>>
  BY Zenon DEF CallWaitFg
<1>1. ShellTypes'
  BY <1>0 DEF ShellInv, ShellTypes
<1>2. JobsHaveChildren' /\ UnreportedChanged'
  BY <1>0, Zenon DEF ShellInv, JobsHaveChildren, UnreportedChanged
<1>3. EvalOK'
  BY <1>0 DEF EvalOK
<1>4. ForegroundOK'
  <2>1. \A k \in Slot : jobs[k].state = "FG" => k = arg[1]
    BY <1>0, Zenon DEF ShellInv, ForegroundOK
  <2>2. arg'[1] = jobs[arg[1]].pid
    BY <1>0
  <2> QED BY <1>0, <2>1, <2>2, Zenon DEF ForegroundOK, InWaitFg
<1> QED BY <1>1, <1>2, <1>3, <1>4, Zenon DEF ShellInv

\* waitfg returns only when no job is in the foreground.
LEMMA WaitStep == ASSUME ShellInv, WaitFg PROVE ShellInv'
<1>0. /\ at \in {"enter", "waitfg"} /\ UNCHANGED <<jobs, process, unreported>>
      /\ at' = IF fgpid(jobs) = arg[1] THEN "suspend" ELSE "prompt"
      /\ arg' = IF fgpid(jobs) = arg[1] THEN arg ELSE NoArg
  BY Zenon DEF WaitFg
<1>1. ShellTypes'
  BY <1>0 DEF ShellInv, ShellTypes
<1>2. JobsHaveChildren' /\ UnreportedChanged'
  BY <1>0, Zenon DEF ShellInv, JobsHaveChildren, UnreportedChanged
<1>3. EvalOK'
  BY <1>0 DEF EvalOK
<1>4. ForegroundOK'
  <2>1. CASE fgpid(jobs) = arg[1]
    BY <1>0, <2>1 DEF ShellInv, ForegroundOK, InWaitFg
  <2>2. CASE fgpid(jobs) # arg[1]
    <3> DEFINE fg == {i \in Slot : jobs[i].state = "FG"}
    <3>1. fg \in SUBSET Nat
      BY DEF Slot
    <3>2. ASSUME fg # {} PROVE FALSE
      <4>1. Min(fg) \in fg
        BY <3>1, <3>2, MinExists, Zenon
      <4>2. jobs[Min(fg)].pid = arg[1]
        BY <1>0, <4>1, Zenon DEF ShellInv, ForegroundOK, InWaitFg
      <4>3. fgpid(jobs) = jobs[Min(fg)].pid
        BY <3>2, Zenon DEF fgpid
      <4> QED BY <2>2, <4>2, <4>3, Zenon
    <3>3. \A k \in Slot : jobs[k].state # "FG"
      BY <3>2, Zenon
    <3> QED BY <1>0, <3>3, Zenon DEF ForegroundOK, InWaitFg
  <2> QED BY <2>1, <2>2, Zenon
<1> QED BY <1>1, <1>2, <1>3, <1>4, Zenon DEF ShellInv

\* The job of the child that was forked is added, or the list is full.
LEMMA AddStep == ASSUME ShellInv, AddJob PROVE ShellInv'
<1> DEFINE p == arg[1]
           state == arg[2]
           free == JobsOf(jobs, 0)
           m == Min(free)
<1>0. /\ at = "addjob" /\ UNCHANGED <<process, unreported>>
      /\ at' = IF state = "FG" THEN "enter" ELSE "prompt"
      /\ arg' = IF state = "FG" THEN <<p>> ELSE NoArg
  BY Zenon DEF AddJob
<1>1. /\ p \in Pid /\ process[p] # "none" /\ state \in {"FG", "BG"}
      /\ \A i \in Slot : jobs[i].pid # p
  BY <1>0, Zenon DEF ShellInv, EvalOK
<1>2. \A i \in Slot : jobs[i].state # "FG"
  BY <1>0 DEF ShellInv, ForegroundOK, InWaitFg
<1>3. UNCHANGED jobs \/ (m \in Slot /\ \E j : jobs' = [jobs EXCEPT ![m] =
                           [pid |-> p, jid |-> j, state |-> state]])
  <2>1. CASE free = {}
    BY <2>1, Zenon DEF AddJob, addjob
  <2>2. CASE free # {}
    <3>1. free \in SUBSET Nat
      BY DEF JobsOf, Slot
    <3>2. m \in Slot
      BY <2>2, <3>1, MinExists, Zenon DEF JobsOf
    <3>3. jobs' = [jobs EXCEPT ![m] = [pid |-> p, jid |-> nextjid, state |-> state]]
      BY <2>2, Zenon DEF AddJob, addjob
    <3> QED BY <3>2, <3>3, Zenon
  <2> QED BY <2>1, <2>2, Zenon
<1> HIDE DEF m, free
<1>4. arg'[1] = p \/ state # "FG"
  BY <1>0
<1>5. UnreportedChanged' /\ EvalOK'
  BY <1>0, <1>1 DEF ShellInv, UnreportedChanged, EvalOK
<1>6. CASE UNCHANGED jobs
  <2>1. ShellTypes'
    BY <1>0, <1>6 DEF ShellInv, ShellTypes
  <2>2. JobsHaveChildren'
    BY <1>0, <1>6, Zenon DEF ShellInv, JobsHaveChildren
  <2>3. ForegroundOK'
    BY <1>2, <1>6, Zenon DEF ForegroundOK, InWaitFg
  <2> QED BY <1>5, <2>1, <2>2, <2>3, Zenon DEF ShellInv
<1>7. ASSUME m \in Slot, NEW j, jobs' = [jobs EXCEPT ![m] =
                                  [pid |-> p, jid |-> j, state |-> state]]
      PROVE  ShellInv'
  <2>0. DOMAIN jobs = Slot
    BY Zenon DEF ShellInv, ShellTypes
  <2>1. /\ DOMAIN jobs' = Slot /\ jobs'[m] = [pid |-> p, jid |-> j, state |-> state]
        /\ \A i \in Slot \ {m} : jobs'[i] = jobs[i]
    BY <1>7, <2>0, Zenon
  <2>2. jobs'[m].pid = p /\ jobs'[m].jid = j /\ jobs'[m].state = state
    BY <2>1
  <2>3. ShellTypes'
    <3>1. \A i \in Slot : /\ jobs'[i].pid \in Pid \cup {0}
                          /\ jobs'[i] = [pid |-> jobs'[i].pid, jid |-> jobs'[i].jid,
                                         state |-> jobs'[i].state]
      BY <1>1, <2>1, <2>2, Zenon DEF ShellInv, ShellTypes
    <3>2. at' \in {"enter", "prompt"}
      BY <1>0, Zenon
    <3> QED BY <1>0, <2>1, <3>1, <3>2, Zenon DEF ShellInv, ShellTypes
  <2>4. JobsHaveChildren'
    <3>1. ASSUME NEW i \in Slot, jobs'[i].pid # 0
          PROVE  /\ process'[jobs'[i].pid] # "none"
                 /\ jobs'[i].state = "ST" => process'[jobs'[i].pid] \in {"stopped", "zombie"}
      <4>1. CASE i = m
        <5>1. state # "ST"
          BY <1>1
        <5> QED BY <1>0, <1>1, <2>2, <4>1, <5>1, Zenon
      <4>2. CASE i # m
        BY <1>0, <2>1, <3>1, <4>2, Zenon DEF ShellInv, JobsHaveChildren
      <4> QED BY <4>1, <4>2, Zenon
    <3>2. ASSUME NEW i \in Slot, NEW k \in Slot, jobs'[i].pid # 0, jobs'[i].pid = jobs'[k].pid
          PROVE  i = k
      <4>1. CASE i = m \/ k = m
        BY <1>1, <2>1, <2>2, <3>2, <4>1, Zenon
      <4>2. CASE i # m /\ k # m
        BY <2>1, <3>2, <4>2, Zenon DEF ShellInv, JobsHaveChildren
      <4> QED BY <4>1, <4>2, Zenon
    <3> QED BY <3>1, <3>2, Zenon DEF JobsHaveChildren
  <2>5. ForegroundOK'
    <3>1. \A i \in Slot : jobs'[i].state = "FG" => i = m /\ state = "FG"
      BY <1>2, <2>1, <2>2, Zenon
    <3>2. state = "FG" => at' = "enter" /\ jobs'[m].pid = arg'[1]
      BY <1>0, <1>4, <2>2, Zenon
    <3> QED BY <3>1, <3>2, Zenon DEF ForegroundOK, InWaitFg
  <2> QED BY <1>5, <2>3, <2>4, <2>5, Zenon DEF ShellInv
<1> QED BY <1>3, <1>6, <1>7, Zenon

\* do_bgfg continues a job, unless kill fails, which ends the shell.
LEMMA ContinueStep == ASSUME ShellInv, Continue PROVE ShellInv'
<1> DEFINE i == arg[1]
           state == arg[2]
           p == jobs[i].pid
<1>0. /\ at = "bgfg" /\ i \in Slot /\ state \in {"FG", "BG"}
      /\ p \in Pid \cup {0}
  BY Zenon DEF ShellInv, ShellTypes, EvalOK, Continue
<1>1. CASE p # 0 /\ process[p] = "forked"
  <2>1. at' = "gone" /\ UNCHANGED <<jobs, process, unreported>>
    BY <1>1, Zenon DEF Continue
  <2>2. ShellTypes' /\ EvalOK'
    BY <2>1 DEF ShellInv, ShellTypes, EvalOK
  <2>3. JobsHaveChildren' /\ UnreportedChanged'
    BY <2>1, Zenon DEF ShellInv, JobsHaveChildren, UnreportedChanged
  <2>4. ForegroundOK'
    BY <2>1 DEF ShellInv, ForegroundOK, InWaitFg
  <2> QED BY <2>2, <2>3, <2>4, Zenon DEF ShellInv
<1>2. CASE ~(p # 0 /\ process[p] = "forked")
  <2>0. /\ jobs' = [jobs EXCEPT ![i].state = state]
        /\ process' = [q \in Pid |-> IF q = p /\ process[q] = "stopped"
                                     THEN "running" ELSE process[q]]
        /\ unreported' = {q \in unreported : process'[q] # "running"}
        /\ at' = IF state = "FG" THEN "fg" ELSE "prompt"
        /\ arg' = IF state = "FG" THEN <<i>> ELSE NoArg
    BY <1>2, Zenon DEF Continue
  <2>1. /\ DOMAIN jobs' = Slot
        /\ jobs'[i] = [jobs[i] EXCEPT !.state = state]
        /\ \A k \in Slot \ {i} : jobs'[k] = jobs[k]
    BY <1>0, <2>0, Zenon DEF ShellInv, ShellTypes
  <2>2. jobs'[i] = [pid |-> p, jid |-> jobs[i].jid, state |-> state]
    <3>1. jobs[i] = [pid |-> p, jid |-> jobs[i].jid, state |-> jobs[i].state]
      BY <1>0, Zenon DEF ShellInv, ShellTypes
    <3>2. PICK j, st : jobs[i] = [pid |-> p, jid |-> j, state |-> st] /\ j = jobs[i].jid
      BY <3>1, Zenon
    <3> HIDE DEF p
    <3> QED BY <2>1, <3>2
  <2>3. jobs'[i].pid = p /\ jobs'[i].jid = jobs[i].jid /\ jobs'[i].state = state
    BY <2>2
  <2>4. \A k \in Slot : jobs'[k].pid = jobs[k].pid
    BY <2>1, <2>3, Zenon
  <2>5. \A k \in Slot : jobs[k].state # "FG"
    BY <1>0 DEF ShellInv, ForegroundOK, InWaitFg
  <2>6. process \in [Pid -> ChildState] /\ process' \in [Pid -> ChildState]
    BY <2>0, Zenon DEF ShellInv, ShellTypes, ChildState
  <2>7. \A q \in Pid : /\ q # p => process'[q] = process[q]
                       /\ process[q] # "none" => process'[q] # "none"
                       /\ process'[q] = "running" \/ process'[q] = process[q]
    BY <2>0
  <2>8. ShellTypes'
    <3>1. \A k \in Slot : /\ jobs'[k].pid \in Pid \cup {0}
                          /\ jobs'[k] = [pid |-> jobs'[k].pid, jid |-> jobs'[k].jid,
                                         state |-> jobs'[k].state]
      <4>1. ASSUME NEW k \in Slot
            PROVE  jobs'[k] = [pid |-> jobs'[k].pid, jid |-> jobs'[k].jid,
                               state |-> jobs'[k].state]
        <5>1. CASE k = i
          BY <2>2, <2>3, <5>1, Zenon
        <5>2. CASE k # i
          BY <2>1, <5>2, Zenon DEF ShellInv, ShellTypes
        <5> QED BY <5>1, <5>2, Zenon
      <4>2. \A k \in Slot : jobs'[k].pid \in Pid \cup {0}
        BY <2>4, Zenon DEF ShellInv, ShellTypes
      <4> QED BY <4>1, <4>2, Zenon
    <3>2. at' \in {"fg", "prompt"}
      BY <2>0, Zenon
    <3> QED BY <2>1, <2>6, <3>1, <3>2, Zenon DEF ShellTypes
  <2>9. JobsHaveChildren'
    <3>1. ASSUME NEW k \in Slot, jobs'[k].pid # 0
          PROVE  /\ process'[jobs'[k].pid] # "none"
                 /\ jobs'[k].state = "ST" => process'[jobs'[k].pid] \in {"stopped", "zombie"}
      <4>1. jobs[k].pid \in Pid /\ jobs'[k].pid = jobs[k].pid
        BY <2>4, <3>1, Zenon DEF ShellInv, ShellTypes
      <4>2. process[jobs[k].pid] # "none"
        BY <3>1, <4>1, Zenon DEF ShellInv, JobsHaveChildren
      <4>3. CASE k = i
        <5>1. state # "ST"
          BY <1>0
        <5> QED BY <2>3, <2>7, <4>1, <4>2, <4>3, <5>1, Zenon
      <4>4. CASE k # i
        <5>1. jobs[k].pid # p
          BY <1>0, <3>1, <4>1, <4>4, Zenon DEF ShellInv, JobsHaveChildren
        <5>2. process'[jobs[k].pid] = process[jobs[k].pid] /\ jobs'[k] = jobs[k]
          BY <2>1, <2>7, <4>1, <4>4, <5>1, Zenon
        <5> QED BY <3>1, <4>1, <4>2, <5>2, Zenon DEF ShellInv, JobsHaveChildren
      <4> QED BY <4>3, <4>4, Zenon
    <3>2. \A k, j \in Slot : jobs'[k].pid # 0 /\ jobs'[k].pid = jobs'[j].pid => k = j
      BY <2>4, Zenon DEF ShellInv, JobsHaveChildren
    <3> QED BY <3>1, <3>2, Zenon DEF JobsHaveChildren
  <2>10. UnreportedChanged'
    <3>1. UnreportedChanged
      BY Zenon DEF ShellInv
    <3> QED BY <2>0, <2>7, <3>1, Zenon DEF UnreportedChanged
  <2>11. EvalOK'
    BY <1>0, <2>0 DEF EvalOK
  <2>12. ForegroundOK'
    <3>1. \A k \in Slot : jobs'[k].state = "FG" => k = i /\ state = "FG"
      BY <2>1, <2>3, <2>5, Zenon
    <3>2. state = "FG" => at' = "fg" /\ i = arg'[1]
      BY <2>0
    <3> QED BY <3>1, <3>2, Zenon DEF ForegroundOK, InWaitFg
  <2> QED BY <2>8, <2>9, <2>10, <2>11, <2>12, Zenon DEF ShellInv
<1> QED BY <1>1, <1>2, Zenon

\* sigchld_handler deletes the job of every child that it reaps.
LEMMA HandlerStep == ASSUME ShellInv, sigchld_handler PROVE ShellInv'
<1> DEFINE ended == {p \in unreported : process[p] = "zombie"}
           crash == \E p \in unreported : JobsOf(jobs, p) = {}
           js == [i \in Slot |->
                    IF jobs[i].pid \in ended THEN Cleared
                    ELSE IF jobs[i].pid \in unreported
                      THEN [jobs[i] EXCEPT !.state = "ST"] ELSE jobs[i]]
<1>0. /\ at \in Interruptible /\ UNCHANGED arg
      /\ process \in [Pid -> ChildState] /\ UnreportedChanged
  BY Zenon DEF ShellInv, ShellTypes, sigchld_handler
<1>1. CASE crash
  <2>1. at' = "gone" /\ UNCHANGED <<jobs, process, unreported, arg>>
    BY <1>1, Zenon DEF sigchld_handler
  <2>2. process' \in [Pid -> ChildState] /\ UnreportedChanged'
    BY <1>0, <2>1, Zenon DEF UnreportedChanged
  <2> QED BY <2>1, <2>2, QuietStep, Zenon
<1>2. CASE ~crash
  <2>0. /\ jobs' = js /\ unreported' = {} /\ at' = Resume
        /\ process' = [p \in Pid |-> IF p \in ended THEN "none" ELSE process[p]]
    BY <1>2, Zenon DEF sigchld_handler
  <2>1. /\ \A q \in Pid : q \notin ended => process'[q] = process[q]
        /\ \A q \in unreported : q \in Pid /\ (q \in ended \/ process[q] = "stopped")
    BY <1>0, <2>0, Zenon DEF UnreportedChanged, Changed
  <2>2. ASSUME NEW i \in Slot
        PROVE  \/ jobs'[i] = Cleared
               \/ jobs'[i] = jobs[i] /\ jobs[i].pid \notin ended
               \/ /\ jobs'[i] = [pid |-> jobs[i].pid, jid |-> jobs[i].jid, state |-> "ST"]
                  /\ jobs[i].pid \in Pid /\ process'[jobs[i].pid] = "stopped"
    <3>1. CASE jobs[i].pid \in ended
      BY <2>0, <3>1, Zenon
    <3>2. CASE jobs[i].pid \notin ended /\ jobs[i].pid \notin unreported
      BY <2>0, <3>2, Zenon
    <3>3. CASE jobs[i].pid \notin ended /\ jobs[i].pid \in unreported
      <4>1. jobs'[i] = [jobs[i] EXCEPT !.state = "ST"]
        BY <2>0, <3>3, Zenon
      <4>2. PICK p, j, st : /\ jobs[i] = [pid |-> p, jid |-> j, state |-> st]
                            /\ p = jobs[i].pid /\ j = jobs[i].jid
        BY Zenon DEF ShellInv, ShellTypes
      <4>3. jobs'[i] = [pid |-> p, jid |-> j, state |-> "ST"]
        BY <4>1, <4>2
      <4>4. jobs[i].pid \in Pid /\ process'[jobs[i].pid] = "stopped"
        BY <2>1, <3>3, Zenon
      <4> QED BY <4>2, <4>3, <4>4, Zenon
    <3> QED BY <3>1, <3>2, <3>3, Zenon
  <2> HIDE DEF js, crash
  <2>3. Cleared.pid = 0 /\ Cleared.state = "UNDEF"
        /\ Cleared = [pid |-> Cleared.pid, jid |-> Cleared.jid, state |-> Cleared.state]
    BY DEF Cleared
  <2>4. ASSUME NEW i \in Slot
        PROVE  /\ jobs'[i].pid \in {0, jobs[i].pid}
               /\ jobs'[i].pid # 0 => jobs[i].pid \notin ended
               /\ jobs'[i] = [pid |-> jobs'[i].pid, jid |-> jobs'[i].jid,
                              state |-> jobs'[i].state]
               /\ jobs'[i].state = "FG" => jobs'[i] = jobs[i]
               /\ jobs'[i].state = "ST" => \/ jobs'[i] = jobs[i]
                                           \/ process'[jobs[i].pid] = "stopped"
    <3>1. CASE jobs'[i] = Cleared
      BY <2>3, <3>1
    <3>2. CASE jobs'[i] = jobs[i] /\ jobs[i].pid \notin ended
      BY <3>2, Zenon DEF ShellInv, ShellTypes
    <3>3. CASE /\ jobs'[i] = [pid |-> jobs[i].pid, jid |-> jobs[i].jid, state |-> "ST"]
               /\ jobs[i].pid \in Pid /\ process'[jobs[i].pid] = "stopped"
      <4>1. /\ jobs'[i].pid = jobs[i].pid /\ jobs'[i].jid = jobs[i].jid
            /\ jobs'[i].state = "ST"
        BY <3>3
      <4>2. jobs[i].pid \notin ended
        BY <2>0, <3>3
      <4> QED BY <3>3, <4>1, <4>2
    <3> QED BY <2>2, <3>1, <3>2, <3>3, Zenon
  <2>5. ShellTypes'
    <3>1. DOMAIN jobs' = Slot
      BY <2>0, Zenon DEF js
    <3>2. process' \in [Pid -> ChildState]
      BY <1>0, <2>0, Zenon DEF ChildState
    <3>3. at' \in {"prompt", "found", "bgfg", "fg", "enter", "waitfg"}
      BY <1>0, <2>0 DEF Resume, Interruptible
    <3>4. \A i \in Slot : jobs'[i].pid \in Pid \cup {0}
      BY <2>4, Zenon DEF ShellInv, ShellTypes
    <3> QED BY <2>4, <3>1, <3>2, <3>3, <3>4, Zenon DEF ShellTypes
  <2>6. JobsHaveChildren'
    <3>1. ASSUME NEW i \in Slot, jobs'[i].pid # 0
          PROVE  /\ process'[jobs'[i].pid] # "none"
                 /\ jobs'[i].state = "ST" => process'[jobs'[i].pid] \in {"stopped", "zombie"}
      <4>1. jobs'[i].pid = jobs[i].pid /\ jobs[i].pid # 0 /\ jobs[i].pid \notin ended
        BY <2>4, <3>1, Zenon
      <4>2. jobs[i].pid \in Pid
        BY <4>1, Zenon DEF ShellInv, ShellTypes
      <4>3. process'[jobs[i].pid] = process[jobs[i].pid]
        BY <2>1, <4>1, <4>2, Zenon
      <4>4. process[jobs[i].pid] # "none"
            /\ (jobs[i].state = "ST" => process[jobs[i].pid] \in {"stopped", "zombie"})
        BY <4>1, Zenon DEF ShellInv, JobsHaveChildren
      <4>5. jobs'[i].state = "ST" => \/ jobs'[i] = jobs[i]
                                     \/ process'[jobs[i].pid] = "stopped"
        BY <2>4, Zenon
      <4> QED BY <4>1, <4>3, <4>4, <4>5, Zenon
    <3>2. ASSUME NEW i \in Slot, NEW j \in Slot, jobs'[i].pid # 0, jobs'[i].pid = jobs'[j].pid
          PROVE  i = j
      <4>1. jobs[i].pid = jobs[j].pid /\ jobs[i].pid # 0
        BY <2>4, <3>2, Zenon
      <4> QED BY <4>1, Zenon DEF ShellInv, JobsHaveChildren
    <3> QED BY <3>1, <3>2, Zenon DEF JobsHaveChildren
  <2>7. UnreportedChanged'
    BY <2>0, Zenon DEF UnreportedChanged
  <2>8. EvalOK'
    BY <1>0, <2>0 DEF ShellInv, EvalOK, Resume, Interruptible
  <2>9. ForegroundOK'
    <3>1. ASSUME NEW i \in Slot, jobs'[i].state = "FG"
          PROVE  /\ jobs[i].state = "FG" /\ (InWaitFg' \/ at' = "fg")
                 /\ InWaitFg' => jobs'[i].pid = arg'[1]
                 /\ at' = "fg" => i = arg'[1]
      <4>1. jobs'[i] = jobs[i]
        BY <2>4, <3>1, Zenon
      <4>2. InWaitFg \/ at = "fg"
        BY <1>0, <3>1, <4>1 DEF ShellInv, ForegroundOK, InWaitFg, Interruptible
      <4>3. /\ InWaitFg => jobs[i].pid = arg[1]
            /\ at = "fg" => i = arg[1]
        BY <3>1, <4>1, Zenon DEF ShellInv, ForegroundOK
      <4>4. /\ InWaitFg => InWaitFg' /\ at' # "fg"
            /\ at = "fg" => at' = "fg" /\ ~InWaitFg'
        BY <2>0 DEF Resume, InWaitFg
      <4> QED BY <1>0, <3>1, <4>1, <4>2, <4>3, <4>4, Zenon
    <3>2. \A i, j \in Slot : jobs'[i].state = "FG" /\ jobs'[j].state = "FG" => i = j
      BY <3>1, Zenon DEF ShellInv, ForegroundOK, InWaitFg
    <3> QED BY <3>1, <3>2, Zenon DEF ForegroundOK, InWaitFg
  <2> QED BY <2>5, <2>6, <2>7, <2>8, <2>9, Zenon DEF ShellInv
<1> QED BY <1>1, <1>2, Zenon

LEMMA ShellInvNext == ShellInv /\ [ShellNext]_shellVars => ShellInv'
<1> SUFFICES ASSUME ShellInv, [ShellNext]_shellVars PROVE ShellInv'
  OBVIOUS
<1>1. ASSUME NEW p \in Pid, NEW state \in {"FG", "BG"}, Fork(p, state) PROVE ShellInv'
  BY <1>1, ForkStep, Zenon
<1>2. ASSUME NEW i \in Slot, NEW field \in {"pid", "jid"}, NEW state \in {"FG", "BG"},
             FindJob(i, field, state)
      PROVE  ShellInv'
  BY <1>2, FindStep, Zenon
<1>3. CASE ShellStep
  BY <1>3, AddStep, FindAgainStep, ContinueStep, CallWaitStep, WaitStep, Zenon
  DEF ShellStep
<1>4. CASE Quit
  BY <1>4, QuitStep, Zenon
<1>5. CASE sigchld_handler
  BY <1>5, HandlerStep, Zenon
<1>6. ASSUME NEW to \in {"zombie", "stopped"}, ForwardSignal(to) PROVE ShellInv'
  BY <1>6, ForwardStep, Zenon DEF Changed
<1>7. ASSUME NEW p \in Pid, SetPgid(p) PROVE ShellInv'
  BY <1>7, ChildStep, Zenon
<1>8. ASSUME NEW p \in Pid, NEW to \in {"zombie", "stopped"}, ChildChanges(p, to)
      PROVE  ShellInv'
  <2>1. to \in Changed
    BY DEF Changed
  <2> QED BY <1>8, <2>1, ChildStep, Zenon
<1>9. CASE UNCHANGED shellVars
  <2>1. at' = at /\ UNCHANGED <<jobs, arg>> /\ process' = process /\ unreported' = unreported
    BY <1>9, Zenon DEF shellVars
  <2>2. process' \in [Pid -> ChildState] /\ UnreportedChanged'
    BY <2>1, Zenon DEF ShellInv, ShellTypes, UnreportedChanged
  <2> QED BY <2>1, <2>2, QuietStep, Zenon
<1> QED BY <1>1, <1>2, <1>3, <1>4, <1>5, <1>6, <1>7, <1>8, <1>9, Zenon DEF ShellNext
-----------------------------------------------------------------------------
\* The inductive invariant holds in every reachable state.
THEOREM ShellInvariant == ShellSpec => []ShellInv
<1> QED BY ShellInvInit, ShellInvNext, PTL DEF ShellSpec

\* For any number of children and jobs: a job has a child that was not reaped,
\* its own, and one that is marked stopped has stopped.  The job list loses no
\* race with SIGCHLD (eval blocks it around fork and addjob).
THEOREM JobsKeepChildren == ShellSpec => []JobsHaveChildren
<1>1. ShellInv => JobsHaveChildren
  BY Zenon DEF ShellInv
<1> QED BY <1>1, ShellInvariant, PTL

\* For any number of children and jobs: there is one foreground job at most,
\* and the shell is in waitfg for it (waitfg, do_bgfg, sigchld_handler).
THEOREM ForegroundWaited == ShellSpec => []ForegroundIsWaitedFor
<1>1. ShellInv => ForegroundIsWaitedFor
  <2> HAVE ShellInv
  <2> DEFINE fg == {i \in Slot : jobs[i].state = "FG"}
  <2>1. Cardinality(fg) <= 1
    <3>1. CASE fg = {}
      BY <3>1, FS_EmptySet
    <3>2. CASE fg # {}
      <4>1. PICK i : i \in fg
        BY <3>2, Zenon
      <4>2. fg = {i}
        BY <4>1, Zenon DEF ShellInv, ForegroundOK, InWaitFg
      <4>3. Cardinality({i}) = 1
        BY FS_Singleton, Zenon
      <4> QED BY <4>2, <4>3
    <3> QED BY <3>1, <3>2, Zenon
  <2>2. at = "prompt" => fg = {}
    BY DEF ShellInv, ForegroundOK, InWaitFg
  <2>3. \A i \in fg : InWaitFg => jobs[i].pid = arg[1]
    BY Zenon DEF ShellInv, ForegroundOK, InWaitFg
  <2> QED BY <2>1, <2>2, <2>3, Zenon DEF ForegroundIsWaitedFor
<1> QED BY <1>1, ShellInvariant, PTL
=============================================================================
