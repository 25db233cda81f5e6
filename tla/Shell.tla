-------------------------------- MODULE Shell --------------------------------
(***************************************************************************)
(* Job control of the shell of project 0 (project0/msh.c, jobs.c).  The    *)
(* shell, its children and the signals run concurrently; a signal handler  *)
(* runs to its end between two steps of the shell.  SIGCHLD is a single    *)
(* pending bit, as in the kernel, which together with the children and     *)
(* waitpid is modelled from how msh.c uses it.                             *)
(***************************************************************************)
EXTENDS Integers, FiniteSetsExt

CONSTANTS
  Pid,          \* the children that the kernel can give the shell
  MAXJOBS,
  MaxJid        \* bound on the job IDs that are given out

ASSUME ShellAssumption ==
  MAXJOBS \in Nat \ {0} /\ MaxJid \in Nat /\ 0 \notin Pid

VARIABLES
  jobs, nextjid,      \* the job list of jobs.c
  at,                 \* where the shell is
  arg,                \* the pid and bg of eval and waitfg, the argument or the
                      \* job and the command of do_bgfg
  process,            \* the state of each child
  unreported,         \* the children that waitpid has not returned yet
  sigchld             \* is SIGCHLD pending?

shellVars == <<jobs, nextjid, at, arg, process, unreported, sigchld>>

Slot == 1..MAXJOBS
Cleared == [pid |-> 0, jid |-> 0, state |-> "UNDEF"]
NoArg == <<>>

ShellInit ==
  /\ jobs = [i \in Slot |-> Cleared]
  /\ nextjid = 1
  /\ at = "prompt" /\ arg = NoArg
  /\ process = [p \in Pid |-> "none"]
  /\ unreported = {} /\ sigchld = FALSE
-----------------------------------------------------------------------------
maxjid(js) == Max({js[i].jid : i \in Slot})

\* getjobpid: the slots with this pid; the first one is returned.
JobsOf(js, p) == {i \in Slot : js[i].pid = p}

\* fgpid: 0 when there is no job in the foreground.
fgpid(js) ==
  LET fg == {i \in Slot : js[i].state = "FG"}
  IN IF fg = {} THEN 0 ELSE js[Min(fg)].pid

\* addjob: no change when the list is full.
addjob(p, state) ==
  LET free == JobsOf(jobs, 0)
  IN IF free = {} THEN UNCHANGED <<jobs, nextjid>>
     ELSE /\ nextjid <= MaxJid
          /\ jobs' = [jobs EXCEPT ![Min(free)] =
                        [pid |-> p, jid |-> nextjid, state |-> state]]
          /\ nextjid' = IF nextjid + 1 > MAXJOBS THEN 1 ELSE nextjid + 1
-----------------------------------------------------------------------------
\* eval of a program: SIGCHLD is blocked, then fork.
Fork(p, state) ==
  /\ at = "prompt" /\ process[p] = "none"
  /\ at' = "addjob" /\ arg' = <<p, state>>
  /\ process' = [process EXCEPT ![p] = "forked"]
  /\ UNCHANGED <<jobs, nextjid, unreported, sigchld>>

\* addjob in the parent, and SIGCHLD unblocked; a job in the foreground is
\* waited for.
AddJob ==
  /\ at = "addjob"
  /\ addjob(arg[1], arg[2])
  /\ at' = IF arg[2] = "FG" THEN "enter" ELSE "prompt"
  /\ arg' = IF arg[2] = "FG" THEN <<arg[1]>> ELSE NoArg
  /\ UNCHANGED <<process, unreported, sigchld>>

\* do_bgfg, given a pid or a jid (`field'), sees that job i has it; when there
\* is no such job it returns.  Signals are not blocked yet.
FindJob(i, field, state) ==
  /\ at = "prompt" /\ jobs[i].pid # 0
  /\ at' = "found" /\ arg' = <<field, jobs[i][field], state>>
  /\ UNCHANGED <<jobs, nextjid, process, unreported, sigchld>>

\* It looks the job up once more, for currjob.  A handler may have deleted the
\* job: currjob is a null pointer then, and its pid is read.
FindAgain ==
  LET same == {i \in Slot : jobs[i][arg[1]] = arg[2]}
  IN /\ at = "found"
     /\ at' = IF same = {} THEN "gone" ELSE "bgfg"
     /\ arg' = IF same = {} THEN NoArg ELSE <<Min(same), arg[3]>>
     /\ UNCHANGED <<jobs, nextjid, process, unreported, sigchld>>

\* do_bgfg continues: with all signals blocked, SIGCONT to the job's process
\* group and the new state.  kill fails, and unix_error ends the shell, when
\* the child has not made its process group yet.  A slot that was cleared
\* meanwhile has pid 0, and kill signals the shell's own group.
Continue ==
  LET i == arg[1]
      p == jobs[i].pid
  IN /\ at = "bgfg"
     /\ IF p # 0 /\ process[p] = "forked"
        THEN at' = "gone" /\ arg' = NoArg /\ UNCHANGED <<jobs, process, unreported>>
        ELSE /\ jobs' = [jobs EXCEPT ![i].state = arg[2]]
             /\ process' = [q \in Pid |-> IF q = p /\ process[q] = "stopped"
                                            THEN "running" ELSE process[q]]
             /\ unreported' = {q \in unreported : process'[q] # "running"}
             /\ at' = IF arg[2] = "FG" THEN "fg" ELSE "prompt"
             /\ arg' = IF arg[2] = "FG" THEN <<i>> ELSE NoArg
     /\ UNCHANGED <<nextjid, sigchld>>

\* Signals are unblocked again before the fg command reads currjob->pid, the
\* argument of waitfg: 0 when the job was deleted meanwhile.
CallWaitFg ==
  /\ at = "fg"
  /\ at' = "enter" /\ arg' = <<jobs[arg[1]].pid>>
  /\ UNCHANGED <<jobs, nextjid, process, unreported, sigchld>>

\* waitfg: SIGCHLD is blocked and fgpid compared; sigsuspend unblocks it and
\* waits in one step.
WaitFg ==
  /\ at \in {"enter", "waitfg"}
  /\ at' = IF fgpid(jobs) = arg[1] THEN "suspend" ELSE "prompt"
  /\ arg' = IF fgpid(jobs) = arg[1] THEN arg ELSE NoArg
  /\ UNCHANGED <<jobs, nextjid, process, unreported, sigchld>>

\* quit and the end of input at the prompt, SIGQUIT (sigquit_handler) anywhere.
Quit ==
  /\ at # "gone"
  /\ at' = "gone"
  /\ UNCHANGED <<jobs, nextjid, arg, process, unreported, sigchld>>
-----------------------------------------------------------------------------
\* Fault: waitfg suspends the shell once, without a loop.
ResumeOnce == IF at = "suspend" THEN "prompt" ELSE at

\* Fault: a handler runs between the test of fgpid and the suspension.
ResumeLost == at

\* A handler that ran during sigsuspend lets waitfg go on.
Resume == IF at = "suspend" THEN "waitfg" ELSE at

\* Where the shell has SIGCHLD unblocked.
Interruptible == {"prompt", "found", "bgfg", "fg", "enter", "suspend"}

\* Fault: SIGCHLD is not blocked between fork and addjob.
HandlerUnblocked ==
  LET ended == {p \in unreported : process[p] = "zombie"}
      js == [i \in Slot |->
               IF jobs[i].pid \in ended THEN Cleared
               ELSE IF jobs[i].pid \in unreported
                 THEN [jobs[i] EXCEPT !.state = "ST"] ELSE jobs[i]]
  IN /\ sigchld /\ at \in {"addjob"} \cup Interruptible
     /\ sigchld' = FALSE
     /\ jobs' = js
     /\ nextjid' = IF ended = {} THEN nextjid ELSE maxjid(js) + 1
     /\ process' = [p \in Pid |-> IF p \in ended THEN "none" ELSE process[p]]
     /\ unreported' = {}
     /\ at' = Resume
     /\ UNCHANGED arg

\* sigchld_handler, whenever SIGCHLD is pending and not blocked: every child
\* that waitpid reports has ended, and its job is deleted, or has stopped.  A
\* child without a job, for which the list was full, ends the shell: job is a
\* null pointer.
sigchld_handler ==
  LET ended == {p \in unreported : process[p] = "zombie"}
      crash == \E p \in unreported : JobsOf(jobs, p) = {}
      js == [i \in Slot |->
               IF jobs[i].pid \in ended THEN Cleared
               ELSE IF jobs[i].pid \in unreported
                 THEN [jobs[i] EXCEPT !.state = "ST"] ELSE jobs[i]]
  IN /\ sigchld /\ at \in Interruptible
     /\ sigchld' = FALSE
     /\ IF crash THEN at' = "gone" /\ UNCHANGED <<jobs, nextjid, process, unreported>>
        ELSE /\ jobs' = js
             /\ nextjid' = IF ended = {} THEN nextjid ELSE maxjid(js) + 1
             /\ process' = [p \in Pid |-> IF p \in ended THEN "none" ELSE process[p]]
             /\ unreported' = {}
             /\ at' = Resume
     /\ UNCHANGED arg

\* sigint_handler and sigtstp_handler: the signal goes to the foreground job,
\* which becomes `to'; kill fails while the child has no process group.  In
\* sigsuspend the kernel delivers a pending SIGCHLD first.
ForwardSignal(to) ==
  LET p == fgpid(jobs)
  IN /\ at # "gone" /\ ~(at = "suspend" /\ sigchld)
     /\ p # 0
     /\ at' = IF process[p] = "forked" THEN "gone" ELSE Resume
     /\ process' = [process EXCEPT ![p] = IF @ = "running" THEN to ELSE @]
     /\ unreported' = unreported \cup {q \in {p} : process[q] = "running"}
     /\ sigchld' = (sigchld \/ process[p] = "running")
     /\ UNCHANGED <<jobs, nextjid, arg>>

\* The child: setpgid, then execve.
SetPgid(p) ==
  /\ process[p] = "forked"
  /\ process' = [process EXCEPT ![p] = "running"]
  /\ UNCHANGED <<jobs, nextjid, at, arg, unreported, sigchld>>

\* The child ends, or is stopped by a signal that did not come from the shell.
ChildChanges(p, to) ==
  /\ process[p] = "running"
  /\ process' = [process EXCEPT ![p] = to]
  /\ unreported' = unreported \cup {p}
  /\ sigchld' = TRUE
  /\ UNCHANGED <<jobs, nextjid, at, arg>>

ShellStep == AddJob \/ FindAgain \/ Continue \/ CallWaitFg \/ WaitFg

ShellNext ==
  \/ \E p \in Pid, state \in {"FG", "BG"} : Fork(p, state)
  \/ \E i \in Slot, field \in {"pid", "jid"}, state \in {"FG", "BG"} :
       FindJob(i, field, state)
  \/ ShellStep
  \/ Quit
  \/ sigchld_handler
  \/ \E to \in {"zombie", "stopped"} : ForwardSignal(to)
  \/ \E p \in Pid : SetPgid(p)
  \/ \E p \in Pid, to \in {"zombie", "stopped"} : ChildChanges(p, to)

\* The operating system runs the shell and delivers a signal that is pending.
ShellFairness == WF_shellVars(ShellStep) /\ WF_shellVars(sigchld_handler)

ShellSpec == ShellInit /\ [][ShellNext]_shellVars /\ ShellFairness
-----------------------------------------------------------------------------
\* The job list agrees with the children: a job has a child that was not reaped,
\* no two jobs have the same, and a job that is marked stopped has stopped.  So
\* no job is added for a child that was reaped before, which is why eval
\* blocks SIGCHLD between fork and addjob.
JobsHaveChildren ==
  /\ \A i \in Slot : jobs[i].pid # 0 =>
       /\ process[jobs[i].pid] # "none"
       /\ jobs[i].state = "ST" => process[jobs[i].pid] \in {"stopped", "zombie"}
  /\ \A i, j \in Slot : jobs[i].pid # 0 /\ jobs[i].pid = jobs[j].pid => i = j

\* The shell is in waitfg, before or after it has blocked SIGCHLD.
InWaitFg == at \in {"enter", "waitfg", "suspend"}

\* At most one job is in the foreground, and only while the shell waits for it:
\* at the prompt Ctrl-C and Ctrl-Z reach no job (waitfg, sigchld_handler).
ForegroundIsWaitedFor ==
  LET fg == {i \in Slot : jobs[i].state = "FG"}
  IN /\ Cardinality(fg) <= 1
     /\ at = "prompt" => fg = {}
     /\ \A i \in fg : InWaitFg => jobs[i].pid = arg[1]

\* The shell does not miss the end of a job: when waitfg was called with the pid
\* of a child, and that has ended or stopped or is no longer in the foreground,
\* waitfg returns (sigsuspend in a loop around fgpid).
WaitEnds ==
  \A p \in Pid :
    LET waits == InWaitFg /\ arg = <<p>>
    IN (waits /\ (p \in unreported \/ fgpid(jobs) # p)) ~> ~waits

\* What waitfg promises for any pid: it blocks only until the process is no
\* longer in the foreground, so it returns when no process is.
WaitFgReturns == (InWaitFg /\ fgpid(jobs) = 0) ~> ~InWaitFg
=============================================================================
