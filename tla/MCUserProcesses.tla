-------------------------- MODULE MCUserProcesses ---------------------------
(***************************************************************************)
(* Processes that create, await and end others, in one run: in the kernel  *)
(* (Process) and in the shell (Shell).  The parts share no variable; a     *)
(* behaviour is one of the part that `part' names.                         *)
(***************************************************************************)
EXTENDS MCProcess, Shell

VARIABLE part

MCInit == part \in {"kernel", "shell"} /\ Init /\ ShellInit

MCNext ==
  /\ UNCHANGED part
  /\ \/ part = "kernel" /\ Next /\ UNCHANGED shellVars
     \/ part = "shell" /\ ShellNext /\ UNCHANGED vars

\* Fairness and ShellFairness, of the part that runs.
MCSpec ==
  /\ MCInit /\ [][MCNext]_<<part, vars, shellVars>>
  /\ \A p \in Page : WF_vars(part = "kernel" /\ KernelStep(p))
  /\ WF_shellVars(part = "shell" /\ ShellStep)
  /\ WF_shellVars(part = "shell" /\ sigchld_handler)
=============================================================================
