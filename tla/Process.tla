------------------------------ MODULE Process -------------------------------
(***************************************************************************)
(* The life of user processes: exec, load, exit, wait and the destruction  *)
(* of struct thread pages (userprog/process.c, threads/thread.c).          *)
(*                                                                         *)
(* Semaphores are the atomic ones of SynchAbs; between two accesses to     *)
(* shared state a thread may be preempted by any other.  pc[p] is where    *)
(* thread p is: "user" while it runs its program, else in the system call, *)
(* exception or thread function that it names.  A page that holds no       *)
(* struct thread has pc "free".                                            *)
(***************************************************************************)
EXTENDS KernelList

CONSTANTS
  Page,         \* the pages that can hold a struct thread, by number
  main,         \* the initial thread, which runs run_task
  NULL,
  MaxTid,       \* bound on the number of threads ever created
  ExitStatus    \* statuses that programs exit with, 0 excepted

ASSUME ProcessAssumption ==
  /\ Page \subseteq Nat /\ main \in Page /\ NULL \notin Page
  /\ MaxTid \in Nat
  /\ -1 \in ExitStatus /\ ExitStatus \subseteq Int

VARIABLES
  pc,
  tid,          \* struct thread: tid
  child_list,   \* struct thread: child_list
  load_mutex, wait_mutex, exit_mutex,   \* struct thread: semaphore values
  waited_once,  \* struct thread: waited_once
  exit_status,  \* struct thread: exit_status
  executable,   \* is the executable file open?
  child,        \* the local `t' of thread_create or `child' of process_wait
  task,         \* the tid that run_task has to wait for, or NULL
  next_tid,     \* the counter of allocate_tid
  loaded,       \* history: tids of the processes that were loaded
  died,         \* history: <<tid, status>> of the processes that exited
  waits         \* history: tids whose status process_wait has returned

threadVars == <<tid, child_list, waited_once, exit_status, executable>>
semaVars == <<load_mutex, wait_mutex, exit_mutex>>
history == <<loaded, died, waits>>
vars == <<pc, threadVars, semaVars, child, task, next_tid, history>>

TID_ERROR == -1
Tid == 1..MaxTid

Init ==
  /\ pc = [p \in Page |-> IF p = main THEN "user" ELSE "free"]
  /\ tid = [p \in Page |-> IF p = main THEN 1 ELSE 0]
  /\ child_list = [p \in Page |-> <<>>]
  /\ load_mutex = [p \in Page |-> 0]
  /\ wait_mutex = [p \in Page |-> 0]
  /\ exit_mutex = [p \in Page |-> 0]
  /\ waited_once = [p \in Page |-> FALSE]
  /\ exit_status = [p \in Page |-> 0]
  /\ executable = [p \in Page |-> FALSE]
  /\ child = [p \in Page |-> NULL]
  /\ task = NULL
  /\ next_tid = 2
  /\ loaded = {} /\ died = {} /\ waits = {}

\* Thread p goes from one location to another, in a step of its own.
Goto(p, from, to) == pc[p] = from /\ pc' = [pc EXCEPT ![p] = to]

\* sema_down and sema_up, without their queues.
Down(sema, p) == sema[p] > 0 /\ sema' = [sema EXCEPT ![p] = @ - 1]
Up(sema, p) == sema' = [sema EXCEPT ![p] = @ + 1]
-----------------------------------------------------------------------------
\* run_task waits for each program it has started; user programs call exec and
\* wait as they like.
MayExec(p) == pc[p] = "user" /\ (p = main => task = NULL)
MayWait(p, t) == pc[p] = "user" /\ (p = main => task = t)

\* process_execute and thread_create up to thread_unblock: palloc_get_page
\* finds a free page c, init_thread sets it up, and it may run.  All free pages
\* are alike here, so which of them it finds makes no difference: the first.
Exec(p, c) ==
  /\ MayExec(p)
  /\ c = Min({q \in Page : pc[q] = "free"} \cup {main})
  /\ c # main
  /\ next_tid <= MaxTid
  /\ pc' = [pc EXCEPT ![p] = "exec_push", ![c] = "load"]
  /\ tid' = [tid EXCEPT ![c] = next_tid]
  /\ next_tid' = next_tid + 1
  /\ child' = [child EXCEPT ![p] = c]
  /\ UNCHANGED <<child_list, waited_once, exit_status, executable, semaVars,
                 task, history>>

\* process_execute or thread_create got no page.
ExecFails(p) ==
  /\ MayExec(p)
  /\ task' = IF p = main THEN TID_ERROR ELSE task
  /\ UNCHANGED <<pc, threadVars, semaVars, child, next_tid, history>>

\* thread_create makes the new thread a child.
ExecPush(p) ==
  /\ Goto(p, "exec_push", "exec_down")
  /\ child_list' = [child_list EXCEPT ![p] = Append(@, child[p])]
  /\ UNCHANGED <<tid, waited_once, exit_status, executable, semaVars, child,
                 task, next_tid, history>>

\* Fault: thread_create does not wait for the child to load.
ExecNoDown(p) ==
  /\ Goto(p, "exec_down", "exec_check")
  /\ UNCHANGED <<threadVars, semaVars, child, task, next_tid, history>>

\* thread_create waits until the child is loaded, or has failed to.
ExecDown(p) ==
  /\ Goto(p, "exec_down", "exec_check")
  /\ Down(load_mutex, child[p])
  /\ UNCHANGED <<threadVars, wait_mutex, exit_mutex, child, task, next_tid,
                 history>>

\* A child that failed to load leaves the child list.
ExecCheck(p) ==
  /\ Goto(p, "exec_check", "exec_return")
  /\ child_list' = [child_list EXCEPT
                      ![p] = IF tid[child[p]] = TID_ERROR
                             THEN list_remove(@, child[p]) ELSE @]
  /\ UNCHANGED <<tid, waited_once, exit_status, executable, semaVars, child,
                 task, next_tid, history>>

\* thread_create reads t->tid once more, after check_preemption.
ExecReturn(p) ==
  /\ Goto(p, "exec_return", "user")
  /\ task' = IF p = main THEN tid[child[p]] ELSE task
  /\ child' = [child EXCEPT ![p] = NULL]
  /\ UNCHANGED <<threadVars, semaVars, next_tid, history>>
-----------------------------------------------------------------------------
\* load, successful or not: an executable that was found is recorded in either
\* case, and start_process marks a failure with TID_ERROR.
Load(p) ==
  /\ Goto(p, "load", "load_up")
  /\ \/ /\ executable' = [executable EXCEPT ![p] = TRUE]
        /\ loaded' = loaded \cup {tid[p]}
        /\ UNCHANGED tid
     \/ /\ tid' = [tid EXCEPT ![p] = TID_ERROR]
        /\ \E found \in BOOLEAN : executable' = [executable EXCEPT ![p] = found]
        /\ UNCHANGED loaded
  /\ UNCHANGED <<child_list, waited_once, exit_status, semaVars, child, task,
                 next_tid, died, waits>>

\* Fault: only a successful load lets the parent go on.
LoadUpOnSuccess(p) ==
  /\ Goto(p, "load_up", IF tid[p] = TID_ERROR THEN "load_failed" ELSE "user")
  /\ load_mutex' = [load_mutex EXCEPT ![p] = IF tid[p] = TID_ERROR THEN @ ELSE 1]
  /\ UNCHANGED <<threadVars, wait_mutex, exit_mutex, child, task, next_tid,
                 history>>

\* start_process lets the parent go on.
LoadUp(p) ==
  /\ Goto(p, "load_up", IF tid[p] = TID_ERROR THEN "load_failed" ELSE "user")
  /\ Up(load_mutex, p)
  /\ UNCHANGED <<threadVars, wait_mutex, exit_mutex, child, task, next_tid,
                 history>>
-----------------------------------------------------------------------------
\* exit, a fault in the program, or a failed load: the status is set and
\* thread_exit begins.
Exit(p, status) ==
  /\ p # main
  /\ \/ Goto(p, "user", "exit_children")
     \/ Goto(p, "load_failed", "exit_children") /\ status = -1
  /\ exit_status' = [exit_status EXCEPT ![p] = status]
  /\ died' = IF tid[p] = TID_ERROR THEN died ELSE died \cup {<<tid[p], status>>}
  /\ UNCHANGED <<tid, child_list, waited_once, executable, semaVars, child,
                 task, next_tid, loaded, waits>>

\* One turn of thread_exit's loop over its children.
ExitChild(p) ==
  /\ pc[p] = "exit_children"
  /\ child_list[p] # <<>>
  /\ child_list' = [child_list EXCEPT ![p] = Tail(@)]
  /\ Up(exit_mutex, Head(child_list[p]))
  /\ UNCHANGED <<pc, tid, waited_once, exit_status, executable, load_mutex,
                 wait_mutex, child, task, next_tid, history>>

\* Open files and the executable are closed.
ExitClose(p) ==
  /\ child_list[p] = <<>>
  /\ Goto(p, "exit_children", "exit_up")
  /\ executable' = [executable EXCEPT ![p] = FALSE]
  /\ UNCHANGED <<tid, child_list, waited_once, exit_status, semaVars, child,
                 task, next_tid, history>>

\* A parent in process_wait may go on.
ExitUp(p) ==
  /\ Goto(p, "exit_up", "exit_down")
  /\ Up(wait_mutex, p)
  /\ UNCHANGED <<threadVars, load_mutex, exit_mutex, child, task, next_tid,
                 history>>

\* The page goes back to palloc and whatever the struct thread said is void.
Destroyed(p) ==
  /\ Goto(p, "exit_down", "free")
  /\ tid' = [tid EXCEPT ![p] = 0]
  /\ load_mutex' = [load_mutex EXCEPT ![p] = 0]
  /\ wait_mutex' = [wait_mutex EXCEPT ![p] = 0]
  /\ exit_mutex' = [exit_mutex EXCEPT ![p] = 0]
  /\ waited_once' = [waited_once EXCEPT ![p] = FALSE]
  /\ exit_status' = [exit_status EXCEPT ![p] = 0]
  /\ UNCHANGED <<child_list, executable, child, task, next_tid, history>>

\* Fault: the thread is destroyed without waiting for its parent.
ExitNoDown(p) == Destroyed(p)

\* The thread waits for its parent, turns to THREAD_DYING and is destroyed by
\* the next thread, in thread_schedule_tail.
ExitDown(p) == exit_mutex[p] > 0 /\ Destroyed(p)
-----------------------------------------------------------------------------
\* The children of p that process_wait would find for tid t.
Found(p, t) == {c \in Range(child_list[p]) : tid[c] = t}

\* process_wait that returns -1 without waiting.
WaitFails(p, t) ==
  /\ MayWait(p, t)
  /\ \A c \in Found(p, t) : waited_once[c]
  /\ task' = IF p = main THEN NULL ELSE task
  /\ UNCHANGED <<pc, threadVars, semaVars, child, next_tid, history>>

\* process_wait finds its child and marks it.
Wait(p, t) ==
  /\ MayWait(p, t)
  /\ \E c \in Found(p, t) :
       /\ ~waited_once[c]
       /\ waited_once' = [waited_once EXCEPT ![c] = TRUE]
       /\ child' = [child EXCEPT ![p] = c]
  /\ Goto(p, "user", "wait_down")
  /\ task' = IF p = main THEN NULL ELSE task
  /\ UNCHANGED <<tid, child_list, exit_status, executable, semaVars, next_tid,
                 history>>

\* Fault: process_wait does not wait for the child to exit.
WaitNoDown(p) ==
  /\ Goto(p, "wait_down", "wait_read")
  /\ UNCHANGED <<threadVars, semaVars, child, task, next_tid, history>>

\* process_wait waits for the child to exit.
WaitDown(p) ==
  /\ Goto(p, "wait_down", "wait_read")
  /\ Down(wait_mutex, child[p])
  /\ UNCHANGED <<threadVars, load_mutex, exit_mutex, child, task, next_tid,
                 history>>

\* process_wait reads the status and takes the child off the list.
WaitRead(p) ==
  /\ Goto(p, "wait_read", "wait_up")
  /\ waits' = waits \cup {tid[child[p]]}
  /\ child_list' = [child_list EXCEPT ![p] = list_remove(@, child[p])]
  /\ UNCHANGED <<tid, waited_once, exit_status, executable, semaVars, child,
                 task, next_tid, loaded, died>>

\* Fault: process_wait does not let the child go.
WaitNoUp(p) ==
  /\ Goto(p, "wait_up", "user")
  /\ child' = [child EXCEPT ![p] = NULL]
  /\ UNCHANGED <<threadVars, semaVars, task, next_tid, history>>

\* process_wait lets the child go and returns.
WaitUp(p) ==
  /\ Goto(p, "wait_up", "user")
  /\ Up(exit_mutex, child[p])
  /\ child' = [child EXCEPT ![p] = NULL]
  /\ UNCHANGED <<threadVars, load_mutex, wait_mutex, task, next_tid, history>>
-----------------------------------------------------------------------------
\* What thread p does inside the kernel, once it is there.
KernelStep(p) ==
  \/ ExecPush(p) \/ ExecDown(p) \/ ExecCheck(p) \/ ExecReturn(p)
  \/ Load(p) \/ LoadUp(p)
  \/ pc[p] = "load_failed" /\ Exit(p, -1)
  \/ ExitChild(p) \/ ExitClose(p) \/ ExitUp(p)
  \/ ExitDown(p)
  \/ WaitDown(p) \/ WaitRead(p) \/ WaitUp(p)

\* What its program may ask for.
UserCall(p) ==
  \/ ExecFails(p)
  \/ \E c \in Page : Exec(p, c)
  \/ \E t \in Tid \cup {TID_ERROR} : Wait(p, t) \/ WaitFails(p, t)
  \/ \E s \in ExitStatus : pc[p] = "user" /\ Exit(p, s)

Next == \E p \in Page : KernelStep(p) \/ UserCall(p)

\* All processes have the same priority, so the scheduler runs each of them
\* again and again (SleepersRunAgain in Timer); programs need not do anything.
Fairness == \A p \in Page : WF_vars(KernelStep(p))

Spec == Init /\ [][Next]_vars /\ Fairness
-----------------------------------------------------------------------------
\* No struct thread is freed while its parent can still reach it: through its
\* child list, between the statements of thread_create, or in process_wait;
\* and no thread is on two child lists (child_elem, exit_mutex).
NoDanglingChild ==
  \A p \in Page :
    /\ \A c \in Range(child_list[p]) \cup ({child[p]} \ {NULL}) :
         /\ c # p /\ pc[c] # "free"
         /\ \A q \in Page \ {p} : c \notin Range(child_list[q])
    /\ IsInjective(child_list[p])

\* process_wait returns the status that the child died with, and returns it
\* once, although pages of dead threads are used again; when it returns, the
\* child's executable may be written again (thread_exit closes it before it
\* ups wait_mutex).
WaitsTrue ==
  [][\A p \in Page :
       pc[p] = "wait_read" /\ pc'[p] = "wait_up" =>
         /\ <<tid[child[p]], exit_status[child[p]]>> \in died
         /\ tid[child[p]] \notin waits
         /\ ~executable[child[p]]]_vars

\* exec returns a tid only for a program that has been loaded, so that a parent
\* can tell a failed load from a process (load_mutex).
ExecKnowsLoad ==
  [][\A p \in Page :
       pc[p] = "exec_return" /\ pc'[p] = "user" =>
         tid[child[p]] \in loaded \cup {TID_ERROR}]_vars

\* exec returns, and so does wait for a child that exits: no parent and child
\* wait for each other, whichever of them comes first to each semaphore.
CallsReturn ==
  \A p \in Page :
    /\ pc[p] \in {"exec_push", "exec_down", "exec_check"} ~> pc[p] = "user"
    /\ pc[p] = "wait_down" /\ pc[child[p]] = "exit_children" ~> pc[p] = "user"

Orphan(c) ==
  \A p \in Page : c \notin Range(child_list[p]) /\ c # child[p]

\* A process that was loaded and has exited is destroyed once its parent has
\* waited for it or exited.
ZombiesDestroyed ==
  \A c \in Page :
    pc[c] = "exit_down" /\ Orphan(c) /\ tid[c] # TID_ERROR ~> pc[c] = "free"

\* thread_exit: "Deschedules the current thread and destroys it": any thread
\* that has exited and that no parent can wait for is destroyed.
ExitDestroys ==
  \A c \in Page : pc[c] = "exit_down" /\ Orphan(c) ~> pc[c] = "free"
=============================================================================
