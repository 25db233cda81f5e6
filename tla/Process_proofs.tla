--------------------------- MODULE Process_proofs ---------------------------
(***************************************************************************)
(* Parents and children for any number of pages, threads and statuses: no  *)
(* struct thread is freed while its parent can reach it, wait returns the  *)
(* status of the child that died, once, and exec tells a failed load.      *)
(***************************************************************************)
EXTENDS Process, List_proofs

Exiting == {"exit_children", "exit_up", "exit_down"}
Loc == {"free", "user", "exec_push", "exec_down", "exec_check", "exec_return",
        "load", "load_up", "load_failed", "wait_down", "wait_read", "wait_up"}
         \cup Exiting

\* Every variable has its type.
TypeOK ==
  /\ pc \in [Page -> Loc]
  /\ tid \in [Page -> Int]
  /\ child_list \in [Page -> Seq(Page)]
  /\ load_mutex \in [Page -> Nat]
  /\ wait_mutex \in [Page -> Nat]
  /\ exit_mutex \in [Page -> Nat]
  /\ exit_status \in [Page -> Int]
  /\ executable \in [Page -> BOOLEAN]
  /\ child \in [Page -> Page \cup {NULL}]
  /\ next_tid \in Nat
-----------------------------------------------------------------------------
(* Who can reach whom. *)

Kids(p) == Range(child_list[p])

\* Thread p has c as its `t' or `child'.
Holds(p, c) == child[p] = c /\ child[p] # NULL

Reach(p, c) == c \in Kids(p) \/ Holds(p, c)

\* The locations at which `child' is in use, and those at which what it points
\* to is not on the list.
InCall(l) == l \in {"exec_push", "exec_down", "exec_check", "exec_return",
                    "wait_down", "wait_read", "wait_up"}
OffList(l) == l \in {"exec_push", "wait_up"}
OnList(l) == l \in {"exec_down", "exec_check", "wait_down", "wait_read"}

\* A thread that another can reach lives and has not been let go, and only one
\* thread can reach it.
ReachOK ==
  \A p, c \in Page : Reach(p, c) =>
    /\ c # p /\ c # main /\ pc[c] # "free" /\ exit_mutex[c] = 0
    /\ \A q \in Page : Reach(q, c) => q = p

\* What thread p can reach depends on where it is.
HolderAt(p) ==
  /\ IsInjective(child_list[p])
  /\ child[p] # NULL <=> InCall(pc[p])
  /\ OffList(pc[p]) => child[p] \notin Kids(p)
  /\ OnList(pc[p]) => child[p] \in Kids(p)
  /\ pc[p] \in {"free", "load", "load_up", "load_failed", "exit_up", "exit_down"}
       => child_list[p] = <<>>
  /\ pc[p] = "free" => exit_mutex[p] = 0 /\ load_mutex[p] = 0 /\ wait_mutex[p] = 0

HolderOK == \A p \in Page : HolderAt(p)

LinkInv == TypeOK /\ ReachOK /\ HolderOK /\ pc[main] \notin {"free"} \cup Exiting
-----------------------------------------------------------------------------
(* What a parent knows of its child. *)

Unloaded == {"free", "load", "load_up"}

\* Thread c by itself: its semaphores tell how far it has got, and the history
\* has its load and its death.
ThreadAt(c) ==
  /\ load_mutex[c] > 0 => pc[c] \notin Unloaded
  /\ wait_mutex[c] > 0 => pc[c] = "exit_down"
  /\ pc[c] \in {"exit_up", "exit_down"} => ~executable[c]
  /\ pc[c] \in Exiting /\ tid[c] # TID_ERROR => <<tid[c], exit_status[c]>> \in died
  /\ c # main /\ pc[c] \notin {"free", "load"} => tid[c] \in loaded \cup {TID_ERROR}

\* Two threads have the same tid only when both failed to load.
TidsOK ==
  /\ \A c \in Page : tid[c] < next_tid
  /\ 0 < next_tid
  /\ \A t \in waits : t \in Int /\ t < next_tid /\ t # TID_ERROR
  /\ \A c, d \in Page :
       pc[c] # "free" /\ pc[d] # "free" /\ tid[c] = tid[d] /\ tid[c] # TID_ERROR
         => c = d

\* The child that p is loading: its tid may still become TID_ERROR.
Fresh(p, c) == pc[p] \in {"exec_push", "exec_down", "exec_check"} /\ child[p] = c

\* A child that p waits for has exited once wait_mutex was downed, one that it
\* has created is loaded, or failed, once load_mutex was; what is on the list
\* has been loaded and nobody has had its status.
ParentAt(p) ==
  /\ pc[p] \in {"exec_check", "exec_return"} => pc[child[p]] \notin Unloaded
  /\ pc[p] = "wait_read" => pc[child[p]] = "exit_down"
  /\ pc[p] = "exec_push" => tid[child[p]] \notin waits
  /\ \A c \in Kids(p) :
       /\ tid[c] \notin waits
       /\ ~Fresh(p, c) => pc[c] \notin Unloaded /\ tid[c] # TID_ERROR

ProcessInv ==
  LinkInv /\ TidsOK /\ \A p \in Page : ThreadAt(p) /\ ParentAt(p)
-----------------------------------------------------------------------------
USE DEF Goto, TID_ERROR

\* exec finds a page that holds no thread.
LEMMA FreePage ==
  ASSUME NEW p \in Page, NEW c \in Page, Exec(p, c)
  PROVE  pc[c] = "free" /\ c # main /\ c # p
<1> DEFINE S == {q \in Page : pc[q] = "free"} \cup {main}
<1>1. S \in SUBSET Nat /\ S # {}
  BY ProcessAssumption, Zenon
<1>2. Min(S) \in S
  BY <1>1, MinExists, Zenon
<1>3. c = Min(S) /\ c # main /\ pc[p] = "user"
  BY DEF Exec, MayExec
<1> QED BY <1>2, <1>3, Zenon

\* What list_remove leaves of a child list.
LEMMA KidsWithout ==
  ASSUME TypeOK, NEW p \in Page, HolderAt(p), OnList(pc[p])
  PROVE  /\ list_remove(child_list[p], child[p]) \in Seq(Page)
         /\ child[p] \in Kids(p)
         /\ Range(list_remove(child_list[p], child[p])) = Kids(p) \ {child[p]}
         /\ IsInjective(list_remove(child_list[p], child[p]))
<1>1. child_list[p] \in Seq(Page) /\ IsInjective(child_list[p])
  BY Zenon DEF TypeOK, HolderAt
<1>2. child[p] \in Range(child_list[p])
  BY Zenon DEF HolderAt, Kids
<1> QED BY <1>1, <1>2, ListRemoveProps, Zenon DEF Kids

\* What a step does to one variable keeps its type.
LEMMA Updates ==
  ASSUME TypeOK, HolderOK, NEW p \in Page
  PROVE  /\ \A q, l : l \in Loc => [pc EXCEPT ![q] = l] \in [Page -> Loc]
         /\ \A q, t : t \in Int => [tid EXCEPT ![q] = t] \in [Page -> Int]
         /\ \A q, s : s \in Int => [exit_status EXCEPT ![q] = s] \in [Page -> Int]
         /\ \A q, b : b \in BOOLEAN => [executable EXCEPT ![q] = b] \in [Page -> BOOLEAN]
         /\ \A q, c : c \in Page \cup {NULL} =>
              [child EXCEPT ![q] = c] \in [Page -> Page \cup {NULL}]
         /\ \A q, n : n \in Nat =>
              /\ [load_mutex EXCEPT ![q] = n] \in [Page -> Nat]
              /\ [wait_mutex EXCEPT ![q] = n] \in [Page -> Nat]
              /\ [exit_mutex EXCEPT ![q] = n] \in [Page -> Nat]
         /\ \A q, l : l \in Seq(Page) =>
              [child_list EXCEPT ![q] = l] \in [Page -> Seq(Page)]
<1> QED BY Zenon DEF TypeOK

\* Every step keeps the types.
LEMMA TypeNext ==
  ASSUME TypeOK, HolderOK, NEW p \in Page, KernelStep(p) \/ UserCall(p)
  PROVE  TypeOK'
<1>0. /\ {"user", "exec_push", "exec_down", "exec_check", "exec_return"} \subseteq Loc
      /\ {"free", "load", "load_up", "load_failed"} \subseteq Loc
      /\ {"wait_down", "wait_read", "wait_up"} \subseteq Loc
      /\ {"exit_children", "exit_up", "exit_down"} \subseteq Loc
  BY DEF Loc, Exiting
<1>l. \A l \in Loc : [pc EXCEPT ![p] = l] \in [Page -> Loc]
  BY Updates, Zenon
<1>c. InCall(pc[p]) => child[p] \in Page
  BY Zenon DEF TypeOK, HolderOK, HolderAt
<1>s. \A q \in Page : /\ load_mutex[q] \in Nat /\ wait_mutex[q] \in Nat
                      /\ exit_mutex[q] \in Nat /\ tid[q] \in Int
                      /\ child_list[q] \in Seq(Page)
  BY Zenon DEF TypeOK
<1>n. 0 \in Nat /\ 0 \in Int /\ -1 \in Int /\ next_tid \in Int
      /\ \A n \in Nat : n + 1 \in Nat /\ (n > 0 => n - 1 \in Nat)
  BY DEF TypeOK
<1>r. OnList(pc[p]) => list_remove(child_list[p], child[p]) \in Seq(Page)
  BY KidsWithout, Zenon DEF HolderOK
<1>1. CASE \E c \in Page : Exec(p, c)
  <2>1. PICK c \in Page : Exec(p, c)
    BY <1>1, Zenon
  <2>2. pc' \in [Page -> Loc] /\ tid' \in [Page -> Int] /\ next_tid' \in Nat
        /\ child' \in [Page -> Page \cup {NULL}]
    <3>1. pc' = [[pc EXCEPT ![p] = "exec_push"] EXCEPT ![c] = "load"]
      BY <2>1, Zenon DEF Exec
    <3>2. pc' \in [Page -> Loc]
      BY <1>0, <1>l, <3>1, Zenon
    <3> QED BY <1>n, <2>1, <3>2, Updates, Zenon DEF Exec, TypeOK
  <2> QED BY <2>1, <2>2, Zenon DEF Exec, semaVars, TypeOK
<1>2. CASE ExecPush(p)
  <2>1. child[p] \in Page
    BY <1>2, <1>c DEF ExecPush, InCall
  <2>2. Append(child_list[p], child[p]) \in Seq(Page)
    BY <2>1, <1>s
  <2> QED BY <1>0, <1>l, <1>2, <2>2, Updates, Zenon DEF ExecPush, semaVars, TypeOK
<1>3. CASE ExecDown(p)
  <2>1. child[p] \in Page
    BY <1>3, <1>c DEF ExecDown, InCall
  <2> QED BY <1>0, <1>l, <1>n, <1>s, <1>3, <2>1, Updates, Zenon
          DEF ExecDown, Down, threadVars, TypeOK
<1>4. CASE ExecCheck(p)
  <2>1. OnList(pc[p])
    BY <1>4 DEF ExecCheck, OnList
  <2> QED BY <1>0, <1>l, <1>r, <1>s, <1>4, <2>1, Updates, Zenon
          DEF ExecCheck, semaVars, TypeOK
<1>5. CASE ExecReturn(p)
  BY <1>0, <1>l, <1>5, Updates, Zenon DEF ExecReturn, threadVars, semaVars, TypeOK
<1>6. CASE Load(p)
  <2>1. tid' \in [Page -> Int]
    <3>1. tid' = tid \/ tid' = [tid EXCEPT ![p] = -1]
      BY <1>6, Zenon DEF Load
    <3>2. tid \in [Page -> Int]
      BY Zenon DEF TypeOK
    <3>3. -1 \in Int
      OBVIOUS
    <3>4. [tid EXCEPT ![p] = -1] \in [Page -> Int]
      BY <3>3, Updates, Zenon
    <3> QED BY <3>1, <3>2, <3>4, Zenon
  <2>2. executable' \in [Page -> BOOLEAN]
    <3>1. PICK b \in BOOLEAN : executable' = [executable EXCEPT ![p] = b]
      BY <1>6, Zenon DEF Load
    <3> QED BY <3>1, Updates, Zenon
  <2> QED BY <1>0, <1>l, <1>6, <2>1, <2>2, Zenon DEF Load, semaVars, TypeOK
<1>7. CASE LoadUp(p)
  BY <1>0, <1>l, <1>n, <1>s, <1>7, Updates, Zenon DEF LoadUp, Up, threadVars, TypeOK
<1>8. CASE \E s \in ExitStatus \cup {-1} : Exit(p, s)
  <2>1. PICK s \in ExitStatus \cup {-1} : Exit(p, s)
    BY <1>8, Zenon
  <2>2. s \in Int
    BY ProcessAssumption
  <2>3. pc' \in [Page -> Loc]
    BY <1>0, <1>l, <2>1, Zenon DEF Exit
  <2>4. exit_status' \in [Page -> Int]
    BY <2>1, <2>2, Updates, Zenon DEF Exit
  <2> QED BY <2>1, <2>3, <2>4, Zenon DEF Exit, semaVars, TypeOK
<1>9. CASE ExitChild(p)
  <2>1. Tail(child_list[p]) \in Seq(Page) /\ Head(child_list[p]) \in Page
    BY <1>9, <1>s DEF ExitChild
  <2> QED BY <1>n, <1>s, <1>9, <2>1, Updates, Zenon DEF ExitChild, Up, TypeOK
<1>10. CASE ExitClose(p)
  BY <1>0, <1>l, <1>10, Updates, Zenon DEF ExitClose, semaVars, TypeOK
<1>11. CASE ExitUp(p)
  BY <1>0, <1>l, <1>n, <1>s, <1>11, Updates, Zenon DEF ExitUp, Up, threadVars, TypeOK
<1>12. CASE ExitDown(p)
  <2>1. pc' \in [Page -> Loc] /\ tid' \in [Page -> Int] /\ exit_status' \in [Page -> Int]
    BY <1>0, <1>l, <1>n, <1>12, Updates, Zenon DEF ExitDown, Destroyed
  <2>2. /\ load_mutex' \in [Page -> Nat] /\ wait_mutex' \in [Page -> Nat]
        /\ exit_mutex' \in [Page -> Nat]
    BY <1>n, <1>12, Updates, Zenon DEF ExitDown, Destroyed
  <2> QED BY <1>12, <2>1, <2>2, Zenon DEF ExitDown, Destroyed, TypeOK
<1>13. CASE WaitDown(p)
  <2>1. child[p] \in Page
    BY <1>13, <1>c DEF WaitDown, InCall
  <2> QED BY <1>0, <1>l, <1>n, <1>s, <1>13, <2>1, Updates, Zenon
          DEF WaitDown, Down, threadVars, TypeOK
<1>14. CASE WaitRead(p)
  <2>1. OnList(pc[p])
    BY <1>14 DEF WaitRead, OnList
  <2> QED BY <1>0, <1>l, <1>r, <1>14, <2>1, Updates, Zenon DEF WaitRead, semaVars, TypeOK
<1>15. CASE WaitUp(p)
  <2>1. child[p] \in Page
    BY <1>15, <1>c DEF WaitUp, InCall
  <2> QED BY <1>0, <1>l, <1>n, <1>s, <1>15, <2>1, Updates, Zenon
          DEF WaitUp, Up, threadVars, TypeOK
<1>16. CASE \E t \in Tid \cup {TID_ERROR} : Wait(p, t)
  <2>1. PICK t \in Tid \cup {TID_ERROR} : Wait(p, t)
    BY <1>16, Zenon
  <2>2. \A c \in Found(p, t) : c \in Page
    <3>1. \A c \in Range(child_list[p]) : \E i \in 1..Len(child_list[p]) : child_list[p][i] = c
      BY <1>s, ElementsByIndex, Zenon
    <3>2. \A i \in 1..Len(child_list[p]) : child_list[p][i] \in Page
      BY <1>s
    <3> QED BY <3>1, <3>2, Zenon DEF Found
  <2>3. child' \in [Page -> Page \cup {NULL}]
    <3>1. PICK c \in Found(p, t) : child' = [child EXCEPT ![p] = c]
      BY <2>1, Zenon DEF Wait
    <3>2. c \in Page \cup {NULL}
      BY <2>2, Zenon
    <3> QED BY <3>1, <3>2, Updates, Zenon
  <2>4. pc' \in [Page -> Loc]
    BY <1>0, <1>l, <2>1, Zenon DEF Wait
  <2> QED BY <2>1, <2>3, <2>4, Zenon DEF Wait, semaVars, TypeOK
<1>17. CASE ExecFails(p) \/ \E t \in Tid \cup {TID_ERROR} : WaitFails(p, t)
  BY <1>17, Zenon DEF ExecFails, WaitFails, threadVars, semaVars, TypeOK
<1> QED BY <1>1, <1>2, <1>3, <1>4, <1>5, <1>6, <1>7, <1>8, <1>9, <1>10, <1>11,
           <1>12, <1>13, <1>14, <1>15, <1>16, <1>17, Zenon DEF KernelStep, UserCall
-----------------------------------------------------------------------------
\* What is on a child list is a page.
LEMMA KidsArePages ==
  ASSUME TypeOK, NEW p \in Page
  PROVE  Kids(p) \subseteq Page
<1>1. child_list[p] \in Seq(Page)
  BY Zenon DEF TypeOK
<1>2. \A c \in Kids(p) : \E i \in 1..Len(child_list[p]) : child_list[p][i] = c
  BY <1>1, ElementsByIndex, Zenon DEF Kids
<1>3. \A i \in 1..Len(child_list[p]) : child_list[p][i] \in Page
  BY <1>1
<1> QED BY <1>2, <1>3, Zenon

\* A step of p that gives p no new child, frees at most p, and lets go only of
\* threads that p can no longer reach, keeps the links.
LEMMA LinkStep ==
  ASSUME LinkInv, TypeOK', NEW p \in Page,
         \A q \in Page \ {p} :
           pc'[q] = pc[q] /\ child_list'[q] = child_list[q] /\ child'[q] = child[q],
         HolderAt(p)',
         \A c \in Page : Reach(p, c)' => Reach(p, c),
         \A c \in Page : exit_mutex'[c] # exit_mutex[c] =>
           pc[c] # "free" /\ (c = p \/ (Reach(p, c) /\ ~Reach(p, c)')),
         \A c \in Page : pc[c] = "free" =>
           load_mutex'[c] = load_mutex[c] /\ wait_mutex'[c] = wait_mutex[c],
         pc'[p] = "free" \/ exit_mutex'[p] # exit_mutex[p] => exit_mutex[p] > 0,
         p = main => pc'[p] \notin {"free"} \cup Exiting
  PROVE  LinkInv'
<1>1. ReachOK /\ HolderOK /\ TypeOK /\ pc[main] \notin {"free"} \cup Exiting
  BY Zenon DEF LinkInv
<1>2. \A q \in Page \ {p} : \A c \in Page : Reach(q, c)' <=> Reach(q, c)
  BY Zenon DEF Reach, Kids, Holds
<1>3. \A q, c \in Page : Reach(q, c)' => Reach(q, c)
  BY <1>2, Zenon
<1>4. HolderOK'
  <2>1. ASSUME NEW q \in Page \ {p}  PROVE HolderAt(q)'
    <3>1. HolderAt(q)
      BY <1>1, Zenon DEF HolderOK
    <3>2. /\ pc'[q] = pc[q] /\ child_list'[q] = child_list[q] /\ child'[q] = child[q]
          /\ Kids(q)' = Kids(q)
      BY Zenon DEF Kids
    <3>3. pc[q] = "free" => /\ exit_mutex'[q] = exit_mutex[q]
                            /\ load_mutex'[q] = load_mutex[q]
                            /\ wait_mutex'[q] = wait_mutex[q]
      BY Zenon
    <3> QED BY <3>1, <3>2, <3>3, Zenon DEF HolderAt
  <2> QED BY <2>1, Zenon DEF HolderOK
<1>5. ReachOK'
  <2>1. ASSUME NEW q \in Page, NEW c \in Page, Reach(q, c)'
        PROVE  /\ c # q /\ c # main /\ pc'[c] # "free" /\ exit_mutex'[c] = 0
               /\ \A r \in Page : Reach(r, c)' => r = q
    <3>1. Reach(q, c)
      BY <1>3, <2>1, Zenon
    <3>2. /\ c # q /\ c # main /\ pc[c] # "free" /\ exit_mutex[c] = 0
          /\ \A r \in Page : Reach(r, c) => r = q
      BY <1>1, <3>1, Zenon DEF ReachOK
    <3>3. exit_mutex'[c] = exit_mutex[c]
      <4>1. ~(0 > 0)
        OBVIOUS
      <4> QED BY <2>1, <3>2, <4>1, Zenon
    <3>4. pc'[c] # "free"
      <4>1. ~(0 > 0)
        OBVIOUS
      <4> QED BY <3>2, <4>1, Zenon
    <3> QED BY <1>3, <3>2, <3>3, <3>4, Zenon
  <2> QED BY <2>1, Zenon DEF ReachOK
<1>6. pc'[main] \notin {"free"} \cup Exiting
  BY <1>1, ProcessAssumption, Zenon
<1> QED BY <1>4, <1>5, <1>6, Zenon DEF LinkInv

\* So does a step of p that changes no link, by where p is before and after it.
LEMMA QuietLink ==
  ASSUME LinkInv, TypeOK', NEW p \in Page, NEW to,
         pc' = [pc EXCEPT ![p] = to],
         child_list' = child_list, child' = child, exit_mutex' = exit_mutex,
         \A c \in Page : pc[c] = "free" =>
           load_mutex'[c] = load_mutex[c] /\ wait_mutex'[c] = wait_mutex[c],
         to # "free", InCall(to) <=> InCall(pc[p]),
         OffList(to) => OffList(pc[p]), OnList(to) => OnList(pc[p]),
         to \in {"load", "load_up", "load_failed", "exit_up", "exit_down"}
           => child_list[p] = <<>>,
         p = main => to \notin Exiting
  PROVE  LinkInv'
<1>1. pc \in [Page -> Loc] /\ HolderAt(p)
  BY Zenon DEF LinkInv, TypeOK, HolderOK
<1>2. pc'[p] = to /\ \A q \in Page \ {p} : pc'[q] = pc[q]
  BY <1>1, Zenon
<1>3. Kids(p)' = Kids(p) /\ \A c \in Page : Reach(p, c)' <=> Reach(p, c)
  BY Zenon DEF Kids, Reach, Holds
<1>4. HolderAt(p)'
  BY <1>1, <1>2, <1>3, Zenon DEF HolderAt
<1> QED BY <1>2, <1>3, <1>4, LinkStep, Zenon

\* Every step keeps the links.
LEMMA LinkNext ==
  ASSUME LinkInv, NEW p \in Page, KernelStep(p) \/ UserCall(p)
  PROVE  LinkInv'
<1>0. TypeOK /\ ReachOK /\ HolderOK /\ HolderAt(p)
  BY Zenon DEF LinkInv, HolderOK
<1>t. TypeOK'
  BY <1>0, TypeNext, Zenon
<1>f. /\ pc \in [Page -> Loc] /\ child_list \in [Page -> Seq(Page)]
      /\ child \in [Page -> Page \cup {NULL}]
      /\ child_list[p] \in Seq(Page)
      /\ exit_mutex \in [Page -> Nat]
  BY <1>0, Zenon DEF TypeOK
<1>m. main \in Page /\ NULL \notin Page
  BY ProcessAssumption
<1>k. \A c \in Kids(p) : c \in Page
  BY <1>0, KidsArePages, Zenon
<1>1. CASE \E c \in Page : Exec(p, c)
  <2>1. PICK c \in Page : Exec(p, c)
    BY <1>1, Zenon
  <2>2. pc[c] = "free" /\ c # main /\ c # p /\ pc[p] = "user"
    BY <2>1, FreePage, Zenon DEF Exec, MayExec
  <2>3. /\ child_list' = child_list
        /\ UNCHANGED <<exit_mutex, load_mutex, wait_mutex>>
        /\ child'[p] = c /\ \A q \in Page \ {p} : child'[q] = child[q]
    BY <2>1, <1>f, Zenon DEF Exec, semaVars
  <2>4. /\ pc'[p] = "exec_push" /\ pc'[c] = "load"
        /\ \A q \in Page \ {p, c} : pc'[q] = pc[q]
    BY <2>1, <2>2, <1>f DEF Exec
  <2>5. /\ HolderAt(c) /\ \A q : Kids(q)' = Kids(q)
        /\ \A q \in Page : ~Reach(q, c)
    BY <1>0, <2>2, <2>3, Zenon DEF HolderOK, ReachOK, Kids
  <2>6. \A q, d \in Page : Reach(q, d)' <=> Reach(q, d) \/ (q = p /\ d = c)
    <3>1. child[p] = NULL
      BY <1>0, <2>2 DEF HolderAt, InCall
    <3>2. \A d \in Page : Reach(p, d)' <=> Reach(p, d) \/ d = c
      BY <1>m, <2>3, <2>5, <3>1, Zenon DEF Reach, Holds
    <3>3. \A q \in Page \ {p}, d \in Page : Reach(q, d)' <=> Reach(q, d)
      BY <2>3, <2>5, Zenon DEF Reach, Holds
    <3> QED BY <3>2, <3>3, Zenon
  <2>7. HolderAt(p)' /\ HolderAt(c)'
    <3>1. HolderAt(p)'
      <4>1. c \notin Kids(p)
        BY <2>5, Zenon DEF Reach
      <4> QED BY <1>0, <1>m, <2>3, <2>4, <2>5, <4>1 DEF HolderAt, InCall, OnList, OffList
    <3>2. HolderAt(c)'
      <4>1. child'[c] = NULL /\ child_list[c] = <<>> /\ IsInjective(child_list[c])
        BY <2>2, <2>3, <2>5 DEF HolderAt, InCall
      <4> QED BY <2>3, <2>4, <4>1 DEF HolderAt, InCall, OnList, OffList
    <3> QED BY <3>1, <3>2
  <2>8. HolderOK'
    <3>1. ASSUME NEW q \in Page, q # p, q # c  PROVE HolderAt(q)'
      <4>1. pc'[q] = pc[q] /\ child'[q] = child[q]
        BY <2>3, <2>4, <3>1, Zenon
      <4>2. HolderAt(q)
        BY <1>0, Zenon DEF HolderOK
      <4> QED BY <2>3, <2>5, <4>1, <4>2, Zenon DEF HolderAt
    <3> QED BY <2>7, <3>1, Zenon DEF HolderOK
  <2>9. ReachOK'
    <3>1. \A d \in Page : pc[d] # "free" => pc'[d] # "free"
      BY <2>4
    <3>2. pc'[c] # "free" /\ exit_mutex'[c] = 0
      BY <2>2, <2>3, <2>4, <2>5 DEF HolderAt
    <3>3. ASSUME NEW q \in Page, NEW d \in Page, Reach(q, d)'
          PROVE  /\ d # q /\ d # main /\ pc'[d] # "free" /\ exit_mutex'[d] = 0
                 /\ \A r \in Page : Reach(r, d)' => r = q
      <4>1. CASE q = p /\ d = c
        BY <2>2, <2>5, <2>6, <3>2, <4>1, Zenon
      <4>2. CASE Reach(q, d)
        <5>1. /\ d # q /\ d # main /\ pc[d] # "free" /\ exit_mutex[d] = 0
              /\ \A r \in Page : Reach(r, d) => r = q
          BY <1>0, <4>2, Zenon DEF ReachOK
        <5>2. d # c
          BY <2>2, <5>1, Zenon
        <5> QED BY <2>3, <2>6, <3>1, <5>1, <5>2, Zenon
      <4> QED BY <2>6, <3>3, <4>1, <4>2, Zenon
    <3> QED BY <3>3, ZenonT(30) DEF ReachOK
  <2>10. pc'[main] \notin {"free"} \cup Exiting
    BY <1>m, <2>2, <2>4 DEF LinkInv, Exiting
  <2> QED BY <1>t, <2>8, <2>9, <2>10, Zenon DEF LinkInv
<1>2. CASE ExecPush(p)
  <2>1. pc'[p] = "exec_down" /\ pc[p] = "exec_push" /\ child' = child
    BY <1>2, <1>f, Zenon DEF ExecPush
  <2>2. \A q \in Page \ {p} :
          pc'[q] = pc[q] /\ child_list'[q] = child_list[q] /\ child'[q] = child[q]
    BY <1>2, <1>f, Zenon DEF ExecPush
  <2>3. child[p] \in Page /\ child[p] # NULL /\ child[p] \notin Kids(p)
    BY <1>0, <1>f, <2>1 DEF HolderAt, InCall, OffList
  <2>4. child_list'[p] = Append(child_list[p], child[p])
    BY <1>2, <1>f, Zenon DEF ExecPush
  <2>5. Kids(p)' = Kids(p) \cup {child[p]} /\ IsInjective(child_list'[p])
    <3>1. IsInjective(child_list[p]) /\ child[p] \notin Range(child_list[p])
      BY <1>0, <2>3, Zenon DEF Kids, HolderAt
    <3>2. /\ Append(child_list[p], child[p]) \in Seq(Page)
          /\ Range(Append(child_list[p], child[p])) = Range(child_list[p]) \cup {child[p]}
          /\ IsInjective(child_list[p]) /\ child[p] \notin Range(child_list[p])
               => IsInjective(Append(child_list[p], child[p]))
      BY <1>f, <2>3, AppendProps, Zenon
    <3> QED BY <2>4, <3>1, <3>2, Zenon DEF Kids
  <2>6. HolderAt(p)'
    BY <2>1, <2>3, <2>5 DEF HolderAt, InCall, OnList, OffList
  <2>7. \A c \in Page : Reach(p, c)' => Reach(p, c)
    BY <2>1, <2>3, <2>5, Zenon DEF Reach, Holds
  <2>8. exit_mutex' = exit_mutex /\ load_mutex' = load_mutex /\ wait_mutex' = wait_mutex
    BY <1>2, Zenon DEF ExecPush, semaVars
  <2>9. pc'[p] \notin {"free"} \cup Exiting
    BY <2>1 DEF Exiting
  <2> QED BY <1>t, <2>2, <2>6, <2>7, <2>8, <2>9, LinkStep, Zenon
<1>3. CASE ExecDown(p)
  <2>1. child[p] \in Page /\ child[p] # p /\ pc[child[p]] # "free"
    <3>1. Reach(p, child[p]) /\ child[p] \in Page
      BY <1>0, <1>3, <1>f DEF ExecDown, HolderAt, InCall, Reach, Holds
    <3> QED BY <1>0, <3>1, Zenon DEF ReachOK
  <2>2. \A c \in Page : pc[c] = "free" => load_mutex'[c] = load_mutex[c]
    BY <1>0, <1>3, <2>1, Zenon DEF ExecDown, Down, TypeOK
  <2>3. /\ pc[p] = "exec_down" /\ pc' = [pc EXCEPT ![p] = "exec_check"]
        /\ UNCHANGED <<child_list, child, wait_mutex, exit_mutex>>
    BY <1>3, Zenon DEF ExecDown, threadVars
  <2> QED BY <1>t, <2>2, <2>3, QuietLink, Zenon DEF InCall, OnList, OffList, Exiting
<1>4. CASE ExecCheck(p)
  <2>1. pc'[p] = "exec_return" /\ pc[p] = "exec_check" /\ child' = child
    BY <1>4, <1>f, Zenon DEF ExecCheck
  <2>2. \A q \in Page \ {p} :
          pc'[q] = pc[q] /\ child_list'[q] = child_list[q] /\ child'[q] = child[q]
    BY <1>4, <1>f, Zenon DEF ExecCheck
  <2>3. \/ child_list'[p] = list_remove(child_list[p], child[p])
        \/ child_list'[p] = child_list[p]
    BY <1>4, <1>f, Zenon DEF ExecCheck
  <2>4. IsInjective(child_list'[p]) /\ Kids(p)' \subseteq Kids(p)
    <3>1. OnList(pc[p]) /\ IsInjective(child_list[p])
      BY <1>0, <2>1 DEF OnList, HolderAt
    <3>2. /\ Range(list_remove(child_list[p], child[p])) = Kids(p) \ {child[p]}
          /\ IsInjective(list_remove(child_list[p], child[p]))
      BY <1>0, <3>1, KidsWithout, Zenon
    <3> QED BY <2>3, <3>1, <3>2, Zenon DEF Kids
  <2>5. child[p] # NULL
    BY <1>0, <2>1 DEF HolderAt, InCall
  <2>6. HolderAt(p)'
    BY <2>1, <2>4, <2>5 DEF HolderAt, InCall, OnList, OffList
  <2>7. \A c \in Page : Reach(p, c)' => Reach(p, c)
    BY <2>1, <2>4, Zenon DEF Reach, Holds
  <2>8. exit_mutex' = exit_mutex /\ load_mutex' = load_mutex /\ wait_mutex' = wait_mutex
    BY <1>4, Zenon DEF ExecCheck, semaVars
  <2>9. pc'[p] \notin {"free"} \cup Exiting
    BY <2>1 DEF Exiting
  <2> QED BY <1>t, <2>2, <2>6, <2>7, <2>8, <2>9, LinkStep, Zenon
<1>5. CASE ExecReturn(p)
  <2>1. /\ pc'[p] = "user" /\ child_list' = child_list /\ child'[p] = NULL
        /\ UNCHANGED <<exit_mutex, load_mutex, wait_mutex>>
    BY <1>5, <1>f, Zenon DEF ExecReturn, threadVars, semaVars
  <2>2. \A q \in Page \ {p} :
          pc'[q] = pc[q] /\ child_list'[q] = child_list[q] /\ child'[q] = child[q]
    BY <1>5, <1>f, Zenon DEF ExecReturn, threadVars
  <2>3. Kids(p)' = Kids(p)
    BY <2>1, Zenon DEF Kids
  <2>4. HolderAt(p)'
    BY <1>0, <2>1, <2>3 DEF HolderAt, InCall, OnList, OffList
  <2>5. \A c \in Page : Reach(p, c)' => Reach(p, c)
    BY <2>1, <2>3, Zenon DEF Reach, Holds
  <2>6. pc'[p] \notin {"free"} \cup Exiting
    BY <2>1 DEF Exiting
  <2> QED BY <1>t, <2>1, <2>2, <2>4, <2>5, <2>6, LinkStep, Zenon
<1>6. CASE Load(p)
  <2>1. /\ pc[p] = "load" /\ pc' = [pc EXCEPT ![p] = "load_up"]
        /\ UNCHANGED <<child_list, child, load_mutex, wait_mutex, exit_mutex>>
    BY <1>6, Zenon DEF Load, semaVars
  <2>2. child_list[p] = <<>>
    BY <1>0, <2>1 DEF HolderAt
  <2> QED BY <1>t, <2>1, <2>2, QuietLink, Zenon DEF InCall, OnList, OffList, Exiting
<1>7. CASE LoadUp(p)
  <2>1. /\ pc[p] = "load_up"
        /\ \E to \in {"load_failed", "user"} : pc' = [pc EXCEPT ![p] = to]
        /\ UNCHANGED <<child_list, child, wait_mutex, exit_mutex>>
    BY <1>7, Zenon DEF LoadUp, threadVars
  <2>2. \A c \in Page : pc[c] = "free" => load_mutex'[c] = load_mutex[c]
    BY <1>0, <1>7 DEF LoadUp, Up, TypeOK
  <2>3. child_list[p] = <<>>
    BY <1>0, <2>1 DEF HolderAt
  <2> QED BY <1>t, <2>1, <2>2, <2>3, QuietLink, Zenon DEF InCall, OnList, OffList, Exiting
<1>8. CASE \E s \in ExitStatus \cup {-1} : Exit(p, s)
  <2>1. /\ pc[p] \in {"user", "load_failed"} /\ p # main
        /\ pc' = [pc EXCEPT ![p] = "exit_children"]
        /\ UNCHANGED <<child_list, child, load_mutex, wait_mutex, exit_mutex>>
    BY <1>8, Zenon DEF Exit, semaVars
  <2> QED BY <1>t, <2>1, QuietLink, Zenon DEF InCall, OnList, OffList, Exiting
<1>9. CASE ExitChild(p)
  <2>0. PICK h \in Page : h = Head(child_list[p])
    BY <1>9, <1>f DEF ExitChild
  <2>1. /\ pc[p] = "exit_children" /\ pc' = pc /\ child' = child
        /\ child_list[p] # <<>>
        /\ child_list' = [child_list EXCEPT ![p] = Tail(child_list[p])]
        /\ exit_mutex' = [exit_mutex EXCEPT ![h] = exit_mutex[h] + 1]
        /\ UNCHANGED <<load_mutex, wait_mutex>>
    BY <1>9, <2>0, Zenon DEF ExitChild, Up
  <2>2. /\ child_list'[p] = Tail(child_list[p])
        /\ \A q \in Page \ {p} :
             pc'[q] = pc[q] /\ child_list'[q] = child_list[q] /\ child'[q] = child[q]
    BY <1>f, <2>1, Zenon
  <2>3. IsInjective(child_list[p]) /\ child[p] = NULL
    BY <1>0, <2>1 DEF HolderAt, InCall
  <2>4. /\ Head(child_list[p]) \in Page
        /\ Head(child_list[p]) \in Range(child_list[p])
        /\ Tail(child_list[p]) \in Seq(Page)
        /\ IsInjective(child_list[p]) =>
             /\ Range(Tail(child_list[p])) = Range(child_list[p]) \ {Head(child_list[p])}
             /\ IsInjective(Tail(child_list[p]))
    BY <1>f, <2>1, PopFrontProps, Zenon
  <2>5. /\ h \in Page /\ h \in Kids(p) /\ Kids(p)' = Kids(p) \ {h}
        /\ IsInjective(child_list'[p])
    BY <2>0, <2>2, <2>3, <2>4, Zenon DEF Kids
  <2>6. HolderAt(p)'
    BY <2>1, <2>3, <2>5 DEF HolderAt, InCall, OnList, OffList
  <2>7. /\ \A c \in Page : Reach(p, c)' => Reach(p, c)
        /\ Reach(p, h) /\ ~Reach(p, h)'
    BY <1>m, <2>1, <2>3, <2>5, Zenon DEF Reach, Holds
  <2>8. pc[h] # "free" /\ h # p
    BY <1>0, <2>5, <2>7, Zenon DEF ReachOK
  <2>9. \A c \in Page : c # h => exit_mutex'[c] = exit_mutex[c]
    BY <1>f, <2>1, Zenon
  <2>10. pc'[p] \notin {"free"} /\ p # main
    BY <2>1 DEF LinkInv, Exiting
  <2> QED BY <1>t, <2>1, <2>2, <2>6, <2>7, <2>8, <2>9, <2>10, LinkStep, Zenon
<1>10. CASE ExitClose(p)
  <2>1. /\ pc[p] = "exit_children" /\ pc' = [pc EXCEPT ![p] = "exit_up"]
        /\ child_list[p] = <<>>
        /\ UNCHANGED <<child_list, child, load_mutex, wait_mutex, exit_mutex>>
    BY <1>10, Zenon DEF ExitClose, semaVars
  <2>2. p # main
    BY <2>1 DEF LinkInv, Exiting
  <2> QED BY <1>t, <2>1, <2>2, QuietLink, Zenon DEF InCall, OnList, OffList, Exiting
<1>11. CASE ExitUp(p)
  <2>1. /\ pc[p] = "exit_up" /\ pc' = [pc EXCEPT ![p] = "exit_down"]
        /\ UNCHANGED <<child_list, child, load_mutex, exit_mutex>>
    BY <1>11, Zenon DEF ExitUp, threadVars
  <2>2. child_list[p] = <<>> /\ p # main
    BY <1>0, <2>1 DEF HolderAt, LinkInv, Exiting
  <2>3. \A c \in Page : pc[c] = "free" => wait_mutex'[c] = wait_mutex[c]
    BY <1>0, <1>11 DEF ExitUp, Up, TypeOK
  <2> QED BY <1>t, <2>1, <2>2, <2>3, QuietLink, Zenon DEF InCall, OnList, OffList, Exiting
<1>12. CASE ExitDown(p)
  <2>1. /\ pc[p] = "exit_down" /\ pc'[p] = "free" /\ exit_mutex[p] > 0
        /\ exit_mutex'[p] = 0 /\ load_mutex'[p] = 0 /\ wait_mutex'[p] = 0
        /\ UNCHANGED <<child_list, child>>
    BY <1>0, <1>12, Zenon DEF ExitDown, Destroyed, TypeOK
  <2>2. \A q \in Page \ {p} :
          /\ pc'[q] = pc[q] /\ child_list'[q] = child_list[q] /\ child'[q] = child[q]
          /\ exit_mutex'[q] = exit_mutex[q] /\ load_mutex'[q] = load_mutex[q]
          /\ wait_mutex'[q] = wait_mutex[q]
    BY <1>0, <1>12, Zenon DEF ExitDown, Destroyed, TypeOK
  <2>3. child_list[p] = <<>> /\ child[p] = NULL /\ p # main
    BY <1>0, <2>1 DEF HolderAt, InCall, LinkInv, Exiting
  <2>4. Kids(p)' = Kids(p)
    BY <2>1, Zenon DEF Kids
  <2>5. HolderAt(p)'
    BY <1>0, <2>1, <2>3, <2>4 DEF HolderAt, InCall, OnList, OffList
  <2>6. \A c \in Page : Reach(p, c)' => Reach(p, c)
    BY <2>1, <2>4, Zenon DEF Reach, Holds
  <2>7. pc[p] # "free"
    BY <2>1
  <2> QED BY <1>t, <2>1, <2>2, <2>3, <2>5, <2>6, <2>7, LinkStep, Zenon
<1>13. CASE WaitDown(p)
  <2>1. child[p] \in Page /\ child[p] # p /\ pc[child[p]] # "free"
    <3>1. Reach(p, child[p]) /\ child[p] \in Page
      BY <1>0, <1>13, <1>f DEF WaitDown, HolderAt, InCall, Reach, Holds
    <3> QED BY <1>0, <3>1, Zenon DEF ReachOK
  <2>2. \A c \in Page : pc[c] = "free" => wait_mutex'[c] = wait_mutex[c]
    BY <1>0, <1>13, <2>1, Zenon DEF WaitDown, Down, TypeOK
  <2>3. /\ pc[p] = "wait_down" /\ pc' = [pc EXCEPT ![p] = "wait_read"]
        /\ UNCHANGED <<child_list, child, load_mutex, exit_mutex>>
    BY <1>13, Zenon DEF WaitDown, threadVars
  <2> QED BY <1>t, <2>2, <2>3, QuietLink, Zenon DEF InCall, OnList, OffList, Exiting
<1>14. CASE WaitRead(p)
  <2>1. pc'[p] = "wait_up" /\ pc[p] = "wait_read" /\ child' = child
    BY <1>14, <1>f, Zenon DEF WaitRead
  <2>2. \A q \in Page \ {p} :
          pc'[q] = pc[q] /\ child_list'[q] = child_list[q] /\ child'[q] = child[q]
    BY <1>14, <1>f, Zenon DEF WaitRead
  <2>3. child_list'[p] = list_remove(child_list[p], child[p])
    BY <1>14, <1>f, Zenon DEF WaitRead
  <2>4. IsInjective(child_list'[p]) /\ Kids(p)' = Kids(p) \ {child[p]}
    <3>1. OnList(pc[p])
      BY <2>1 DEF OnList
    <3>2. /\ Range(list_remove(child_list[p], child[p])) = Kids(p) \ {child[p]}
          /\ IsInjective(list_remove(child_list[p], child[p]))
      BY <1>0, <3>1, KidsWithout, Zenon
    <3> QED BY <2>3, <3>2, Zenon DEF Kids
  <2>5. child[p] # NULL
    BY <1>0, <2>1 DEF HolderAt, InCall
  <2>6. HolderAt(p)'
    BY <2>1, <2>4, <2>5 DEF HolderAt, InCall, OnList, OffList
  <2>7. \A c \in Page : Reach(p, c)' => Reach(p, c)
    BY <2>1, <2>4, Zenon DEF Reach, Holds
  <2>8. exit_mutex' = exit_mutex /\ load_mutex' = load_mutex /\ wait_mutex' = wait_mutex
    BY <1>14, Zenon DEF WaitRead, semaVars
  <2>9. pc'[p] \notin {"free"} \cup Exiting
    BY <2>1 DEF Exiting
  <2> QED BY <1>t, <2>2, <2>6, <2>7, <2>8, <2>9, LinkStep, Zenon
<1>15. CASE WaitUp(p)
  <2>0. pc[p] = "wait_up"
    BY <1>15, Zenon DEF WaitUp
  <2>1. PICK c \in Page : c = child[p] /\ c \notin Kids(p)
    BY <1>0, <1>f, <2>0 DEF HolderAt, InCall, OffList
  <2>2. /\ pc'[p] = "user" /\ child_list' = child_list /\ child'[p] = NULL
        /\ exit_mutex' = [exit_mutex EXCEPT ![c] = exit_mutex[c] + 1]
        /\ UNCHANGED <<load_mutex, wait_mutex>>
    BY <1>15, <1>f, <2>1, Zenon DEF WaitUp, Up, threadVars, semaVars
  <2>3. \A q \in Page \ {p} :
          pc'[q] = pc[q] /\ child_list'[q] = child_list[q] /\ child'[q] = child[q]
    BY <1>15, <1>f, Zenon DEF WaitUp, threadVars
  <2>4. Kids(p)' = Kids(p)
    BY <2>2, Zenon DEF Kids
  <2>5. HolderAt(p)'
    BY <1>0, <2>2, <2>4 DEF HolderAt, InCall, OnList, OffList
  <2>6. /\ \A d \in Page : Reach(p, d)' => Reach(p, d)
        /\ Reach(p, c) /\ ~Reach(p, c)'
    BY <1>m, <2>1, <2>2, <2>4, Zenon DEF Reach, Holds
  <2>7. pc[c] # "free" /\ c # p
    BY <1>0, <2>6, Zenon DEF ReachOK
  <2>8. \A d \in Page : d # c => exit_mutex'[d] = exit_mutex[d]
    BY <1>f, <2>2, Zenon
  <2>9. pc'[p] \notin {"free"} \cup Exiting
    BY <2>2 DEF Exiting
  <2> QED BY <1>t, <2>2, <2>3, <2>5, <2>6, <2>7, <2>8, <2>9, LinkStep, Zenon
<1>16. CASE \E t \in Tid \cup {TID_ERROR} : Wait(p, t)
  <2>1. PICK c \in Kids(p) : child' = [child EXCEPT ![p] = c]
    BY <1>16, Zenon DEF Wait, Found, Kids
  <2>2. /\ pc'[p] = "wait_down" /\ child_list' = child_list /\ child'[p] = c
        /\ UNCHANGED <<exit_mutex, load_mutex, wait_mutex>>
    BY <1>16, <1>f, <2>1, Zenon DEF Wait, semaVars
  <2>3. \A q \in Page \ {p} :
          pc'[q] = pc[q] /\ child_list'[q] = child_list[q] /\ child'[q] = child[q]
    BY <1>16, <1>f, <2>1, Zenon DEF Wait
  <2>4. Kids(p)' = Kids(p) /\ c \in Page
    BY <1>k, <2>2, Zenon DEF Kids
  <2>5. HolderAt(p)'
    BY <1>0, <1>m, <2>2, <2>4 DEF HolderAt, InCall, OnList, OffList
  <2>6. \A d \in Page : Reach(p, d)' => Reach(p, d)
    BY <2>1, <2>2, <2>4, Zenon DEF Reach, Holds
  <2>7. pc'[p] \notin {"free"} \cup Exiting
    BY <2>2 DEF Exiting
  <2> QED BY <1>t, <2>2, <2>3, <2>5, <2>6, <2>7, LinkStep, Zenon
<1>17. CASE ExecFails(p) \/ \E t \in Tid \cup {TID_ERROR} : WaitFails(p, t)
  <2>1. UNCHANGED <<pc, child_list, child, exit_mutex, load_mutex, wait_mutex>>
    BY <1>17, Zenon DEF ExecFails, WaitFails, threadVars, semaVars
  <2>2. \A q : Kids(q)' = Kids(q) /\ \A c : Reach(q, c)' <=> Reach(q, c)
    BY <2>1, Zenon DEF Reach, Kids, Holds
  <2>3. ReachOK'
    BY <1>0, <2>1, <2>2, Zenon DEF ReachOK
  <2>4. HolderOK'
    BY <1>0, <2>1, <2>2, Zenon DEF HolderOK, HolderAt
  <2> QED BY <1>t, <2>1, <2>3, <2>4, Zenon DEF LinkInv
<1> QED BY <1>1, <1>2, <1>3, <1>4, <1>5, <1>6, <1>7, <1>8, <1>9, <1>10, <1>11,
           <1>12, <1>13, <1>14, <1>15, <1>16, <1>17, Zenon DEF KernelStep, UserCall
-----------------------------------------------------------------------------
\* What another thread does changes nothing that ThreadAt(c) is about, except
\* that a parent downs the semaphores of its child.
LEMMA ThreadKept ==
  ASSUME NEW c \in Page, ThreadAt(c),
         pc'[c] = pc[c], tid'[c] = tid[c], exit_status'[c] = exit_status[c],
         executable'[c] = executable[c],
         load_mutex'[c] > 0 => load_mutex[c] > 0,
         wait_mutex'[c] > 0 => wait_mutex[c] > 0,
         died \subseteq died', loaded \subseteq loaded'
  PROVE  ThreadAt(c)'
BY Zenon DEF ThreadAt

\* What p knows of its children stays true while p does nothing.
LEMMA ParentKept ==
  ASSUME NEW q \in Page, HolderAt(q), ParentAt(q),
         pc'[q] = pc[q], child'[q] = child[q], Kids(q)' = Kids(q),
         \A c : Reach(q, c) =>
           /\ pc[c] \notin Unloaded => pc'[c] \notin Unloaded
           /\ pc[c] = "exit_down" => pc'[c] = "exit_down"
           /\ \/ tid'[c] = tid[c] /\ (tid[c] \in waits' => tid[c] \in waits)
              \/ tid'[c] \notin waits' /\ pc[c] \in Unloaded
  PROVE  ParentAt(q)'
<1>1. InCall(pc[q]) => Reach(q, child[q])
  BY Zenon DEF HolderAt, Reach, Holds
<1>2. \A c \in Kids(q) : Reach(q, c)
  BY Zenon DEF Reach
<1>3. \A c : Fresh(q, c)' <=> Fresh(q, c)
  BY Zenon DEF Fresh
<1>4. pc[q] \in {"exec_check", "exec_return"} => pc'[child[q]] \notin Unloaded
  BY <1>1, Zenon DEF ParentAt, InCall
<1>5. pc[q] = "wait_read" => pc'[child[q]] = "exit_down"
  BY <1>1, Zenon DEF ParentAt, InCall
<1>6. pc[q] = "exec_push" => tid'[child[q]] \notin waits'
  BY <1>1, Zenon DEF ParentAt, InCall
<1>7. ASSUME NEW c \in Kids(q)
      PROVE  /\ tid'[c] \notin waits'
             /\ ~Fresh(q, c) => pc'[c] \notin Unloaded /\ tid'[c] # TID_ERROR
  BY <1>2, Zenon DEF ParentAt
<1> QED BY <1>3, <1>4, <1>5, <1>6, <1>7, Zenon DEF ParentAt

\* A step of p that keeps what is known of p, and of p as a parent, keeps the
\* invariant when nobody who can reach p sees it go back.
LEMMA ProcessStep ==
  ASSUME ProcessInv, LinkInv', TidsOK', NEW p \in Page,
         \A q \in Page \ {p} :
           /\ pc'[q] = pc[q] /\ tid'[q] = tid[q] /\ exit_status'[q] = exit_status[q]
           /\ executable'[q] = executable[q] /\ child'[q] = child[q]
           /\ child_list'[q] = child_list[q]
           /\ load_mutex'[q] > 0 => load_mutex[q] > 0
           /\ wait_mutex'[q] > 0 => wait_mutex[q] > 0,
         died \subseteq died', loaded \subseteq loaded',
         ThreadAt(p)', ParentAt(p)',
         \A q \in Page : Reach(q, p) =>
           /\ pc[p] \notin Unloaded => pc'[p] \notin Unloaded
           /\ pc[p] = "exit_down" => pc'[p] = "exit_down"
           /\ tid'[p] = tid[p] \/ (tid'[p] \notin waits' /\ pc[p] \in Unloaded),
         \A q, c \in Page : q # p /\ Reach(q, c) /\ tid[c] \in waits' => tid[c] \in waits
  PROVE  ProcessInv'
<1>1. ASSUME NEW q \in Page \ {p}  PROVE ThreadAt(q)' /\ ParentAt(q)'
  <2>1. ThreadAt(q) /\ ParentAt(q) /\ HolderAt(q) /\ TypeOK
    BY Zenon DEF ProcessInv, LinkInv, HolderOK
  <2>2. ThreadAt(q)'
    BY <2>1, ThreadKept, Zenon
  <2>3. Kids(q)' = Kids(q)
    BY Zenon DEF Kids
  <2>4. \A c : Reach(q, c) => c \in Page
    BY <2>1, KidsArePages, Zenon DEF Reach, Holds, TypeOK
  <2>5. ASSUME NEW c, Reach(q, c)
        PROVE  /\ pc[c] \notin Unloaded => pc'[c] \notin Unloaded
               /\ pc[c] = "exit_down" => pc'[c] = "exit_down"
               /\ \/ tid'[c] = tid[c] /\ (tid[c] \in waits' => tid[c] \in waits)
                  \/ tid'[c] \notin waits' /\ pc[c] \in Unloaded
    <3>1. c \in Page /\ (tid[c] \in waits' => tid[c] \in waits)
      BY <2>4, <2>5, Zenon
    <3>2. CASE c = p
      BY <2>5, <3>1, <3>2, Zenon
    <3>3. CASE c # p
      BY <3>1, <3>3, Zenon
    <3> QED BY <3>2, <3>3, Zenon
  <2>6. ParentAt(q)'
    BY <2>1, <2>3, <2>5, ParentKept, Zenon
  <2> QED BY <2>2, <2>6, Zenon
<1> QED BY <1>1, Zenon DEF ProcessInv

\* The tids stay apart in a step that gives none, frees no page and reads no
\* status.
LEMMA TidsKept ==
  ASSUME TidsOK, tid' = tid, next_tid' = next_tid, waits' = waits,
         \A c \in Page : pc'[c] # "free" => pc[c] # "free"
  PROVE  TidsOK'
BY Zenon DEF TidsOK

\* p knows what it knew of the children that it keeps, outside of exec and wait.
LEMMA PlainParent ==
  ASSUME NEW p \in Page, ParentAt(p),
         pc[p] \notin {"exec_push", "exec_down", "exec_check"},
         pc'[p] \notin {"exec_push", "exec_check", "exec_return", "wait_read"},
         Kids(p)' \subseteq Kids(p), waits' = waits,
         \A c \in Kids(p) : pc'[c] = pc[c] /\ tid'[c] = tid[c]
  PROVE  ParentAt(p)'
<1>1. \A c : ~Fresh(p, c)
  BY Zenon DEF Fresh
<1> QED BY <1>1, Zenon DEF ParentAt

\* Every step keeps the invariant.
LEMMA ProcessNext ==
  ASSUME ProcessInv, NEW p \in Page, KernelStep(p) \/ UserCall(p)
  PROVE  ProcessInv'
<1>0. /\ LinkInv /\ TypeOK /\ ReachOK /\ TidsOK
      /\ HolderAt(p) /\ ThreadAt(p) /\ ParentAt(p)
  BY Zenon DEF ProcessInv, LinkInv, HolderOK
<1>t. LinkInv'
  BY <1>0, LinkNext, Zenon
<1>f. /\ pc \in [Page -> Loc] /\ tid \in [Page -> Int]
      /\ child_list \in [Page -> Seq(Page)] /\ child_list[p] \in Seq(Page)
      /\ child \in [Page -> Page \cup {NULL}]
      /\ exit_status \in [Page -> Int] /\ executable \in [Page -> BOOLEAN]
      /\ load_mutex \in [Page -> Nat] /\ wait_mutex \in [Page -> Nat]
      /\ next_tid \in Nat
  BY <1>0, Zenon DEF TypeOK
<1>m. main \in Page /\ NULL \notin Page
  BY ProcessAssumption
<1>k. \A c \in Kids(p) : c \in Page /\ c # p /\ Reach(p, c)
  BY <1>0, KidsArePages, Zenon DEF ReachOK, Reach
<1>h. InCall(pc[p]) => child[p] \in Page /\ child[p] # p /\ Reach(p, child[p])
  <2>1. InCall(pc[p]) => child[p] \in Page /\ Reach(p, child[p])
    BY <1>0, <1>f, Zenon DEF HolderAt, Reach, Holds
  <2> QED BY <1>0, <2>1, Zenon DEF ReachOK
<1>1. CASE \E c \in Page : Exec(p, c)
  <2>1. PICK c \in Page : Exec(p, c)
    BY <1>1, Zenon
  <2>2. /\ pc[c] = "free" /\ c # main /\ c # p /\ pc[p] = "user"
        /\ HolderAt(c) /\ ThreadAt(c) /\ \A q \in Page : ~Reach(q, c)
    BY <1>0, <2>1, FreePage, Zenon DEF Exec, MayExec, ProcessInv, LinkInv, HolderOK, ReachOK
  <2>3. /\ UNCHANGED <<child_list, exit_status, executable, load_mutex, wait_mutex,
                       loaded, died, waits>>
        /\ child'[p] = c /\ \A q \in Page \ {p} : child'[q] = child[q]
        /\ tid'[c] = next_tid /\ \A q \in Page \ {c} : tid'[q] = tid[q]
    BY <2>1, <1>f, Zenon DEF Exec, semaVars, history
  <2>4. /\ pc'[p] = "exec_push" /\ pc'[c] = "load"
        /\ \A q \in Page \ {p, c} : pc'[q] = pc[q]
    BY <2>1, <2>2, <1>f DEF Exec
  <2>5. TidsOK'
    <3>1. next_tid' = next_tid + 1
      BY <2>1, Zenon DEF Exec
    <3>2. /\ \A n : n \in Int /\ n < next_tid => n < next_tid'
          /\ next_tid < next_tid' /\ 0 < next_tid'
      BY <1>f, <3>1
    <3>3. \A n : n < next_tid => n # next_tid
      BY <1>f
    <3>4. \A d \in Page : tid'[d] < next_tid'
      BY <1>0, <1>f, <2>3, <3>2, Zenon DEF TidsOK
    <3>5. \A t \in waits' : t \in Int /\ t < next_tid' /\ t # TID_ERROR
      BY <1>0, <2>3, <3>2, Zenon DEF TidsOK
    <3>6. \A d \in Page \ {c} : tid'[d] # tid'[c] /\ (pc'[d] # "free" => pc[d] # "free")
      <4>1. \A d \in Page : tid[d] # next_tid
        BY <1>0, <3>3, Zenon DEF TidsOK
      <4>2. pc[p] # "free"
        BY <2>2
      <4> QED BY <2>3, <2>4, <4>1, <4>2, Zenon
    <3>7. ASSUME NEW d \in Page, NEW e \in Page, pc'[d] # "free", pc'[e] # "free",
                 tid'[d] = tid'[e], tid'[d] # TID_ERROR
          PROVE  d = e
      <4>1. CASE d = c \/ e = c
        BY <3>6, <3>7, <4>1, Zenon
      <4>2. CASE d # c /\ e # c
        <5>1. pc[d] # "free" /\ pc[e] # "free"
          BY <3>6, <3>7, <4>2, Zenon
        <5>2. tid[d] = tid[e] /\ tid[d] # TID_ERROR
          BY <2>3, <3>7, <4>2, Zenon
        <5> QED BY <1>0, <5>1, <5>2, Zenon DEF TidsOK
      <4> QED BY <4>1, <4>2, Zenon
    <3> QED BY <3>2, <3>4, <3>5, <3>7, Zenon DEF TidsOK
  <2>6. \A q \in Page : ThreadAt(q)'
    <3>1. ThreadAt(c)'
      <4>1. ~(0 > 0)
        OBVIOUS
      <4>2. load_mutex'[c] = 0 /\ wait_mutex'[c] = 0
        BY <2>2, <2>3, Zenon DEF HolderAt
      <4> QED BY <2>4, <4>1, <4>2 DEF ThreadAt, Exiting
    <3>2. ThreadAt(p)'
      BY <1>0, <2>2, <2>3, <2>4 DEF ThreadAt, Unloaded, Exiting
    <3>3. ASSUME NEW q \in Page, q # p, q # c  PROVE ThreadAt(q)'
      <4>1. ThreadAt(q) /\ pc'[q] = pc[q] /\ tid'[q] = tid[q]
        BY <2>3, <2>4, <3>3, Zenon DEF ProcessInv
      <4>2. died \subseteq died' /\ loaded \subseteq loaded'
        BY <2>3, Zenon
      <4> QED BY <2>3, <4>1, <4>2, ThreadKept, Zenon
    <3> QED BY <3>1, <3>2, <3>3, Zenon
  <2>7. \A q \in Page : ParentAt(q)'
    <3>1. \A q : Kids(q)' = Kids(q)
      BY <2>3, Zenon DEF Kids
    <3>2. ParentAt(c)'
      <4>1. Kids(c) = {}
        <5>1. child_list[c] = <<>>
          BY <2>2 DEF HolderAt
        <5> QED BY <5>1 DEF Kids, Range
      <4> QED BY <2>4, <3>1, <4>1 DEF ParentAt
    <3>3. ParentAt(p)'
      <4>1. \A d \in Kids(p) : /\ pc'[d] = pc[d] /\ tid'[d] = tid[d] /\ tid[d] \notin waits
                               /\ pc[d] \notin Unloaded /\ tid[d] # TID_ERROR
        <5>1. \A d \in Kids(p) : d # c /\ d # p
          BY <1>k, <2>2, Zenon
        <5> QED BY <1>0, <1>k, <2>2, <2>3, <2>4, <5>1, Zenon DEF ParentAt, Fresh
      <4>2. next_tid \notin waits
        BY <1>0, <1>f DEF TidsOK
      <4> QED BY <2>3, <2>4, <3>1, <4>1, <4>2, Zenon DEF ParentAt
    <3>4. ASSUME NEW q \in Page, q # p, q # c  PROVE ParentAt(q)'
      <4>1. HolderAt(q) /\ ParentAt(q) /\ pc'[q] = pc[q] /\ child'[q] = child[q]
        BY <1>0, <2>3, <2>4, <3>4, Zenon DEF ProcessInv, LinkInv, HolderOK
      <4>2. \A d : Reach(q, d) => d \in Page /\ d # c
        BY <1>0, <2>2, KidsArePages, Zenon DEF Reach, Holds, TypeOK
      <4>3. pc'[p] \notin Unloaded /\ pc[p] # "exit_down"
        BY <2>2, <2>4 DEF Unloaded
      <4> QED BY <2>3, <2>4, <3>1, <4>1, <4>2, <4>3, ParentKept, Zenon
    <3> QED BY <3>2, <3>3, <3>4, Zenon
  <2> QED BY <1>t, <2>5, <2>6, <2>7, Zenon DEF ProcessInv
<1>2. CASE ExecPush(p)
  <2>1. /\ pc[p] = "exec_push" /\ pc'[p] = "exec_down"
        /\ UNCHANGED <<tid, exit_status, executable, child, load_mutex, wait_mutex,
                       next_tid, loaded, died, waits>>
        /\ child_list'[p] = Append(child_list[p], child[p])
    BY <1>2, <1>f, Zenon DEF ExecPush, semaVars, history
  <2>2. \A q \in Page \ {p} : pc'[q] = pc[q] /\ child_list'[q] = child_list[q]
    BY <1>2, <1>f, Zenon DEF ExecPush
  <2>3. child[p] \in Page /\ child[p] # p
    BY <1>h, <2>1 DEF InCall
  <2>4. Kids(p)' = Kids(p) \cup {child[p]}
    BY <1>f, <2>1, <2>3, AppendProps DEF Kids
  <2>5. TidsOK'
    BY <1>0, <2>1, <2>2, TidsKept, Zenon
  <2>6. ThreadAt(p)'
    BY <1>0, <2>1 DEF ThreadAt, Unloaded, Exiting
  <2>7. ParentAt(p)'
    <3>1. /\ tid[child[p]] \notin waits
          /\ \A c \in Kids(p) :
               /\ tid[c] \notin waits
               /\ ~Fresh(p, c) => pc[c] \notin Unloaded /\ tid[c] # TID_ERROR
      BY <1>0, <2>1, Zenon DEF ParentAt
    <3>2. \A c \in Kids(p) : pc'[c] = pc[c]
      BY <1>k, <2>2, Zenon
    <3>3. \A c : Fresh(p, c)' <=> c = child[p]
      BY <2>1, Zenon DEF Fresh
    <3>4. \A c : Fresh(p, c) => c = child[p]
      BY Zenon DEF Fresh
    <3> QED BY <2>1, <2>4, <3>1, <3>2, <3>3, <3>4, Zenon DEF ParentAt
  <2>8. pc'[p] \notin Unloaded /\ pc[p] # "exit_down"
    BY <2>1 DEF Unloaded
  <2> QED BY <1>t, <2>1, <2>2, <2>5, <2>6, <2>7, <2>8, ProcessStep, Zenon
<1>3. CASE ExecDown(p)
  <2>1. PICK c \in Page : c = child[p] /\ c # p
    BY <1>3, <1>h DEF ExecDown, InCall
  <2>2. /\ pc[p] = "exec_down" /\ pc'[p] = "exec_check"
        /\ UNCHANGED <<tid, child_list, exit_status, executable, child, wait_mutex,
                       next_tid, loaded, died, waits>>
        /\ load_mutex[c] > 0
        /\ load_mutex' = [load_mutex EXCEPT ![c] = load_mutex[c] - 1]
    BY <1>3, <1>f, <2>1, Zenon DEF ExecDown, Down, threadVars, history
  <2>3. \A q \in Page \ {p} :
          pc'[q] = pc[q] /\ (load_mutex'[q] > 0 => load_mutex[q] > 0)
    BY <1>3, <1>f, <2>2, Zenon DEF ExecDown
  <2>4. load_mutex'[p] = load_mutex[p]
    BY <1>f, <2>1, <2>2, Zenon
  <2>5. TidsOK'
    BY <1>0, <2>2, <2>3, TidsKept, Zenon
  <2>6. ThreadAt(p)'
    BY <1>0, <2>2, <2>4 DEF ThreadAt, Unloaded, Exiting
  <2>7. ParentAt(p)'
    <3>1. pc[c] \notin Unloaded
      BY <2>1, <2>2, Zenon DEF ProcessInv, ThreadAt
    <3>2. \A d \in Kids(p) : pc'[d] = pc[d]
      BY <1>k, <2>3, Zenon
    <3>3. \A d : Fresh(p, d)' <=> Fresh(p, d)
      BY <2>2, Zenon DEF Fresh
    <3>4. Kids(p)' = Kids(p)
      BY <2>2, Zenon DEF Kids
    <3> QED BY <1>0, <2>1, <2>2, <2>3, <3>1, <3>2, <3>3, <3>4, Zenon DEF ParentAt
  <2>8. pc'[p] \notin Unloaded /\ pc[p] # "exit_down"
    BY <2>2 DEF Unloaded
  <2> QED BY <1>t, <2>2, <2>3, <2>5, <2>6, <2>7, <2>8, ProcessStep, Zenon
<1>4. CASE ExecCheck(p)
  <2>1. /\ pc[p] = "exec_check" /\ pc'[p] = "exec_return"
        /\ UNCHANGED <<tid, exit_status, executable, child, load_mutex, wait_mutex,
                       next_tid, loaded, died, waits>>
        /\ child_list'[p] = IF tid[child[p]] = TID_ERROR
                            THEN list_remove(child_list[p], child[p]) ELSE child_list[p]
    BY <1>4, <1>f, Zenon DEF ExecCheck, semaVars, history
  <2>2. \A q \in Page \ {p} : pc'[q] = pc[q] /\ child_list'[q] = child_list[q]
    BY <1>4, <1>f, Zenon DEF ExecCheck
  <2>3. \A c \in Kids(p)' : c \in Kids(p) /\ (c = child[p] => tid[c] # TID_ERROR)
    <3>1. OnList(pc[p])
      BY <2>1 DEF OnList
    <3>2. Range(list_remove(child_list[p], child[p])) = Kids(p) \ {child[p]}
      BY <1>0, <3>1, KidsWithout, Zenon
    <3> QED BY <2>1, <3>2, Zenon DEF Kids
  <2>5. TidsOK'
    BY <1>0, <2>1, <2>2, TidsKept, Zenon
  <2>6. ThreadAt(p)'
    BY <1>0, <2>1 DEF ThreadAt, Unloaded, Exiting
  <2>7. ParentAt(p)'
    <3>1. pc[child[p]] \notin Unloaded /\ pc'[child[p]] = pc[child[p]]
      BY <1>0, <1>h, <2>1, <2>2 DEF ParentAt, InCall
    <3>2. \A c \in Kids(p) : /\ pc'[c] = pc[c] /\ tid[c] \notin waits
                             /\ c # child[p] => pc[c] \notin Unloaded /\ tid[c] # TID_ERROR
      BY <1>0, <1>k, <2>2, Zenon DEF ParentAt, Fresh
    <3> QED BY <2>1, <2>3, <3>1, <3>2, Zenon DEF ParentAt
  <2>8. pc'[p] \notin Unloaded /\ pc[p] # "exit_down"
    BY <2>1 DEF Unloaded
  <2> QED BY <1>t, <2>1, <2>2, <2>5, <2>6, <2>7, <2>8, ProcessStep, Zenon
<1>5. CASE ExecReturn(p)
  <2>1. /\ pc[p] = "exec_return" /\ pc'[p] = "user" /\ child'[p] = NULL
        /\ UNCHANGED <<tid, exit_status, executable, child_list, load_mutex, wait_mutex,
                       next_tid, loaded, died, waits>>
    BY <1>5, <1>f, Zenon DEF ExecReturn, threadVars, semaVars, history
  <2>2. \A q \in Page \ {p} : pc'[q] = pc[q] /\ child'[q] = child[q]
    BY <1>5, <1>f, Zenon DEF ExecReturn
  <2>5. TidsOK'
    BY <1>0, <2>1, <2>2, TidsKept, Zenon
  <2>6. ThreadAt(p)'
    BY <1>0, <2>1 DEF ThreadAt, Unloaded, Exiting
  <2>7. ParentAt(p)'
    <3>1. Kids(p)' = Kids(p) /\ \A c : ~Fresh(p, c)
      BY <2>1 DEF Kids, Fresh
    <3>2. \A c \in Kids(p) : /\ pc'[c] = pc[c] /\ tid[c] \notin waits
                             /\ pc[c] \notin Unloaded /\ tid[c] # TID_ERROR
      BY <1>0, <1>k, <2>2, <3>1, Zenon DEF ParentAt
    <3> QED BY <2>1, <3>1, <3>2, Zenon DEF ParentAt
  <2>8. pc'[p] \notin Unloaded /\ pc[p] # "exit_down"
    BY <2>1 DEF Unloaded
  <2> QED BY <1>t, <2>1, <2>2, <2>5, <2>6, <2>7, <2>8, ProcessStep, Zenon
<1>6. CASE Load(p)
  <2>1. /\ pc[p] = "load" /\ pc'[p] = "load_up"
        /\ UNCHANGED <<exit_status, child, child_list, load_mutex, wait_mutex,
                       next_tid, died, waits>>
    BY <1>6, <1>f, Zenon DEF Load, semaVars
  <2>2. \A q \in Page \ {p} :
          pc'[q] = pc[q] /\ tid'[q] = tid[q] /\ executable'[q] = executable[q]
    BY <1>6, <1>f, Zenon DEF Load
  <2>3. /\ \/ tid' = tid /\ loaded' = loaded \cup {tid[p]}
           \/ tid'[p] = TID_ERROR /\ loaded' = loaded
        /\ loaded \subseteq loaded'
    BY <1>6, <1>f, Zenon DEF Load
  <2>4. TidsOK'
    <3>1. \A c \in Page : tid'[c] = tid[c] \/ (c = p /\ tid'[c] = TID_ERROR)
      BY <2>2, <2>3, Zenon
    <3>2. \A c \in Page : tid'[c] < next_tid
      <4>1. TID_ERROR < next_tid
        BY <1>f
      <4> QED BY <1>0, <3>1, <4>1, Zenon DEF TidsOK
    <3>3. \A c \in Page : pc'[c] # "free" => pc[c] # "free"
      BY <2>1, <2>2
    <3>4. \A c, d \in Page :
            pc'[c] # "free" /\ pc'[d] # "free" /\ tid'[c] = tid'[d] /\ tid'[c] # TID_ERROR
              => c = d
      BY <1>0, <3>1, <3>3, Zenon DEF TidsOK
    <3> QED BY <1>0, <2>1, <3>2, <3>4, Zenon DEF TidsOK
  <2>5. ThreadAt(p)'
    <3>1. tid'[p] \in loaded' \cup {TID_ERROR}
      BY <2>3, Zenon
    <3> QED BY <1>0, <2>1, <3>1 DEF ThreadAt, Unloaded, Exiting
  <2>6. ParentAt(p)'
    <3>1. Kids(p)' = Kids(p)
      BY <2>1, Zenon DEF Kids
    <3> QED BY <1>0, <1>k, <2>1, <2>2, <3>1, PlainParent, Zenon
  <2>7. pc[p] \in Unloaded /\ TID_ERROR \notin waits
    BY <1>0, <2>1 DEF Unloaded, TidsOK
  <2>8. pc[p] # "exit_down"
    BY <2>1
  <2> QED BY <1>t, <2>1, <2>2, <2>3, <2>4, <2>5, <2>6, <2>7, <2>8, ProcessStep, Zenon
<1>7. CASE LoadUp(p)
  <2>1. /\ pc[p] = "load_up" /\ pc'[p] \in {"load_failed", "user"}
        /\ UNCHANGED <<tid, exit_status, executable, child, child_list, wait_mutex,
                       next_tid, loaded, died, waits>>
    BY <1>7, <1>f, Zenon DEF LoadUp, threadVars, history
  <2>2. \A q \in Page \ {p} : pc'[q] = pc[q] /\ load_mutex'[q] = load_mutex[q]
    BY <1>7, <1>f, Zenon DEF LoadUp, Up
  <2>3. TidsOK'
    <3>1. \A c \in Page : pc'[c] # "free" => pc[c] # "free"
      BY <2>1, <2>2
    <3> QED BY <1>0, <2>1, <3>1, TidsKept, Zenon
  <2>4. ThreadAt(p)'
    BY <1>0, <2>1 DEF ThreadAt, Unloaded, Exiting
  <2>5. ParentAt(p)'
    <3>1. Kids(p)' = Kids(p)
      BY <2>1, Zenon DEF Kids
    <3>2. /\ pc[p] \notin {"exec_push", "exec_down", "exec_check"}
          /\ pc'[p] \notin {"exec_push", "exec_check", "exec_return", "wait_read"}
      BY <2>1
    <3> QED BY <1>0, <1>k, <2>1, <2>2, <3>1, <3>2, PlainParent, Zenon
  <2>6. pc'[p] \notin Unloaded /\ pc[p] # "exit_down"
    BY <2>1 DEF Unloaded
  <2> QED BY <1>t, <2>1, <2>2, <2>3, <2>4, <2>5, <2>6, ProcessStep, Zenon
<1>8. CASE \E s \in ExitStatus \cup {-1} : Exit(p, s)
  <2>0. PICK s \in ExitStatus \cup {-1} : Exit(p, s)
    BY <1>8, Zenon
  <2>1. /\ pc[p] \in {"user", "load_failed"} /\ pc'[p] = "exit_children"
        /\ exit_status'[p] = s
        /\ died' = IF tid[p] = TID_ERROR THEN died ELSE died \cup {<<tid[p], s>>}
        /\ UNCHANGED <<tid, executable, child, child_list, load_mutex, wait_mutex,
                       next_tid, loaded, waits>>
    BY <2>0, <1>f, Zenon DEF Exit, semaVars
  <2>2. \A q \in Page \ {p} : pc'[q] = pc[q] /\ exit_status'[q] = exit_status[q]
    BY <2>0, <1>f, Zenon DEF Exit
  <2>3. TidsOK'
    <3>1. \A c \in Page : pc'[c] # "free" => pc[c] # "free"
      BY <2>1, <2>2
    <3> QED BY <1>0, <2>1, <3>1, TidsKept, Zenon
  <2>4. ThreadAt(p)'
    <3>1. tid[p] # TID_ERROR => <<tid[p], s>> \in died'
      BY <2>1, Zenon
    <3> QED BY <1>0, <2>1, <3>1 DEF ThreadAt, Unloaded, Exiting
  <2>5. ParentAt(p)'
    <3>1. Kids(p)' = Kids(p)
      BY <2>1, Zenon DEF Kids
    <3>2. /\ pc[p] \notin {"exec_push", "exec_down", "exec_check"}
          /\ pc'[p] \notin {"exec_push", "exec_check", "exec_return", "wait_read"}
      BY <2>1
    <3> QED BY <1>0, <1>k, <2>1, <2>2, <3>1, <3>2, PlainParent, Zenon
  <2>6. pc'[p] \notin Unloaded /\ pc[p] # "exit_down" /\ died \subseteq died'
    BY <2>1 DEF Unloaded
  <2> QED BY <1>t, <2>1, <2>2, <2>3, <2>4, <2>5, <2>6, ProcessStep, Zenon
<1>9. CASE ExitChild(p)
  <2>1. /\ pc[p] = "exit_children" /\ child_list'[p] = Tail(child_list[p])
        /\ child_list[p] # <<>>
        /\ UNCHANGED <<pc, tid, exit_status, executable, child, load_mutex, wait_mutex,
                       next_tid, loaded, died, waits>>
    BY <1>9, <1>f, Zenon DEF ExitChild, history
  <2>2. \A q \in Page \ {p} : child_list'[q] = child_list[q]
    BY <1>9, <1>f, Zenon DEF ExitChild
  <2>3. TidsOK'
    BY <1>0, <2>1, TidsKept, Zenon
  <2>4. ThreadAt(p)'
    BY <1>0, <2>1, Zenon DEF ThreadAt
  <2>5. ParentAt(p)'
    <3>1. IsInjective(child_list[p])
      BY <1>0, Zenon DEF HolderAt
    <3>2. /\ Head(child_list[p]) \in Page
          /\ Head(child_list[p]) \in Range(child_list[p])
          /\ Tail(child_list[p]) \in Seq(Page)
          /\ IsInjective(child_list[p]) =>
               /\ Range(Tail(child_list[p])) = Range(child_list[p]) \ {Head(child_list[p])}
               /\ IsInjective(Tail(child_list[p]))
      BY <1>f, <2>1, PopFrontProps, Zenon
    <3>3. Kids(p)' \subseteq Kids(p)
      BY <2>1, <3>1, <3>2, Zenon DEF Kids
    <3> QED BY <1>0, <2>1, <3>3, PlainParent, Zenon
  <2> QED BY <1>t, <2>1, <2>2, <2>3, <2>4, <2>5, ProcessStep, Zenon
<1>10. CASE ExitClose(p)
  <2>1. /\ pc[p] = "exit_children" /\ pc'[p] = "exit_up" /\ executable'[p] = FALSE
        /\ UNCHANGED <<tid, exit_status, child, child_list, load_mutex, wait_mutex,
                       next_tid, loaded, died, waits>>
    BY <1>10, <1>f, Zenon DEF ExitClose, semaVars, history
  <2>2. \A q \in Page \ {p} : pc'[q] = pc[q] /\ executable'[q] = executable[q]
    BY <1>10, <1>f, Zenon DEF ExitClose
  <2>3. TidsOK'
    <3>1. \A c \in Page : pc'[c] # "free" => pc[c] # "free"
      BY <2>1, <2>2
    <3> QED BY <1>0, <2>1, <3>1, TidsKept, Zenon
  <2>4. ThreadAt(p)'
    BY <1>0, <2>1 DEF ThreadAt, Unloaded, Exiting
  <2>5. ParentAt(p)'
    <3>1. Kids(p)' = Kids(p)
      BY <2>1, Zenon DEF Kids
    <3> QED BY <1>0, <1>k, <2>1, <2>2, <3>1, PlainParent, Zenon
  <2>6. pc'[p] \notin Unloaded /\ pc[p] # "exit_down"
    BY <2>1 DEF Unloaded
  <2> QED BY <1>t, <2>1, <2>2, <2>3, <2>4, <2>5, <2>6, ProcessStep, Zenon
<1>11. CASE ExitUp(p)
  <2>1. /\ pc[p] = "exit_up" /\ pc'[p] = "exit_down"
        /\ UNCHANGED <<tid, exit_status, executable, child, child_list, load_mutex,
                       next_tid, loaded, died, waits>>
    BY <1>11, <1>f, Zenon DEF ExitUp, threadVars, history
  <2>2. \A q \in Page \ {p} : pc'[q] = pc[q] /\ wait_mutex'[q] = wait_mutex[q]
    BY <1>11, <1>f, Zenon DEF ExitUp, Up
  <2>3. TidsOK'
    <3>1. \A c \in Page : pc'[c] # "free" => pc[c] # "free"
      BY <2>1, <2>2
    <3> QED BY <1>0, <2>1, <3>1, TidsKept, Zenon
  <2>4. ThreadAt(p)'
    BY <1>0, <2>1 DEF ThreadAt, Unloaded, Exiting
  <2>5. ParentAt(p)'
    <3>1. Kids(p)' = Kids(p)
      BY <2>1, Zenon DEF Kids
    <3> QED BY <1>0, <1>k, <2>1, <2>2, <3>1, PlainParent, Zenon
  <2>6. pc'[p] \notin Unloaded /\ pc[p] # "exit_down"
    BY <2>1 DEF Unloaded
  <2> QED BY <1>t, <2>1, <2>2, <2>3, <2>4, <2>5, <2>6, ProcessStep, Zenon
<1>12. CASE ExitDown(p)
  <2>1. /\ pc[p] = "exit_down" /\ pc'[p] = "free" /\ tid'[p] = 0 /\ exit_mutex[p] > 0
        /\ load_mutex'[p] = 0 /\ wait_mutex'[p] = 0
        /\ UNCHANGED <<executable, child, child_list, next_tid, loaded, died, waits>>
    BY <1>12, <1>f, Zenon DEF ExitDown, Destroyed, history
  <2>2. \A q \in Page \ {p} :
          /\ pc'[q] = pc[q] /\ tid'[q] = tid[q] /\ exit_status'[q] = exit_status[q]
          /\ load_mutex'[q] = load_mutex[q] /\ wait_mutex'[q] = wait_mutex[q]
    BY <1>12, <1>f, Zenon DEF ExitDown, Destroyed
  <2>3. TidsOK'
    <3>1. 0 < next_tid
      BY <1>0, Zenon DEF TidsOK
    <3>2. \A c \in Page : tid'[c] < next_tid
      BY <1>0, <2>1, <2>2, <3>1, Zenon DEF TidsOK
    <3>3. \A c \in Page : pc'[c] # "free" => pc[c] # "free" /\ tid'[c] = tid[c]
      BY <2>1, <2>2, Zenon
    <3> QED BY <1>0, <2>1, <3>2, <3>3, Zenon DEF TidsOK
  <2>4. ThreadAt(p)'
    BY <2>1 DEF ThreadAt, Unloaded, Exiting
  <2>5. ParentAt(p)'
    <3>1. Kids(p)' = Kids(p)
      BY <2>1, Zenon DEF Kids
    <3> QED BY <1>0, <1>k, <2>1, <2>2, <3>1, PlainParent, Zenon
  <2>6. \A q \in Page : ~Reach(q, p)
    <3>1. ~(0 > 0)
      OBVIOUS
    <3> QED BY <1>0, <2>1, <3>1, Zenon DEF ReachOK
  <2>7. died \subseteq died' /\ loaded \subseteq loaded'
    BY <2>1, Zenon
  <2> QED BY <1>t, <2>1, <2>2, <2>3, <2>4, <2>5, <2>6, <2>7, ProcessStep, Zenon
<1>13. CASE WaitDown(p)
  <2>1. PICK c \in Page : c = child[p] /\ c # p
    BY <1>13, <1>h DEF WaitDown, InCall
  <2>2. /\ pc[p] = "wait_down" /\ pc'[p] = "wait_read"
        /\ UNCHANGED <<tid, child_list, exit_status, executable, child, load_mutex,
                       next_tid, loaded, died, waits>>
        /\ wait_mutex[c] > 0
        /\ wait_mutex' = [wait_mutex EXCEPT ![c] = wait_mutex[c] - 1]
    BY <1>13, <1>f, <2>1, Zenon DEF WaitDown, Down, threadVars, history
  <2>3. \A q \in Page \ {p} :
          pc'[q] = pc[q] /\ (wait_mutex'[q] > 0 => wait_mutex[q] > 0)
    BY <1>13, <1>f, <2>2, Zenon DEF WaitDown
  <2>4. wait_mutex'[p] = wait_mutex[p]
    BY <1>f, <2>1, <2>2, Zenon
  <2>5. TidsOK'
    BY <1>0, <2>2, <2>3, TidsKept, Zenon
  <2>6. ThreadAt(p)'
    BY <1>0, <2>2, <2>4 DEF ThreadAt, Unloaded, Exiting
  <2>7. ParentAt(p)'
    <3>1. pc[c] = "exit_down"
      BY <2>1, <2>2, Zenon DEF ProcessInv, ThreadAt
    <3>2. \A d \in Kids(p) : /\ pc'[d] = pc[d] /\ tid[d] \notin waits
                             /\ pc[d] \notin Unloaded /\ tid[d] # TID_ERROR
      BY <1>0, <1>k, <2>2, <2>3, Zenon DEF ParentAt, Fresh
    <3>3. Kids(p)' = Kids(p)
      BY <2>2, Zenon DEF Kids
    <3> QED BY <2>1, <2>2, <2>3, <3>1, <3>2, <3>3, Zenon DEF ParentAt
  <2>8. pc'[p] \notin Unloaded /\ pc[p] # "exit_down"
    BY <2>2 DEF Unloaded
  <2> QED BY <1>t, <2>2, <2>3, <2>5, <2>6, <2>7, <2>8, ProcessStep, Zenon
<1>14. CASE WaitRead(p)
  <2>1. PICK c \in Page : c = child[p] /\ c # p /\ Reach(p, c)
    BY <1>14, <1>h DEF WaitRead, InCall
  <2>2. /\ pc[p] = "wait_read" /\ pc'[p] = "wait_up"
        /\ waits' = waits \cup {tid[c]}
        /\ child_list'[p] = list_remove(child_list[p], c)
        /\ UNCHANGED <<tid, exit_status, executable, child, load_mutex, wait_mutex,
                       next_tid, loaded, died>>
    BY <1>14, <1>f, <2>1, Zenon DEF WaitRead, semaVars
  <2>3. \A q \in Page \ {p} : pc'[q] = pc[q] /\ child_list'[q] = child_list[q]
    BY <1>14, <1>f, Zenon DEF WaitRead
  <2>4. c \in Kids(p) /\ Kids(p)' = Kids(p) \ {c}
    <3>1. OnList(pc[p])
      BY <2>2 DEF OnList
    <3>2. c \in Kids(p) /\ Range(list_remove(child_list[p], c)) = Kids(p) \ {c}
      BY <1>0, <2>1, <3>1, KidsWithout, Zenon
    <3> QED BY <2>2, <3>2, Zenon DEF Kids
  <2>5. tid[c] # TID_ERROR /\ tid[c] \in Int /\ tid[c] < next_tid /\ pc[c] # "free"
    <3>1. ~Fresh(p, c)
      BY <2>2, Zenon DEF Fresh
    <3> QED BY <1>0, <1>f, <2>1, <2>4, <3>1, Zenon DEF ParentAt, ReachOK, TidsOK
  <2>6. \A q, d \in Page : Reach(q, d) /\ d # c => tid[d] # tid[c]
    BY <1>0, <2>5, Zenon DEF ReachOK, TidsOK
  <2>7. TidsOK'
    <3>1. \A d \in Page : pc'[d] # "free" => pc[d] # "free"
      BY <2>2, <2>3
    <3>2. \A t \in waits' : t \in Int /\ t < next_tid /\ t # TID_ERROR
      BY <1>0, <2>2, <2>5, Zenon DEF TidsOK
    <3> QED BY <1>0, <2>2, <3>1, <3>2, Zenon DEF TidsOK
  <2>8. ThreadAt(p)'
    BY <1>0, <2>2 DEF ThreadAt, Unloaded, Exiting
  <2>9. ParentAt(p)'
    <3>1. \A d \in Kids(p) : /\ pc'[d] = pc[d] /\ tid[d] \notin waits
                             /\ pc[d] \notin Unloaded /\ tid[d] # TID_ERROR
      BY <1>0, <1>k, <2>2, <2>3, Zenon DEF ParentAt, Fresh
    <3>2. \A d \in Kids(p) : d # c => tid[d] # tid[c]
      BY <1>k, <2>6, Zenon
    <3> QED BY <2>2, <2>4, <3>1, <3>2, Zenon DEF ParentAt
  <2>10. pc'[p] \notin Unloaded /\ pc[p] # "exit_down"
    BY <2>2 DEF Unloaded
  <2>11. \A q, d \in Page : q # p /\ Reach(q, d) /\ tid[d] \in waits' => tid[d] \in waits
    <3>1. \A q \in Page : Reach(q, c) => q = p
      BY <1>0, <2>1, Zenon DEF ReachOK
    <3> QED BY <2>2, <2>6, <3>1, Zenon
  <2> QED BY <1>t, <2>2, <2>3, <2>7, <2>8, <2>9, <2>10, <2>11, ProcessStep, Zenon
<1>15. CASE WaitUp(p)
  <2>1. /\ pc[p] = "wait_up" /\ pc'[p] = "user"
        /\ UNCHANGED <<tid, exit_status, executable, child_list, load_mutex, wait_mutex,
                       next_tid, loaded, died, waits>>
    BY <1>15, <1>f, Zenon DEF WaitUp, threadVars, history
  <2>2. \A q \in Page \ {p} : pc'[q] = pc[q] /\ child'[q] = child[q]
    BY <1>15, <1>f, Zenon DEF WaitUp
  <2>3. TidsOK'
    <3>1. \A c \in Page : pc'[c] # "free" => pc[c] # "free"
      BY <2>1, <2>2
    <3> QED BY <1>0, <2>1, <3>1, TidsKept, Zenon
  <2>4. ThreadAt(p)'
    BY <1>0, <2>1 DEF ThreadAt, Unloaded, Exiting
  <2>5. ParentAt(p)'
    <3>1. Kids(p)' = Kids(p)
      BY <2>1, Zenon DEF Kids
    <3> QED BY <1>0, <1>k, <2>1, <2>2, <3>1, PlainParent, Zenon
  <2>6. pc'[p] \notin Unloaded /\ pc[p] # "exit_down"
    BY <2>1 DEF Unloaded
  <2> QED BY <1>t, <2>1, <2>2, <2>3, <2>4, <2>5, <2>6, ProcessStep, Zenon
<1>16. CASE \E t \in Tid \cup {TID_ERROR} : Wait(p, t)
  <2>1. /\ pc[p] = "user" /\ pc'[p] = "wait_down"
        /\ UNCHANGED <<tid, exit_status, executable, child_list, load_mutex, wait_mutex,
                       next_tid, loaded, died, waits>>
    BY <1>16, <1>f, Zenon DEF Wait, semaVars, history
  <2>2. \A q \in Page \ {p} : pc'[q] = pc[q] /\ child'[q] = child[q]
    <3>1. \E c : child' = [child EXCEPT ![p] = c]
      BY <1>16, Zenon DEF Wait
    <3> QED BY <1>16, <1>f, <3>1, Zenon DEF Wait
  <2>3. TidsOK'
    <3>1. \A c \in Page : pc'[c] # "free" => pc[c] # "free"
      BY <2>1, <2>2
    <3> QED BY <1>0, <2>1, <3>1, TidsKept, Zenon
  <2>4. ThreadAt(p)'
    BY <1>0, <2>1 DEF ThreadAt, Unloaded, Exiting
  <2>5. ParentAt(p)'
    <3>1. Kids(p)' = Kids(p)
      BY <2>1, Zenon DEF Kids
    <3> QED BY <1>0, <1>k, <2>1, <2>2, <3>1, PlainParent, Zenon
  <2>6. pc'[p] \notin Unloaded /\ pc[p] # "exit_down"
    BY <2>1 DEF Unloaded
  <2> QED BY <1>t, <2>1, <2>2, <2>3, <2>4, <2>5, <2>6, ProcessStep, Zenon
<1>17. CASE ExecFails(p) \/ \E t \in Tid \cup {TID_ERROR} : WaitFails(p, t)
  <2>1. UNCHANGED <<pc, tid, exit_status, executable, child, child_list, load_mutex,
                    wait_mutex, next_tid, loaded, died, waits>>
    BY <1>17, Zenon DEF ExecFails, WaitFails, threadVars, semaVars, history
  <2>2. TidsOK'
    BY <1>0, <2>1, TidsKept, Zenon
  <2>3. ThreadAt(p)'
    BY <1>0, <2>1, Zenon DEF ThreadAt
  <2>4. ParentAt(p)'
    <3>1. Kids(p)' = Kids(p) /\ \A c : Fresh(p, c)' <=> Fresh(p, c)
      BY <2>1, Zenon DEF Kids, Fresh
    <3> QED BY <1>0, <2>1, <3>1, Zenon DEF ParentAt
  <2> QED BY <1>t, <2>1, <2>2, <2>3, <2>4, ProcessStep, Zenon
<1> QED BY <1>1, <1>2, <1>3, <1>4, <1>5, <1>6, <1>7, <1>8, <1>9, <1>10, <1>11,
           <1>12, <1>13, <1>14, <1>15, <1>16, <1>17, Zenon DEF KernelStep, UserCall

LEMMA ProcessInit == Init => ProcessInv
<1> SUFFICES ASSUME Init PROVE ProcessInv
  OBVIOUS
<1>0. main \in Page /\ NULL \notin Page
  BY ProcessAssumption
<1>1. \A p \in Page : /\ pc[p] = IF p = main THEN "user" ELSE "free"
                      /\ tid[p] = IF p = main THEN 1 ELSE 0
                      /\ child_list[p] = <<>> /\ child[p] = NULL
                      /\ load_mutex[p] = 0 /\ wait_mutex[p] = 0 /\ exit_mutex[p] = 0
  BY Zenon DEF Init
<1>2. \A p \in Page : Kids(p) = {} /\ ~InCall(pc[p]) /\ \A c : ~Holds(p, c)
  <2>1. \A p \in Page : Kids(p) = {}
    BY <1>1 DEF Kids, Range
  <2> QED BY <1>1, <2>1 DEF InCall, Holds
<1>3. TypeOK
  <2>1. /\ "user" \in Loc /\ "free" \in Loc /\ 1 \in Int /\ 0 \in Int /\ 0 \in Nat
        /\ 2 \in Nat /\ <<>> \in Seq(Page)
    BY DEF Loc
  <2>2. pc \in [Page -> Loc] /\ tid \in [Page -> Int]
    BY <2>1, Zenon DEF Init
  <2> QED BY <2>1, <2>2, Zenon DEF Init, TypeOK
<1>4. ReachOK
  BY <1>2, Zenon DEF ReachOK, Reach
<1>5. HolderOK
  <2>1. IsInjective(<<>>)
    BY DEF IsInjective
  <2> QED BY <1>1, <1>2, <2>1 DEF HolderOK, HolderAt, OffList, OnList, InCall
<1>6. pc[main] \notin {"free"} \cup Exiting
  BY <1>0, <1>1 DEF Exiting
<1>7. TidsOK
  <2>1. \A p \in Page : tid[p] < next_tid
    BY <1>1 DEF Init
  <2>2. \A p \in Page : pc[p] # "free" => p = main
    BY <1>1
  <2>3. 0 < next_tid /\ waits = {}
    BY DEF Init
  <2> QED BY <2>1, <2>2, <2>3, Zenon DEF TidsOK
<1>8. \A p \in Page : ThreadAt(p) /\ ParentAt(p)
  BY <1>1, <1>2 DEF ThreadAt, ParentAt, Exiting, Unloaded
<1> QED BY <1>3, <1>4, <1>5, <1>6, <1>7, <1>8, Zenon DEF ProcessInv, LinkInv

\* The links between parents and children, and what each semaphore tells, hold
\* throughout, for any number of pages and threads.
THEOREM ProcessInvariant == Spec => []ProcessInv
<1>1. ProcessInv /\ [Next]_vars => ProcessInv'
  <2> SUFFICES ASSUME ProcessInv, [Next]_vars PROVE ProcessInv'
    OBVIOUS
  <2>1. CASE Next
    BY <2>1, ProcessNext, Zenon DEF Next
  <2>2. CASE UNCHANGED vars
    <3>1. UNCHANGED <<pc, tid, child_list, load_mutex, wait_mutex, exit_mutex, exit_status,
                      executable, child, next_tid, loaded, died, waits>>
      BY <2>2, Zenon DEF vars, threadVars, semaVars, history
    <3>2. TypeOK' /\ HolderOK' /\ ReachOK'
      <4>1. TypeOK' /\ HolderOK'
        BY <3>1, Zenon DEF ProcessInv, LinkInv, TypeOK, HolderOK, HolderAt, Kids
      <4>2. \A q, c : Reach(q, c)' <=> Reach(q, c)
        BY <3>1, Zenon DEF Reach, Holds, Kids
      <4> QED BY <3>1, <4>1, <4>2, Zenon DEF ProcessInv, LinkInv, ReachOK
    <3>3. TidsOK' /\ pc'[main] \notin {"free"} \cup Exiting
      BY <3>1, Zenon DEF ProcessInv, LinkInv, TidsOK
    <3>4. \A p \in Page : ThreadAt(p)' /\ ParentAt(p)'
      BY <3>1, Zenon DEF ProcessInv, ThreadAt, ParentAt, Fresh, Kids
    <3> QED BY <3>2, <3>3, <3>4, Zenon DEF ProcessInv, LinkInv
  <2> QED BY <2>1, <2>2
<1> QED BY <1>1, ProcessInit, PTL DEF Spec

\* No struct thread is freed while its parent can still reach it, and no thread
\* is on two child lists: exit_mutex keeps a page until its parent has let go.
THEOREM ChildrenStay == Spec => []NoDanglingChild
<1>1. ProcessInv => NoDanglingChild
  <2> SUFFICES ASSUME ProcessInv, NEW p \in Page
               PROVE  /\ IsInjective(child_list[p])
                      /\ \A c \in Range(child_list[p]) \cup ({child[p]} \ {NULL}) :
                           /\ c # p /\ pc[c] # "free"
                           /\ \A q \in Page \ {p} : c \notin Range(child_list[q])
    BY Zenon DEF NoDanglingChild
  <2>0. TypeOK /\ ReachOK /\ HolderAt(p)
    BY Zenon DEF ProcessInv, LinkInv, HolderOK
  <2>1. \A c \in Range(child_list[p]) \cup ({child[p]} \ {NULL}) : Reach(p, c) /\ c \in Page
    BY <2>0, KidsArePages, Zenon DEF Reach, Holds, Kids, TypeOK
  <2>2. \A q, c : c \in Range(child_list[q]) => Reach(q, c)
    BY Zenon DEF Reach, Kids
  <2> QED BY <2>0, <2>1, <2>2, Zenon DEF ReachOK, HolderAt
<1> QED BY <1>1, ProcessInvariant, PTL

\* process_wait returns the status that its child died with, once, and after
\* the child has closed its executable.
THEOREM WaitsTell == Spec => WaitsTrue
<1> DEFINE A == \A p \in Page :
                  pc[p] = "wait_read" /\ pc'[p] = "wait_up" =>
                    /\ <<tid[child[p]], exit_status[child[p]]>> \in died
                    /\ tid[child[p]] \notin waits
                    /\ ~executable[child[p]]
<1>1. ProcessInv /\ [Next]_vars => [A]_vars
  <2> SUFFICES ASSUME ProcessInv, NEW p \in Page, pc[p] = "wait_read"
               PROVE  /\ <<tid[child[p]], exit_status[child[p]]>> \in died
                      /\ tid[child[p]] \notin waits
                      /\ ~executable[child[p]]
    BY Zenon
  <2>1. PICK c \in Page : c = child[p] /\ c \in Kids(p)
    <3>1. InCall(pc[p]) /\ OnList(pc[p])
      BY DEF InCall, OnList
    <3> QED BY <3>1, Zenon DEF ProcessInv, LinkInv, HolderOK, HolderAt, TypeOK
  <2>2. ThreadAt(c) /\ ParentAt(p)
    BY Zenon DEF ProcessInv
  <2>3. pc[c] = "exit_down" /\ tid[c] \notin waits /\ tid[c] # TID_ERROR
    <3>1. ~Fresh(p, c)
      BY DEF Fresh
    <3> QED BY <2>1, <2>2, <3>1, Zenon DEF ParentAt
  <2>4. <<tid[c], exit_status[c]>> \in died /\ ~executable[c]
    BY <2>2, <2>3 DEF ThreadAt, Exiting
  <2> QED BY <2>1, <2>3, <2>4, Zenon
<1> QED BY <1>1, ProcessInvariant, PTL DEF Spec, WaitsTrue

\* exec returns a tid only for a program that has been loaded, else TID_ERROR.
THEOREM ExecTells == Spec => ExecKnowsLoad
<1> DEFINE A == \A p \in Page :
                  pc[p] = "exec_return" /\ pc'[p] = "user" =>
                    tid[child[p]] \in loaded \cup {TID_ERROR}
<1>1. ProcessInv /\ [Next]_vars => [A]_vars
  <2> SUFFICES ASSUME ProcessInv, NEW p \in Page, pc[p] = "exec_return"
               PROVE  tid[child[p]] \in loaded \cup {TID_ERROR}
    BY Zenon
  <2>1. PICK c \in Page : c = child[p] /\ Reach(p, c)
    <3>1. InCall(pc[p])
      BY DEF InCall
    <3> QED BY <3>1, Zenon DEF ProcessInv, LinkInv, HolderOK, HolderAt, TypeOK, Reach, Holds
  <2>2. ThreadAt(c) /\ ParentAt(p) /\ c # main
    BY <2>1, Zenon DEF ProcessInv, LinkInv, ReachOK
  <2>3. pc[c] \notin Unloaded
    BY <2>1, <2>2 DEF ParentAt
  <2> QED BY <2>1, <2>2, <2>3 DEF ThreadAt, Unloaded
<1> QED BY <1>1, ProcessInvariant, PTL DEF Spec, ExecKnowsLoad
=============================================================================
