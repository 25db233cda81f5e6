----------------------------- MODULE AddressSpace -----------------------------
(***************************************************************************)
(* Page directories (userprog/pagedir.c) and the processes that create,    *)
(* fill, run on and destroy them (userprog/process.c), with the processor's*)
(* CR3 and translation lookaside buffer, modelled from the code's use of   *)
(* them.  The kernel and the user pool are one set of frames.  The kernel  *)
(* has no caller yet for pagedir_clear_page, pagedir_set_dirty and         *)
(* pagedir_set_accessed (the two are pagedir_set_bit); here any process    *)
(* may have its pages passed to them, by a thread running on another       *)
(* directory too.                                                          *)
(***************************************************************************)
EXTENDS Integers, FiniteSetsExt

CONSTANTS
  Process, NULL,
  UPage,        \* user pages, as <<pd_no, pt_no>>
  NFrame        \* frames

VARIABLES
  current,      \* the running thread
  pc,
  pagedir,      \* thread->pagedir, a frame or NULL
  dying,        \* the local pd of process_exit
  frames,       \* the content of each frame
  cr3, tlb,     \* the active directory, and the translations cached from it
  noted         \* history: <<p, u, bit>> when page u of p was accessed ("A") or
                \* written ("D") since the bit was cleared

spaceVars == <<current, pc, pagedir, dying, frames, cr3, tlb, noted>>

Frame == 1..NFrame
init_page_dir == 0              \* the directory of the kernel
Free == [kind |-> "free"]
Data == [kind |-> "page"]
NoPte == [frame |-> 0, P |-> FALSE, W |-> FALSE, A |-> FALSE, D |-> FALSE]
Tables == {u[1] : u \in UPage}
NewDirectory == [kind |-> "pd", at |-> [n \in Tables |-> 0]]
NewTable == [kind |-> "pt", at |-> [n \in {u[2] : u \in UPage} |-> NoPte]]

SpaceInit ==
  /\ current \in Process
  /\ pc = [p \in Process |-> "new"]
  /\ pagedir = [p \in Process |-> NULL] /\ dying = [p \in Process |-> NULL]
  /\ frames = [f \in Frame |-> Free]
  /\ cr3 = init_page_dir /\ tlb = {} /\ noted = {}
-----------------------------------------------------------------------------
FreeFrames == {f \in Frame : frames[f] = Free}

\* pagedir_activate: loading CR3 empties the translation lookaside buffer.
pagedir_activate(pd) ==
  cr3' = (IF pd = NULL THEN init_page_dir ELSE pd) /\ tlb' = {}

\* invalidate_pagedir, which reloads CR3 with the directory that is active.
invalidate_pagedir(pd) ==
  tlb' = (IF cr3 = pd THEN {} ELSE tlb) /\ UNCHANGED cr3

\* A context switch, thread_schedule_tail: process_activate.
Switch(p) ==
  /\ p # current /\ current' = p
  /\ pagedir_activate(pagedir[p])
  /\ UNCHANGED <<pc, pagedir, dying, frames, noted>>

\* load: pagedir_create, process_activate; without memory the load fails.
CreateSpace(p) ==
  /\ pc[p] = "new" /\ current = p /\ FreeFrames # {}
  /\ LET pd == Min(FreeFrames)
     IN /\ frames' = [frames EXCEPT ![pd] = NewDirectory]
        /\ pagedir' = [pagedir EXCEPT ![p] = pd]
        /\ pagedir_activate(pd)
  /\ pc' = [pc EXCEPT ![p] = "running"]
  /\ UNCHANGED <<current, dying, noted>>

\* Nothing is known of page u of p.
Forget(p, u) == noted \ {<<p, u, "A">>, <<p, u, "D">>}

\* lookup_page without create.
lookup_page(pd, u) ==
  LET pt == frames[pd].at[u[1]]
  IN IF pt = 0 THEN NoPte ELSE frames[pt].at[u[2]]

\* load_segment, setup_stack: a page, install_page, pagedir_set_page with
\* lookup_page's new table.  The page is returned when the table cannot be had.
InstallPage(p, u, writable) ==
  LET pd == pagedir[p]
      kpage == Min(FreeFrames)
      old == frames[pd].at[u[1]]
      left == FreeFrames \ {kpage}
      pt == IF old # 0 THEN old ELSE Min(left)
      pte == [NoPte EXCEPT !.frame = kpage, !.P = TRUE, !.W = writable]
      table == IF old # 0 THEN frames[old] ELSE NewTable
  IN /\ pc[p] = "running" /\ current = p
     /\ FreeFrames # {} /\ (old = 0 => left # {})
     /\ ~lookup_page(pd, u).P
     /\ frames' = [frames EXCEPT ![kpage] = Data,
                                 ![pd].at[u[1]] = pt,
                                 ![pt] = [table EXCEPT !.at[u[2]] = pte]]
     /\ noted' = Forget(p, u)
     /\ UNCHANGED <<current, pc, pagedir, dying, cr3, tlb>>

\* pagedir_clear_page; the caller gives the frame back.
pagedir_clear_page(p, u) ==
  LET pte == lookup_page(pagedir[p], u)
      pt == frames[pagedir[p]].at[u[1]]
  IN /\ pc[p] = "running" /\ pte.P
     /\ frames' = [frames EXCEPT ![pt].at[u[2]].P = FALSE, ![pte.frame] = Free]
     /\ invalidate_pagedir(pagedir[p])
     /\ noted' = Forget(p, u)
     /\ UNCHANGED <<current, pc, pagedir, dying>>

\* pagedir_set_dirty and pagedir_set_accessed of an entry whose table exists,
\* present or not.  Only clearing a bit invalidates the translations.
pagedir_set_bit(p, u, bit, set) ==
  LET pt == frames[pagedir[p]].at[u[1]]
  IN /\ pc[p] = "running" /\ pt # 0
     /\ frames' = [frames EXCEPT ![pt].at[u[2]][bit] = set]
     /\ IF set THEN UNCHANGED <<cr3, tlb>> ELSE invalidate_pagedir(pagedir[p])
     /\ noted' = IF set THEN noted ELSE noted \ {<<p, u, bit>>}
     /\ UNCHANGED <<current, pc, pagedir, dying>>

\* The processor translates an access: from the buffer, or by the directory in
\* CR3.  It sets a bit in the directory only when its own copy of it is clear.
Access(p, u, write) ==
  LET cached == {e \in tlb : e.page = u}
      pt == frames[cr3].at[u[1]]
      pte == IF cached # {} THEN (CHOOSE e \in cached : TRUE).pte
             ELSE lookup_page(cr3, u)
  IN /\ pc[p] = "running" /\ current = p
     /\ pte.P /\ (write => pte.W)
     /\ tlb' = (tlb \ cached)
                 \cup {[page |-> u, pte |-> [pte EXCEPT !.A = TRUE, !.D = @ \/ write]]}
     /\ frames' = [frames EXCEPT ![pt].at[u[2]].A = @ \/ ~pte.A,
                                 ![pt].at[u[2]].D = @ \/ (write /\ ~pte.D)]
     /\ noted' = noted \cup {<<p, u, bit>> : bit \in {"A"} \cup (IF write THEN {"D"} ELSE {})}
     /\ UNCHANGED <<current, pc, pagedir, dying, cr3>>
-----------------------------------------------------------------------------
\* The frames that pagedir_destroy frees: the directory, its tables, and the
\* pages that are present.
Reach(pd) ==
  LET pts == {frames[pd].at[n] : n \in Tables} \ {0}
      ptes == UNION {{frames[t].at[n] : n \in DOMAIN frames[t].at} : t \in pts}
  IN {pd} \cup pts \cup {e.frame : e \in {e \in ptes : e.P}}

pagedir_destroy(pd) ==
  frames' = [f \in Frame |-> IF f \in Reach(pd) THEN Free ELSE frames[f]]

\* Fault: cur->pagedir is cleared after the switch to the kernel's directory.
process_exit_late(p) ==
  /\ current = p /\ UNCHANGED current
  /\ \/ /\ pc[p] = "running"
        /\ pc' = [pc EXCEPT ![p] = "exiting"]
        /\ dying' = [dying EXCEPT ![p] = pagedir[p]]
        /\ pagedir_activate(NULL) /\ UNCHANGED <<pagedir, frames, noted>>
     \/ /\ pc[p] = "exiting"
        /\ pc' = [pc EXCEPT ![p] = "destroying"]
        /\ pagedir' = [pagedir EXCEPT ![p] = NULL]
        /\ noted' = {d \in noted : d[1] # p}
        /\ UNCHANGED <<frames, cr3, tlb, dying>>
     \/ /\ pc[p] = "destroying"
        /\ pc' = [pc EXCEPT ![p] = "new"]
        /\ pagedir_destroy(dying[p])
        /\ dying' = [dying EXCEPT ![p] = NULL]
        /\ UNCHANGED <<pagedir, cr3, tlb, noted>>

\* process_exit, in three steps; the thread slot is then used again.
process_exit(p) ==
  /\ current = p /\ UNCHANGED current
  /\ \/ /\ pc[p] = "running"
        /\ pc' = [pc EXCEPT ![p] = "exiting"]
        /\ dying' = [dying EXCEPT ![p] = pagedir[p]]
        /\ pagedir' = [pagedir EXCEPT ![p] = NULL]
        /\ noted' = {d \in noted : d[1] # p}
        /\ UNCHANGED <<frames, cr3, tlb>>
     \/ /\ pc[p] = "exiting"
        /\ pc' = [pc EXCEPT ![p] = "destroying"]
        /\ pagedir_activate(NULL) /\ UNCHANGED <<pagedir, frames, dying, noted>>
     \/ /\ pc[p] = "destroying"
        /\ pc' = [pc EXCEPT ![p] = "new"]
        /\ pagedir_destroy(dying[p])
        /\ dying' = [dying EXCEPT ![p] = NULL]
        /\ UNCHANGED <<pagedir, cr3, tlb, noted>>

SpaceNext ==
  \E p \in Process :
    \/ Switch(p) \/ CreateSpace(p) \/ process_exit(p)
    \/ \E u \in UPage : \/ \E b \in BOOLEAN : InstallPage(p, u, b) \/ Access(p, u, b)
                        \/ pagedir_clear_page(p, u)
                        \/ \E bit \in {"A", "D"}, set \in BOOLEAN :
                             pagedir_set_bit(p, u, bit, set)

SpaceSpec == SpaceInit /\ [][SpaceNext]_spaceVars
-----------------------------------------------------------------------------
\* What the processor may have cached of an entry: all of it, but for a dirty bit
\* that was set in the directory since.
Cacheable(pte) == {pte, [pte EXCEPT !.D = FALSE]}

\* The processor never runs on a directory that was destroyed, whenever a
\* switch falls into process_exit; what it has cached is what the directory
\* says, a dirty bit excepted that the kernel has set since, so no freed page
\* can be reached (pagedir_clear_page); a page that was accessed or written
\* since the bit for it was cleared has the bit set (pagedir_set_dirty,
\* pagedir_set_accessed); and every frame in use belongs to exactly one
\* directory (pagedir_destroy).
AddressSpacesSound ==
  /\ cr3 # init_page_dir => frames[cr3].kind = "pd"
  /\ \A e \in tlb : /\ cr3 # init_page_dir
                   /\ e.pte \in Cacheable(lookup_page(cr3, e.page))
  /\ \A d \in noted : lookup_page(pagedir[d[1]], d[2])[d[3]]
  /\ LET live == {pagedir[p] : p \in Process} \cup {dying[p] : p \in Process}
     IN /\ UNION {Reach(pd) : pd \in live \ {NULL}} = Frame \ FreeFrames
        /\ \A pd, qd \in live \ {NULL} : pd # qd => Reach(pd) \cap Reach(qd) = {}
=============================================================================
