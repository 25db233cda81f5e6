--------------------------------- MODULE Heap ---------------------------------
(***************************************************************************)
(* The page allocator and the block allocator on top of it                 *)
(* (threads/palloc.c, threads/malloc.c, with the bitmap of                 *)
(* lib/kernel/bitmap.c): threads that allocate and free blocks of one      *)
(* descriptor and big blocks of whole pages.  Pages are marked and         *)
(* released bit by bit; palloc_free_multiple takes no lock.                *)
(***************************************************************************)
EXTENDS Integers, SequencesExt, FiniteSetsExt

CONSTANTS
  Thread, NoThread,
  NPage,                \* pages of the pool
  BlocksPerArena,
  BigPages              \* pages of a big block

VARIABLES
  used, pool_lock,      \* struct pool: the pages in used_map, the lock
  free_list, desc_lock, \* struct desc
  arena,                \* struct arena at the start of a page, if there is one
  pc,
  range,                \* the pages that a thread marks or releases, in order
  live                  \* history: the blocks handed out and not freed

heapVars == <<used, pool_lock, free_list, desc_lock, arena, pc, range, live>>

Page == 0..(NPage - 1)
NoArena == [kind |-> "none", free_cnt |-> 0]
Run(p, n) == p..(p + n - 1)
\* The blocks of an arena; a big block is number 0 of its first page.
ArenaBlocks(p) == [i \in 1..BlocksPerArena |-> <<p, i>>]

HeapInit ==
  /\ used = {} /\ pool_lock = NoThread
  /\ free_list = <<>> /\ desc_lock = NoThread
  /\ arena = [p \in Page |-> NoArena]
  /\ pc = [t \in Thread |-> "idle"]
  /\ range = [t \in Thread |-> <<>>]
  /\ live = {}

Goto(t, l) == pc' = [pc EXCEPT ![t] = l]
-----------------------------------------------------------------------------
(* Pages. *)

\* bitmap_scan from 0: the starts of runs of cnt clear bits, the first of which
\* bitmap_scan returns.
bitmap_scan(cnt) ==
  {p \in Page : p + cnt <= NPage /\ Run(p, cnt) \cap used = {}}

\* palloc_get_multiple up to the scan, for the arena of a small block or for a
\* big one; without pages malloc fails and gives up the descriptor.
ScanPages(t, l, cnt, next) ==
  /\ pc[t] = l /\ pool_lock = NoThread
  /\ IF bitmap_scan(cnt) = {}
     THEN /\ Goto(t, "idle")
          /\ desc_lock' = IF desc_lock = t THEN NoThread ELSE desc_lock
          /\ UNCHANGED <<pool_lock, range>>
     ELSE /\ pool_lock' = t /\ Goto(t, next)
          /\ range' = [range EXCEPT ![t] =
                         LET p == Min(bitmap_scan(cnt))
                         IN [i \in 1..cnt |-> p + i - 1]]
          /\ UNCHANGED desc_lock
  /\ UNCHANGED <<used, free_list, arena, live>>

\* bitmap_set_multiple to true, a bit at a time, then lock_release: the pages
\* from the next unmarked one on are still to be marked.
MarkPage(t, l, next) ==
  /\ pc[t] = l
  /\ LET left == SelectSeq(range[t], LAMBDA p : p \notin used)
     IN /\ used' = used \cup {Head(left)}
        /\ IF Len(left) = 1
           THEN pool_lock' = NoThread /\ Goto(t, next)
           ELSE UNCHANGED <<pool_lock, pc>>
  /\ UNCHANGED <<free_list, desc_lock, arena, range, live>>

\* palloc_free_multiple: no lock, a bit at a time.
ReleasePage(t) ==
  /\ pc[t] = "release"
  /\ used' = used \ {Head(range[t])}
  /\ range' = [range EXCEPT ![t] = Tail(@)]
  /\ IF Len(range[t]) = 1
     THEN /\ Goto(t, "idle")
          /\ desc_lock' = IF desc_lock = t THEN NoThread ELSE desc_lock
     ELSE UNCHANGED <<pc, desc_lock>>
  /\ UNCHANGED <<pool_lock, free_list, arena, live>>
-----------------------------------------------------------------------------
(* Blocks. *)

\* malloc of a small block: under the lock, a new arena if no block is free.
MallocSmall(t) ==
  /\ pc[t] = "idle" /\ desc_lock = NoThread
  /\ desc_lock' = t
  /\ Goto(t, IF free_list = <<>> THEN "get page" ELSE "pop")
  /\ UNCHANGED <<used, pool_lock, free_list, arena, range, live>>

\* malloc of a big block goes to the page allocator.
MallocBig(t) ==
  /\ pc[t] = "idle" /\ Goto(t, "get pages")
  /\ UNCHANGED <<used, pool_lock, free_list, desc_lock, arena, range, live>>

NewArena(t) ==
  /\ pc[t] = "arena"
  /\ LET p == range[t][1]
     IN /\ arena' = [arena EXCEPT ![p] =
                       [kind |-> "small", free_cnt |-> BlocksPerArena]]
        /\ free_list' = free_list \o ArenaBlocks(p)
  /\ range' = [range EXCEPT ![t] = <<>>]
  /\ Goto(t, "pop")
  /\ UNCHANGED <<used, pool_lock, desc_lock, live>>

PopBlock(t) ==
  /\ pc[t] = "pop"
  /\ free_list' = Tail(free_list)
  /\ arena' = [arena EXCEPT ![Head(free_list)[1]].free_cnt = @ - 1]
  /\ live' = live \cup {Head(free_list)}
  /\ desc_lock' = NoThread /\ Goto(t, "idle")
  /\ UNCHANGED <<used, pool_lock, range>>

NewBigBlock(t) ==
  /\ pc[t] = "big"
  /\ LET p == range[t][1]
     IN /\ arena' = [arena EXCEPT ![p] = [kind |-> "big", free_cnt |-> BigPages]]
        /\ live' = live \cup {<<p, 0>>}
  /\ range' = [range EXCEPT ![t] = <<>>]
  /\ Goto(t, "idle")
  /\ UNCHANGED <<used, pool_lock, free_list, desc_lock>>

\* Fault: the arena's page is freed with its blocks still on the free list.
free_keeps_blocks(t, b) ==
  LET p == b[1]
      all == arena[p].free_cnt + 1 = BlocksPerArena
  IN /\ pc[t] = "idle" /\ arena[p].kind = "small" /\ desc_lock = NoThread
     /\ live' = live \ {b}
     /\ free_list' = <<b>> \o free_list
     /\ arena' = [arena EXCEPT ![p] = IF all THEN NoArena
                                      ELSE [@ EXCEPT !.free_cnt = @ + 1]]
     /\ range' = IF all THEN [range EXCEPT ![t] = <<p>>] ELSE range
     /\ IF all THEN Goto(t, "release") /\ desc_lock' = t
               ELSE UNCHANGED <<pc, desc_lock>>
     /\ UNCHANGED <<used, pool_lock>>

\* free of a small block; an arena whose blocks are all free goes back.
FreeSmall(t, b) ==
  LET p == b[1]
      all == arena[p].free_cnt + 1 = BlocksPerArena
  IN /\ pc[t] = "idle" /\ arena[p].kind = "small" /\ desc_lock = NoThread
     /\ live' = live \ {b}
     /\ free_list' = IF all THEN SelectSeq(free_list, LAMBDA c : c[1] # p)
                     ELSE <<b>> \o free_list
     /\ arena' = [arena EXCEPT ![p] = IF all THEN NoArena
                                      ELSE [@ EXCEPT !.free_cnt = @ + 1]]
     /\ range' = IF all THEN [range EXCEPT ![t] = <<p>>] ELSE range
     /\ IF all THEN Goto(t, "release") /\ desc_lock' = t
               ELSE UNCHANGED <<pc, desc_lock>>
     /\ UNCHANGED <<used, pool_lock>>

\* free of a big block releases the pages that its arena counts.
FreeBig(t, b) ==
  LET p == b[1]
  IN /\ pc[t] = "idle" /\ arena[p].kind = "big"
     /\ live' = live \ {b}
     /\ range' = [range EXCEPT ![t] = [i \in 1..arena[p].free_cnt |-> p + i - 1]]
     /\ arena' = [arena EXCEPT ![p] = NoArena]
     /\ Goto(t, "release")
     /\ UNCHANGED <<used, pool_lock, free_list, desc_lock>>

HeapNext ==
  \E t \in Thread :
    \/ MallocSmall(t) \/ MallocBig(t)
    \/ ScanPages(t, "get page", 1, "mark page")
    \/ ScanPages(t, "get pages", BigPages, "mark pages")
    \/ MarkPage(t, "mark page", "arena") \/ MarkPage(t, "mark pages", "big")
    \/ NewArena(t) \/ PopBlock(t) \/ NewBigBlock(t)
    \/ \E b \in live : FreeSmall(t, b) \/ FreeBig(t, b)
    \/ ReleasePage(t)

HeapSpec == HeapInit /\ [][HeapNext]_heapVars
-----------------------------------------------------------------------------
\* The pages of the arena or big block that starts at p, and those that a
\* thread has marked and not yet given to one, or not yet released.
PagesAt(p) ==
  IF arena[p].kind = "none" THEN {}
  ELSE Run(p, IF arena[p].kind = "big" THEN arena[p].free_cnt ELSE 1)
PagesOf(t) == ToSet(range[t]) \cap used

\* Every page in use belongs to one arena, one big block or one thread that is
\* about to use or to release it, though pages are released without the lock
\* (palloc_free_multiple); a block is free or handed out, never both, and not
\* in a page that was given back; an arena counts its free blocks and is given
\* back with the last one (malloc, free).
HeapConsistent ==
  /\ used = UNION ({PagesAt(p) : p \in Page} \cup {PagesOf(t) : t \in Thread})
  /\ \A p, q \in Page : p # q => PagesAt(p) \cap PagesAt(q) = {}
  /\ \A t \in Thread, p \in Page : PagesOf(t) \cap PagesAt(p) = {}
  /\ \A t, u \in Thread : t # u => PagesOf(t) \cap PagesOf(u) = {}
  /\ IsInjective(free_list) /\ ToSet(free_list) \cap live = {}
  /\ \A b \in live : arena[b[1]].kind = IF b[2] = 0 THEN "big" ELSE "small"
  /\ \A b \in ToSet(free_list) : arena[b[1]].kind = "small"
  /\ \A p \in Page : arena[p].kind = "small" =>
       /\ arena[p].free_cnt = Cardinality({b \in ToSet(free_list) : b[1] = p})
       /\ ToSet(ArenaBlocks(p)) \subseteq live \cup ToSet(free_list)
       /\ desc_lock = NoThread => arena[p].free_cnt < BlocksPerArena
=============================================================================
