------------------------------ MODULE MCLibrary ------------------------------
(***************************************************************************)
(* The services the rest of the kernel builds on: condition variables      *)
(* (Monitor), lists (LinkedList), hash tables (HashTable), the page and    *)
(* block allocators (Heap), page directories (AddressSpace), long division *)
(* (Division), sort and search (Sorting), printf (Format) and the loader   *)
(* of programs (Loader).  They share no variable; a behaviour is one of    *)
(* the part that `part' names.                                             *)
(***************************************************************************)
EXTENDS Monitor

CONSTANTS t1, t2, p1, p2, NULL

VARIABLES
  part,
  mem, seq,
  elem_cnt, buckets, inserted,
  used, pool_lock, free_list, desc_lock, arena, hpc, range, live,
  current, spc, pagedir, dying, frames, cr3, tlb, noted,
  dividend, array, arg,
  lpc, pages, pool, segments, args, esp

L == INSTANCE LinkedList WITH Elem <- {1, 2, 3, 4}, Key <- <<1, 1, 2, 3>>
H == INSTANCE HashTable WITH Key <- 0..4, Twin <- {1, 2}, MinBuckets <- 1
A == INSTANCE Heap WITH
       Thread <- {t1, t2}, NPage <- 4, BlocksPerArena <- 2, BigPages <- 2, pc <- hpc
S == INSTANCE AddressSpace WITH
       Process <- {p1, p2}, UPage <- {<<0, 0>>, <<1, 0>>}, NFrame <- 4, pc <- spc
V == INSTANCE Division WITH Width <- 4
Q == INSTANCE Sorting WITH Number <- 1..3, MaxCnt <- 6
F == INSTANCE Format WITH
       CHAR <- 4, SHORT <- 6, INT <- 11, INTMAX <- 12, BUF_SIZE <- 8,
       Number <- {0, 999, 1024, 4095}, Text <- {<<>>, <<"k", "m", "n">>},
       Width <- {-6, 6}, Precision <- {-1, 0, 9}
P == INSTANCE Loader WITH
       PGSIZE <- 32, PHYS_BASE <- 128, Addresses <- 256, FileLength <- 50,
       Vaddr <- {8, 32, 40, 72, 128}, Offset <- {0, 8, 40, 64},
       Bytes <- {0, 24, 42, 56, 255}, MaxSegments <- 2,
       ArgLength <- {1, 2}, MaxArgs <- 3, NFrame <- 3, pc <- lpc, frames <- pool

listVars == <<mem, seq>>
tableVars == <<elem_cnt, buckets, inserted>>
allocVars == <<used, pool_lock, free_list, desc_lock, arena, hpc, range, live>>
pageVars == <<current, spc, pagedir, dying, frames, cr3, tlb, noted>>
pureVars == <<dividend, array, arg>>
imageVars == <<lpc, pages, pool, segments, args, esp>>
restVars == <<listVars, tableVars, allocVars, pageVars, pureVars, imageVars>>
allVars == <<part, monitorVars, restVars>>

\* A part that does not run has one initial state.
MCInit ==
  /\ part \in {"monitor", "list", "hash", "heap", "space", "division", "sort",
              "print", "program"}
  /\ MonitorInit /\ L!LinkedInit /\ H!HashInit /\ A!HeapInit /\ S!SpaceInit 
  /\ V!DivisionInit /\ Q!SortInit /\ F!FormatInit /\ P!LoadInit
  /\ part # "monitor" => prio = [t \in Thread |-> 1]
  /\ part # "space" => current = p1
  /\ part # "division" => dividend = 0
  /\ part # "program" => pool = 0

LibraryNext ==
  \/ /\ part = "list" /\ L!LinkedNext
     /\ UNCHANGED <<tableVars, allocVars, pageVars, pureVars, imageVars>>
  \/ /\ part = "hash" /\ H!HashNext
     /\ UNCHANGED <<listVars, allocVars, pageVars, pureVars, imageVars>>
  \/ /\ part = "heap" /\ A!HeapNext
     /\ UNCHANGED <<listVars, tableVars, pageVars, pureVars, imageVars>>
  \/ /\ part = "space" /\ S!SpaceNext
     /\ UNCHANGED <<listVars, tableVars, allocVars, pureVars, imageVars>>
  \/ /\ part = "division" /\ V!DivisionNext
     /\ UNCHANGED <<listVars, tableVars, allocVars, pageVars, array, arg, imageVars>>
  \/ /\ part = "sort" /\ Q!SortNext
     /\ UNCHANGED <<listVars, tableVars, allocVars, pageVars, dividend, arg, imageVars>>
  \/ /\ part = "print" /\ F!FormatNext
     /\ UNCHANGED <<listVars, tableVars, allocVars, pageVars, dividend, array, imageVars>>
  \/ /\ part = "program" /\ P!LoadNext
     /\ UNCHANGED <<listVars, tableVars, allocVars, pageVars, pureVars>>

MCNext ==
  /\ UNCHANGED part
  /\ \/ part = "monitor" /\ MonitorNext /\ UNCHANGED restVars
     \/ LibraryNext /\ UNCHANGED monitorVars

MCSpec == MCInit /\ [][MCNext]_allVars
-----------------------------------------------------------------------------
\* Every operation of list.c leaves the pointers of a list as its sequence says.
ListMatchesSequence == part = "list" => L!ListMatchesSequence

\* A hash table finds exactly what was inserted, in spite of rehash (hash.c).
HashMatchesSet == part = "hash" => H!HashMatchesSet

\* No page and no block is handed out twice or lost (palloc.c, malloc.c).
HeapConsistent == part = "heap" => A!HeapConsistent

\* Page directories, CR3 and cached translations agree (pagedir.c, process_exit).
AddressSpacesSound == part = "space" => S!AddressSpacesSound

\* The long division routines give exact quotients (arithmetic.c), and printf
\* shows the numbers and texts it is given (stdio.c).
NumbersExact ==
  /\ part = "division" => V!DivisionExact
  /\ part = "print" => F!FormatsArguments

\* sort orders any array and binary_search finds what is in it (stdlib.c).
SortsAndSearches == part = "sort" => Q!SortsAndSearches

\* A loaded program has its segments and its arguments in memory (process.c).
ProgramImage == part = "program" => P!ProgramImage
=============================================================================
