---------------------------- MODULE MCFileSystem ----------------------------
(***************************************************************************)
(* The layers of the file system in one run: the calls of two processes    *)
(* (FileSystem), one thread that writes a file others read (InodeWrite),   *)
(* a file that grows on disk (SectorTree), a directory that is listed      *)
(* while it changes (DirListing), the free map and its file (FreeMap),     *)
(* file descriptors (Descriptors).  The layers share no variable; a        *)
(* behaviour is one of the layer that `layer' names.                       *)
(***************************************************************************)
EXTENDS FileSystem, TLC

CONSTANTS w1, NoThread

VARIABLES
  layer,
  disk, data, store, lock, pc, call, file,
  used, words, direct_blocks, indirect_block, double_indirect_block, length,
  removed, overrun,
  slots, pos, done, listed, stable,
  bits, map_file, allocated, lost,
  file_list, fd, executable, deny_write_cnt, eof, halted, opened

W == INSTANCE InodeWrite WITH
       Writer <- {w1}, Value <- {1, 2}, SECTOR_SIZE <- 2, MaxByte <- 4
T == INSTANCE SectorTree WITH
       DIRECT_NUM <- 1, BLOCKS_IN_INDIRECT <- 8, CLEARED <- 2, NSector <- 36,
       Foreign <- 1, Garbage <- {0, 1}, MaxLength <- 29
L == INSTANCE DirListing WITH EntryName <- {"a", "b", "c"}, FREE <- "free"
M == INSTANCE FreeMap WITH
       ELEM_BITS <- 2, bit_cnt <- 7, SECTOR_ELEMS <- 3, MaxCnt <- 2,
       file <- map_file, leaked <- lost
F == INSTANCE Descriptors WITH
       NULL <- NoThread, Inode <- {1, 2}, Dir <- {2}, MaxFd <- 4, MaxPos <- 1

MCPath ==
  [abs : {FALSE}, dir : {<<>>}, name : {"a", ".."}]
    \cup [abs : {TRUE}, dir : {<<>>}, name : {""}]
    \cup [abs : {TRUE}, dir : {<<"a">>}, name : {"a"}]

MCSymmetry == Permutations(Process)

writeVars == <<disk, data, store, lock, pc, call, file>>
treeVars == <<used, words, direct_blocks, indirect_block,
              double_indirect_block, length, removed, overrun>>
listVars == <<slots, pos, done, listed, stable>>
mapVars == <<bits, map_file, allocated, lost>>
fdVars == <<file_list, fd, executable, deny_write_cnt, eof, halted, opened>>
allVars == <<layer, vars, writeVars, treeVars, listVars, mapVars, fdVars>>

MCInit ==
  /\ layer \in {"calls", "file", "tree", "listing", "map", "descriptors"}
  /\ Init /\ W!WriteInit /\ L!ListInit /\ M!MapInit /\ F!FdInit
  /\ layer # "map" => bits[M!elem_cnt] <= M!last_mask
  /\ \/ layer = "tree" /\ T!TreeInit
     \/ /\ layer # "tree"             \* no disk of its own to carry along
        /\ used = {} /\ words = <<>> /\ direct_blocks = <<>> /\ indirect_block = 0
        /\ double_indirect_block = 0 /\ length = 0 /\ removed = FALSE
        /\ overrun = FALSE

MCNext ==
  /\ UNCHANGED layer
  /\ \/ /\ layer = "calls" /\ Next
        /\ UNCHANGED <<writeVars, treeVars, listVars, mapVars, fdVars>>
     \/ /\ layer = "file" /\ W!WriteNext
        /\ UNCHANGED <<vars, treeVars, listVars, mapVars, fdVars>>
     \/ /\ layer = "tree" /\ T!TreeNext
        /\ UNCHANGED <<vars, writeVars, listVars, mapVars, fdVars>>
     \/ /\ layer = "listing" /\ L!ListNext
        /\ UNCHANGED <<vars, writeVars, treeVars, mapVars, fdVars>>
     \/ /\ layer = "map" /\ M!MapNext
        /\ UNCHANGED <<vars, writeVars, treeVars, listVars, fdVars>>
     \/ /\ layer = "descriptors" /\ F!FdNext
        /\ UNCHANGED <<vars, writeVars, treeVars, listVars, mapVars>>

MCSpec == MCInit /\ [][MCNext]_allVars
-----------------------------------------------------------------------------
\* Readers of a file that one thread writes see what was written
\* (inode_read_at, inode_write_at).
ReadersSeeWhatWasWritten == W!ReadersSeeWhatWasWritten

\* The inode of a file that one thread writes covers its length, in memory and
\* on disk alike (inode_write_at).
InodeConsistent == W!InodeConsistent

\* The blocks of a file that grows have sectors of their own (sector_allocate,
\* byte_to_sector).
BlocksHaveSectors == layer = "tree" => T!BlocksHaveSectors

\* A removed file gives its sectors back (inode_close).
ReleasesAllBlocks == layer = "tree" => T!ReleasesAllBlocks

\* A directory listing returns what stays in the directory exactly once
\* (readdir, dir_readdir).
ListedExactlyOnce == L!ListedExactlyOnce

\* The free map knows the allocated sectors, before and after a restart
\* (free_map_allocate, free_map_release, free_map_open).
FreeMapSound == layer = "map" => M!FreeMapSound

\* A descriptor stands for the file that it was returned for (open, get_file,
\* file_close).
DescriptorsSound == layer = "descriptors" => F!DescriptorsSound
=============================================================================
