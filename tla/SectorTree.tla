------------------------------ MODULE SectorTree ------------------------------
(***************************************************************************)
(* The blocks of one file on disk: direct blocks, one indirect block, one  *)
(* double indirect block (filesys/inode.c), as the file grows and when it  *)
(* is removed.  Words of a pointer block that nobody has written come from *)
(* the stack and are any member of Garbage: indirect_block_allocate clears *)
(* only CLEARED of the BLOCKS_IN_INDIRECT words of its buffer.             *)
(***************************************************************************)
EXTENDS Integers, SequencesExt, FiniteSetsExt

CONSTANTS
  DIRECT_NUM,
  BLOCKS_IN_INDIRECT,
  CLEARED,      \* the words that memset (buffer, 0, BLOCKS_IN_INDIRECT) clears
  NSector,      \* the sectors of the device; large enough never to be full
  Foreign,      \* a sector that belongs to another file
  Garbage,      \* the values of words that were never written
  MaxLength     \* bound on the length of the file, in blocks

VARIABLES
  used,         \* the free map
  words,        \* the contents of the pointer blocks
  direct_blocks, indirect_block, double_indirect_block,
  length,       \* in blocks
  removed,
  overrun       \* has sector_allocate written past a buffer?

treeVars == <<used, words, direct_blocks, indirect_block,
              double_indirect_block, length, removed, overrun>>

Sector == 1..NSector
Index == 1..BLOCKS_IN_INDIRECT

TreeInit ==
  /\ used = {Foreign}
  /\ words = [s \in Sector |-> [i \in Index |-> 0]]
  /\ direct_blocks = [i \in 1..DIRECT_NUM |-> 0]
  /\ indirect_block = 0
  /\ double_indirect_block = 0
  /\ length = 0
  /\ removed = FALSE
  /\ overrun = FALSE
-----------------------------------------------------------------------------
\* free_map_allocate, n times.
FirstFree(u, n) ==
  [i \in 1..n |->
     CHOOSE s \in Sector \ u : Cardinality({r \in Sector \ u : r < s}) = i - 1]

\* A buffer on the stack after memset.
NewBuffer(g) == [i \in Index |-> IF i <= CLEARED THEN 0 ELSE g]

\* Fault: a pointer block that exists already is not read before it is updated.
indirect_block_allocate_unread(m, current, n, block, g) ==
  LET s == IF block = 0 THEN FirstFree(m.used, 1)[1] ELSE block
      new == FirstFree(m.used \cup {s}, n)
  IN [used  |-> m.used \cup {s} \cup ToSet(new),
      words |-> [m.words EXCEPT ![s] =
                   [i \in Index |-> IF i \in current + 1..current + n
                                      THEN new[i - current]
                                      ELSE NewBuffer(g)[i]]],
      block |-> s]

\* indirect_block_allocate: m is the free map and the pointer blocks; adds n
\* sectors after the first `current' words of block, which is 0 when there is
\* none yet.  Those that do not fit are taken from the free map all the same.
indirect_block_allocate(m, current, n, block, g) ==
  LET s == IF block = 0 THEN FirstFree(m.used, 1)[1] ELSE block
      buffer == IF block = 0 THEN NewBuffer(g) ELSE m.words[s]
      new == FirstFree(m.used \cup {s}, n)
  IN [used  |-> m.used \cup {s} \cup ToSet(new),
      words |-> [m.words EXCEPT ![s] =
                   [i \in Index |-> IF i \in current + 1..current + n
                                      THEN new[i - current] ELSE buffer[i]]],
      block |-> s]

\* double_indirect_block_allocate: one indirect block after the other.
double_indirect_block_allocate(m, current, n, block, g) ==
  LET s == IF block = 0 THEN FirstFree(m.used, 1)[1] ELSE block
      m0 == [used  |-> m.used \cup {s},
             words |-> IF block = 0 THEN [m.words EXCEPT ![s] = NewBuffer(g)]
                       ELSE m.words,
             block |-> s]
      Fill(acc, k) ==
        LET low == Max({current, k * BLOCKS_IN_INDIRECT})
            high == Min({current + n, (k + 1) * BLOCKS_IN_INDIRECT})
            r == indirect_block_allocate(acc, low % BLOCKS_IN_INDIRECT,
                                         high - low, acc.words[s][k + 1], g)
        IN [r EXCEPT !.words[s][k + 1] = r.block, !.block = s]
      first == current \div BLOCKS_IN_INDIRECT
      last == (current + n - 1) \div BLOCKS_IN_INDIRECT
  IN FoldLeft(Fill, m0, [i \in 1..last - first + 1 |-> first + i - 1])

\* The sectors that sector_allocate adds to the indirect block when the file
\* has `current' of them and n are left to add.
IndirectShare(current, n) ==
  IF n > 0 /\ current < DIRECT_NUM + BLOCKS_IN_INDIRECT
    THEN Min({n, BLOCKS_IN_INDIRECT}) ELSE 0

\* sector_allocate and the new length (inode_create for a new file,
\* inode_write_at).  Growth from the middle of the indirect block past its end
\* writes past the buffer, on the stack: the sectors are recorded nowhere, if the
\* kernel survives it; if it does not, no step follows.
sector_allocate(n, g) ==
  LET inDirect == Min({n, Max({0, DIRECT_NUM - length})})
      new == FirstFree(used, inDirect)
      current == length + inDirect
      inIndirect == IndirectShare(current, n - inDirect)
      inDouble == n - inDirect - inIndirect
      m0 == [used |-> used \cup ToSet(new), words |-> words,
             block |-> indirect_block]
      m1 == IF inIndirect = 0 THEN m0
            ELSE indirect_block_allocate(m0, current - DIRECT_NUM, inIndirect,
                                         indirect_block, g)
      m2 == IF inDouble = 0 THEN m1
            ELSE double_indirect_block_allocate(
                   m1, current + inIndirect - DIRECT_NUM - BLOCKS_IN_INDIRECT,
                   inDouble, double_indirect_block, g)
  IN /\ ~removed /\ length + n <= MaxLength
     /\ direct_blocks' = [i \in 1..DIRECT_NUM |->
                            IF i \in length + 1..length + inDirect
                              THEN new[i - length] ELSE direct_blocks[i]]
     /\ indirect_block' = m1.block
     /\ double_indirect_block' = IF inDouble = 0 THEN double_indirect_block
                                 ELSE m2.block
     /\ used' = m2.used
     /\ words' = m2.words
     /\ length' = length + n
     /\ overrun' = \/ overrun
                   \/ /\ inIndirect > 0
                      /\ current + inIndirect > DIRECT_NUM + BLOCKS_IN_INDIRECT
     /\ UNCHANGED removed

\* The words before the first zero, which a loop of inode_close releases.
NonZeroPrefix(w) == {w[i] : i \in {j \in DOMAIN w : \A k \in 1..j : w[k] # 0}}

\* Fault: the sectors of the pointer blocks themselves are not released.
inode_close_keeps_pointers(g) ==
  /\ ~removed
  /\ removed' = TRUE
  /\ used' = used \ (NonZeroPrefix(direct_blocks) \cup
                     IF indirect_block = 0 THEN {}
                     ELSE NonZeroPrefix(words[indirect_block]))
  /\ UNCHANGED <<words, direct_blocks, indirect_block, double_indirect_block,
                 length, overrun>>

\* inode_close of a removed inode.  direct_blocks[DIRECT_NUM] is the field that
\* follows, indirect_block.  buffer[BLOCKS_IN_INDIRECT], which decides about
\* the double indirect block, is any word g.
inode_close(g) ==
  LET inDirect == NonZeroPrefix(direct_blocks)
      visits == Cardinality(inDirect) = DIRECT_NUM /\ indirect_block # 0
      inIndirect == IF visits THEN NonZeroPrefix(words[indirect_block]) ELSE {}
      full == visits /\ \A i \in Index : words[indirect_block][i] # 0
      doubles == full /\ g # 0 /\ double_indirect_block # 0
      blocks == IF doubles THEN NonZeroPrefix(words[double_indirect_block])
                ELSE {}
  IN /\ ~removed
     /\ removed' = TRUE
     /\ used' = used \ (inDirect \cup inIndirect \cup blocks
                        \cup (IF visits THEN {indirect_block} ELSE {})
                        \cup (IF doubles THEN {double_indirect_block} ELSE {})
                        \cup UNION {NonZeroPrefix(words[b]) :
                                      b \in blocks \cap Sector})
     /\ UNCHANGED <<words, direct_blocks, indirect_block,
                    double_indirect_block, length, overrun>>

TreeNext ==
  \E g \in Garbage :
    (\E n \in 1..MaxLength : sector_allocate(n, g)) \/ inode_close(g)

TreeSpec == TreeInit /\ [][TreeNext]_treeVars
-----------------------------------------------------------------------------
\* byte_to_sector: the sector of block b, counted from 0.
byte_to_sector(b) ==
  LET i == b - DIRECT_NUM
      j == i - BLOCKS_IN_INDIRECT
  IN CASE b < DIRECT_NUM -> direct_blocks[b + 1]
       [] i \in 0..BLOCKS_IN_INDIRECT - 1 -> words[indirect_block][i + 1]
       [] OTHER ->
            words[words[double_indirect_block][j \div BLOCKS_IN_INDIRECT + 1]]
                 [(j % BLOCKS_IN_INDIRECT) + 1]

\* Each block of a file has a sector of its own, none of which is a pointer
\* block or belongs to another file, and the file holds no sectors besides its
\* blocks and the pointer blocks that lead to them (sector_allocate,
\* byte_to_sector).  It is so while each growth that began inside the indirect
\* block ended there, and while the file needs only those words of the double
\* indirect block that are cleared.
BlocksHaveSectors ==
  ~removed /\ ~overrun /\ length <= DIRECT_NUM + (1 + CLEARED) * BLOCKS_IN_INDIRECT =>
    LET sectors == {byte_to_sector(b) : b \in 0..length - 1}
        inDouble == IF double_indirect_block = 0 THEN {}
                    ELSE NonZeroPrefix(SubSeq(words[double_indirect_block],
                                              1, CLEARED))
        pointers == ({indirect_block, double_indirect_block} \ {0})
                    \cup inDouble
    IN /\ Cardinality(sectors) = length
       /\ sectors \cap (pointers \cup {Foreign, 0}) = {}
       /\ used = sectors \cup pointers \cup {Foreign}

\* A removed file gives back all of its sectors and no other, as long as it
\* does not depend on words that were never written: it ends in the direct
\* blocks, in the part of the indirect block that is cleared, or with the
\* indirect block (inode_close).
ReleasesAllBlocks ==
  removed /\ (\/ length < DIRECT_NUM + CLEARED
              \/ length = DIRECT_NUM + BLOCKS_IN_INDIRECT) => used = {Foreign}
=============================================================================
