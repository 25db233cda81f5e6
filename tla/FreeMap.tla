------------------------------- MODULE FreeMap -------------------------------
(***************************************************************************)
(* The free map of the file system (filesys/free-map.c) and the bitmap it  *)
(* is made of (lib/kernel/bitmap.c): bits in elements of ELEM_BITS, the    *)
(* copy in the free map's file, writes of it that fail, and restarts.      *)
(* A call is one step: the race of two threads between bitmap_scan and     *)
(* bitmap_set_multiple is not modelled here.                               *)
(***************************************************************************)
EXTENDS Integers, SequencesExt, FiniteSetsExt, Bitwise

CONSTANTS
  ELEM_BITS,
  bit_cnt,        \* sectors of the file system device
  SECTOR_ELEMS,   \* elements in a sector of the free map's file
  MaxCnt          \* bound on the sectors that one call asks for

VARIABLES
  bits,           \* free_map in memory, a sequence of elements
  file,           \* the elements in free_map_file
  allocated,      \* history: the sectors that are allocated
  leaked          \* history: sectors marked at a restart and allocated to nobody

mapVars == <<bits, file, allocated, leaked>>

BITMAP_ERROR == -1
FREE_MAP_SECTOR == 0
ROOT_DIR_SECTOR == 1
Bit == 0..bit_cnt - 1
ElemMax == 2^ELEM_BITS - 1
-----------------------------------------------------------------------------
(* Bitmaps. *)

elem_idx(i) == i \div ELEM_BITS + 1
bit_mask(i) == 2^(i % ELEM_BITS)
elem_cnt == (bit_cnt + ELEM_BITS - 1) \div ELEM_BITS
last_mask == LET n == bit_cnt % ELEM_BITS IN IF n = 0 THEN ElemMax ELSE 2^n - 1

bitmap_mark(b, i) == [b EXCEPT ![elem_idx(i)] = @ | bit_mask(i)]
bitmap_reset(b, i) == [b EXCEPT ![elem_idx(i)] = @ & (ElemMax - bit_mask(i))]
bitmap_set(b, i, value) == IF value THEN bitmap_mark(b, i) ELSE bitmap_reset(b, i)
bitmap_test(b, i) == b[elem_idx(i)] & bit_mask(i) # 0

bitmap_set_multiple(b, start, cnt, value) ==
  FoldLeft(LAMBDA c, i : bitmap_set(c, start + i - 1, value), b,
           [i \in 1..cnt |-> i])

\* bitmap_create clears the bits of a new block of memory one by one; what the
\* block held in the unused bits of the last element stays there.
bitmap_create(garbage) ==
  bitmap_set_multiple([e \in 1..elem_cnt |-> garbage], 0, bit_cnt, FALSE)

bitmap_count(b, start, cnt, value) ==
  Cardinality({i \in 0..cnt - 1 : bitmap_test(b, start + i) = value})

bitmap_contains(b, start, cnt, value) ==
  \E i \in 0..cnt - 1 : bitmap_test(b, start + i) = value

bitmap_all(b, start, cnt) == ~bitmap_contains(b, start, cnt, FALSE)

\* bitmap_scan from i on.
RECURSIVE bitmap_scan(_, _, _, _)
bitmap_scan(b, i, cnt, value) ==
  IF i > bit_cnt - cnt THEN BITMAP_ERROR
  ELSE IF ~bitmap_contains(b, i, cnt, ~value) THEN i
  ELSE bitmap_scan(b, i + 1, cnt, value)

\* bitmap_scan_and_flip, from bit 0 on, of a group of zeros.
bitmap_scan_and_flip(b, cnt) ==
  LET idx == bitmap_scan(b, 0, cnt, FALSE)
  IN [idx |-> idx, bits |-> IF idx = BITMAP_ERROR THEN b
                            ELSE bitmap_set_multiple(b, idx, cnt, TRUE)]

\* bitmap_write writes the whole sectors, and then part of the last one, for
\* which inode_write_at needs a bounce buffer: without memory for it the write
\* ends early.  What the file may hold after a write that fails.
CutShort(b) ==
  LET whole == SECTOR_ELEMS * (elem_cnt \div SECTOR_ELEMS)
  IN IF whole = elem_cnt THEN {}
     ELSE {[e \in DOMAIN b |-> IF e <= whole THEN b[e] ELSE file[e]]}

\* bitmap_read masks the unused bits of the last element.
bitmap_read(f) == [f EXCEPT ![elem_cnt] = @ & last_mask]
-----------------------------------------------------------------------------
(* The free map. *)

\* free_map_init marks two sectors.
free_map_init(garbage) ==
  bitmap_mark(bitmap_mark(bitmap_create(garbage), FREE_MAP_SECTOR), ROOT_DIR_SECTOR)

\* free_map_create, for a new file system: inode_create allocates a sector for
\* the file, which is then written.
free_map_create(b) ==
  LET r == bitmap_scan_and_flip(b, 1)
  IN /\ bits = r.bits /\ file = r.bits
     /\ allocated = {FREE_MAP_SECTOR, ROOT_DIR_SECTOR, r.idx}

MapInit ==
  /\ \E b \in {free_map_init(garbage) : garbage \in {0, ElemMax}} : free_map_create(b)
  /\ leaked = {}

\* Fault: a free map that could not be written is not noticed.
free_map_allocate_unchecked(cnt) ==
  LET r == bitmap_scan_and_flip(bits, cnt)
      s == r.idx
      b == r.bits
  IN /\ s # BITMAP_ERROR
     /\ bits' = b /\ allocated' = allocated \cup (s..s + cnt - 1)
     /\ file' \in {b} \cup CutShort(b)
     /\ UNCHANGED leaked

\* free_map_allocate: when the file cannot be written,
\* the bits are taken back, in memory.
free_map_allocate(cnt) ==
  LET r == bitmap_scan_and_flip(bits, cnt)
      s == r.idx
      b == r.bits
  IN /\ s # BITMAP_ERROR
     /\ \/ /\ file' = b /\ bits' = b
           /\ allocated' = allocated \cup (s..s + cnt - 1)
        \/ /\ file' \in CutShort(b)
           /\ bits' = bitmap_set_multiple(b, s, cnt, FALSE)
           /\ UNCHANGED allocated
     /\ UNCHANGED leaked

\* free_map_release of a sector that a removed file had; whether the write
\* succeeds is not looked at.
free_map_release(s) ==
  LET b == bitmap_set_multiple(bits, s, 1, FALSE)
  IN /\ s \in allocated /\ s > 2
     /\ bits' = b /\ allocated' = allocated \ {s}
     /\ file' \in {b} \cup CutShort(b)
     /\ UNCHANGED leaked

\* free_map_open after the machine stopped, properly (free_map_close writes
\* nothing) or not.
free_map_open ==
  /\ bits' = bitmap_read(file)
  /\ leaked' = {i \in Bit : bitmap_test(bits', i)} \ allocated
  /\ UNCHANGED <<file, allocated>>

MapNext ==
  \/ \E cnt \in 1..MaxCnt : free_map_allocate(cnt)
  \/ \E s \in Bit : free_map_release(s)
  \/ free_map_open

MapSpec == MapInit /\ [][MapNext]_mapVars
-----------------------------------------------------------------------------
SetBits(b) == {i \in Bit : bitmap_test(b, i)}

\* The free map marks exactly the sectors that are allocated and those lost by
\* writes that failed; a sector that is allocated is marked on disk too, so that
\* it is not given away again after a restart (free_map_allocate,
\* free_map_open); the ASSERT of free_map_release holds.  bitmap_scan finds the
\* first group that there is, and bitmap_count counts, across the boundaries of
\* the elements.
FreeMapSound ==
  /\ SetBits(bits) = allocated \cup leaked
  /\ allocated \subseteq SetBits(file)
  /\ \A s \in allocated : bitmap_all(bits, s, 1)
  /\ \A start \in 0..bit_cnt, cnt \in 1..bit_cnt, value \in BOOLEAN :
       LET Group(i) == \A k \in i..i + cnt - 1 : (k \in allocated \cup leaked) = value
           groups == {i \in start..bit_cnt - cnt : Group(i)}
       IN /\ bitmap_scan(bits, start, cnt, value)
               = IF groups = {} THEN BITMAP_ERROR ELSE Min(groups)
          /\ start + cnt <= bit_cnt =>
               bitmap_count(bits, start, cnt, value)
                 = Cardinality({k \in start..start + cnt - 1 :
                                  (k \in allocated \cup leaked) = value})
=============================================================================
