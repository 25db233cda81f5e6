---------------------------- MODULE Files_proofs ----------------------------
(***************************************************************************)
(* Two parts of the file system whose callers interleave.  One thread      *)
(* writes a file that others read (inode_write_at, inode_read_at): what a  *)
(* reader sees, for any sector size, any length and any sequence of calls. *)
(* A process lists a directory while others change it (readdir): what it   *)
(* is told, for any set of names and any number of changes.                *)
(***************************************************************************)
EXTENDS InodeWrite, DirListing, List_proofs, FiniteSetTheorems

(* Writing and reading a file. *)

\* What the constants are.  With two writers the properties do not hold: the
\* end of file is written outside the lock.
Constants ==
  /\ SECTOR_SIZE \in Nat \ {0} /\ MaxByte \in Nat
  /\ Writer # {} /\ \A u, w \in Writer : u = w

Stored == Value \cup {0}
Sectors == [0..SECTOR_SIZE - 1 -> Stored]
Loc == {"idle", "acquire", "copy", "extend", "write_length", "read_length",
        "data", "bounce", "eof", "read_eof"}
CallRecord ==
  [offset : Nat, size : Nat, new_length : 0..MaxByte, value : Stored,
   current : Nat, inode_disk : InodeDisk, sector_idx : Nat, chunk_size : Nat,
   bounce : Sectors, has_bounce : BOOLEAN]

WriteTypes ==
  /\ disk \in InodeDisk /\ data \in InodeDisk
  /\ store \in Seq(Sectors)
  /\ pc \in [Writer -> Loc] /\ call \in [Writer -> CallRecord]
  /\ file \in [Byte -> Stored]

\* The only writer allocates the sectors in their order.
Sound(d) ==
  /\ d.eof <= d.length
  /\ d.blocks = [i \in 1..bytes_to_sectors(d.length) |-> i]

\* The sectors hold what was stored, and what was not is zero, beyond the end
\* of file as well.
SectorsHold ==
  \A b \in Byte :
    file[b] = IF b \div SECTOR_SIZE < Len(store)
                THEN store[b \div SECTOR_SIZE + 1][b % SECTOR_SIZE] ELSE 0

\* What writer w knows of the inode, by how far its call has got.
CallOK(w) ==
  LET c == call[w]
  IN /\ pc[w] \notin {"idle", "read_eof"} => c.offset + c.size = c.new_length
     /\ pc[w] \notin {"read_length", "read_eof"} => disk = data
     /\ pc[w] \in {"copy", "extend"} => c.current = bytes_to_sectors(disk.length)
     /\ pc[w] \in {"extend", "read_length", "data", "bounce", "eof"} =>
          c.inode_disk = disk
     /\ pc[w] = "write_length" => Sound(c.inode_disk)
     /\ pc[w] = "write_length" =>
          c.inode_disk.eof = disk.eof /\ disk.length < c.inode_disk.length
     /\ pc[w] \in {"write_length", "read_length", "data", "bounce", "eof"} =>
          c.new_length <= c.inode_disk.length
     /\ pc[w] = "read_length" => data.eof = disk.eof
     /\ pc[w] = "bounce" =>
          /\ c.chunk_size >= 1 /\ c.chunk_size <= c.size
          /\ (c.offset % SECTOR_SIZE) + c.chunk_size <= SECTOR_SIZE
          /\ c.sector_idx = c.offset \div SECTOR_SIZE + 1
          /\ c.sector_idx <= Len(store)
          /\ c.bounce = store[c.sector_idx]

\* The file has exactly the sectors that its length needs.
LengthOK(w) ==
  /\ data.length <= disk.length
  /\ Len(store) = bytes_to_sectors(IF pc[w] = "write_length"
                                     THEN call[w].inode_disk.length
                                     ELSE disk.length)

WriteInv ==
  /\ WriteTypes /\ SectorsHold
  /\ Sound(disk) /\ Sound(data)
  /\ \A w \in Writer : CallOK(w) /\ LengthOK(w)
-----------------------------------------------------------------------------
(* Arithmetic. *)

LEMMA Max2 ==
  ASSUME NEW a \in Int, NEW b \in Int
  PROVE  Max({a, b}) = IF a <= b THEN b ELSE a
<1> DEFINE m == IF a <= b THEN b ELSE a
<1>1. m \in {a, b} /\ \A y \in {a, b} : m >= y
  OBVIOUS
<1>2. \A x \in {a, b} : (\A y \in {a, b} : x >= y) => x = m
  OBVIOUS
<1> QED BY <1>1, <1>2, Zenon DEF Max

LEMMA Larger ==
  ASSUME NEW a \in Int, NEW b \in Int, NEW m, m = IF a <= b THEN b ELSE a
  PROVE  /\ a <= m /\ b <= m /\ (b > a => a < m) /\ (~(b > a) => m = a)
         /\ \A e \in Int : e <= a => e <= m
OBVIOUS

LEMMA Min3 ==
  ASSUME NEW a \in Int, NEW b \in Int, NEW c \in Int
  PROVE  /\ Min({a, b, c}) \in {a, b, c}
         /\ Min({a, b, c}) <= a /\ Min({a, b, c}) <= b /\ Min({a, b, c}) <= c
<1>1. \E x \in {a, b, c} : \A y \in {a, b, c} : x <= y
  <2>1. CASE a <= b /\ a <= c
    BY <2>1
  <2>2. CASE b <= a /\ b <= c
    BY <2>2
  <2>3. CASE c <= a /\ c <= b
    BY <2>3
  <2> QED BY <2>1, <2>2, <2>3
<1>2. /\ Min({a, b, c}) \in {a, b, c}
      /\ \A y \in {a, b, c} : Min({a, b, c}) <= y
  BY <1>1, Zenon DEF Min
<1> QED BY <1>2, Zenon

\* DIV_ROUND_UP: enough sectors, and no more than a longer file needs.
LEMMA SectorCount ==
  ASSUME Constants, NEW n \in Nat
  PROVE  /\ bytes_to_sectors(n) \in Nat
         /\ bytes_to_sectors(0) = 0
         /\ \A m \in Nat : m <= n => bytes_to_sectors(m) <= bytes_to_sectors(n)
         /\ \A p \in Nat : p < n => p \div SECTOR_SIZE < bytes_to_sectors(n)
BY DEF Constants, bytes_to_sectors

\* A byte has one place: its sector and its offset in the sector.
LEMMA BytePlace ==
  ASSUME Constants, NEW b \in Nat
  PROVE  /\ b \div SECTOR_SIZE \in Nat /\ b % SECTOR_SIZE \in 0..SECTOR_SIZE - 1
         /\ b = SECTOR_SIZE * (b \div SECTOR_SIZE) + (b % SECTOR_SIZE)
BY DEF Constants

\* The bytes of a chunk, which does not cross a sector, are those at its place.
LEMMA ChunkPlace ==
  ASSUME Constants, NEW b \in Nat, NEW p \in Nat, NEW n \in Nat,
         (p % SECTOR_SIZE) + n <= SECTOR_SIZE
  PROVE  b \in p..p + n - 1 <=>
           /\ b \div SECTOR_SIZE = p \div SECTOR_SIZE
           /\ b % SECTOR_SIZE \in p % SECTOR_SIZE..(p % SECTOR_SIZE) + n - 1
<1> DEFINE S == SECTOR_SIZE
           q == p \div S
           r == p % S
<1>1. /\ S \in Nat \ {0} /\ q \in Nat /\ r \in 0..S - 1 /\ p = S * q + r
      /\ b \div S \in Nat /\ b % S \in 0..S - 1
      /\ b = S * (b \div S) + (b % S)
  BY BytePlace, Zenon DEF Constants
<1>2. ASSUME b \in p..p + n - 1
      PROVE  b \div S = q /\ b % S \in r..r + n - 1
  <2>1. b - S * q \in r..r + n - 1 /\ b - S * q \in 0..S - 1
    BY <1>1, <1>2
  <2>2. b \div S = q /\ b % S = b - S * q
    BY <1>1, <2>1
  <2> QED BY <2>1, <2>2
<1>3. ASSUME b \div S = q, b % S \in r..r + n - 1
      PROVE  b \in p..p + n - 1
  BY <1>1, <1>3
<1> QED BY <1>2, <1>3
-----------------------------------------------------------------------------
(* The steps. *)

\* With one writer, what holds of it holds of all.
LEMMA Only ==
  ASSUME Constants, NEW w \in Writer,
         WriteTypes', SectorsHold', Sound(disk)', Sound(data)',
         CallOK(w)', LengthOK(w)'
  PROVE  WriteInv'
<1>1. \A u \in Writer : u = w
  BY Zenon DEF Constants
<1> QED BY <1>1, Zenon DEF WriteInv

\* A step that stores nothing leaves the contents as they are.
LEMMA HoldUnchanged ==
  ASSUME SectorsHold, UNCHANGED <<store, file>>
  PROVE  SectorsHold'
BY Zenon DEF SectorsHold

LEMMA IdleTyped ==
  ASSUME Constants
  PROVE  EmptyInode \in InodeDisk /\ Zeros \in Sectors /\ Idle \in CallRecord
<1>1. EmptyInode \in InodeDisk
  BY DEF EmptyInode, InodeDisk, Constants
<1>2. Zeros \in Sectors
  BY DEF Zeros, Sectors, Stored
<1>3. Idle \in CallRecord
  BY <1>1, <1>2 DEF Idle, CallRecord, Stored, Constants
<1> QED BY <1>1, <1>2, <1>3

LEMMA InitOK ==
  ASSUME Constants, WriteInit
  PROVE  WriteInv
<1>1. WriteTypes
  BY IdleTyped DEF WriteInit, WriteTypes, Loc, Stored
<1>2. SectorsHold
  <2>1. store = <<>> /\ Len(store) = 0 /\ \A b \in Byte : file[b] = 0 /\ b \in Nat
    BY DEF WriteInit, Byte
  <2>2. \A b \in Byte : ~(b \div SECTOR_SIZE < 0)
    BY <2>1, BytePlace, SMT
  <2> QED BY <2>1, <2>2, Zenon DEF SectorsHold
<1>3. Sound(EmptyInode)
  BY SectorCount, SMT DEF Sound, EmptyInode
<1>4. \A w \in Writer : CallOK(w) /\ LengthOK(w)
  <2> TAKE w \in Writer
  <2>1. pc[w] = "idle" /\ disk = data /\ disk = EmptyInode /\ Len(store) = 0
    BY DEF WriteInit
  <2>2. CallOK(w)
    BY <2>1 DEF CallOK
  <2>3. LengthOK(w)
    BY <2>1, SectorCount, SMT DEF LengthOK, EmptyInode
  <2> QED BY <2>2, <2>3
<1>5. disk = EmptyInode /\ data = EmptyInode
  BY DEF WriteInit
<1> QED BY <1>1, <1>2, <1>3, <1>4, <1>5, Zenon DEF WriteInv

\* The parts of the inductive invariant, for the only writer.
LEMMA Parts ==
  ASSUME WriteInv, NEW w \in Writer
  PROVE  /\ disk \in InodeDisk /\ data \in InodeDisk
         /\ store \in Seq(Sectors) /\ file \in [Byte -> Stored]
         /\ pc \in [Writer -> Loc] /\ call \in [Writer -> CallRecord]
         /\ pc[w] \in Loc /\ call[w] \in CallRecord
         /\ SectorsHold /\ Sound(disk) /\ Sound(data)
         /\ CallOK(w) /\ LengthOK(w)
BY Zenon DEF WriteInv, WriteTypes

\* The sizes in the inodes and in a call are natural numbers.
LEMMA Sizes ==
  ASSUME Constants, WriteInv, NEW w \in Writer
  PROVE  /\ data.length \in Nat /\ disk.length \in Nat
         /\ call[w].inode_disk.length \in Nat /\ call[w].new_length \in Nat
         /\ call[w].offset \in Nat /\ call[w].size \in Nat
<1>1. \A d \in InodeDisk : d.length \in Nat
  BY DEF InodeDisk, Constants
<1>2. ASSUME NEW c \in CallRecord
      PROVE  /\ c.inode_disk \in InodeDisk /\ c.new_length \in Nat
             /\ c.offset \in Nat /\ c.size \in Nat
  <2>1. c.inode_disk \in InodeDisk /\ c.new_length \in 0..MaxByte
    BY DEF CallRecord
  <2>2. c.offset \in Nat /\ c.size \in Nat
    BY DEF CallRecord
  <2> QED BY <2>1, <2>2 DEF Constants
<1> QED BY <1>1, <1>2, Parts, Zenon

LEMMA CallKeeps ==
  ASSUME Constants, WriteInv, NEW w \in Writer,
         NEW offset \in Byte, NEW size \in 1..MaxByte, NEW v \in Value,
         Call(w, offset, size, v)
  PROVE  WriteInv'
<1> DEFINE c == [Idle EXCEPT !.offset = offset, !.size = size,
                             !.new_length = offset + size, !.value = v]
<1>1. /\ pc[w] = "idle" /\ pc' = [pc EXCEPT ![w] = "acquire"]
      /\ offset + size <= MaxByte
      /\ call' = [call EXCEPT ![w] = c]
      /\ UNCHANGED <<disk, data, store, lock, file>>
  BY Zenon DEF Call, Goto
<1>2. c \in CallRecord /\ c.offset + c.size = c.new_length
  <2>1. /\ offset \in Nat /\ size \in Nat /\ offset + size \in 0..MaxByte
        /\ v \in Stored
    BY <1>1 DEF Byte, Constants, Stored
  <2>2. Idle \in CallRecord
    BY IdleTyped, Zenon
  <2> QED BY <2>1, <2>2 DEF CallRecord
<1> HIDE DEF c
<1>3. pc'[w] = "acquire" /\ call'[w] = c
  BY <1>1, Parts, Zenon
<1>4. WriteTypes'
  BY <1>1, <1>2, Parts DEF WriteTypes, Loc
<1>5. disk = data
  BY <1>1, Parts DEF CallOK
<1>6. CallOK(w)'
  BY <1>1, <1>2, <1>3, <1>5 DEF CallOK
<1>7. LengthOK(w)'
  BY <1>1, <1>3, Parts DEF LengthOK
<1> QED BY <1>1, <1>4, <1>6, <1>7, Parts, HoldUnchanged, Only, Zenon DEF Sound

LEMMA AcquireKeeps ==
  ASSUME Constants, WriteInv, NEW w \in Writer, Acquire(w)
  PROVE  WriteInv'
<1> DEFINE c == [call[w] EXCEPT !.current = bytes_to_sectors(data.length)]
<1>1. /\ pc[w] = "acquire" /\ pc' = [pc EXCEPT ![w] = "copy"]
      /\ call' = [call EXCEPT ![w] = c]
      /\ UNCHANGED <<disk, data, store, file>>
  BY Parts DEF Acquire, Goto
<1>2. disk = data /\ call[w].offset + call[w].size = call[w].new_length
  BY <1>1, Parts DEF CallOK
<1>3. bytes_to_sectors(data.length) \in Nat
  <2>1. data.length \in Nat
    BY Parts DEF InodeDisk, Constants
  <2> QED BY <2>1, SectorCount, Zenon
<1>4. /\ c \in CallRecord /\ c.offset + c.size = c.new_length
      /\ c.current = bytes_to_sectors(data.length)
  <2>1. call[w] \in CallRecord
    BY Parts, Zenon
  <2> QED BY <1>2, <1>3, <2>1 DEF CallRecord
<1> HIDE DEF c
<1>5. pc'[w] = "copy" /\ call'[w] = c
  BY <1>1, Parts, Zenon
<1>6. WriteTypes'
  BY <1>1, <1>4, Parts DEF WriteTypes, Loc
<1>7. CallOK(w)'
  BY <1>1, <1>2, <1>4, <1>5 DEF CallOK
<1>8. LengthOK(w)'
  BY <1>1, <1>5, Parts DEF LengthOK
<1> QED BY <1>1, <1>6, <1>7, <1>8, Parts, HoldUnchanged, Only, Zenon DEF Sound

LEMMA CopyKeeps ==
  ASSUME Constants, WriteInv, NEW w \in Writer, CopyInode(w)
  PROVE  WriteInv'
<1> DEFINE c == [call[w] EXCEPT !.inode_disk = disk]
<1>1. /\ pc[w] = "copy" /\ pc' = [pc EXCEPT ![w] = "extend"]
      /\ call' = [call EXCEPT ![w] = c]
      /\ UNCHANGED <<disk, data, store, file>>
  BY Parts DEF CopyInode, Goto
<1>2. /\ disk = data /\ call[w].offset + call[w].size = call[w].new_length
      /\ call[w].current = bytes_to_sectors(disk.length)
  BY <1>1, Parts DEF CallOK
<1>3. /\ c \in CallRecord /\ c.offset + c.size = c.new_length
      /\ c.current = call[w].current /\ c.inode_disk = disk
  <2>1. call[w] \in CallRecord /\ disk \in InodeDisk
    BY Parts, Zenon
  <2> QED BY <1>2, <2>1 DEF CallRecord
<1> HIDE DEF c
<1>4. pc'[w] = "extend" /\ call'[w] = c
  BY <1>1, Parts, Zenon
<1>5. WriteTypes'
  BY <1>1, <1>3, Parts DEF WriteTypes, Loc
<1>6. CallOK(w)'
  BY <1>1, <1>2, <1>3, <1>4 DEF CallOK
<1>7. LengthOK(w)'
  BY <1>1, <1>4, Parts DEF LengthOK
<1> QED BY <1>1, <1>5, <1>6, <1>7, Parts, HoldUnchanged, Only, Zenon DEF Sound

LEMMA WriteLengthKeeps ==
  ASSUME Constants, WriteInv, NEW w \in Writer, WriteLength(w)
  PROVE  WriteInv' /\ disk.length <= disk'.length
<1>1. /\ pc[w] = "write_length" /\ pc' = [pc EXCEPT ![w] = "read_length"]
      /\ disk' = call[w].inode_disk
      /\ UNCHANGED <<data, store, call, file>>
  BY Zenon DEF WriteLength, Goto
<1>2. /\ call[w].offset + call[w].size = call[w].new_length
      /\ disk = data /\ Sound(call[w].inode_disk)
      /\ call[w].inode_disk.eof = disk.eof
      /\ disk.length < call[w].inode_disk.length
      /\ call[w].new_length <= call[w].inode_disk.length
  BY <1>1, Parts DEF CallOK
<1>3. pc'[w] = "read_length" /\ call'[w] = call[w]
  BY <1>1, Parts, Zenon
<1>4. call[w].inode_disk \in InodeDisk
  BY Parts DEF CallRecord
<1>5. WriteTypes'
  BY <1>1, <1>4, Parts DEF WriteTypes, Loc
<1>6. CallOK(w)'
  BY <1>1, <1>2, <1>3 DEF CallOK
<1>7. disk.length <= disk'.length
  BY <1>1, <1>2, <1>4, Parts DEF InodeDisk
<1>8. LengthOK(w)'
  BY <1>1, <1>2, <1>3, <1>7, Parts DEF LengthOK
<1>9. Sound(disk)' /\ Sound(data)'
  BY <1>1, <1>2, Parts, Zenon DEF Sound
<1> QED BY <1>1, <1>5, <1>6, <1>7, <1>8, <1>9, Parts, HoldUnchanged, Only, Zenon

LEMMA ReadLengthKeeps ==
  ASSUME Constants, WriteInv, NEW w \in Writer, ReadLength(w)
  PROVE  WriteInv'
<1>1. /\ pc[w] = "read_length" /\ pc' = [pc EXCEPT ![w] = "data"]
      /\ data' = disk
      /\ UNCHANGED <<disk, store, call, file>>
  BY Zenon DEF ReadLength, Goto
<1>2. /\ call[w].offset + call[w].size = call[w].new_length
      /\ call[w].inode_disk = disk
      /\ call[w].new_length <= call[w].inode_disk.length
  BY <1>1, Parts DEF CallOK
<1>3. pc'[w] = "data" /\ call'[w] = call[w]
  BY <1>1, Parts, Zenon
<1>4. WriteTypes'
  BY <1>1, Parts DEF WriteTypes, Loc
<1>5. CallOK(w)'
  BY <1>1, <1>2, <1>3 DEF CallOK
<1>6. LengthOK(w)'
  <2>1. Len(store) = bytes_to_sectors(disk.length)
    BY <1>1, Parts DEF LengthOK
  <2>2. disk.length <= disk.length
    BY Parts DEF InodeDisk
  <2> QED BY <1>1, <1>3, <2>1, <2>2 DEF LengthOK
<1>7. Sound(disk)' /\ Sound(data)'
  BY <1>1, Parts, Zenon DEF Sound
<1> QED BY <1>1, <1>4, <1>5, <1>6, <1>7, Parts, HoldUnchanged, Only, Zenon

\* Sectors in their order, and the ones after them.
LEMMA InOrder ==
  ASSUME NEW m \in Nat, NEW k \in Nat
  PROVE  /\ [i \in 1..m |-> i] \in Seq(Nat)
         /\ [i \in 1..m |-> i] \o [i \in 1..k |-> m + i] = [i \in 1..m + k |-> i]
<1> DEFINE s == [i \in 1..m |-> i]
           t == [i \in 1..k |-> m + i]
<1>1. s \in Seq(Nat) /\ t \in Seq(Nat) /\ Len(s) = m /\ Len(t) = k
  OBVIOUS
<1>2. s \o t \in Seq(Nat) /\ Len(s \o t) = m + k
  BY <1>1
<1>3. \A i \in 1..m + k : (s \o t)[i] = i
  BY <1>1
<1>4. s \o t = [i \in 1..Len(s \o t) |-> (s \o t)[i]]
  BY <1>2
<1>5. s \o t = [i \in 1..m + k |-> i]
  BY <1>2, <1>3, <1>4, Zenon
<1> QED BY <1>1, <1>5

\* The inode that Extend makes, for a call that makes the file longer and for
\* one that does not.
LEMMA Extended ==
  ASSUME Constants, WriteInv, NEW w \in Writer, Extend(w),
         NEW k, k = Max({0, bytes_to_sectors(call[w].new_length) - call[w].current}),
         NEW d, d = [call[w].inode_disk EXCEPT
                       !.blocks = @ \o [i \in 1..k |-> Len(store) + i],
                       !.length = Max({@, call[w].new_length})]
  PROVE  /\ k \in Nat /\ d \in InodeDisk /\ Sound(d) /\ d.eof = disk.eof
         /\ Len(store) + k = bytes_to_sectors(d.length)
         /\ call[w].new_length <= d.length
         /\ IF call[w].new_length > disk.length THEN disk.length < d.length
            ELSE d = disk
<1> DEFINE n == call[w].new_length
           l == disk.length
<1>1. pc[w] = "extend"
  BY Zenon DEF Extend, Goto
<1>2. call[w].current = bytes_to_sectors(l) /\ call[w].inode_disk = disk
  BY <1>1, Parts DEF CallOK
<1>3. Len(store) = bytes_to_sectors(l)
  BY <1>1, Parts DEF LengthOK
<1>4. /\ n \in 0..MaxByte /\ l \in 0..MaxByte /\ disk.eof \in 0..MaxByte
      /\ disk.blocks \in Seq(Nat) /\ disk \in InodeDisk /\ MaxByte \in Nat
  BY Parts DEF InodeDisk, CallRecord, Constants
<1>5. disk.eof <= l /\ disk.blocks = [i \in 1..bytes_to_sectors(l) |-> i]
  BY Parts, Zenon DEF Sound
<1>6. /\ d = [disk EXCEPT !.blocks = @ \o [i \in 1..k |-> Len(store) + i],
                          !.length = Max({@, n})]
      /\ k = Max({0, bytes_to_sectors(n) - bytes_to_sectors(l)})
  BY <1>2, Zenon
<1>7. /\ d.blocks = disk.blocks \o [i \in 1..k |-> Len(store) + i]
      /\ d.length = Max({l, n}) /\ d.eof = disk.eof
  BY <1>4, <1>6 DEF InodeDisk
<1>8. Max({l, n}) = IF l <= n THEN n ELSE l
  BY <1>4, Max2
<1>9. /\ bytes_to_sectors(l) \in Nat /\ bytes_to_sectors(n) \in Nat
      /\ l <= n => bytes_to_sectors(l) <= bytes_to_sectors(n)
      /\ n <= l => bytes_to_sectors(n) <= bytes_to_sectors(l)
  BY <1>4, SectorCount
<1>10. k = IF l <= n THEN bytes_to_sectors(n) - bytes_to_sectors(l) ELSE 0
  <2>1. k = IF 0 <= bytes_to_sectors(n) - bytes_to_sectors(l)
              THEN bytes_to_sectors(n) - bytes_to_sectors(l) ELSE 0
    BY <1>6, <1>9, Max2
  <2> QED BY <1>4, <1>9, <2>1
<1>11. k \in Nat /\ Len(store) + k = bytes_to_sectors(d.length)
  <2> HIDE DEF n, l
  <2>1. d.length = IF l <= n THEN n ELSE l
    BY <1>7, <1>8
  <2> QED BY <1>3, <1>9, <1>10, <2>1
<1>12. d.blocks = [i \in 1..bytes_to_sectors(d.length) |-> i]
  <2>1. /\ disk.blocks = [i \in 1..Len(store) |-> i] /\ Len(store) \in Nat
        /\ d.blocks = disk.blocks \o [i \in 1..k |-> Len(store) + i]
    BY <1>3, <1>5, <1>7, <1>9
  <2>2. d.blocks = [i \in 1..Len(store) + k |-> i]
    BY <1>11, <2>1, InOrder, Zenon
  <2> QED BY <1>11, <2>2, Zenon
<1>13. d \in InodeDisk
  <2>1. d.blocks \in Seq(Nat)
    <3>1. bytes_to_sectors(d.length) \in Nat
      BY <1>3, <1>9, <1>11
    <3> QED BY <1>12, <3>1, InOrder, Zenon
  <2>2. disk.blocks \o [i \in 1..k |-> Len(store) + i] \in Seq(Nat)
    BY <1>7, <2>1
  <2>3. Max({l, n}) \in 0..MaxByte
    BY <1>4, <1>8
  <2> QED BY <1>4, <1>6, <2>2, <2>3 DEF InodeDisk
<1>14. /\ n <= d.length /\ l <= d.length /\ (n > l => l < d.length)
       /\ (~(n > l) => d.length = l)
       /\ \A e \in Int : e <= l => e <= d.length
  <2>1. n \in Int /\ l \in Int
    BY <1>4
  <2> HIDE DEF n, l
  <2> QED BY <1>7, <1>8, <2>1, Larger, Zenon
<1>15. ASSUME ~(n > l) PROVE d = disk
  <2>1. d.length = l
    BY <1>14, <1>15, Zenon
  <2>2. d.blocks = disk.blocks
    BY <1>5, <1>12, <2>1
  <2> QED BY <1>4, <1>7, <1>13, <2>1, <2>2 DEF InodeDisk
<1>16. Sound(d)
  <2>1. disk.eof \in Int
    BY <1>4
  <2>2. d.eof <= d.length
    BY <1>5, <1>7, <1>14, <2>1, Zenon
  <2> QED BY <1>12, <2>2, Zenon DEF Sound
<1> QED BY <1>7, <1>11, <1>13, <1>14, <1>15, <1>16

\* Sectors of zeros after the ones the file has.
LEMMA ZerosAdded ==
  ASSUME Constants, SectorsHold, store \in Seq(Sectors), NEW k \in Nat,
         store' = store \o [i \in 1..k |-> Zeros], UNCHANGED file
  PROVE  SectorsHold' /\ store' \in Seq(Sectors) /\ Len(store') = Len(store) + k
<1> DEFINE z == [i \in 1..k |-> Zeros]
<1>1. Zeros \in Sectors
  BY IdleTyped, Zenon
<1>2. z \in Seq(Sectors) /\ Len(z) = k /\ \A i \in 1..k : z[i] = Zeros
  BY <1>1
<1> HIDE DEF z
<1>3. /\ store' \in Seq(Sectors) /\ Len(store') = Len(store) + k
      /\ \A i \in 1..Len(store) : store'[i] = store[i]
      /\ \A i \in Len(store) + 1..Len(store) + k : store'[i] = Zeros
  <2>1. store' = store \o z
    BY DEF z
  <2> QED BY <1>2, <2>1
<1>4. ASSUME NEW b \in Byte
      PROVE  file[b] = IF b \div SECTOR_SIZE < Len(store')
                         THEN store'[b \div SECTOR_SIZE + 1][b % SECTOR_SIZE] ELSE 0
  <2>1. /\ b \div SECTOR_SIZE \in Nat /\ b % SECTOR_SIZE \in 0..SECTOR_SIZE - 1
        /\ Len(store) \in Nat
    <3>1. b \in Nat
      BY DEF Byte
    <3> QED BY <3>1, BytePlace
  <2>2. file[b] = IF b \div SECTOR_SIZE < Len(store)
                    THEN store[b \div SECTOR_SIZE + 1][b % SECTOR_SIZE] ELSE 0
    BY Zenon DEF SectorsHold
  <2>3. Zeros[b % SECTOR_SIZE] = 0
    BY <2>1, Zenon DEF Zeros
  <2> DEFINE q == b \div SECTOR_SIZE
             r == b % SECTOR_SIZE
  <2> HIDE DEF q, r
  <2>4. /\ q \in Nat /\ Len(store) \in Nat /\ Zeros[r] = 0
        /\ file[b] = IF q < Len(store) THEN store[q + 1][r] ELSE 0
    BY <2>1, <2>2, <2>3, Zenon DEF q, r
  <2>5. CASE q < Len(store)
    <3>1. q + 1 \in 1..Len(store) /\ q < Len(store')
      BY <1>3, <2>4, <2>5
    <3>2. store'[q + 1] = store[q + 1]
      BY <1>3, <3>1, Zenon
    <3> QED BY <2>4, <2>5, <3>1, <3>2, Zenon DEF q, r
  <2>6. CASE ~(q < Len(store)) /\ q < Len(store')
    <3>1. q + 1 \in Len(store) + 1..Len(store) + k
      BY <1>3, <2>4, <2>6
    <3>2. store'[q + 1] = Zeros
      BY <1>3, <3>1, Zenon
    <3> QED BY <2>4, <2>6, <3>2, Zenon DEF q, r
  <2>7. CASE ~(q < Len(store)) /\ ~(q < Len(store'))
    BY <2>4, <2>7, Zenon DEF q, r
  <2> QED BY <2>5, <2>6, <2>7, Zenon
<1>5. SectorsHold'
  BY <1>4, Zenon DEF SectorsHold, Byte
<1> QED BY <1>3, <1>5, Zenon

LEMMA ExtendKeeps ==
  ASSUME Constants, WriteInv, NEW w \in Writer, Extend(w)
  PROVE  WriteInv'
<1> DEFINE k == Max({0, bytes_to_sectors(call[w].new_length) - call[w].current})
           d == [call[w].inode_disk EXCEPT
                   !.blocks = @ \o [i \in 1..k |-> Len(store) + i],
                   !.length = Max({@, call[w].new_length})]
<1>1. /\ pc[w] = "extend"
      /\ pc' = [pc EXCEPT ![w] = IF call[w].new_length > call[w].inode_disk.length
                                   THEN "write_length" ELSE "data"]
      /\ store' = store \o [i \in 1..k |-> Zeros]
      /\ call' = [call EXCEPT ![w].inode_disk = d]
      /\ UNCHANGED <<disk, data, file>>
  BY Zenon DEF Extend, Goto
<1>2. /\ k \in Nat /\ d \in InodeDisk /\ Sound(d) /\ d.eof = disk.eof
      /\ Len(store) + k = bytes_to_sectors(d.length)
      /\ call[w].new_length <= d.length
      /\ IF call[w].new_length > disk.length THEN disk.length < d.length
         ELSE d = disk
  <2>1. PICK n : n = k
    OBVIOUS
  <2>2. PICK e : e = [call[w].inode_disk EXCEPT
                        !.blocks = @ \o [i \in 1..n |-> Len(store) + i],
                        !.length = Max({@, call[w].new_length})]
    OBVIOUS
  <2>3. e = d
    BY <2>1, <2>2
  <2>4. /\ n \in Nat /\ e \in InodeDisk /\ Sound(e) /\ e.eof = disk.eof
        /\ Len(store) + n = bytes_to_sectors(e.length)
        /\ call[w].new_length <= e.length
        /\ IF call[w].new_length > disk.length THEN disk.length < e.length
           ELSE e = disk
    BY <2>1, <2>2, Extended, Zenon
  <2> HIDE DEF k, d
  <2> QED BY <2>1, <2>3, <2>4, Zenon
<1> HIDE DEF k, d
<1> DEFINE c == [call[w] EXCEPT !.inode_disk = d]
           longer == call[w].new_length > disk.length
<1>3. /\ call[w].inode_disk = disk /\ disk = data
      /\ call[w].offset + call[w].size = call[w].new_length
  BY <1>1, Parts DEF CallOK
<1>4. /\ pc' = [pc EXCEPT ![w] = IF longer THEN "write_length" ELSE "data"]
      /\ store' = store \o [i \in 1..k |-> Zeros]
      /\ call' = [call EXCEPT ![w] = c]
      /\ UNCHANGED <<disk, data, file>>
  BY <1>1, <1>3, Zenon
<1>5. /\ c \in CallRecord /\ c.offset + c.size = c.new_length
      /\ c.new_length = call[w].new_length /\ c.inode_disk = d
  <2>1. call[w] \in CallRecord /\ d \in InodeDisk
    BY <1>2, Parts, Zenon
  <2> QED BY <1>3, <2>1 DEF CallRecord
<1> HIDE DEF c
<1>6. /\ pc'[w] = IF longer THEN "write_length" ELSE "data"
      /\ call'[w] = c
  BY <1>4, Parts, Zenon
<1>7. SectorsHold' /\ store' \in Seq(Sectors) /\ Len(store') = Len(store) + k
  BY <1>2, <1>4, Parts, ZerosAdded, Zenon
<1>8. WriteTypes'
  <2>1. pc' \in [Writer -> Loc] /\ call' \in [Writer -> CallRecord]
    BY <1>4, <1>5, Parts DEF Loc
  <2> QED BY <1>4, <1>7, <2>1, Parts, Zenon DEF WriteTypes
<1>9. Sound(disk)' /\ Sound(data)' /\ Sound(d)
  BY <1>2, <1>4, Parts, Zenon DEF Sound
<1>10. CallOK(w)' /\ LengthOK(w)'
  <2>1. CASE longer
    <3>1. pc'[w] = "write_length" /\ disk.length < d.length
      BY <1>2, <1>6, <2>1, Zenon
    <3>2. Sound(call[w].inode_disk)'
      BY <1>5, <1>6, <1>9 DEF Sound
    <3>3. CallOK(w)'
      BY <1>2, <1>3, <1>4, <1>5, <1>6, <3>1, <3>2 DEF CallOK
    <3>4. LengthOK(w)'
      BY <1>2, <1>4, <1>5, <1>6, <1>7, <3>1, Parts DEF LengthOK
    <3> QED BY <3>3, <3>4
  <2>2. CASE ~longer
    <3>1. pc'[w] = "data" /\ d = disk
      BY <1>2, <1>6, <2>2, Zenon
    <3>2. CallOK(w)'
      BY <1>2, <1>3, <1>4, <1>5, <1>6, <3>1 DEF CallOK
    <3>3. LengthOK(w)'
      BY <1>2, <1>4, <1>5, <1>6, <1>7, <3>1, Parts DEF LengthOK
    <3> QED BY <3>2, <3>3
  <2> QED BY <2>1, <2>2
<1> QED BY <1>7, <1>8, <1>9, <1>10, Only, Zenon

\* What inode_write_at knows in the loop over the data: a chunk lies in one
\* sector, which the file has.
LEMMA ChunkInFile ==
  ASSUME Constants, WriteInv, NEW w \in Writer, pc[w] = "data"
  PROVE  LET p == call[w].offset
             n == ChunkSize(w)
         IN /\ n \in Int /\ n <= call[w].size
            /\ (p % SECTOR_SIZE) + n <= SECTOR_SIZE
            /\ n >= 1 => /\ p \div SECTOR_SIZE + 1 \in 1..Len(store)
                         /\ byte_to_sector(data, p) = p \div SECTOR_SIZE + 1
<1> DEFINE p == call[w].offset
           n == ChunkSize(w)
           q == p \div SECTOR_SIZE
<1>1. /\ p \in Nat /\ call[w].size \in Nat /\ data.length \in Nat
      /\ call[w].new_length \in Nat
  BY Sizes, Zenon
<1>2. q \in Nat /\ p % SECTOR_SIZE \in 0..SECTOR_SIZE - 1 /\ SECTOR_SIZE \in Nat
  BY <1>1, BytePlace DEF Constants
<1>3. /\ n \in Int /\ n <= call[w].size
      /\ n <= SECTOR_SIZE - (p % SECTOR_SIZE)
  <2>1. n = Min({call[w].size, data.length - p, SECTOR_SIZE - (p % SECTOR_SIZE)})
    BY Zenon DEF ChunkSize
  <2>2. /\ call[w].size \in Int /\ data.length - p \in Int
        /\ SECTOR_SIZE - (p % SECTOR_SIZE) \in Int
    BY <1>1, <1>2
  <2> HIDE DEF n
  <2>3. /\ n \in {call[w].size, data.length - p, SECTOR_SIZE - (p % SECTOR_SIZE)}
        /\ n <= call[w].size /\ n <= SECTOR_SIZE - (p % SECTOR_SIZE)
    BY <2>1, <2>2, Min3, Zenon
  <2> QED BY <2>2, <2>3
<1>4. /\ p + call[w].size = call[w].new_length /\ call[w].inode_disk = disk
      /\ call[w].new_length <= call[w].inode_disk.length /\ disk = data
  BY Parts DEF CallOK
<1>5. Len(store) = bytes_to_sectors(data.length)
  BY <1>4, Parts DEF LengthOK
<1>6. data.blocks = [i \in 1..Len(store) |-> i]
  BY <1>5, Parts, Zenon DEF Sound
<1> HIDE DEF p, n, q
<1>7. ASSUME n >= 1
      PROVE  q + 1 \in 1..Len(store) /\ byte_to_sector(data, p) = q + 1
  <2>1. p < data.length
    BY <1>1, <1>3, <1>4, <1>7
  <2>2. q \in Nat /\ q < Len(store) /\ Len(store) \in Nat
    <3>1. p \div SECTOR_SIZE < bytes_to_sectors(data.length) /\ Len(store) \in Nat
      BY <1>1, <1>5, <2>1, SectorCount
    <3> QED BY <1>2, <1>5, <3>1, Zenon DEF q
  <2>3. q + 1 \in 1..Len(store)
    BY <2>2
  <2> QED BY <1>6, <2>3, Zenon DEF byte_to_sector, q
<1>8. (p % SECTOR_SIZE) + n <= SECTOR_SIZE
  BY <1>2, <1>3
<1> QED BY <1>3, <1>7, <1>8, Zenon DEF p, n, q

\* A chunk as large as a sector is the whole sector.
LEMMA WholeSector ==
  ASSUME NEW S \in Nat, NEW o \in 0..S - 1, NEW n \in Nat, o + n <= S, ~(n < S)
  PROVE  \A i \in 0..S - 1 : i \in o..o + n - 1
OBVIOUS

LEMMA SameSector ==
  ASSUME NEW q \in Nat, NEW u \in Nat, NEW l \in Nat, NEW s \in 1..l, s = u + 1
  PROVE  (q = u <=> q + 1 = s) /\ (q + 1 = s => q < l)
OBVIOUS

\* A chunk in its sector: each byte of the file is where it was stored last.
LEMMA ChunkStored ==
  ASSUME Constants, WriteInv, NEW w \in Writer, NEW n \in Nat \ {0},
         LET p == call[w].offset
         IN (p % SECTOR_SIZE) + n <= SECTOR_SIZE,
         NEW s \in 1..Len(store), s = call[w].offset \div SECTOR_SIZE + 1,
         NEW old \in Sectors, n < SECTOR_SIZE => old = store[s],
         StoreChunk(w, s, n, old)
  PROVE  /\ SectorsHold'
         /\ store' \in Seq(Sectors) /\ Len(store') = Len(store)
         /\ file' \in [Byte -> Stored]
<1> DEFINE p == call[w].offset
           o == p % SECTOR_SIZE
           v == call[w].value
           new == [i \in 0..SECTOR_SIZE - 1 |->
                     IF i \in o..o + n - 1 THEN v ELSE old[i]]
<1>1. /\ store' = [store EXCEPT ![s] = new]
      /\ file' = [b \in Byte |-> IF b \in p..p + n - 1 THEN v ELSE file[b]]
  BY Zenon DEF StoreChunk
<1>2. /\ p \in Nat /\ v \in Stored /\ store \in Seq(Sectors)
      /\ file \in [Byte -> Stored] /\ SECTOR_SIZE \in Nat \ {0}
  BY Parts DEF CallRecord, Constants
<1>3. new \in Sectors
  BY <1>2, Zenon DEF Sectors
<1>4. \A i \in 0..SECTOR_SIZE - 1 :
        new[i] = IF i \in o..o + n - 1 THEN v ELSE store[s][i]
  <2>1. CASE n < SECTOR_SIZE
    BY <2>1, Zenon
  <2>2. CASE ~(n < SECTOR_SIZE)
    <3>1. \A i \in 0..SECTOR_SIZE - 1 : i \in o..o + n - 1
      <4>1. o \in 0..SECTOR_SIZE - 1 /\ o + n <= SECTOR_SIZE
        BY <1>2, BytePlace, Zenon
      <4>2. SECTOR_SIZE \in Nat /\ n \in Nat
        BY <1>2, Zenon
      <4> QED BY <2>2, <4>1, <4>2, WholeSector, Zenon
    <3> QED BY <3>1, Zenon
  <2> QED BY <2>1, <2>2, Zenon
<1> HIDE DEF new
<1>5. /\ store' \in Seq(Sectors) /\ Len(store') = Len(store) /\ store'[s] = new
      /\ \A i \in 1..Len(store) : i # s => store'[i] = store[i]
  BY <1>1, <1>2, <1>3
<1>6. file' \in [Byte -> Stored]
  BY <1>1, <1>2, Zenon
<1>7. ASSUME NEW b \in Byte
      PROVE  file'[b] = IF b \div SECTOR_SIZE < Len(store')
                          THEN store'[b \div SECTOR_SIZE + 1][b % SECTOR_SIZE] ELSE 0
  <2> DEFINE q == b \div SECTOR_SIZE
             r == b % SECTOR_SIZE
  <2>1. b \in Nat
    BY DEF Byte
  <2>2. q \in Nat /\ r \in 0..SECTOR_SIZE - 1 /\ p \div SECTOR_SIZE \in Nat
    BY <1>2, <2>1, BytePlace, Zenon
  <2>3. b \in p..p + n - 1 <=> q = p \div SECTOR_SIZE /\ r \in o..o + n - 1
    BY <1>2, <2>1, ChunkPlace, Zenon
  <2>4. file[b] = IF q < Len(store) THEN store[q + 1][r] ELSE 0
    BY Parts, Zenon DEF SectorsHold
  <2>5. file'[b] = IF b \in p..p + n - 1 THEN v ELSE file[b]
    BY <1>1, Zenon
  <2> HIDE DEF q, r, o, p, v
  <2>6. Len(store) \in Nat /\ (q = p \div SECTOR_SIZE <=> q + 1 = s)
        /\ (q + 1 = s => q < Len(store))
    <3>1. Len(store) \in Nat
      BY <1>2, Zenon, LenProperties
    <3> QED BY <2>2, <3>1, SameSector, Zenon DEF p
  <2>7. CASE q + 1 = s
    <3>1. store'[q + 1][r] = IF r \in o..o + n - 1 THEN v ELSE store[s][r]
      BY <1>4, <1>5, <2>2, <2>7, Zenon
    <3>2. q < Len(store') /\ q < Len(store)
      BY <1>5, <2>6, <2>7, Zenon
    <3>3. file'[b] = IF r \in o..o + n - 1 THEN v ELSE store[q + 1][r]
      BY <2>3, <2>4, <2>5, <2>6, <2>7, <3>2, Zenon
    <3> QED BY <2>7, <3>1, <3>2, <3>3, Zenon DEF q, r
  <2>8. CASE q + 1 # s
    <3>1. file'[b] = IF q < Len(store) THEN store[q + 1][r] ELSE 0
      BY <2>3, <2>4, <2>5, <2>6, <2>8, Zenon
    <3>2. ASSUME q < Len(store) PROVE store'[q + 1] = store[q + 1]
      <4>1. q + 1 \in 1..Len(store)
        BY <2>2, <2>6, <3>2
      <4> QED BY <1>5, <2>8, <4>1, Zenon
    <3> QED BY <1>5, <3>1, <3>2, Zenon DEF q, r
  <2> QED BY <2>7, <2>8, Zenon
<1> QED BY <1>5, <1>6, <1>7, Zenon DEF SectorsHold, Byte

LEMMA NextChunk ==
  ASSUME NEW a \in Nat, NEW z \in Nat, NEW n \in Nat, n <= z
  PROVE  a + n \in Nat /\ z - n \in Nat /\ (a + n) + (z - n) = a + z
OBVIOUS

\* memcpy, block_write and the step to the next chunk.
LEMMA StoreKeeps ==
  ASSUME Constants, WriteInv, NEW w \in Writer, NEW n \in Nat \ {0},
         pc[w] \in {"data", "bounce"}, n <= call[w].size,
         LET p == call[w].offset
         IN (p % SECTOR_SIZE) + n <= SECTOR_SIZE,
         NEW s \in 1..Len(store), s = call[w].offset \div SECTOR_SIZE + 1,
         NEW old \in Sectors, n < SECTOR_SIZE => old = store[s],
         StoreChunk(w, s, n, old),
         pc' = [pc EXCEPT ![w] = "data"], UNCHANGED <<disk, data>>
  PROVE  WriteInv'
<1> DEFINE c == [call[w] EXCEPT !.offset = @ + n, !.size = @ - n,
                   !.sector_idx = 0, !.chunk_size = 0, !.bounce = Zeros]
<1>1. call' = [call EXCEPT ![w] = c]
  BY Zenon DEF StoreChunk
<1>2. /\ SectorsHold'
      /\ store' \in Seq(Sectors) /\ Len(store') = Len(store)
      /\ file' \in [Byte -> Stored]
  BY ChunkStored, Zenon
<1>3. /\ call[w].offset + call[w].size = call[w].new_length
      /\ call[w].inode_disk = disk /\ disk = data
      /\ call[w].new_length <= call[w].inode_disk.length
  BY Parts DEF CallOK
<1>4. /\ c \in CallRecord /\ c.offset + c.size = c.new_length
      /\ c.inode_disk = call[w].inode_disk /\ c.new_length = call[w].new_length
  <2>1. call[w] \in CallRecord /\ Zeros \in Sectors
    BY Parts, IdleTyped, Zenon
  <2>2. /\ call[w].offset \in Nat /\ call[w].size \in Nat
        /\ call[w].new_length \in Nat
    BY <2>1 DEF CallRecord, Constants
  <2>3. PICK p, z : p = call[w].offset + n /\ z = call[w].size - n
    OBVIOUS
  <2>4. p \in Nat /\ z \in Nat /\ p + z = call[w].new_length
    <3>1. n \in Nat
      BY Zenon
    <3>2. /\ call[w].offset + n \in Nat /\ call[w].size - n \in Nat
          /\ (call[w].offset + n) + (call[w].size - n)
               = call[w].offset + call[w].size
      <4>1. /\ call[w].offset \in Nat /\ call[w].size \in Nat /\ n \in Nat
            /\ n <= call[w].size
        BY <2>2, <3>1, Zenon
      <4>2. \A a, y \in Nat : n <= y =>
              a + n \in Nat /\ y - n \in Nat /\ (a + n) + (y - n) = a + y
        BY <3>1, NextChunk
      <4> QED BY <4>1, <4>2, Zenon
    <3> QED BY <1>3, <2>3, <3>2, Zenon
  <2>5. c = [call[w] EXCEPT !.offset = p, !.size = z,
               !.sector_idx = 0, !.chunk_size = 0, !.bounce = Zeros]
    BY <2>3, Zenon
  <2> HIDE DEF c
  <2> QED BY <2>1, <2>4, <2>5 DEF CallRecord
<1> HIDE DEF c
<1>5. pc'[w] = "data" /\ call'[w] = c
  BY <1>1, Parts, Zenon
<1>6. WriteTypes'
  <2>1. pc' \in [Writer -> Loc] /\ call' \in [Writer -> CallRecord]
    BY <1>1, <1>4, Parts, Zenon DEF Loc
  <2> QED BY <1>2, <2>1, Parts, Zenon DEF WriteTypes
<1>7. CallOK(w)'
  <2>1. /\ c.offset + c.size = c.new_length /\ c.inode_disk = disk'
        /\ disk' = data' /\ c.new_length <= c.inode_disk.length
    BY <1>3, <1>4, Zenon
  <2> QED BY <1>5, <2>1, Zenon DEF CallOK
<1>8. LengthOK(w)'
  <2>1. data'.length <= disk'.length /\ pc[w] # "write_length"
    BY Parts, Zenon DEF LengthOK
  <2>2. Len(store') = bytes_to_sectors(disk'.length)
    BY <1>2, <2>1, Parts, Zenon DEF LengthOK
  <2>3. pc'[w] # "write_length"
    BY <1>5, Zenon
  <2> QED BY <2>1, <2>2, <2>3, Zenon DEF LengthOK
<1>9. Sound(disk)' /\ Sound(data)'
  BY Parts, Zenon DEF Sound
<1> QED BY <1>2, <1>6, <1>7, <1>8, <1>9, Only, Zenon

LEMMA WriteSectorKeeps ==
  ASSUME Constants, WriteInv, NEW w \in Writer, WriteSector(w)
  PROVE  WriteInv'
<1> DEFINE s == call[w].offset \div SECTOR_SIZE + 1
<1>1. pc[w] = "data" /\ ChunkSize(w) = SECTOR_SIZE /\ UNCHANGED <<disk, data, pc>>
  BY Zenon DEF WriteSector
<1>2. SECTOR_SIZE \in Nat \ {0} /\ ~(SECTOR_SIZE < SECTOR_SIZE) /\ SECTOR_SIZE >= 1
  BY DEF Constants
<1>3. /\ SECTOR_SIZE <= call[w].size
      /\ LET p == call[w].offset IN (p % SECTOR_SIZE) + SECTOR_SIZE <= SECTOR_SIZE
      /\ s \in 1..Len(store) /\ byte_to_sector(data, call[w].offset) = s
  BY <1>1, <1>2, ChunkInFile, Zenon
<1>4. StoreChunk(w, s, SECTOR_SIZE, Zeros)
  BY <1>3, Zenon DEF WriteSector
<1>5. pc' = [pc EXCEPT ![w] = "data"]
  BY <1>1, Parts, Zenon
<1>6. Zeros \in Sectors
  BY IdleTyped, Zenon
<1> QED BY <1>1, <1>2, <1>3, <1>4, <1>5, <1>6, StoreKeeps, Zenon

LEMMA ReadBounceKeeps ==
  ASSUME Constants, WriteInv, NEW w \in Writer, ReadBounce(w)
  PROVE  WriteInv'
<1> DEFINE s == call[w].offset \div SECTOR_SIZE + 1
           n == ChunkSize(w)
           c == [call[w] EXCEPT !.sector_idx = s, !.chunk_size = n,
                                !.bounce = store[s], !.has_bounce = TRUE]
<1>1. /\ pc[w] = "data" /\ pc' = [pc EXCEPT ![w] = "bounce"]
      /\ n \in 1..SECTOR_SIZE - 1
      /\ UNCHANGED <<disk, data, store, file>>
  BY Zenon DEF ReadBounce, Goto
<1>2. n >= 1 /\ n \in Nat
  BY <1>1 DEF Constants
<1>3. /\ n <= call[w].size
      /\ (call[w].offset % SECTOR_SIZE) + n <= SECTOR_SIZE
      /\ s \in 1..Len(store) /\ byte_to_sector(data, call[w].offset) = s
  BY <1>1, <1>2, ChunkInFile, Zenon
<1>4. call' = [call EXCEPT ![w] = c]
  BY <1>3, Zenon DEF ReadBounce
<1>5. /\ call[w].offset + call[w].size = call[w].new_length
      /\ call[w].inode_disk = disk /\ disk = data
      /\ call[w].new_length <= call[w].inode_disk.length
  BY <1>1, Parts DEF CallOK
<1>6. call[w] \in CallRecord /\ store \in Seq(Sectors)
  BY Parts, Zenon
<1>7. s \in Nat /\ store[s] \in Sectors /\ s <= Len(store)
  <2> HIDE DEF s, n, c
  <2> QED BY <1>3, <1>6
<1>8. c \in CallRecord
  <2> HIDE DEF s, n
  <2> QED BY <1>2, <1>6, <1>7 DEF CallRecord
<1>9. /\ c.offset = call[w].offset /\ c.size = call[w].size
      /\ c.new_length = call[w].new_length /\ c.inode_disk = call[w].inode_disk
      /\ c.sector_idx = s /\ c.chunk_size = n /\ c.bounce = store[s]
  <2> HIDE DEF s, n
  <2> QED BY <1>6 DEF CallRecord
<1> HIDE DEF c
<1>10. pc'[w] = "bounce" /\ call'[w] = c
  BY <1>1, <1>4, Parts, Zenon
<1>11. WriteTypes'
  <2>1. pc' \in [Writer -> Loc] /\ call' \in [Writer -> CallRecord]
    BY <1>1, <1>4, <1>8, Parts, Zenon DEF Loc
  <2> QED BY <1>1, <2>1, Parts, Zenon DEF WriteTypes
<1>12. CallOK(w)'
  BY <1>1, <1>2, <1>3, <1>5, <1>7, <1>9, <1>10, Zenon DEF CallOK
<1>13. LengthOK(w)'
  <2>1. data'.length <= disk'.length /\ pc[w] # "write_length"
    BY <1>1, Parts, Zenon DEF LengthOK
  <2>2. Len(store') = bytes_to_sectors(disk'.length)
    BY <1>1, <2>1, Parts, Zenon DEF LengthOK
  <2>3. pc'[w] # "write_length"
    BY <1>10, Zenon
  <2> QED BY <2>1, <2>2, <2>3, Zenon DEF LengthOK
<1>14. Sound(disk)' /\ Sound(data)' /\ SectorsHold'
  BY <1>1, Parts, HoldUnchanged, Zenon DEF Sound
<1> QED BY <1>11, <1>12, <1>13, <1>14, Only, Zenon

LEMMA WriteBounceKeeps ==
  ASSUME Constants, WriteInv, NEW w \in Writer, WriteBounce(w)
  PROVE  WriteInv'
<1> DEFINE n == call[w].chunk_size
           s == call[w].sector_idx
<1>1. /\ pc[w] = "bounce" /\ pc' = [pc EXCEPT ![w] = "data"]
      /\ StoreChunk(w, s, n, call[w].bounce)
      /\ UNCHANGED <<disk, data>>
  BY Zenon DEF WriteBounce, Goto
<1>2. /\ n >= 1 /\ n <= call[w].size
      /\ s = call[w].offset \div SECTOR_SIZE + 1
      /\ LET p == call[w].offset IN (p % SECTOR_SIZE) + n <= SECTOR_SIZE
      /\ s <= Len(store) /\ call[w].bounce = store[s]
  BY <1>1, Parts, Zenon DEF CallOK
<1>3. call[w].bounce \in Sectors
  BY Parts DEF CallRecord
<1>4. n \in Nat \ {0} /\ s \in 1..Len(store)
  <2>1. n \in Nat /\ call[w].offset \in Nat /\ store \in Seq(Sectors)
    BY Parts DEF CallRecord
  <2>2. call[w].offset \div SECTOR_SIZE \in Nat
    BY <2>1, BytePlace, Zenon
  <2> QED BY <1>2, <2>1, <2>2
<1> QED BY <1>1, <1>2, <1>3, <1>4, StoreKeeps, Zenon

LEMMA BounceFailsKeeps ==
  ASSUME Constants, WriteInv, NEW w \in Writer, BounceFails(w)
  PROVE  WriteInv'
<1>1. /\ pc[w] = "data" /\ pc' = [pc EXCEPT ![w] = "eof"]
      /\ UNCHANGED <<disk, data, store, call, file>>
  BY Zenon DEF BounceFails, Goto
<1>2. pc'[w] = "eof"
  BY <1>1, Parts, Zenon
<1>3. WriteTypes'
  BY <1>1, Parts, Zenon DEF WriteTypes, Loc
<1>4. CallOK(w)'
  BY <1>1, <1>2, Parts DEF CallOK
<1>5. LengthOK(w)'
  BY <1>1, <1>2, Parts DEF LengthOK
<1> QED BY <1>1, <1>3, <1>4, <1>5, Parts, HoldUnchanged, Only, Zenon DEF Sound

\* The new end of file is within the length: the writer has made the file long
\* enough before.
LEMMA WriteEofKeeps ==
  ASSUME Constants, WriteInv, NEW w \in Writer, WriteEof(w)
  PROVE  WriteInv' /\ disk'.length = disk.length
<1> DEFINE n == call[w].new_length
           d == [call[w].inode_disk EXCEPT !.eof = Max({@, n})]
           longer == n > call[w].inode_disk.eof
<1>1. /\ pc[w] \in {"eof", "data"}
      /\ pc' = [pc EXCEPT ![w] = IF longer THEN "read_eof" ELSE "idle"]
      /\ disk' = IF longer THEN d ELSE disk
      /\ call' = [call EXCEPT ![w] = Idle]
      /\ UNCHANGED <<data, store, file>>
  BY Zenon DEF WriteEof
<1>2. /\ call[w].inode_disk = disk /\ disk = data
      /\ n <= call[w].inode_disk.length
  BY <1>1, Parts DEF CallOK
<1>3. /\ n \in 0..MaxByte /\ disk.eof \in 0..MaxByte /\ disk.length \in 0..MaxByte
      /\ disk \in InodeDisk /\ MaxByte \in Nat
  BY Parts DEF CallRecord, InodeDisk, Constants
<1>4. PICK e : e = Max({disk.eof, n})
  OBVIOUS
<1>5. e \in 0..MaxByte /\ e <= disk.length
  <2>1. e = IF disk.eof <= n THEN n ELSE disk.eof
    BY <1>3, <1>4, Max2
  <2>2. disk.eof <= disk.length
    BY Parts, Zenon DEF Sound
  <2> QED BY <1>2, <1>3, <2>1, <2>2
<1>6. d = [disk EXCEPT !.eof = e]
  BY <1>2, <1>4, Zenon
<1> HIDE DEF d
<1>7. /\ d \in InodeDisk /\ d.length = disk.length /\ d.eof = e
      /\ d.blocks = disk.blocks
  BY <1>3, <1>5, <1>6 DEF InodeDisk
<1>8. Sound(d)
  BY <1>5, <1>7, Parts, Zenon DEF Sound
<1>9. /\ disk' \in InodeDisk /\ disk'.length = disk.length
      /\ Sound(disk)' /\ Sound(data)'
  <2>1. Sound(disk) /\ Sound(data)
    BY Parts, Zenon
  <2>2. disk' = d \/ disk' = disk
    BY <1>1, Zenon
  <2> QED BY <1>1, <1>3, <1>7, <1>8, <2>1, <2>2, Zenon DEF Sound
<1>10. /\ pc'[w] = IF longer THEN "read_eof" ELSE "idle"
       /\ call'[w] = Idle /\ Idle \in CallRecord
  BY <1>1, Parts, IdleTyped, Zenon
<1>11. WriteTypes'
  <2>1. pc' \in [Writer -> Loc] /\ call' \in [Writer -> CallRecord]
    BY <1>1, <1>10, Parts, Zenon DEF Loc
  <2> QED BY <1>1, <1>9, <2>1, Parts, Zenon DEF WriteTypes
<1>12. CallOK(w)'
  <2>1. CASE longer
    <3>1. pc'[w] = "read_eof"
      BY <1>10, <2>1, Zenon
    <3> QED BY <3>1, Zenon DEF CallOK
  <2>2. CASE ~longer
    <3>1. pc'[w] = "idle" /\ disk' = data'
      BY <1>1, <1>2, <1>10, <2>2, Zenon
    <3> QED BY <3>1, Zenon DEF CallOK
  <2> QED BY <2>1, <2>2, Zenon
<1>13. LengthOK(w)'
  <2>1. data.length <= disk.length /\ Len(store) = bytes_to_sectors(disk.length)
    BY <1>1, Parts, Zenon DEF LengthOK
  <2>2. pc'[w] # "write_length"
    BY <1>10, Zenon
  <2> QED BY <1>1, <1>9, <2>1, <2>2, Zenon DEF LengthOK
<1> QED BY <1>1, <1>9, <1>11, <1>12, <1>13, Parts, HoldUnchanged, Only, Zenon

LEMMA ReadEofKeeps ==
  ASSUME Constants, WriteInv, NEW w \in Writer, ReadEof(w)
  PROVE  WriteInv'
<1>1. /\ pc[w] = "read_eof" /\ pc' = [pc EXCEPT ![w] = "idle"]
      /\ data' = disk /\ UNCHANGED <<disk, store, call, file>>
  BY Zenon DEF ReadEof, Goto
<1>2. pc'[w] = "idle"
  BY <1>1, Parts, Zenon
<1>3. WriteTypes'
  BY <1>1, Parts, Zenon DEF WriteTypes, Loc
<1>4. CallOK(w)'
  BY <1>1, <1>2, Zenon DEF CallOK
<1>5. LengthOK(w)'
  <2>1. Len(store) = bytes_to_sectors(disk.length)
    BY <1>1, Parts, Zenon DEF LengthOK
  <2>2. disk.length <= disk.length
    BY Parts DEF InodeDisk
  <2> QED BY <1>1, <1>2, <2>1, <2>2, Zenon DEF LengthOK
<1>6. Sound(disk)' /\ Sound(data)'
  BY <1>1, Parts, Zenon DEF Sound
<1> QED BY <1>1, <1>3, <1>4, <1>5, <1>6, Parts, HoldUnchanged, Only, Zenon
-----------------------------------------------------------------------------
LEMMA WriteInvNext ==
  ASSUME Constants, WriteInv, [WriteNext]_writeVars
  PROVE  WriteInv'
<1>1. CASE UNCHANGED writeVars
  BY <1>1, Zenon DEF writeVars, WriteInv, WriteTypes, SectorsHold, Sound, CallOK,
                     LengthOK
<1>2. CASE WriteNext
  <2>1. PICK w \in Writer :
          \/ \E offset \in Byte, size \in 1..MaxByte, v \in Value :
               Call(w, offset, size, v)
          \/ Step(w)
    BY <1>2, Zenon DEF WriteNext
  <2>2. CASE Step(w)
    BY <2>2, AcquireKeeps, CopyKeeps, ExtendKeeps, WriteLengthKeeps,
       ReadLengthKeeps, WriteSectorKeeps, ReadBounceKeeps, BounceFailsKeeps,
       WriteBounceKeeps, WriteEofKeeps, ReadEofKeeps, Zenon DEF Step
  <2> QED BY <2>1, <2>2, CallKeeps, Zenon
<1> QED BY <1>1, <1>2, Zenon

\* The inductive invariant: what the writer has read, the sectors and the bytes
\* stored agree at every step of inode_write_at.
THEOREM WriteInvariant ==
  ASSUME Constants
  PROVE  WriteSpec => []WriteInv
<1>1. WriteInit => WriteInv
  BY InitOK
<1>2. WriteInv /\ [WriteNext]_writeVars => WriteInv'
  BY WriteInvNext
<1> QED BY <1>1, <1>2, PTL DEF WriteSpec

\* The sectors that the copy in memory names exist.
LEMMA DataInStore ==
  ASSUME Constants, WriteInv
  PROVE  bytes_to_sectors(data.length) <= Len(store)
<1>1. PICK w \in Writer : TRUE
  BY Zenon DEF Constants
<1>2. /\ data.length \in Nat /\ disk.length \in Nat
      /\ call[w].inode_disk.length \in Nat
  BY Sizes, Zenon
<1>3. CASE pc[w] = "write_length"
  <2>1. /\ data.length <= disk.length /\ disk.length < call[w].inode_disk.length
        /\ Len(store) = bytes_to_sectors(call[w].inode_disk.length)
    BY <1>3, Parts DEF CallOK, LengthOK
  <2>2. data.length <= call[w].inode_disk.length
    BY <1>2, <2>1
  <2> QED BY <1>2, <2>1, <2>2, SectorCount, Zenon
<1>4. CASE pc[w] # "write_length"
  <2>1. data.length <= disk.length /\ Len(store) = bytes_to_sectors(disk.length)
    BY <1>4, Parts DEF LengthOK
  <2> QED BY <1>2, <2>1, SectorCount, Zenon
<1> QED BY <1>3, <1>4

\* What inode_read_at returns below eof is what was stored last, also in the
\* middle of a write, and an extension is not seen before its data is written.
THEOREM ReadersSeeWrites ==
  ASSUME Constants
  PROVE  WriteSpec => []ReadersSeeWhatWasWritten
<1>1. ASSUME WriteInv PROVE ReadersSeeWhatWasWritten
  <2>1. /\ SectorsHold /\ Sound(data) /\ data \in InodeDisk
        /\ store \in Seq(Sectors)
    BY <1>1, Zenon DEF WriteInv, WriteTypes
  <2>2. ASSUME NEW b \in 0..data.eof - 1
        PROVE  inode_read_at(b) = file[b]
    <3> DEFINE q == b \div SECTOR_SIZE
               l == bytes_to_sectors(data.length)
    <3>1. /\ data.length \in 0..MaxByte /\ data.eof \in 0..MaxByte
          /\ MaxByte \in Nat /\ Len(store) \in Nat
      BY <2>1 DEF InodeDisk, Constants
    <3>2. /\ data.eof <= data.length
          /\ data.blocks = [i \in 1..l |-> i]
      BY <2>1, Zenon DEF Sound
    <3>3. b \in Nat /\ b < data.length /\ b \in Byte /\ data.length \in Nat
      BY <3>1, <3>2 DEF Byte
    <3>4. q \in Nat /\ q < l /\ l \in Nat /\ l <= Len(store)
      BY <1>1, <3>3, BytePlace, SectorCount, DataInStore, Zenon
    <3> HIDE DEF q, l
    <3>5. q + 1 \in 1..l /\ q < Len(store)
      BY <3>1, <3>4
    <3>6. data.blocks[q + 1] = q + 1
      BY <3>2, <3>5, Zenon
    <3>7. file[b] = store[q + 1][b % SECTOR_SIZE]
      BY <2>1, <3>3, <3>5, Zenon DEF SectorsHold, q
    <3> QED BY <3>6, <3>7, Zenon DEF inode_read_at, byte_to_sector, q
  <2>3. ASSUME NEW w \in Writer, pc[w] \in {"data", "bounce"}
        PROVE  call[w].inode_disk = data
    BY <1>1, <2>3, Parts DEF CallOK
  <2> QED BY <2>2, <2>3, Zenon DEF ReadersSeeWhatWasWritten
<1> QED BY <1>1, WriteInvariant, PTL

\* The copy of the inode in memory names a sector for every byte of the file,
\* different ones, and is the inode on disk when no call is under way.
THEOREM InodeStaysConsistent ==
  ASSUME Constants
  PROVE  WriteSpec => []InodeConsistent
<1>1. ASSUME WriteInv PROVE InodeConsistent
  <2>1. PICK w \in Writer : TRUE
    BY Zenon DEF Constants
  <2>2. /\ data.eof <= data.length
        /\ data.blocks = [i \in 1..bytes_to_sectors(data.length) |-> i]
    BY <1>1, Parts, Zenon DEF Sound
  <2>3. bytes_to_sectors(data.length) \in Nat
    <3>1. data.length \in Nat
      BY <1>1, Parts DEF InodeDisk, Constants
    <3> QED BY <3>1, SectorCount, Zenon
  <2>4. Len(data.blocks) >= bytes_to_sectors(data.length)
    BY <2>2, <2>3
  <2>5. \A i, j \in DOMAIN data.blocks : data.blocks[i] = data.blocks[j] => i = j
    BY <2>2, Zenon
  <2>6. pc[w] = "idle" => data = disk
    BY <1>1, Parts DEF CallOK
  <2> QED BY <2>1, <2>2, <2>4, <2>5, <2>6, Zenon DEF InodeConsistent
<1> QED BY <1>1, WriteInvariant, PTL

\* No step of the only writer makes the file shorter.
THEOREM LengthGrows ==
  ASSUME Constants
  PROVE  WriteSpec => LengthNeverShrinks
<1>1. ASSUME WriteInv, [WriteNext]_writeVars
      PROVE  [disk'.length >= disk.length]_writeVars
  <2>1. PICK u \in Writer : TRUE
    BY Zenon DEF Constants
  <2>2. disk.length \in Nat
    BY <1>1, Parts DEF InodeDisk, Constants
  <2>3. CASE disk' = disk
    BY <2>2, <2>3
  <2>4. CASE \E w \in Writer : WriteLength(w)
    <3>1. PICK w \in Writer : WriteLength(w)
      BY <2>4
    <3>2. /\ disk'.length = call[w].inode_disk.length
          /\ disk.length <= call[w].inode_disk.length
          /\ call[w].inode_disk.length \in Nat
      BY <1>1, <3>1, WriteLengthKeeps, Parts DEF WriteLength, CallRecord, InodeDisk
    <3> QED BY <2>2, <3>2
  <2>5. CASE \E w \in Writer : WriteEof(w)
    <3>1. disk'.length = disk.length
      BY <1>1, <2>5, WriteEofKeeps, Zenon
    <3> QED BY <2>2, <3>1
  <2>6. disk' = disk \/ \E w \in Writer : WriteLength(w) \/ WriteEof(w)
    BY <1>1, Zenon DEF writeVars, WriteNext, Step, Call, Acquire, CopyInode, Extend,
         ReadLength, WriteSector, ReadBounce, BounceFails, WriteBounce, ReadEof
  <2> QED BY <2>3, <2>4, <2>5, <2>6, Zenon
<1> QED BY <1>1, WriteInvariant, PTL DEF WriteSpec, LengthNeverShrinks
-----------------------------------------------------------------------------
(* Listing a directory. *)

\* What the names are.
Names ==
  /\ FREE \notin EntryName \cup {".", ".."}
  /\ "." \notin EntryName /\ ".." \notin EntryName

\* The slots of a directory: "." and ".." first, no name twice.
SlotsOK ==
  /\ slots \in Seq(EntryName \cup {".", "..", FREE}) /\ Len(slots) >= 2
  /\ slots[1] = "." /\ slots[2] = ".."
  /\ \A i \in 3..Len(slots) : slots[i] \in EntryName \cup {FREE}
  /\ \A i, j \in 1..Len(slots) : slots[i] = slots[j] /\ slots[i] # FREE => i = j

Never(n) == \A j \in DOMAIN listed : listed[j] # n
Once(n) ==
  \E j \in DOMAIN listed :
    listed[j] = n /\ \A m \in DOMAIN listed : listed[m] = n => m = j

\* A name that was there ever since the open has been returned if its slot is
\* behind the reader and only then.
ListedSoFar(n) ==
  \E i \in 3..Len(slots) :
    /\ slots[i] = n
    /\ IF i <= pos THEN Once(n) ELSE Never(n)
    /\ done => i <= pos

ListInv ==
  /\ SlotsOK
  /\ pos \in 0..Len(slots) /\ pos # 1
  /\ done \in BOOLEAN
  /\ listed \in Seq(EntryName)
  /\ \A n \in stable : n \in EntryName /\ ListedSoFar(n)
-----------------------------------------------------------------------------
\* The first slot of a set of slots.
LEMMA FirstSlotProps ==
  ASSUME NEW S, S \subseteq Nat \ {0}
  PROVE  /\ FirstSlot(S) = 0 <=> S = {}
         /\ S # {} => FirstSlot(S) \in S /\ \A i \in S : FirstSlot(S) <= i
<1>1. CASE S = {}
  BY <1>1 DEF FirstSlot
<1>2. CASE S # {}
  <2>1. S \in SUBSET Nat
    BY Zenon
  <2>2. Min(S) \in S /\ \A i \in S : Min(S) <= i
    BY <1>2, <2>1, MinExists, Zenon
  <2>3. Min(S) # 0
    BY <2>2
  <2> QED BY <1>2, <2>2, <2>3, Zenon DEF FirstSlot
<1> QED BY <1>1, <1>2

\* dir_readdir: the next slot in use.
LEMMA NextInUse ==
  ASSUME SlotsOK, NEW p \in Nat
  PROVE  LET k == dir_readdir(p)
         IN \/ k = 0 /\ \A i \in p + 1..Len(slots) : slots[i] = FREE
            \/ /\ k \in p + 1..Len(slots) /\ slots[k] # FREE
               /\ \A i \in p + 1..Len(slots) : i < k => slots[i] = FREE
<1> DEFINE S == {i \in p + 1..Len(slots) : slots[i] # FREE}
<1>1. Len(slots) \in Nat
  BY DEF SlotsOK
<1>2. S \subseteq Nat \ {0}
  BY <1>1
<1>3. dir_readdir(p) = FirstSlot(S)
  BY Zenon DEF dir_readdir
<1> HIDE DEF S
<1>4. CASE S = {}
  <2>1. dir_readdir(p) = 0
    BY <1>2, <1>3, <1>4, FirstSlotProps, Zenon
  <2> QED BY <1>4, <2>1, Zenon DEF S
<1>5. CASE S # {}
  <2> DEFINE k == dir_readdir(p)
  <2>1. k \in S /\ \A i \in S : k <= i
    <3>1. FirstSlot(S) \in S /\ \A i \in S : FirstSlot(S) <= i
      BY <1>2, <1>5, FirstSlotProps, Zenon
    <3> QED BY <1>3, <3>1, Zenon
  <2> HIDE DEF k
  <2>2. ASSUME NEW i \in p + 1..Len(slots), i < k PROVE slots[i] = FREE
    <3>1. k \in Nat /\ ~(k <= i)
      BY <1>1, <1>2, <2>1, <2>2
    <3> QED BY <2>1, <3>1, Zenon DEF S
  <2>3. k \in p + 1..Len(slots) /\ slots[k] # FREE
    BY <2>1, Zenon DEF S
  <2> QED BY <2>2, <2>3, Zenon DEF k
<1> QED BY <1>4, <1>5, Zenon

\* readdir gets the next entry after the reader that is not "." or "..".
LEMMA NextEntry ==
  ASSUME Names, SlotsOK, pos \in 0..Len(slots), pos # 1, readdir
  PROVE  \E k :
           /\ \/ k = 0 /\ \A i \in pos + 1..Len(slots) : i >= 3 => slots[i] = FREE
              \/ /\ k \in pos + 1..Len(slots) /\ k >= 3 /\ slots[k] # FREE
                 /\ \A i \in pos + 1..Len(slots) : i >= 3 /\ i < k => slots[i] = FREE
           /\ pos' = IF k = 0 THEN Len(slots) ELSE k
           /\ done' = (k = 0)
           /\ listed' = IF k = 0 THEN listed ELSE Append(listed, slots[k])
<1> DEFINE Again(p) == IF p = 0 THEN 0 ELSE dir_readdir(p)
           first == dir_readdir(pos)
           k == CASE first # 0 /\ slots[first] = "." -> Again(Again(first))
                  [] first # 0 /\ slots[first] = ".." -> Again(first)
                  [] OTHER -> first
<1>1. /\ pos' = IF k = 0 THEN Len(slots) ELSE k
      /\ done' = (k = 0)
      /\ listed' = IF k = 0 THEN listed ELSE Append(listed, slots[k])
  BY Zenon DEF readdir
<1>2. Len(slots) \in Nat /\ Len(slots) >= 2 /\ slots[1] = "." /\ slots[2] = ".."
  BY DEF SlotsOK
<1>3. FREE # "." /\ FREE # ".."
  BY Zenon DEF Names
<1>4. ASSUME NEW i \in 3..Len(slots) PROVE slots[i] # "." /\ slots[i] # ".."
  BY Zenon DEF SlotsOK, Names
<1>5. CASE pos = 0
  <2>1. first = 1
    <3>1. \/ first = 0 /\ \A i \in pos + 1..Len(slots) : slots[i] = FREE
          \/ /\ first \in pos + 1..Len(slots) /\ slots[first] # FREE
             /\ \A i \in pos + 1..Len(slots) : i < first => slots[i] = FREE
      BY <1>5, NextInUse, Zenon
    <3>2. 1 \in pos + 1..Len(slots)
      BY <1>2, <1>5
    <3> HIDE DEF first
    <3> QED BY <1>2, <1>3, <1>5, <3>1, <3>2
  <2>2. dir_readdir(1) = 2
    <3> DEFINE f == dir_readdir(1)
    <3>1. \/ f = 0 /\ \A i \in 1 + 1..Len(slots) : slots[i] = FREE
          \/ /\ f \in 1 + 1..Len(slots) /\ slots[f] # FREE
             /\ \A i \in 1 + 1..Len(slots) : i < f => slots[i] = FREE
      BY NextInUse, Zenon
    <3> HIDE DEF f
    <3>2. 2 \in 1 + 1..Len(slots)
      BY <1>2
    <3>3. f = 2
      BY <1>2, <1>3, <3>1, <3>2
    <3> QED BY <3>3 DEF f
  <2>3. k = dir_readdir(2)
    <3>1. first # 0 /\ slots[first] = "." /\ 2 # 0 /\ Again(1) = 2
      BY <1>2, <2>1, <2>2
    <3>2. Again(Again(first)) = dir_readdir(2)
      BY <2>1, <3>1, Zenon
    <3> HIDE DEF Again, first
    <3> QED BY <3>1, <3>2, Zenon
  <2> HIDE DEF k, first, Again
  <2>4. \/ k = 0 /\ \A i \in 2 + 1..Len(slots) : slots[i] = FREE
        \/ /\ k \in 2 + 1..Len(slots) /\ slots[k] # FREE
           /\ \A i \in 2 + 1..Len(slots) : i < k => slots[i] = FREE
    BY <2>3, NextInUse, Zenon
  <2>5. \/ k = 0 /\ \A i \in pos + 1..Len(slots) : i >= 3 => slots[i] = FREE
        \/ /\ k \in pos + 1..Len(slots) /\ k >= 3 /\ slots[k] # FREE
           /\ \A i \in pos + 1..Len(slots) : i >= 3 /\ i < k => slots[i] = FREE
    BY <1>2, <1>5, <2>4
  <2> QED BY <1>1, <2>5, Zenon
<1>6. CASE pos # 0
  <2>0. pos \in Nat /\ pos >= 2
    BY <1>2, <1>6
  <2>1. \/ first = 0 /\ \A i \in pos + 1..Len(slots) : slots[i] = FREE
        \/ /\ first \in pos + 1..Len(slots) /\ slots[first] # FREE
           /\ \A i \in pos + 1..Len(slots) : i < first => slots[i] = FREE
    BY <2>0, NextInUse, Zenon
  <2> HIDE DEF first, Again
  <2>2. first # 0 => first \in 3..Len(slots)
    BY <1>2, <2>0, <2>1
  <2>3. k = first
    <3>1. ~(first # 0 /\ slots[first] = ".") /\ ~(first # 0 /\ slots[first] = "..")
      BY <1>4, <2>2, Zenon
    <3> QED BY <3>1, Zenon
  <2> HIDE DEF k
  <2>4. \/ k = 0 /\ \A i \in pos + 1..Len(slots) : i >= 3 => slots[i] = FREE
        \/ /\ k \in pos + 1..Len(slots) /\ k >= 3 /\ slots[k] # FREE
           /\ \A i \in pos + 1..Len(slots) : i >= 3 /\ i < k => slots[i] = FREE
    BY <1>2, <2>0, <2>1, <2>3
  <2> QED BY <1>1, <2>4, Zenon
<1> QED BY <1>5, <1>6

LEMMA ListParts ==
  ASSUME ListInv
  PROVE  /\ SlotsOK /\ Len(slots) \in Nat /\ Len(slots) >= 2
         /\ slots \in Seq(EntryName \cup {".", "..", FREE})
         /\ pos \in 0..Len(slots) /\ pos # 1 /\ done \in BOOLEAN
         /\ listed \in Seq(EntryName)
         /\ \A n \in stable : n \in EntryName /\ ListedSoFar(n)
BY DEF ListInv, SlotsOK

\* dir_add leaves the slots of the names that are there alone.
LEMMA DirAddKeeps ==
  ASSUME Names, ListInv, NEW n \in EntryName, DirAdd(n)
  PROVE  ListInv'
<1> DEFINE S == {i \in DOMAIN slots : slots[i] = FREE}
           free == FirstSlot(S)
<1>1. /\ n \notin Present
      /\ slots' = IF free = 0 THEN Append(slots, n) ELSE [slots EXCEPT ![free] = n]
      /\ UNCHANGED <<pos, done, listed, stable>>
  BY Zenon DEF DirAdd
<1>2. /\ SlotsOK /\ Len(slots) \in Nat /\ Len(slots) >= 2
      /\ slots \in Seq(EntryName \cup {".", "..", FREE})
      /\ DOMAIN slots = 1..Len(slots)
      /\ slots[1] = "." /\ slots[2] = ".."
  BY ListParts DEF SlotsOK
<1>3. n # FREE /\ n # "." /\ n # ".." /\ FREE # "." /\ FREE # ".."
  BY Zenon DEF Names
<1>4. \A i \in 1..Len(slots) : slots[i] # n
  BY <1>1, <1>2, <1>3, Zenon DEF Present, Range
<1>5. \E k :
        /\ k \in 3..Len(slots) + 1
        /\ k <= Len(slots) => slots[k] = FREE
        /\ slots' \in Seq(EntryName \cup {".", "..", FREE})
        /\ Len(slots') = IF k = Len(slots) + 1 THEN k ELSE Len(slots)
        /\ slots'[k] = n
        /\ \A i \in 1..Len(slots) : i # k => slots'[i] = slots[i]
  <2>1. S \subseteq Nat \ {0}
    BY <1>2
  <2>2. CASE free = 0
    <3>1. slots' = Append(slots, n)
      BY <1>1, <2>2, Zenon
    <3> HIDE DEF free, S
    <3>2. /\ slots' \in Seq(EntryName \cup {".", "..", FREE})
          /\ Len(slots') = Len(slots) + 1 /\ slots'[Len(slots) + 1] = n
          /\ \A i \in 1..Len(slots) : slots'[i] = slots[i]
      BY <1>2, <3>1
    <3>3. Len(slots) + 1 \in 3..Len(slots) + 1 /\ ~(Len(slots) + 1 <= Len(slots))
      BY <1>2
    <3> QED BY <3>2, <3>3, Zenon
  <2>3. CASE free # 0
    <3>1. free \in S
      BY <2>1, <2>3, FirstSlotProps, Zenon
    <3>2. free \in 1..Len(slots) /\ slots[free] = FREE
      BY <1>2, <3>1, Zenon
    <3>3. slots' = [slots EXCEPT ![free] = n]
      BY <1>1, <2>3, Zenon
    <3> HIDE DEF free, S
    <3>4. /\ slots' \in Seq(EntryName \cup {".", "..", FREE})
          /\ Len(slots') = Len(slots) /\ slots'[free] = n
          /\ \A i \in 1..Len(slots) : i # free => slots'[i] = slots[i]
      BY <1>2, <3>2, <3>3
    <3>5. free \in 3..Len(slots) + 1 /\ free # Len(slots) + 1
      BY <1>2, <1>3, <3>2
    <3> QED BY <3>2, <3>4, <3>5, Zenon
  <2> QED BY <2>2, <2>3
<1> HIDE DEF free
<1>6. PICK k :
        /\ k \in 3..Len(slots) + 1
        /\ k <= Len(slots) => slots[k] = FREE
        /\ slots' \in Seq(EntryName \cup {".", "..", FREE})
        /\ Len(slots') = IF k = Len(slots) + 1 THEN k ELSE Len(slots)
        /\ slots'[k] = n
        /\ \A i \in 1..Len(slots) : i # k => slots'[i] = slots[i]
  BY <1>5, Zenon
<1>7. /\ Len(slots') \in Nat /\ Len(slots') >= Len(slots) /\ k \in 1..Len(slots')
      /\ \A i \in 1..Len(slots') : i # k => i \in 1..Len(slots)
  BY <1>2, <1>6
<1>8. SlotsOK'
  <2>1. slots'[1] = "." /\ slots'[2] = ".."
    BY <1>2, <1>6
  <2>2. ASSUME NEW i \in 3..Len(slots') PROVE slots'[i] \in EntryName \cup {FREE}
    <3>1. CASE i = k
      BY <1>6, <3>1, Zenon
    <3>2. CASE i # k
      <4>1. i \in 3..Len(slots)
        BY <1>2, <1>7, <3>2
      <4>2. slots[i] \in EntryName \cup {FREE} /\ i \in 1..Len(slots)
        BY <1>2, <1>7, <2>2, <3>2, <4>1 DEF SlotsOK
      <4> QED BY <1>6, <3>2, <4>2, Zenon
    <3> QED BY <3>1, <3>2
  <2>3. ASSUME NEW i \in 1..Len(slots'), NEW j \in 1..Len(slots'),
               slots'[i] = slots'[j], slots'[i] # FREE
        PROVE  i = j
    <3>1. CASE i = k \/ j = k
      BY <1>4, <1>6, <1>7, <2>3, <3>1, Zenon
    <3>2. CASE i # k /\ j # k
      <4>1. slots[i] = slots[j] /\ slots[i] # FREE /\ i \in 1..Len(slots)
            /\ j \in 1..Len(slots)
        BY <1>6, <1>7, <2>3, <3>2, Zenon
      <4> QED BY <1>2, <4>1, Zenon DEF SlotsOK
    <3> QED BY <3>1, <3>2
  <2>4. Len(slots') >= 2
    BY <1>2, <1>7
  <2> QED BY <1>6, <2>1, <2>2, <2>3, <2>4, Zenon DEF SlotsOK
<1>9. ASSUME NEW m \in stable PROVE m \in EntryName /\ ListedSoFar(m)'
  <2>1. m \in EntryName /\ ListedSoFar(m)
    BY ListParts, Zenon
  <2>2. PICK i \in 3..Len(slots) : /\ slots[i] = m
                                   /\ IF i <= pos THEN Once(m) ELSE Never(m)
                                   /\ done => i <= pos
    BY <2>1, Zenon DEF ListedSoFar
  <2>3. m # FREE
    BY <2>1, Zenon DEF Names
  <2>4. i # k /\ i \in 3..Len(slots') /\ i \in 1..Len(slots)
    <3>1. i \in 1..Len(slots) /\ i \in 3..Len(slots') /\ i <= Len(slots)
      BY <1>2, <1>7
    <3> QED BY <1>6, <2>2, <2>3, <3>1, Zenon
  <2>5. slots'[i] = m
    BY <1>6, <2>2, <2>4, Zenon
  <2> QED BY <1>1, <2>1, <2>2, <2>4, <2>5, Zenon DEF ListedSoFar, Once, Never
<1>10. pos' \in 0..Len(slots') /\ pos' # 1 /\ done' \in BOOLEAN
       /\ listed' \in Seq(EntryName)
  <2>1. pos \in 0..Len(slots) /\ pos # 1 /\ done \in BOOLEAN
        /\ listed \in Seq(EntryName)
    BY ListParts, Zenon
  <2>2. pos \in 0..Len(slots')
    BY <1>2, <1>7, <2>1
  <2> QED BY <1>1, <2>1, <2>2, Zenon
<1> QED BY <1>1, <1>8, <1>9, <1>10, Zenon DEF ListInv

\* dir_remove frees one slot.
LEMMA DirRemoveKeeps ==
  ASSUME Names, ListInv, NEW n \in EntryName, DirRemove(n)
  PROVE  ListInv'
<1>1. /\ slots' = [i \in DOMAIN slots |-> IF slots[i] = n THEN FREE ELSE slots[i]]
      /\ stable' = stable \ {n}
      /\ UNCHANGED <<pos, done, listed>>
  BY Zenon DEF DirRemove
<1>2. /\ SlotsOK /\ Len(slots) \in Nat /\ Len(slots) >= 2
      /\ slots \in Seq(EntryName \cup {".", "..", FREE})
      /\ DOMAIN slots = 1..Len(slots)
      /\ slots[1] = "." /\ slots[2] = ".."
  BY ListParts DEF SlotsOK
<1>3. n # FREE /\ n # "." /\ n # ".."
  BY Zenon DEF Names
<1>4. /\ \A i \in 1..Len(slots) :
           slots'[i] = IF slots[i] = n THEN FREE ELSE slots[i]
      /\ slots' \in Seq(EntryName \cup {".", "..", FREE})
      /\ Len(slots') = Len(slots)
  <2>1. \A i \in 1..Len(slots) : slots[i] \in EntryName \cup {".", "..", FREE}
    BY <1>2
  <2>2. slots' = [i \in 1..Len(slots) |-> IF slots[i] = n THEN FREE ELSE slots[i]]
    BY <1>1, <1>2, Zenon
  <2>3. slots' \in [1..Len(slots) -> EntryName \cup {".", "..", FREE}]
    BY <2>1, <2>2, Zenon
  <2>4. slots' \in Seq(EntryName \cup {".", "..", FREE}) /\ Len(slots') = Len(slots)
    BY <1>2, <2>3
  <2> QED BY <2>2, <2>4, Zenon
<1>5. SlotsOK'
  <2>1. slots'[1] = "." /\ slots'[2] = ".."
    <3>1. 1 \in 1..Len(slots) /\ 2 \in 1..Len(slots)
      BY <1>2
    <3> QED BY <1>2, <1>3, <1>4, <3>1, Zenon
  <2>2. \A i \in 3..Len(slots) : i \in 1..Len(slots)
    BY <1>2
  <2>3. \A i \in 3..Len(slots') : slots'[i] \in EntryName \cup {FREE}
    BY <1>2, <1>4, <2>2, Zenon DEF SlotsOK
  <2>4. ASSUME NEW i \in 1..Len(slots'), NEW j \in 1..Len(slots'),
               slots'[i] = slots'[j], slots'[i] # FREE
        PROVE  i = j
    <3>1. i \in 1..Len(slots) /\ j \in 1..Len(slots)
      BY <1>4, Zenon
    <3>2. slots[i] = slots'[i] /\ slots[j] = slots'[j]
      BY <1>4, <2>4, <3>1, Zenon
    <3> QED BY <1>2, <2>4, <3>1, <3>2, Zenon DEF SlotsOK
  <2> QED BY <1>2, <1>4, <2>1, <2>3, <2>4, Zenon DEF SlotsOK
<1>6. ASSUME NEW m \in stable' PROVE m \in EntryName /\ ListedSoFar(m)'
  <2>1. m \in EntryName /\ ListedSoFar(m) /\ m # n
    BY <1>1, ListParts, Zenon
  <2>2. PICK i \in 3..Len(slots) : /\ slots[i] = m
                                   /\ IF i <= pos THEN Once(m) ELSE Never(m)
                                   /\ done => i <= pos
    BY <2>1, Zenon DEF ListedSoFar
  <2>3. i \in 1..Len(slots) /\ i \in 3..Len(slots')
    BY <1>2, <1>4
  <2>4. slots'[i] = m
    BY <1>4, <2>1, <2>2, <2>3, Zenon
  <2> QED BY <1>1, <2>1, <2>2, <2>3, <2>4, Zenon DEF ListedSoFar, Once, Never
<1> QED BY <1>1, <1>4, <1>5, <1>6, ListParts, Zenon DEF ListInv

\* A new struct dir: nothing is returned yet.
LEMMA OpenDirKeeps ==
  ASSUME Names, ListInv, OpenDir
  PROVE  ListInv'
<1>1. /\ pos' = 0 /\ done' = FALSE /\ listed' = <<>> /\ stable' = Present
      /\ slots' = slots
  BY Zenon DEF OpenDir
<1>2. /\ SlotsOK /\ Len(slots) \in Nat /\ Len(slots) >= 2
      /\ slots \in Seq(EntryName \cup {".", "..", FREE})
      /\ DOMAIN slots = 1..Len(slots)
      /\ slots[1] = "." /\ slots[2] = ".."
  BY ListParts DEF SlotsOK
<1>3. ASSUME NEW m \in Present PROVE m \in EntryName /\ ListedSoFar(m)'
  <2>1. m \in Range(slots) /\ m # "." /\ m # ".." /\ m # FREE
    BY Zenon DEF Present
  <2>2. PICK i \in 1..Len(slots) : slots[i] = m
    BY <1>2, <2>1, Zenon DEF Range
  <2>3. i \in 3..Len(slots) /\ ~(i <= 0)
    BY <1>2, <2>1, <2>2
  <2>4. m \in EntryName
    BY <1>2, <2>1, <2>2, <2>3, Zenon DEF SlotsOK
  <2>5. Never(m)'
    BY <1>1 DEF Never
  <2> QED BY <1>1, <2>2, <2>3, <2>4, <2>5, Zenon DEF ListedSoFar
<1>4. SlotsOK'
  BY <1>1, <1>2, Zenon DEF SlotsOK
<1>5. /\ pos' \in 0..Len(slots') /\ pos' # 1 /\ done' \in BOOLEAN
      /\ listed' \in Seq(EntryName)
  <2>1. 0 \in 0..Len(slots) /\ 0 # 1 /\ <<>> \in Seq(EntryName)
    BY <1>2
  <2> QED BY <1>1, <2>1, Zenon
<1> QED BY <1>1, <1>3, <1>4, <1>5, Zenon DEF ListInv

\* What a name added to the list means for how often a name is on it.
LEMMA Returned ==
  ASSUME listed \in Seq(EntryName), NEW e \in EntryName, listed' = Append(listed, e)
  PROVE  /\ listed' \in Seq(EntryName)
         /\ Never(e) => Once(e)'
         /\ \A m : m # e => (Once(m) => Once(m)') /\ (Never(m) => Never(m)')
<1>1. /\ listed' \in Seq(EntryName) /\ Len(listed) \in Nat
      /\ DOMAIN listed = 1..Len(listed) /\ DOMAIN listed' = 1..Len(listed) + 1
      /\ listed'[Len(listed) + 1] = e
      /\ \A i \in 1..Len(listed) : listed'[i] = listed[i]
  OBVIOUS
<1>2. /\ \A i \in 1..Len(listed) : i \in 1..Len(listed) + 1
      /\ Len(listed) + 1 \in 1..Len(listed) + 1
      /\ \A i \in 1..Len(listed) + 1 : i = Len(listed) + 1 \/ i \in 1..Len(listed)
  BY <1>1
<1>3. ASSUME Never(e) PROVE Once(e)'
  <2>1. \A i \in 1..Len(listed) : listed'[i] # e
    BY <1>1, <1>3, Zenon DEF Never
  <2>2. Len(listed) + 1 \in DOMAIN listed' /\ listed'[Len(listed) + 1] = e
    BY <1>1, <1>2, Zenon
  <2>3. \A i \in DOMAIN listed' : listed'[i] = e => i = Len(listed) + 1
    BY <1>1, <1>2, <2>1, Zenon
  <2> QED BY <2>2, <2>3, Zenon DEF Once
<1>4. ASSUME NEW m, m # e, Once(m) PROVE Once(m)'
  <2>1. PICK j \in 1..Len(listed) :
          listed[j] = m /\ \A i \in 1..Len(listed) : listed[i] = m => i = j
    BY <1>1, <1>4, Zenon DEF Once
  <2>2. j \in DOMAIN listed' /\ listed'[j] = m
    BY <1>1, <1>2, <2>1, Zenon
  <2>3. ASSUME NEW i \in DOMAIN listed', listed'[i] = m PROVE i = j
    BY <1>1, <1>2, <1>4, <2>1, <2>3, Zenon
  <2> QED BY <2>2, <2>3, Zenon DEF Once
<1>5. ASSUME NEW m, m # e, Never(m) PROVE Never(m)'
  BY <1>1, <1>2, <1>5, Zenon DEF Never
<1> QED BY <1>1, <1>3, <1>4, <1>5, Zenon

\* readdir returns the entry of the next slot in use, and no other.
LEMMA ReaddirKeeps ==
  ASSUME Names, ListInv, readdir
  PROVE  ListInv'
<1>1. UNCHANGED <<slots, stable>> /\ ~done
  BY Zenon DEF readdir
<1>2. /\ SlotsOK /\ Len(slots) \in Nat /\ Len(slots) >= 2
      /\ pos \in 0..Len(slots) /\ pos # 1 /\ listed \in Seq(EntryName)
      /\ \A n \in stable : n \in EntryName /\ ListedSoFar(n)
  BY ListParts, Zenon
<1>3. PICK k :
        /\ \/ k = 0 /\ \A i \in pos + 1..Len(slots) : i >= 3 => slots[i] = FREE
           \/ /\ k \in pos + 1..Len(slots) /\ k >= 3 /\ slots[k] # FREE
              /\ \A i \in pos + 1..Len(slots) : i >= 3 /\ i < k => slots[i] = FREE
        /\ pos' = IF k = 0 THEN Len(slots) ELSE k
        /\ done' = (k = 0)
        /\ listed' = IF k = 0 THEN listed ELSE Append(listed, slots[k])
  BY <1>2, NextEntry, Zenon
<1>4. SlotsOK' /\ done' \in BOOLEAN
  BY <1>1, <1>2, <1>3, Zenon DEF SlotsOK
<1>5. CASE k = 0
  <2>1. /\ pos' = Len(slots) /\ done' = TRUE /\ listed' = listed
        /\ \A i \in pos + 1..Len(slots) : i >= 3 => slots[i] = FREE
    <3>1. \A i \in pos + 1..Len(slots) : i >= 3 => slots[i] = FREE
      BY <1>2, <1>3, <1>5
    <3> QED BY <1>3, <1>5, <3>1, Zenon
  <2>2. pos' \in 0..Len(slots') /\ pos' # 1
    BY <1>1, <1>2, <2>1
  <2>3. ASSUME NEW m \in stable PROVE m \in EntryName /\ ListedSoFar(m)'
    <3>1. m \in EntryName /\ m # FREE
      BY <1>2, Zenon DEF Names
    <3>2. PICK i \in 3..Len(slots) : /\ slots[i] = m
                                     /\ IF i <= pos THEN Once(m) ELSE Never(m)
                                     /\ done => i <= pos
      BY <1>2, Zenon DEF ListedSoFar
    <3>3. i <= pos /\ i <= Len(slots)
      BY <1>2, <2>1, <3>1, <3>2
    <3>4. Once(m)'
      BY <2>1, <3>2, <3>3, Zenon DEF Once
    <3> QED BY <1>1, <2>1, <3>1, <3>2, <3>3, <3>4, Zenon DEF ListedSoFar
  <2> QED BY <1>1, <1>2, <1>4, <2>1, <2>2, <2>3, Zenon DEF ListInv
<1>6. CASE k # 0
  <2>1. /\ k \in pos + 1..Len(slots) /\ k >= 3 /\ slots[k] # FREE
        /\ \A i \in pos + 1..Len(slots) : i >= 3 /\ i < k => slots[i] = FREE
        /\ pos' = k /\ done' = FALSE /\ listed' = Append(listed, slots[k])
    BY <1>3, <1>6
  <2>2. k \in 3..Len(slots) /\ k \in 1..Len(slots) /\ k > pos
    BY <1>2, <2>1
  <2>3. PICK e \in EntryName : e = slots[k]
    BY <1>2, <2>1, <2>2, Zenon DEF SlotsOK
  <2>4. /\ listed' \in Seq(EntryName)
        /\ Never(e) => Once(e)'
        /\ \A m : m # e => (Once(m) => Once(m)') /\ (Never(m) => Never(m)')
    BY <1>2, <2>1, <2>3, Returned, Zenon
  <2>5. ASSUME NEW m \in stable PROVE m \in EntryName /\ ListedSoFar(m)'
    <3>1. m \in EntryName /\ m # FREE
      BY <1>2, Zenon DEF Names
    <3>2. PICK i \in 3..Len(slots) : /\ slots[i] = m
                                     /\ IF i <= pos THEN Once(m) ELSE Never(m)
                                     /\ done => i <= pos
      BY <1>2, Zenon DEF ListedSoFar
    <3>3. i \in 1..Len(slots)
      BY <1>2
    <3>4. /\ i # k => e # m
          /\ i = k => e = m
      BY <1>2, <2>2, <2>3, <3>1, <3>2, <3>3, Zenon DEF SlotsOK
    <3>5. CASE i <= pos
      <4>1. i # k /\ i <= k
        BY <1>2, <2>2, <3>5
      <4>2. Once(m)'
        BY <2>4, <3>2, <3>4, <3>5, <4>1, Zenon
      <4> QED BY <1>1, <2>1, <3>1, <3>2, <4>1, <4>2, Zenon DEF ListedSoFar
    <3>6. CASE i = k
      <4>1. ~(i <= pos) /\ i <= k
        BY <1>2, <2>2, <3>6
      <4>2. Once(m)'
        BY <2>4, <3>2, <3>4, <3>6, <4>1, Zenon
      <4> QED BY <1>1, <2>1, <3>1, <3>2, <4>1, <4>2, Zenon DEF ListedSoFar
    <3>7. CASE ~(i <= pos) /\ i # k
      <4>1. ~(i <= k)
        BY <1>2, <2>1, <2>2, <3>1, <3>2, <3>7
      <4>2. Never(m)'
        BY <2>4, <3>2, <3>4, <3>7, Zenon
      <4> QED BY <1>1, <2>1, <3>1, <3>2, <4>1, <4>2, Zenon DEF ListedSoFar
    <3> QED BY <3>5, <3>6, <3>7
  <2>6. pos' \in 0..Len(slots') /\ pos' # 1
    BY <1>1, <1>2, <2>1
  <2> QED BY <1>1, <1>4, <2>4, <2>5, <2>6, Zenon DEF ListInv
<1> QED BY <1>5, <1>6

\* The inductive invariant: behind the reader every name that stayed was
\* returned once, before it none was.
THEOREM ListInvariant ==
  ASSUME Names
  PROVE  ListSpec => []ListInv
<1>1. ListInit => ListInv
  <2> SUFFICES ASSUME ListInit PROVE ListInv
    OBVIOUS
  <2>1. /\ slots = <<".", "..">> /\ pos = 0 /\ done = FALSE /\ listed = <<>>
        /\ stable = {}
    BY Zenon DEF ListInit
  <2>2. SlotsOK
    BY <2>1 DEF SlotsOK
  <2>3. pos \in 0..Len(slots) /\ pos # 1 /\ listed \in Seq(EntryName)
    BY <2>1
  <2> QED BY <2>1, <2>2, <2>3, Zenon DEF ListInv
<1>2. ListInv /\ [ListNext]_listVars => ListInv'
  <2> SUFFICES ASSUME ListInv, [ListNext]_listVars PROVE ListInv'
    OBVIOUS
  <2>1. CASE UNCHANGED listVars
    <3>1. /\ slots' = slots /\ pos' = pos /\ done' = done /\ listed' = listed
          /\ stable' = stable
      BY <2>1, Zenon DEF listVars
    <3>2. \A n : ListedSoFar(n) => ListedSoFar(n)'
      BY <3>1, Zenon DEF ListedSoFar, Once, Never
    <3>3. SlotsOK => SlotsOK'
      BY <3>1, Zenon DEF SlotsOK
    <3> QED BY <3>1, <3>2, <3>3, Zenon DEF ListInv
  <2>2. CASE ListNext
    BY <2>2, DirAddKeeps, DirRemoveKeeps, OpenDirKeeps, ReaddirKeeps, Zenon
       DEF ListNext
  <2> QED BY <2>1, <2>2, Zenon
<1> QED BY <1>1, <1>2, PTL DEF ListSpec

\* readdir returns each entry that stays in the directory exactly once, and
\* neither "." nor "..", whatever is added and removed in the meantime.
THEOREM ListsExactlyOnce ==
  ASSUME Names
  PROVE  ListSpec => []ListedExactlyOnce
<1>1. ASSUME ListInv PROVE ListedExactlyOnce
  <2>1. listed \in Seq(EntryName) /\ \A n \in stable : ListedSoFar(n)
    BY <1>1, Zenon DEF ListInv
  <2>2. Range(listed) \subseteq EntryName
    BY <2>1 DEF Range
  <2>3. ASSUME NEW n \in stable
        PROVE  LET times == Cardinality({i \in DOMAIN listed : listed[i] = n})
               IN times <= 1 /\ (done => times = 1)
    <3> DEFINE T == {i \in DOMAIN listed : listed[i] = n}
    <3>1. Once(n) \/ (Never(n) /\ ~done)
      BY <2>1, Zenon DEF ListedSoFar
    <3>2. CASE Once(n)
      <4>1. \E j : T = {j}
        BY <3>2, Zenon DEF Once
      <4>2. Cardinality(T) = 1
        BY <4>1, FS_Singleton, Zenon
      <4> HIDE DEF T
      <4>3. Cardinality(T) <= 1
        BY <4>2
      <4> QED BY <4>2, <4>3, Zenon DEF T
    <3>3. CASE Never(n) /\ ~done
      <4>1. T = {}
        BY <3>3, Zenon DEF Never
      <4>2. Cardinality(T) = 0
        BY <4>1, FS_EmptySet, Zenon
      <4> HIDE DEF T
      <4>3. Cardinality(T) <= 1
        BY <4>2
      <4> QED BY <3>3, <4>3, Zenon DEF T
    <3> QED BY <3>1, <3>2, <3>3
  <2> QED BY <2>2, <2>3, Zenon DEF ListedExactlyOnce
<1> QED BY <1>1, ListInvariant, PTL
=============================================================================
