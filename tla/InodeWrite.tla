------------------------------ MODULE InodeWrite ------------------------------
(***************************************************************************)
(* inode_write_at and inode_read_at on one file (filesys/inode.c), for     *)
(* several threads.  Every block_read and block_write lets another thread  *)
(* run, so each is a step.  The inode's lock is held while the file is     *)
(* extended; the data, and afterwards the new end of file, are written     *)
(* without it.  Which sector holds which block of the file is the          *)
(* sequence `blocks'; SectorTree is about how it is kept on disk.          *)
(***************************************************************************)
EXTENDS Integers, Sequences, FiniteSetsExt

CONSTANTS
  Writer,
  Value,          \* the bytes that are written, besides 0
  SECTOR_SIZE,    \* BLOCK_SECTOR_SIZE
  MaxByte,        \* bound on the length of the file
  NoThread

VARIABLES
  disk,           \* the struct inode_disk in the inode's sector
  data,           \* struct inode: its copy in memory
  store,          \* the contents of the sectors that the file has used
  lock,           \* inode_lock
  pc,
  call,           \* the locals of a call of inode_write_at
  file            \* history: the last value stored for each byte of the file

writeVars == <<disk, data, store, lock, pc, call, file>>

Byte == 0..MaxByte - 1
InodeDisk == [length : 0..MaxByte, eof : 0..MaxByte, blocks : Seq(Nat)]
EmptyInode == [length |-> 0, eof |-> 0, blocks |-> <<>>]
Zeros == [o \in 0..SECTOR_SIZE - 1 |-> 0]
Idle == [offset |-> 0, size |-> 0, new_length |-> 0, value |-> 0,
         current |-> 0, inode_disk |-> EmptyInode,
         sector_idx |-> 0, chunk_size |-> 0, bounce |-> Zeros,
         has_bounce |-> FALSE]

\* DIV_ROUND_UP.
bytes_to_sectors(n) == (n + SECTOR_SIZE - 1) \div SECTOR_SIZE

\* inode_create of an empty file, opened once.
WriteInit ==
  /\ disk = EmptyInode
  /\ data = EmptyInode
  /\ store = <<>>
  /\ lock = NoThread
  /\ pc = [w \in Writer |-> "idle"]
  /\ call = [w \in Writer |-> Idle]
  /\ file = [b \in Byte |-> 0]
-----------------------------------------------------------------------------
Goto(w, from, to) == pc[w] = from /\ pc' = [pc EXCEPT ![w] = to]

\* A call of inode_write_at.
Call(w, offset, size, v) ==
  /\ Goto(w, "idle", "acquire")
  /\ offset + size <= MaxByte
  /\ call' = [call EXCEPT ![w] = [Idle EXCEPT
                !.offset = offset, !.size = size,
                !.new_length = offset + size, !.value = v]]
  /\ UNCHANGED <<disk, data, store, lock, file>>

\* lock_acquire; the sectors that the file has, by the copy in memory.
Acquire(w) ==
  /\ Goto(w, "acquire", "copy")
  /\ lock = NoThread
  /\ lock' = w
  /\ call' = [call EXCEPT ![w].current = bytes_to_sectors(data.length)]
  /\ UNCHANGED <<disk, data, store, file>>

\* block_read (fs_device, inode->sector, inode_disk).
CopyInode(w) ==
  /\ Goto(w, "copy", "extend")
  /\ call' = [call EXCEPT ![w].inode_disk = disk]
  /\ UNCHANGED <<disk, data, store, lock, file>>

\* sector_allocate for a larger file, zeros in the new sectors, and the new
\* length in inode_disk.  Without a new length the lock is released here.
Extend(w) ==
  LET c == call[w]
      sectors == Max({0, bytes_to_sectors(c.new_length) - c.current})
      longer == c.new_length > c.inode_disk.length
  IN /\ Goto(w, "extend", IF longer THEN "write_length" ELSE "data")
     /\ store' = store \o [i \in 1..sectors |-> Zeros]
     /\ call' = [call EXCEPT ![w].inode_disk =
                   [c.inode_disk EXCEPT
                      !.blocks = @ \o [i \in 1..sectors |-> Len(store) + i],
                      !.length = Max({@, c.new_length})]]
     /\ lock' = IF longer THEN lock ELSE NoThread
     /\ UNCHANGED <<disk, data, file>>

\* block_write (fs_device, inode->sector, inode_disk), in the lock.
WriteLength(w) ==
  /\ Goto(w, "write_length", "read_length")
  /\ disk' = call[w].inode_disk
  /\ UNCHANGED <<data, store, lock, call, file>>

\* block_read (fs_device, inode->sector, &inode->data); lock_release.
ReadLength(w) ==
  /\ Goto(w, "read_length", "data")
  /\ data' = disk
  /\ lock' = NoThread
  /\ UNCHANGED <<disk, store, call, file>>

\* byte_to_sector.
byte_to_sector(d, pos) == d.blocks[pos \div SECTOR_SIZE + 1]

\* The bytes that one round of the loop over the data writes.
ChunkSize(w) ==
  LET c == call[w]
  IN Min({c.size, data.length - c.offset,
          SECTOR_SIZE - (c.offset % SECTOR_SIZE)})

\* memcpy of n bytes of the call into a sector that held old, and block_write;
\* then the next chunk.
StoreChunk(w, sector_idx, n, old) ==
  LET c == call[w]
      o == c.offset % SECTOR_SIZE
  IN /\ store' = [store EXCEPT ![sector_idx] =
                    [i \in 0..SECTOR_SIZE - 1 |->
                       IF i \in o..o + n - 1 THEN c.value ELSE old[i]]]
     /\ file' = [b \in Byte |->
                   IF b \in c.offset..c.offset + n - 1 THEN c.value ELSE file[b]]
     /\ call' = [call EXCEPT ![w] = [c EXCEPT
                   !.offset = @ + n, !.size = @ - n, !.sector_idx = 0,
                   !.chunk_size = 0, !.bounce = Zeros]]

\* A whole sector is written at once.
WriteSector(w) ==
  /\ pc[w] = "data" /\ ChunkSize(w) = SECTOR_SIZE
  /\ StoreChunk(w, byte_to_sector(data, call[w].offset), SECTOR_SIZE, Zeros)
  /\ UNCHANGED <<disk, data, lock, pc>>

\* Fault: a sector that is written in part is not read first.
BounceZeros(w) ==
  /\ Goto(w, "data", "bounce")
  /\ ChunkSize(w) \in 1..SECTOR_SIZE - 1
  /\ call' = [call EXCEPT ![w] = [@ EXCEPT
                !.sector_idx = byte_to_sector(data, call[w].offset),
                !.chunk_size = ChunkSize(w), !.has_bounce = TRUE]]
  /\ UNCHANGED <<disk, data, store, lock, file>>

\* Part of a sector: block_read into the bounce buffer...
ReadBounce(w) ==
  LET sector_idx == byte_to_sector(data, call[w].offset)
  IN /\ Goto(w, "data", "bounce")
     /\ ChunkSize(w) \in 1..SECTOR_SIZE - 1
     /\ call' = [call EXCEPT ![w] = [@ EXCEPT
                   !.sector_idx = sector_idx, !.chunk_size = ChunkSize(w),
                   !.bounce = store[sector_idx], !.has_bounce = TRUE]]
     /\ UNCHANGED <<disk, data, store, lock, file>>

\* ... for which malloc may fail, once in a call: the rest is not written...
BounceFails(w) ==
  /\ Goto(w, "data", "eof")
  /\ ChunkSize(w) \in 1..SECTOR_SIZE - 1 /\ ~call[w].has_bounce
  /\ UNCHANGED <<disk, data, store, lock, call, file>>

\* ... memcpy and block_write.
WriteBounce(w) ==
  LET c == call[w]
  IN /\ Goto(w, "bounce", "data")
     /\ StoreChunk(w, c.sector_idx, c.chunk_size, c.bounce)
     /\ UNCHANGED <<disk, data, lock>>

\* Nothing left to write, the end of the file, or no memory.  The new end of file goes
\* into inode_disk as it was read in the lock, and with it to disk.
WriteEof(w) ==
  LET c == call[w]
      longer == c.new_length > c.inode_disk.eof
      inode_disk == [c.inode_disk EXCEPT !.eof = Max({@, c.new_length})]
  IN /\ pc[w] = "eof" \/ (pc[w] = "data" /\ ChunkSize(w) <= 0)
     /\ pc' = [pc EXCEPT ![w] = IF longer THEN "read_eof" ELSE "idle"]
     /\ disk' = IF longer THEN inode_disk ELSE disk
     /\ call' = [call EXCEPT ![w] = Idle]
     /\ UNCHANGED <<data, store, lock, file>>

\* Fault: the copy in memory is not read again.
KeepEof(w) ==
  /\ Goto(w, "read_eof", "idle")
  /\ UNCHANGED <<disk, data, store, lock, call, file>>

\* block_read (fs_device, inode->sector, &inode->data), and the return.
ReadEof(w) ==
  /\ Goto(w, "read_eof", "idle")
  /\ data' = disk
  /\ UNCHANGED <<disk, store, lock, call, file>>

Step(w) ==
  \/ Acquire(w) \/ CopyInode(w) \/ Extend(w) \/ WriteLength(w) \/ ReadLength(w)
  \/ WriteSector(w) \/ ReadBounce(w) \/ BounceFails(w) \/ WriteBounce(w)
  \/ WriteEof(w) \/ ReadEof(w)

WriteNext ==
  \E w \in Writer :
    \/ \E offset \in Byte, size \in 1..MaxByte, v \in Value :
         Call(w, offset, size, v)
    \/ Step(w)

WriteSpec == WriteInit /\ [][WriteNext]_writeVars
-----------------------------------------------------------------------------
\* What inode_read_at returns for byte b, which must be below eof.
inode_read_at(b) ==
  store[byte_to_sector(data, b)][b % SECTOR_SIZE]

\* With one writer, a reader at any moment of a write sees below eof the last
\* value stored for each byte and zeros where nothing was written, and sees
\* no byte of an extension before the loop over its data has ended
\* (inode_read_at is bounded by eof, which inode_write_at moves last).
ReadersSeeWhatWasWritten ==
  /\ \A b \in 0..data.eof - 1 : inode_read_at(b) = file[b]
  /\ \A w \in Writer :
       pc[w] \in {"data", "bounce"} =>
         \A b \in call[w].offset..call[w].offset + call[w].size - 1 :
           b < data.eof => b < call[w].inode_disk.eof

\* A file has sectors for its whole length, different ones, and its copy in
\* memory is the one on disk whenever no thread writes (inode_write_at).
InodeConsistent ==
  /\ Len(data.blocks) >= bytes_to_sectors(data.length)
  /\ \A i, j \in DOMAIN data.blocks :
       data.blocks[i] = data.blocks[j] => i = j
  /\ data.eof <= data.length
  /\ (\A w \in Writer : pc[w] = "idle") => data = disk

\* No step makes the file shorter: what one thread has added to it under
\* inode_lock is not undone by another (inode_write_at).
LengthNeverShrinks ==
  [][disk'.length >= disk.length]_writeVars
=============================================================================
