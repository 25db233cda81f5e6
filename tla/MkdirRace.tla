------------------------------ MODULE MkdirRace ------------------------------
(***************************************************************************)
(* FileSystem with the one call whose atomicity matters most taken apart:  *)
(* filesys_create adds the entry of a new directory to its parent before   *)
(* it closes the new directory, and no lock is held in between.            *)
(***************************************************************************)
EXTENDS FileSystem

VARIABLE making     \* the parent and the directory that p is about to close

raceVars == <<vars, making>>

RaceInit == Init /\ making = [p \in Process |-> <<>>]

\* mkdir up to dir_close (child_dir).
MkdirEntry(p, x) ==
  LET d == GetDir(fs, p, x.abs, x.dir)
      s == FreeMapAllocate(fs)
  IN /\ Running(p)
     /\ d # NULL /\ s # NULL /\ fs.isdir[d]
     /\ fs' = CreateEntry(fs, d, x.name, TRUE)
     /\ s \in fs'.used
     /\ making' = [making EXCEPT ![p] = <<d, s>>]
     /\ UNCHANGED <<cwd, files, exe, leaked, panicked>>

\* dir_close (child_dir), inode_close (inode) and dir_close (parent_dir).
MkdirClose(p) ==
  /\ making[p] # <<>>
  /\ fs' = CloseCreated(fs, making[p][1], making[p][2], TRUE)
  /\ making' = [making EXCEPT ![p] = <<>>]
  /\ UNCHANGED <<cwd, files, exe, leaked, panicked>>

RaceNext ==
  \E p \in Process :
    \/ making[p] = <<>> /\ Call(p) /\ UNCHANGED making
    \/ making[p] = <<>> /\ \E x \in Path : MkdirEntry(p, x)
    \/ MkdirClose(p)

RaceSpec == RaceInit /\ [][RaceNext]_raceVars
-----------------------------------------------------------------------------
\* A struct inode that a process uses as its working directory, open file or
\* executable is open: inode_close does not free it under that process.
NoDanglingInode ==
  \A p \in Process :
    \A s \in {cwd[p], exe[p]} \cup ToSet(files[p]) :
      s # NULL => fs.cnt[s] > 0
=============================================================================
