----------------------------- MODULE FileSystem -----------------------------
(***************************************************************************)
(* Inodes, directories, open files and the file system calls of user       *)
(* processes (filesys/inode.c, directory.c, filesys.c, file.c,             *)
(* userprog/syscall.c).                                                    *)
(*                                                                         *)
(* A call is one step here; calls that change nothing shared (read, seek,  *)
(* readdir) are left to InodeWrite and DirListing.  An inode is named by   *)
(* its sector.                                                             *)
(* fs is what all processes share: the free map, the inodes on disk, and   *)
(* the list of open inodes, of which a sector is a member when cnt is      *)
(* positive.  The C functions that change it are operators from fs to fs,  *)
(* so that a call is their composition.  A directory is the sequence of    *)
(* its slots, a file the sequence of its blocks; where the blocks are on   *)
(* disk is the subject of SectorTree.                                      *)
(***************************************************************************)
EXTENDS Integers, SequencesExt, FiniteSetsExt

CONSTANTS
  Process,
  NSector,      \* the sectors that can hold an inode are 1 to NSector
  Path,         \* the paths that programs use
  MaxLen,       \* bound on the length of a file, in blocks
  MaxHeld       \* bound on the files that are open and the references that
                \* exiting processes left behind, together

ASSUME FileSystemAssumption ==
  /\ {NSector, MaxLen, MaxHeld} \subseteq Nat /\ NSector > 1 /\ MaxLen > 0
  /\ \A x \in Path : x.abs \in BOOLEAN

VARIABLES
  fs,           \* disk and open inodes, a member of FS
  cwd,          \* struct thread: current_directory, NULL for no process
  files,        \* struct thread: file_list
  exe,          \* struct thread: executable, the inode it has open
  leaked,       \* history: references that no process can close any more
  panicked      \* has an ASSERT failed?

vars == <<fs, cwd, files, exe, leaked, panicked>>

NULL == 0
ROOT_DIR_SECTOR == 1
Sector == 1..NSector
Name == UNION {ToSet(x.dir) \cup {x.name} : x \in Path} \cup {".", "..", "a"}
Entry == [name : Name, sector : Sector \cup {NULL}, in_use : BOOLEAN]
FS == [used : SUBSET Sector, isdir : [Sector -> BOOLEAN],
       ents : [Sector -> Seq(Entry)], data : [Sector -> Seq({0, 1})],
       cnt : [Sector -> Nat], removed : [Sector -> BOOLEAN],
       deny : [Sector -> Nat]]
-----------------------------------------------------------------------------
Slot(n, s) == [name |-> n, sector |-> s, in_use |-> TRUE]

\* A free slot; the name and the sector that are still in it have no meaning.
FreeSlot == [name |-> ".", sector |-> NULL, in_use |-> FALSE]
-----------------------------------------------------------------------------
\* free_map_allocate: the first sector that is free, NULL when there is none.
FreeMapAllocate(f) ==
  IF f.used = Sector THEN NULL ELSE Min(Sector \ f.used)

\* inode_open finds an open inode or reads it from disk; inode_reopen.
InodeOpen(f, s) == [f EXCEPT !.cnt[s] = @ + 1]

\* inode_close; a removed inode goes back to the free map with its last
\* reference, and what it held is forgotten (it stays on disk until
\* inode_create overwrites it).  A struct inode that was freed already has been
\* filled by free() with 0xcc, so that counting it down again has no effect.
InodeClose(f, s) ==
  CASE f.cnt[s] = 1 /\ f.removed[s] ->
         [f EXCEPT !.cnt[s] = 0, !.removed[s] = FALSE, !.used = @ \ {s},
                   !.isdir[s] = FALSE, !.ents[s] = <<>>, !.data[s] = <<>>]
    [] OTHER -> [f EXCEPT !.cnt[s] = IF @ = 0 THEN 0 ELSE @ - 1]

\* inode_create: an empty file or directory, written to sector s.
InodeCreate(f, s, isdir) ==
  [f EXCEPT !.used = @ \cup {s}, !.isdir[s] = isdir,
            !.ents[s] = <<>>, !.data[s] = <<>>]

\* inode_remove, inode_deny_write and inode_allow_write.
InodeRemove(f, s) == [f EXCEPT !.removed[s] = TRUE]
InodeDenyWrite(f, s) == [f EXCEPT !.deny[s] = @ + 1]
InodeAllowWrite(f, s) == [f EXCEPT !.deny[s] = @ - 1]

\* dir_reopen or dir_open_root, and dir_close: a struct dir is a reference to its
\* inode.
DirOpen(f, d) == InodeOpen(f, d)
DirClose(f, d) == InodeClose(f, d)

\* lookup: the slot of name n in directory d, 0 when there is none.
SlotOf(f, d, n) ==
  SelectInSeq(f.ents[d], LAMBDA e : e.in_use /\ e.name = n)

\* dir_lookup.
Lookup(f, d, n) ==
  LET k == SlotOf(f, d, n) IN IF k = 0 THEN NULL ELSE f.ents[d][k].sector

\* get_dir walks along the path.  It does not ask whether what it passes is a
\* directory; in a file it finds no name.  Each directory it opens on its way
\* it closes again, so only the last one has a new reference, which the caller
\* counts.
GetDir(f, p, abs, names) ==
  LET Step(d, n) == IF d = NULL THEN NULL ELSE Lookup(f, d, n)
      d == FoldLeft(Step, IF abs THEN ROOT_DIR_SECTOR ELSE cwd[p], names)
  IN IF d # NULL /\ f.removed[d] THEN NULL ELSE d

\* dir_add: the first free slot or a new one; no change when it fails.  When d
\* is no directory, a write is possible only while nobody denies it, and then
\* DirAddPanics.
DirAdd(f, d, n, s) ==
  LET free == SelectInSeq(f.ents[d], LAMBDA e : ~e.in_use)
  IN IF n = "" \/ SlotOf(f, d, n) # 0 \/ ~f.isdir[d]
       THEN f
       ELSE [f EXCEPT !.ents[d] = IF free = 0
                                    THEN Append(@, Slot(n, s))
                                    ELSE ReplaceAt(@, free, Slot(n, s))]

\* dir_add on a file: inode_write_at acquires the inode's lock, which dir_add
\* holds already, and an ASSERT of lock_acquire fails.
DirAddPanics(f, d, n) ==
  d # NULL /\ ~f.isdir[d] /\ n # "" /\ f.deny[d] = 0

\* Fault: dir_remove does not look for entries in use.
DirRemoveNonEmpty(f, d, n) ==
  LET k == SlotOf(f, d, n)
      i == f.ents[d][k].sector
      f1 == InodeOpen(f, i)
      refused == f1.isdir[i] /\ f1.cnt[i] > 1
      f2 == InodeRemove([f1 EXCEPT !.ents[d][k] = FreeSlot], i)
  IN IF k = 0 THEN f ELSE InodeClose(IF refused THEN f1 ELSE f2, i)

\* dir_remove: a directory that is open, or has an entry besides "." and "..",
\* stays.
DirRemove(f, d, n) ==
  LET k == SlotOf(f, d, n)
      i == f.ents[d][k].sector
      f1 == InodeOpen(f, i)
      refused == /\ f1.isdir[i]
                 /\ \/ f1.cnt[i] > 1
                    \/ \E m \in 3..Len(f1.ents[i]) : f1.ents[i][m].in_use
      f2 == InodeRemove([f1 EXCEPT !.ents[d][k] = FreeSlot], i)
  IN IF k = 0 THEN f ELSE InodeClose(IF refused THEN f1 ELSE f2, i)

\* filesys_create up to the closing of a new directory: when dir_add fails the
\* sector of the inode is released; a new directory is opened and given its two
\* first entries.
CreateEntry(f, d, n, isdir) ==
  LET s == FreeMapAllocate(f)
      f1 == InodeCreate(DirOpen(f, d), s, isdir)
      f2 == DirAdd(f1, d, n, s)
  IN CASE f2 = f1 -> [f1 EXCEPT !.used = @ \ {s}]
       [] f2 # f1 /\ isdir ->
            DirAdd(DirAdd(DirOpen(f2, s), s, ".", s), s, "..", d)
       [] OTHER -> f2

\* The end of filesys_create: with dir_close and inode_close a new directory is
\* closed twice.
CloseCreated(f, d, s, isdir) ==
  DirClose(IF isdir THEN InodeClose(DirClose(f, s), s) ELSE f, d)

\* filesys_create.
FilesysCreate(f, d, n, isdir) ==
  LET s == FreeMapAllocate(f)
      f1 == CreateEntry(f, d, n, isdir)
  IN IF d = NULL \/ s = NULL THEN f
     ELSE CloseCreated(f1, d, s, isdir /\ s \in f1.used)

\* filesys_remove.
FilesysRemove(f, d, n) == DirClose(DirRemove(DirOpen(f, d), d, n), d)

\* filesys_open: the inode that path x of process p leads to, NULL for none.
\* With no name after the last "/" it is the directory itself.
FilesysOpen(f, p, x) ==
  LET d == GetDir(f, p, x.abs, x.dir)
      i == IF d = NULL \/ x.name = "" THEN d ELSE Lookup(f, d, x.name)
  IN IF i # NULL /\ f.removed[i] THEN NULL ELSE i

\* do_format: a root directory with "." and "..".
Formatted ==
  LET disk == [used |-> {}, isdir |-> [s \in Sector |-> FALSE],
               ents |-> [s \in Sector |-> <<>>], data |-> [s \in Sector |-> <<>>],
               cnt |-> [s \in Sector |-> 0], removed |-> [s \in Sector |-> FALSE],
               deny |-> [s \in Sector |-> 0]]
      root == DirOpen(InodeCreate(disk, ROOT_DIR_SECTOR, TRUE), ROOT_DIR_SECTOR)
  IN DirClose(DirAdd(DirAdd(root, ROOT_DIR_SECTOR, ".", ROOT_DIR_SECTOR),
                     ROOT_DIR_SECTOR, "..", ROOT_DIR_SECTOR), ROOT_DIR_SECTOR)

\* What filesys_init finds on a disk with one program, and the first process
\* that runs it; its working directory is the root (start_process).
Init ==
  LET PROGRAM == ROOT_DIR_SECTOR + 1
      copied == DirAdd(InodeCreate(Formatted, PROGRAM, FALSE),
                       ROOT_DIR_SECTOR, "a", PROGRAM)
      started == InodeDenyWrite(InodeOpen(copied, PROGRAM), PROGRAM)
  IN /\ fs = [DirOpen(started, ROOT_DIR_SECTOR) EXCEPT !.data[PROGRAM] = <<0>>]
     /\ \E p \in Process :
          /\ cwd = [q \in Process |-> IF q = p THEN ROOT_DIR_SECTOR ELSE NULL]
          /\ exe = [q \in Process |-> IF q = p THEN PROGRAM ELSE NULL]
     /\ files = [p \in Process |-> <<>>]
     /\ leaked = [s \in Sector |-> 0]
     /\ panicked = FALSE
-----------------------------------------------------------------------------
Held == MapThenSumSet(LAMBDA p : Len(files[p]), Process)
          + MapThenSumSet(LAMBDA s : leaked[s], Sector)

Running(p) == ~panicked /\ cwd[p] # NULL

\* open.  A directory is opened once more, as dir_temp.
Open(p, x) ==
  LET i == FilesysOpen(fs, p, x)
  IN /\ Running(p)
     /\ x.abs \/ x.dir # <<>> \/ x.name # ""
     /\ i # NULL
     /\ Held < MaxHeld
     /\ fs' = IF fs.isdir[i] THEN DirOpen(InodeOpen(fs, i), i)
              ELSE InodeOpen(fs, i)
     /\ files' = [files EXCEPT ![p] = Append(@, i)]
     /\ UNCHANGED <<cwd, exe, leaked, panicked>>

\* Fault: close forgets dir_temp.
CloseFileOnly(p, k) ==
  /\ Running(p)
  /\ fs' = InodeClose(fs, files[p][k])
  /\ files' = [files EXCEPT ![p] = RemoveAt(@, k)]
  /\ UNCHANGED <<cwd, exe, leaked, panicked>>

\* close.
Close(p, k) ==
  LET i == files[p][k]
  IN /\ Running(p)
     /\ fs' = IF fs.isdir[i] THEN DirClose(InodeClose(fs, i), i)
              ELSE InodeClose(fs, i)
     /\ files' = [files EXCEPT ![p] = RemoveAt(@, k)]
     /\ UNCHANGED <<cwd, exe, leaked, panicked>>

\* What create and mkdir have in common.
CreateCall(p, x, isdir) ==
  LET d == GetDir(fs, p, x.abs, x.dir)
      panics == DirAddPanics(fs, d, x.name) /\ FreeMapAllocate(fs) # NULL
  IN /\ Running(p)
     /\ panicked' = panics
     /\ fs' = IF panics THEN fs ELSE FilesysCreate(fs, d, x.name, isdir)
     /\ UNCHANGED <<cwd, files, exe, leaked>>

Create(p, x) == CreateCall(p, x, FALSE)
Mkdir(p, x) == CreateCall(p, x, TRUE)

\* remove.
RemoveFile(p, x) ==
  LET d == GetDir(fs, p, x.abs, x.dir)
  IN /\ Running(p)
     /\ d # NULL
     /\ fs' = FilesysRemove(fs, d, x.name)
     /\ UNCHANGED <<cwd, files, exe, leaked, panicked>>

\* chdir (filesys_chdir): the new directory is opened, then the old closed.
Chdir(p, x) ==
  LET d == GetDir(fs, p, x.abs,
                  IF x.name = "" THEN x.dir ELSE Append(x.dir, x.name))
  IN /\ Running(p)
     /\ d # NULL
     /\ fs' = DirClose(DirOpen(fs, d), cwd[p])
     /\ cwd' = [cwd EXCEPT ![p] = d]
     /\ UNCHANGED <<files, exe, leaked, panicked>>

\* Fault: inode_write_at does not look at deny_write_cnt.
WriteDenied(p, k, b) ==
  /\ Running(p)
  /\ ~fs.isdir[files[p][k]]
  /\ fs' = [fs EXCEPT !.data[files[p][k]] =
              [c \in 1..Max({Len(@), b}) |->
                 IF c = b THEN 1 ELSE IF c <= Len(@) THEN @[c] ELSE 0]]
  /\ UNCHANGED <<cwd, files, exe, leaked, panicked>>

\* write of block b (file_write, inode_write_at), which is any block, since
\* seek moves anywhere; blocks between the old end and b become zeros.  While
\* writing is denied, and to a directory, nothing is written.
Write(p, k, b) ==
  /\ Running(p)
  /\ ~fs.isdir[files[p][k]] /\ fs.deny[files[p][k]] = 0
  /\ fs' = [fs EXCEPT !.data[files[p][k]] =
              [c \in 1..Max({Len(@), b}) |->
                 IF c = b THEN 1 ELSE IF c <= Len(@) THEN @[c] ELSE 0]]
  /\ UNCHANGED <<cwd, files, exe, leaked, panicked>>
-----------------------------------------------------------------------------
\* The part of exec that concerns files (thread_create, load): the child q gets
\* the working directory of p and opens its program, which nobody may write
\* while q runs.  A file that is not empty stands for a program.
Exec(p, q, x) ==
  LET i == FilesysOpen(fs, p, x)
  IN /\ Running(p) /\ cwd[q] = NULL
     /\ i # NULL /\ fs.data[i] # <<>>
     /\ fs' = InodeDenyWrite(InodeOpen(DirOpen(fs, cwd[p]), i), i)
     /\ cwd' = [cwd EXCEPT ![q] = cwd[p]]
     /\ exe' = [exe EXCEPT ![q] = i]
     /\ UNCHANGED <<files, leaked, panicked>>

\* exec of what cannot be loaded: the child ends in thread_exit, which closes
\* its executable and leaves its working directory open.
ExecFails(p) ==
  /\ Running(p)
  /\ Held < MaxHeld
  /\ fs' = DirOpen(fs, cwd[p])
  /\ leaked' = [leaked EXCEPT ![cwd[p]] = @ + 1]
  /\ UNCHANGED <<cwd, files, exe, panicked>>

\* thread_exit, on exit, on a bad file descriptor and on a bad pointer: closes
\* every file_temp and, letting it be written again, the executable.  It closes
\* neither dir_temp nor current_directory.
Exit(p) ==
  LET CloseFile(f, i) == InodeClose(f, i)
      f1 == FoldLeft(CloseFile, fs, files[p])
      dirs(s) == Cardinality({k \in DOMAIN files[p] :
                                files[p][k] = s /\ fs.isdir[s]})
  IN /\ Running(p)
     /\ leaked' = [s \in Sector |->
                     leaked[s] + dirs(s) + IF cwd[p] = s THEN 1 ELSE 0]
     /\ fs' = InodeClose(InodeAllowWrite(f1, exe[p]), exe[p])
     /\ files' = [files EXCEPT ![p] = <<>>]
     /\ Held' <= MaxHeld
     /\ cwd' = [cwd EXCEPT ![p] = NULL]
     /\ exe' = [exe EXCEPT ![p] = NULL]
     /\ UNCHANGED panicked

Call(p) ==
  \/ \E x \in Path : Open(p, x) \/ Create(p, x) \/ Mkdir(p, x)
                    \/ RemoveFile(p, x) \/ Chdir(p, x)
                    \/ \E q \in Process : Exec(p, q, x)
  \/ \E k \in DOMAIN files[p] :
       Close(p, k) \/ \E b \in 1..MaxLen : Write(p, k, b)
  \/ ExecFails(p)
  \/ Exit(p)

Next == \E p \in Process : Call(p)

Spec == Init /\ [][Next]_vars
-----------------------------------------------------------------------------
\* The references that processes hold to inode s: two for each directory they
\* have open, one for each file, working directory and executable.
References(s) ==
  LET held(p) == {<<k, m>> \in (DOMAIN files[p]) \X {1, 2} :
                    files[p][k] = s /\ (m = 1 \/ fs.isdir[s])}
                 \cup {<<0, m>> : m \in {n \in {1, 2} :
                                          <<cwd[p], exe[p]>>[n] = s}}
  IN MapThenSumSet(LAMBDA p : Cardinality(held(p)), Process)

\* open_cnt and deny_write_cnt of every inode are the references and the
\* running programs there are, plus what thread_exit left behind; so no call
\* closes an inode that another process still uses (inode_close), and
\* an inode that is in use keeps its sector.
OpenCountsExact ==
  \A s \in Sector :
    /\ fs.cnt[s] = References(s) + leaked[s]
    /\ fs.deny[s] = Cardinality({p \in Process : exe[p] = s})
    /\ fs.cnt[s] > 0 => s \in fs.used

\* The entries besides "." and ".." that lead to inode s.
Links(s) ==
  {<<d, k>> \in fs.used \X (1..Cardinality(Name)) :
     /\ fs.isdir[d] /\ k \in DOMAIN fs.ents[d]
     /\ fs.ents[d][k].in_use /\ fs.ents[d][k].sector = s
     /\ fs.ents[d][k].name \notin {".", ".."}}

\* The directories form a tree, and the free map knows exactly the inodes in it
\* and the removed ones that are still open: each allocated inode but the root
\* has one entry, or none once it is removed; "." and ".." of a directory are
\* itself and the directory of its entry; names in a directory are distinct; a
\* directory that is a working directory or is open is never removed (dir_add,
\* dir_remove, filesys_create, inode_close).
DirectoryTree ==
  /\ \A s \in fs.used \ {ROOT_DIR_SECTOR} :
       Cardinality(Links(s)) = IF fs.removed[s] THEN 0 ELSE 1
  /\ \A s \in Sector \ fs.used : Links(s) = {} /\ fs.cnt[s] = 0
  /\ \A s \in fs.used : fs.removed[s] => fs.cnt[s] > 0 /\ ~fs.isdir[s]
  /\ \A s \in fs.used :
       fs.isdir[s] /\ ~fs.removed[s] =>
         /\ Lookup(fs, s, ".") = s
         /\ {Lookup(fs, s, "..")} = IF s = ROOT_DIR_SECTOR THEN {s}
                                     ELSE {l[1] : l \in Links(s)}
         /\ \A k, m \in DOMAIN fs.ents[s] :
              fs.ents[s][k].in_use /\ fs.ents[s][m].in_use
                /\ fs.ents[s][k].name = fs.ents[s][m].name => k = m

\* While a program runs, its file keeps its inode, its sector and its contents
\* (file_deny_write, inode_write_at, inode_close), whoever opens, writes or
\* removes it.
ExecutableIntact ==
  [][\A p \in Process :
       exe[p] # NULL /\ exe'[p] = exe[p] =>
         /\ exe[p] \in fs'.used
         /\ fs'.data[exe[p]] = fs.data[exe[p]]]_vars
=============================================================================
