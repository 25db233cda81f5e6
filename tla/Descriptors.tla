----------------------------- MODULE Descriptors -----------------------------
(***************************************************************************)
(* File descriptors (userprog/syscall.c) and the struct file behind each   *)
(* of them (filesys/file.c): position and deny_write.  Processes share     *)
(* inodes, of which this module has the length and deny_write_cnt;         *)
(* FileSystem is about who keeps them open.                                *)
(***************************************************************************)
EXTENDS Integers, SequencesExt, FiniteSetsExt

CONSTANTS
  Process, NULL,
  Inode, Dir,       \* inodes, and which of them are directories
  MaxFd,            \* bound on the descriptors a process is given
  MaxPos            \* bound on positions and lengths

VARIABLES
  file_list,        \* struct thread: of each process, its struct file_infos
  fd,               \* struct thread: the descriptor that open returns next
  executable,       \* struct thread: a struct file, or NULL
  deny_write_cnt, eof,      \* struct inode
  halted,           \* has the kernel panicked?
  opened            \* history: what each descriptor stands for

fdVars == <<file_list, fd, executable, deny_write_cnt, eof, halted, opened>>

FirstFd == 2        \* 0 and 1 are the console
Fd == 0..MaxFd

FdInit ==
  /\ file_list = [p \in Process |-> <<>>]
  /\ fd = [p \in Process |-> FirstFd]
  /\ executable = [p \in Process |-> NULL]
  /\ deny_write_cnt = [i \in Inode |-> 0]
  /\ eof = [i \in Inode |-> 0]
  /\ halted = FALSE
  /\ opened = [p \in Process |-> [d \in Fd |-> NULL]]
-----------------------------------------------------------------------------
(* struct file. *)

file_open(i) == [inode |-> i, pos |-> 0, deny_write |-> FALSE]

\* What inode_read_at can return for size bytes; less than there are only if the
\* bounce buffer cannot be allocated.
file_read(f, size) == 0..Max({0, Min({size, eof[f.inode] - f.pos})})

\* What inode_write_at can return: nothing while writing is denied, else as much
\* as is written before the bounce buffer cannot be allocated.
file_write(f, size) == IF deny_write_cnt[f.inode] > 0 THEN {0} ELSE 0..size

file_seek(f, pos) == [f EXCEPT !.pos = pos]
file_tell(f) == f.pos
file_length(f) == eof[f.inode]

\* file_deny_write and file_allow_write, as their effect on deny_write_cnt; the
\* flag in the struct file keeps either from counting twice.
file_deny_write(f, cnt) ==
  IF f.deny_write THEN cnt ELSE [cnt EXCEPT ![f.inode] = @ + 1]
file_allow_write(f, cnt) ==
  IF f.deny_write THEN [cnt EXCEPT ![f.inode] = @ - 1] ELSE cnt

\* file_close; a null pointer is allowed.
file_close(f, cnt) == IF f = NULL THEN cnt ELSE file_allow_write(f, cnt)
-----------------------------------------------------------------------------
(* System calls with a descriptor. *)

\* get_file: the first on the list, 0 for none.
get_file(p, d) == SelectInSeq(file_list[p], LAMBDA f_i : f_i.fd = d)
FileOf(p, d) == file_list[p][get_file(p, d)].file_temp

\* A process that runs; its executable is set in load.
Running(p) == executable[p] # NULL

\* Fault: the descriptor is the number of open files.
open_counts(p, i) ==
  LET d == Len(file_list[p]) + FirstFd
  IN /\ Running(p) /\ fd[p] <= MaxFd
     /\ file_list' = [file_list EXCEPT ![p] =
                        Append(@, [fd |-> d, file_temp |-> file_open(i)])]
     /\ fd' = [fd EXCEPT ![p] = @ + 1]
     /\ opened' = [opened EXCEPT ![p][d] = <<i, 0>>]
     /\ UNCHANGED <<executable, deny_write_cnt, eof, halted>>

\* open of what filesys_open found.
open(p, i) ==
  /\ Running(p) /\ fd[p] <= MaxFd
  /\ file_list' = [file_list EXCEPT ![p] =
                     Append(@, [fd |-> fd[p], file_temp |-> file_open(i)])]
  /\ fd' = [fd EXCEPT ![p] = @ + 1]
  /\ opened' = [opened EXCEPT ![p][fd[p]] = <<i, 0>>]
  /\ UNCHANGED <<executable, deny_write_cnt, eof, halted>>

\* close.
close(p, d) ==
  LET k == get_file(p, d)
  IN /\ Running(p) /\ k # 0
     /\ deny_write_cnt' = file_close(FileOf(p, d), deny_write_cnt)
     /\ file_list' = [file_list EXCEPT ![p] = RemoveAt(@, k)]
     /\ opened' = [opened EXCEPT ![p][d] = NULL]
     /\ UNCHANGED <<fd, executable, eof, halted>>

\* The file behind descriptor d has a new position.
Move(p, d, pos) ==
  /\ pos <= MaxPos
  /\ file_list' = [file_list EXCEPT ![p][get_file(p, d)].file_temp = file_seek(@, pos)]
  /\ opened' = [opened EXCEPT ![p][d] = <<@[1], pos>>]
  /\ UNCHANGED <<fd, executable, deny_write_cnt, halted>>

Panic == halted' = TRUE /\ UNCHANGED <<file_list, fd, executable, deny_write_cnt, eof, opened>>

\* seek; pos is the argument, an unsigned, as an off_t: one of 2^31 or more is
\* negative, and fails the assertion of file_seek.
seek(p, d, pos) ==
  /\ Running(p) /\ get_file(p, d) # 0
  /\ IF pos < 0 THEN Panic ELSE Move(p, d, pos) /\ UNCHANGED eof

\* read of a file, and of what is in a directory's file.
read(p, d, size) ==
  /\ Running(p) /\ get_file(p, d) # 0
  /\ LET f == FileOf(p, d)
     IN \E bytes_read \in file_read(f, size) : Move(p, d, f.pos + bytes_read)
  /\ UNCHANGED eof

\* write: not to a directory.  A write moves the end of the file to its own end,
\* one of no bytes too, and however many bytes were written.  No memory for the
\* copy of the inode is a null pointer that block_read fills.
write(p, d, size) ==
  LET f == FileOf(p, d)
      denied == deny_write_cnt[f.inode] > 0
  IN /\ Running(p) /\ get_file(p, d) # 0
     /\ f.inode \notin Dir
     /\ \/ /\ \E bytes_written \in file_write(f, size) : Move(p, d, f.pos + bytes_written)
           /\ f.pos + size <= MaxPos
           /\ eof' = IF denied THEN eof
                     ELSE [eof EXCEPT ![f.inode] = Max({@, f.pos + size})]
        \/ ~denied /\ Panic

\* load of program i by a new process: open, and nobody may write it.
load(p, i) ==
  /\ ~Running(p) /\ i \notin Dir
  /\ executable' = [executable EXCEPT ![p] = [file_open(i) EXCEPT !.deny_write = TRUE]]
  /\ deny_write_cnt' = file_deny_write(file_open(i), deny_write_cnt)
  /\ UNCHANGED <<file_list, fd, eof, halted, opened>>

\* thread_exit, by exit or by any call with a descriptor that is not open
\* (all but readdir): every file is closed, the executable too.  The struct
\* thread of the next process is a new one (init_thread).
exit(p) ==
  LET Close(cnt, f_i) == file_close(f_i.file_temp, cnt)
  IN /\ Running(p)
     /\ deny_write_cnt' = file_close(executable[p],
                            FoldLeft(Close, deny_write_cnt, file_list[p]))
     /\ executable' = [executable EXCEPT ![p] = NULL]
     /\ file_list' = [file_list EXCEPT ![p] = <<>>]
     /\ fd' = [fd EXCEPT ![p] = FirstFd]
     /\ opened' = [opened EXCEPT ![p] = [d \in Fd |-> NULL]]
     /\ UNCHANGED <<eof, halted>>

FdNext ==
  /\ ~halted
  /\ \E p \in Process :
       \/ \E i \in Inode : open(p, i) \/ load(p, i)
       \/ \E d \in Fd :
            \/ close(p, d)
            \/ \E pos \in -1..MaxPos : seek(p, d, pos)
            \/ \E size \in 0..1 : read(p, d, size) \/ write(p, d, size)
       \/ exit(p)

FdSpec == FdInit /\ [][FdNext]_fdVars
-----------------------------------------------------------------------------
(* Calls that only answer. *)

inumber(p, d) == FileOf(p, d).inode
tell(p, d) == file_tell(FileOf(p, d))
isdir(p, d) == inumber(p, d) \in Dir
filesize(p, d) == file_length(FileOf(p, d))

\* Whatever a process opens and closes, a descriptor stands for the file that
\* open returned it for, at the position that the calls with this descriptor
\* left, until close: two descriptors of one file do not share a position, and
\* no descriptor stands for two files (open, get_file).  The files that deny
\* writing are the executables of running processes, each counted once in
\* deny_write_cnt (file_deny_write, file_close).
DescriptorsSound ==
  /\ \A p \in Process, d \in Fd :
       IF opened[p][d] = NULL THEN get_file(p, d) = 0
       ELSE /\ get_file(p, d) # 0
            /\ <<inumber(p, d), tell(p, d)>> = opened[p][d]
            /\ filesize(p, d) = eof[opened[p][d][1]]
            /\ isdir(p, d) <=> opened[p][d][1] \in Dir
  /\ \A i \in Inode :
       deny_write_cnt[i] = Cardinality({p \in Process :
                             executable[p] # NULL /\ executable[p].inode = i})
=============================================================================
