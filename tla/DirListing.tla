------------------------------ MODULE DirListing ------------------------------
(***************************************************************************)
(* A process lists a directory with readdir (userprog/syscall.c,           *)
(* dir_readdir) while other processes add and remove entries: dir_add      *)
(* uses the first free slot, which may lie before or after the reader.     *)
(***************************************************************************)
EXTENDS Integers, Sequences, FiniteSetsExt

CONSTANTS
  EntryName,    \* the names that are added and removed
  FREE          \* a slot that is not in use

VARIABLES
  slots,        \* the names in the slots of the directory
  pos,          \* struct dir: the slots read so far
  done,         \* has readdir returned false?
  listed,       \* history: the names returned, in order
  stable        \* history: the names that were there ever since the open

listVars == <<slots, pos, done, listed, stable>>

ListInit ==
  /\ slots = <<".", "..">>
  /\ pos = 0 /\ done = FALSE
  /\ listed = <<>>
  /\ stable = {}

Present == Range(slots) \ {".", "..", FREE}
-----------------------------------------------------------------------------
\* The first of the slots in S that a loop over the slots meets, 0 for none.
FirstSlot(S) == IF S = {} THEN 0 ELSE Min(S)

\* dir_add: the first free slot, or a new one at the end.
DirAdd(n) ==
  LET free == FirstSlot({i \in DOMAIN slots : slots[i] = FREE})
  IN /\ n \notin Present
     /\ slots' = IF free = 0 THEN Append(slots, n) ELSE [slots EXCEPT ![free] = n]
     /\ UNCHANGED <<pos, done, listed, stable>>

\* dir_remove.
DirRemove(n) ==
  /\ n \in Present
  /\ slots' = [i \in DOMAIN slots |-> IF slots[i] = n THEN FREE ELSE slots[i]]
  /\ stable' = stable \ {n}
  /\ UNCHANGED <<pos, done, listed>>

\* open of the directory: a new dir_temp, at its start.
OpenDir ==
  /\ pos' = 0 /\ done' = FALSE
  /\ listed' = <<>>
  /\ stable' = Present
  /\ UNCHANGED slots

\* dir_readdir from position p: the next slot in use, and 0 when there is none.
dir_readdir(p) == FirstSlot({i \in p + 1..Len(slots) : slots[i] # FREE})

\* Fault: after "." only one more entry is read.
readdir_shows_dots ==
  LET first == dir_readdir(pos)
      k == IF first # 0 /\ slots[first] = "." THEN dir_readdir(first) ELSE first
  IN /\ pos' = IF k = 0 THEN Len(slots) ELSE k
     /\ done' = (k = 0)
     /\ listed' = IF k = 0 THEN listed ELSE Append(listed, slots[k])
     /\ UNCHANGED <<slots, stable>>

\* readdir, which skips "." and "..".
readdir ==
  LET Again(p) == IF p = 0 THEN 0 ELSE dir_readdir(p)
      first == dir_readdir(pos)
      k == CASE first # 0 /\ slots[first] = "." -> Again(Again(first))
             [] first # 0 /\ slots[first] = ".." -> Again(first)
             [] OTHER -> first
  IN /\ ~done
     /\ pos' = IF k = 0 THEN Len(slots) ELSE k
     /\ done' = (k = 0)
     /\ listed' = IF k = 0 THEN listed ELSE Append(listed, slots[k])
     /\ UNCHANGED <<slots, stable>>

ListNext ==
  \/ \E n \in EntryName : DirAdd(n) \/ DirRemove(n)
  \/ OpenDir
  \/ readdir

ListSpec == ListInit /\ [][ListNext]_listVars
-----------------------------------------------------------------------------
\* When readdir has returned false, every entry that was in the directory from
\* the open on was returned exactly once, whatever was added and removed
\* meanwhile, and "." and ".." never are (readdir, dir_readdir, dir_add).
ListedExactlyOnce ==
  /\ Range(listed) \subseteq EntryName
  /\ \A n \in stable :
       LET times == Cardinality({i \in DOMAIN listed : listed[i] = n})
       IN times <= 1 /\ (done => times = 1)
=============================================================================
