-------------------------------- MODULE Loader --------------------------------
(***************************************************************************)
(* load (userprog/process.c): the segments of an executable, page by page, *)
(* and the stack with the program's arguments.  Addresses are numbers      *)
(* below Addresses, where sums wrap around; user memory ends at PHYS_BASE. *)
(* A program header or an argument is any that the constants allow.        *)
(***************************************************************************)
EXTENDS Integers, SequencesExt, FiniteSetsExt

CONSTANTS
  NULL,
  PGSIZE, PHYS_BASE, Addresses,
  FileLength,           \* length of the executable
  Vaddr, Offset, Bytes, \* the p_vaddr, p_offset, p_filesz and p_memsz tried
  MaxSegments,          \* bound on the program headers
  ArgLength, MaxArgs,   \* lengths of arguments, bound on their number
  NFrame                \* bound on the free pages of the user pool

VARIABLES
  pc,
  pages,        \* the user pages that are mapped, with contents and writable
  frames,       \* free pages left in the user pool
  segments,     \* history: the program headers loaded so far
  args, esp     \* history: the lengths of the arguments; the stack pointer

loadVars == <<pc, pages, frames, segments, args, esp>>

UPage == 0..PHYS_BASE \div PGSIZE - 1
Phdr == [p_vaddr : Vaddr, p_offset : Offset, p_filesz : Bytes, p_memsz : Bytes,
         writable : BOOLEAN]
FileByte(k) == k + 1            \* byte k of the executable; none is 0

LoadInit ==
  /\ pc = "headers"
  /\ pages = [u \in UPage |-> NULL] /\ frames \in 0..NFrame
  /\ segments = <<>> /\ args = <<>> /\ esp = 0
-----------------------------------------------------------------------------
is_user_vaddr(a) == a < PHYS_BASE
ROUND_UP(x, step) == ((x + step - 1) \div step) * step

\* validate_segment.
validate_segment(ph) ==
  LET end == (ph.p_vaddr + ph.p_memsz) % Addresses
  IN /\ ph.p_offset % PGSIZE = ph.p_vaddr % PGSIZE
     /\ ph.p_offset <= FileLength
     /\ ph.p_memsz >= ph.p_filesz
     /\ ph.p_memsz # 0
     /\ is_user_vaddr(ph.p_vaddr) /\ is_user_vaddr(end)
     /\ end >= ph.p_vaddr
     /\ ph.p_vaddr >= PGSIZE

\* Fault: the first page is not read from its start.
read_bytes_unaligned(ph) == ph.p_filesz

\* The bytes that load_segment reads, from the start of the first page on.
read_bytes(ph) ==
  IF ph.p_filesz > 0 THEN (ph.p_vaddr % PGSIZE) + ph.p_filesz ELSE 0

\* load_segment from page upage and file offset ofs on: the pages, the frames
\* left, and whether all went well.  A page that is taken and cannot be read or
\* installed is given back.
RECURSIVE load_segment(_, _, _, _, _)
load_segment(m, ofs, upage, read, zero) ==
  LET page_read_bytes == Min({read, PGSIZE})
      content == [k \in 0..PGSIZE - 1 |->
                    IF k < page_read_bytes THEN FileByte(ofs + k) ELSE 0]
  IN IF read = 0 /\ zero = 0 THEN [m EXCEPT !.ok = TRUE]
     ELSE IF \/ m.frames = 0
             \/ page_read_bytes > Max({0, FileLength - ofs})
             \/ m.pages[upage] # NULL
     THEN m
     ELSE load_segment(
            [m EXCEPT !.frames = @ - 1,
                      !.pages[upage] = [bytes |-> content, writable |-> m.writable]],
            ofs + page_read_bytes, upage + 1,
            read - page_read_bytes, zero - (PGSIZE - page_read_bytes))

\* A header of type PT_LOAD.
LoadSegment(ph) ==
  LET page_end == ROUND_UP((ph.p_vaddr % PGSIZE) + ph.p_memsz, PGSIZE)
      m == load_segment([pages |-> pages, frames |-> frames,
                         writable |-> ph.writable, ok |-> FALSE],
                        ph.p_offset - (ph.p_offset % PGSIZE), ph.p_vaddr \div PGSIZE,
                        read_bytes(ph), page_end - read_bytes(ph))
  IN /\ pc = "headers" /\ Len(segments) < MaxSegments
     /\ IF validate_segment(ph)
        THEN /\ pages' = m.pages /\ frames' = m.frames
             /\ pc' = IF m.ok THEN "headers" ELSE "failed"
             /\ segments' = IF m.ok THEN Append(segments, ph) ELSE segments
        ELSE pc' = "failed" /\ UNCHANGED <<pages, frames, segments>>
     /\ UNCHANGED <<args, esp>>

\* No memory for the directory or argv, no such file, a file that is no
\* executable, a header that cannot be read or has one of the types that are
\* refused; headers of other types are passed over.
RefuseFile ==
  /\ pc = "headers" /\ pc' = "failed"
  /\ UNCHANGED <<pages, frames, segments, args, esp>>

\* No memory for one of the arguments, before the file is opened: the result of
\* malloc is not checked, and the kernel faults on the null pointer.
ArgumentLost ==
  /\ pc = "headers" /\ segments = <<>> /\ pc' = "panic"
  /\ UNCHANGED <<pages, frames, segments, args, esp>>
-----------------------------------------------------------------------------
(* setup_stack. *)

\* The address of argument i: the arguments are pushed last one first.
ArgAddress(as, i) ==
  PHYS_BASE - FoldLeft(LAMBDA n, k : n + as[k] + 1, 0,
                       [k \in 1..Len(as) - i + 1 |-> i + k - 1])

\* The words below the arguments, aligned, from the lowest address on: return
\* address, argc, argv, the addresses of the arguments and a null pointer.
StackWords(as) ==
  LET strings == IF as = <<>> THEN PHYS_BASE ELSE ArgAddress(as, 1)
      top == strings - (strings % 4)
      argv == top - 4 * (Len(as) + 1)
      words == <<0, Len(as), argv>> \o [i \in DOMAIN as |-> ArgAddress(as, i)] \o <<0>>
  IN [esp |-> argv - 12, words |-> words, top |-> top]

\* What is pushed at address a: character k of argument i as <<i, k>>, a word at
\* its lowest address, zeros elsewhere.
StackCell(as, a) ==
  LET s == StackWords(as)
      char == {<<i, k>> \in (DOMAIN as) \X (0..Max(ArgLength)) :
                 k < as[i] /\ ArgAddress(as, i) + k = a}
  IN IF char # {} THEN CHOOSE c \in char : TRUE
     ELSE IF a \in s.esp..s.top - 1 /\ (a - s.esp) % 4 = 0
     THEN <<s.words[(a - s.esp) \div 4 + 1]>> ELSE <<0>>

\* setup_stack and the end of load.  Arguments that need more than the stack page
\* are written below it all the same: over a writable segment there, or else the
\* kernel faults.
SetupStack(as) ==
  LET top == Max(UPage)
      s == StackWords(as)
      below == s.esp \div PGSIZE..top - 1
      Pushed(u, k) == StackCell(as, u * PGSIZE + k)
  IN /\ pc = "headers"
     /\ args' = as
     /\ IF frames = 0 \/ pages[top] # NULL
        THEN pc' = "failed" /\ UNCHANGED <<pages, frames, esp>>
        ELSE IF \E u \in below : pages[u] = NULL \/ ~pages[u].writable
        THEN pc' = "panic" /\ UNCHANGED <<pages, frames, esp>>
        ELSE /\ frames' = frames - 1 /\ esp' = s.esp /\ pc' = "done"
             /\ pages' = [u \in UPage |->
                  IF u = top
                  THEN [bytes |-> [k \in 0..PGSIZE - 1 |-> Pushed(u, k)], writable |-> TRUE]
                  ELSE IF u \in below
                  THEN [pages[u] EXCEPT !.bytes = [k \in 0..PGSIZE - 1 |->
                          IF u * PGSIZE + k >= s.esp THEN Pushed(u, k) ELSE @[k]]]
                  ELSE pages[u]]
     /\ UNCHANGED segments

LoadNext ==
  \/ \E ph \in Phdr : LoadSegment(ph)
  \/ RefuseFile \/ ArgumentLost
  \/ \E n \in 1..MaxArgs : \E as \in [1..n -> ArgLength] : SetupStack(as)

LoadSpec == LoadInit /\ [][LoadNext]_loadVars
-----------------------------------------------------------------------------
ByteAt(a) == pages[a \div PGSIZE].bytes[a % PGSIZE]
PagesOf(ph) == (ph.p_vaddr \div PGSIZE)..((ph.p_vaddr + ph.p_memsz - 1) \div PGSIZE)

\* A program that is loaded finds in memory each segment, with its bytes of the
\* file followed by zeros, writable or not as its header says, never page 0, and
\* no other page but the stack's (validate_segment, load_segment); and on the
\* stack, aligned, argc and an argv that leads to each argument and ends with a
\* null pointer (setup_stack).  Arguments of more than a page, for which the code
\* has no bound, may overwrite a segment: of that only the part below the stack
\* pointer is claimed.
ProgramImage ==
  /\ pc \in {"headers", "done"} =>
       /\ \A i \in DOMAIN segments :
            LET ph == segments[i]
            IN /\ \A k \in 0..ph.p_memsz - 1 :
                    pc = "headers" \/ ph.p_vaddr + k < esp =>
                      ByteAt(ph.p_vaddr + k)
                        = IF k < ph.p_filesz THEN FileByte(ph.p_offset + k) ELSE 0
               /\ \A u \in PagesOf(ph) : pages[u].writable = ph.writable
       /\ {u \in UPage : pages[u] # NULL}
            = UNION {PagesOf(segments[i]) : i \in DOMAIN segments}
                \cup (IF pc = "headers" THEN {} ELSE {Max(UPage)})
  /\ pages[0] = NULL
  /\ pc = "done" =>
       LET argc == ByteAt(esp + 4)[1]
           argv == ByteAt(esp + 8)[1]
           Argument(i) == ByteAt(argv + 4 * (i - 1))[1]
       IN /\ esp % 4 = 0 /\ argc = Len(args) /\ argv % 4 = 0
          /\ \A i \in DOMAIN args :
               /\ \A k \in 0..args[i] - 1 : ByteAt(Argument(i) + k) = <<i, k>>
               /\ ByteAt(Argument(i) + args[i]) = <<0>>
          /\ ByteAt(argv + 4 * argc) = <<0>>
=============================================================================
