------------------------------ MODULE LinkedList ------------------------------
(***************************************************************************)
(* The doubly linked lists of lib/kernel/list.c, pointer by pointer: two   *)
(* lists whose elements move between them.  Every operation also updates   *)
(* the sequences that the rest of the project takes a list to be.          *)
(***************************************************************************)
EXTENDS Integers, SequencesExt

CONSTANTS Elem, Key, NULL       \* Key[e]: the integer that `less' compares

VARIABLES
  mem,          \* the prev and next of every list_elem
  seq           \* history: the two lists as sequences

linkedVars == <<mem, seq>>

List == {"a", "b"}
head(l) == <<"head", l>>
tail(l) == <<"tail", l>>
Cell == ({"elem"} \X Elem) \cup ({"head", "tail"} \X List)
Interior == {"elem"} \X Elem
less(x, y) == Key[x[2]] < Key[y[2]]

\* list_init, of both lists; an element outside a list holds anything.
LinkedInit ==
  /\ mem = [next |-> [c \in Cell |-> IF c[1] = "head" THEN tail(c[2]) ELSE NULL],
            prev |-> [c \in Cell |-> IF c[1] = "tail" THEN head(c[2]) ELSE NULL]]
  /\ seq = [l \in List |-> <<>>]
-----------------------------------------------------------------------------
(* The operations, from memory to memory. *)

list_begin(m, l) == m.next[head(l)]
list_end(l) == tail(l)
list_empty(m, l) == list_begin(m, l) = list_end(l)

SetNext(m, c, d) == [m EXCEPT !.next[c] = d]
SetPrev(m, c, d) == [m EXCEPT !.prev[c] = d]

list_insert(m, before, elem) ==
  LET m1 == SetPrev(m, elem, m.prev[before])
      m2 == SetNext(m1, elem, before)
      m3 == SetNext(m2, m2.prev[before], elem)
  IN SetPrev(m3, before, elem)

list_remove(m, elem) ==
  LET m1 == SetNext(m, m.prev[elem], m.next[elem])
  IN SetPrev(m1, m1.next[elem], m1.prev[elem])

\* list_splice of first up to, and without, last.
list_splice(m, before, first, last) ==
  IF first = last THEN m
  ELSE LET end == m.prev[last]
           m1 == SetNext(m, m.prev[first], m.next[end])
           m2 == SetPrev(m1, m1.next[end], m1.prev[first])
           m3 == SetPrev(m2, first, m2.prev[before])
           m4 == SetNext(m3, end, before)
           m5 == SetNext(m4, m4.prev[before], first)
       IN SetPrev(m5, before, end)

\* list_reverse: swap the pointers of each element, walking by the new prev,
\* then those of the ends.
RECURSIVE SwapAll(_, _, _)
SwapAll(m, e, end) ==
  IF e = end THEN m
  ELSE LET n == SetNext(SetPrev(m, e, m.next[e]), e, m.prev[e])
       IN SwapAll(n, n.prev[e], end)

\* Fault: the ends of the reversed list are left alone.
list_reverse_inner(m, l) == SwapAll(m, list_begin(m, l), list_end(l))

list_reverse(m, l) ==
  IF list_empty(m, l) THEN m
  ELSE LET m1 == SwapAll(m, list_begin(m, l), list_end(l))
           m2 == SetPrev(SetNext(m1, head(l), m1.prev[tail(l)]),
                         tail(l), m1.next[head(l)])
           first == m2.next[head(l)]
           last == m2.prev[tail(l)]
       IN SetNext(SetPrev(m2, first, m2.next[last]), last, m2.prev[first])

\* list_insert_ordered, from e on.
RECURSIVE FirstGreater(_, _, _, _)
FirstGreater(m, e, end, elem) ==
  IF e = end \/ less(elem, e) THEN e ELSE FirstGreater(m, m.next[e], end, elem)

list_insert_ordered(m, l, elem) ==
  list_insert(m, FirstGreater(m, list_begin(m, l), list_end(l), elem), elem)

\* list_unique, from elem on, with the other list for the duplicates.
RECURSIVE UniqueFrom(_, _, _, _)
UniqueFrom(m, l, dup, elem) ==
  LET next == m.next[elem]
  IN IF next = list_end(l) THEN m
     ELSE IF ~less(elem, next) /\ ~less(next, elem)
     THEN UniqueFrom(list_insert(list_remove(m, next), list_end(dup), next), l, dup, elem)
     ELSE UniqueFrom(m, l, dup, next)

list_unique(m, l, dup) ==
  IF list_empty(m, l) THEN m ELSE UniqueFrom(m, l, dup, list_begin(m, l))
-----------------------------------------------------------------------------
(* list_sort: passes that merge adjacent runs until there is one. *)

RECURSIVE find_end_of_run(_, _, _)
find_end_of_run(m, a, b) ==
  LET n == m.next[a]
  IN IF n = b \/ less(n, m.prev[n]) THEN n ELSE find_end_of_run(m, n, b)

RECURSIVE inplace_merge(_, _, _, _)
inplace_merge(m, a0, a1b0, b1) ==
  IF a0 = a1b0 \/ a1b0 = b1 THEN m
  ELSE IF ~less(a1b0, a0) THEN inplace_merge(m, m.next[a0], a1b0, b1)
  ELSE LET n == m.next[a1b0]
       IN inplace_merge(list_splice(m, a0, m.prev[n], n), a0, n, b1)

\* One pass from a0 on: the memory, and the number of runs it leaves.
RECURSIVE MergePass(_, _, _, _)
MergePass(m, l, a0, runs) ==
  IF a0 = list_end(l) THEN <<m, runs>>
  ELSE LET a1b0 == find_end_of_run(m, a0, list_end(l))
       IN IF a1b0 = list_end(l) THEN <<m, runs + 1>>
          ELSE LET b1 == find_end_of_run(m, a1b0, list_end(l))
               IN MergePass(inplace_merge(m, a0, a1b0, b1), l, b1, runs + 1)

RECURSIVE list_sort(_, _)
list_sort(m, l) ==
  LET pass == MergePass(m, l, list_begin(m, l), 0)
  IN IF pass[2] > 1 THEN list_sort(pass[1], l) ELSE pass[1]

\* list_max, list_min from e on: the first of the greatest and of the least.
RECURSIVE list_extreme(_, _, _, _, _)
list_extreme(m, l, best, e, max) ==
  IF e = list_end(l) THEN best
  ELSE list_extreme(m, l,
         IF (max /\ less(best, e)) \/ (~max /\ less(e, best)) THEN e ELSE best,
         m.next[e], max)
-----------------------------------------------------------------------------
(* The same on sequences. *)

Outside == {e \in Interior : \A l \in List : e \notin ToSet(seq[l])}
Other(l) == CHOOSE k \in List : k # l
\* The element at position i of list l, its end for the position past the last.
At(l, i) == IF i <= Len(seq[l]) THEN seq[l][i] ELSE tail(l)

\* Where an element goes to be behind those that are not greater.
RECURSIVE Sorted(_)
Sorted(s) ==
  IF s = <<>> THEN <<>>
  ELSE LET rest == Sorted(Front(s))
           k == SelectInSeq(rest, LAMBDA x : less(Last(s), x))
       IN IF k = 0 THEN Append(rest, Last(s)) ELSE InsertAt(rest, k, Last(s))

\* The elements of s that do, and do not, equal their predecessor.
Repeats(s, same) ==
  LET keep == {i \in DOMAIN s : (i > 1 /\ Key[s[i][2]] = Key[s[i - 1][2]]) = same}
  IN FoldLeft(LAMBDA acc, i : IF i \in keep THEN Append(acc, s[i]) ELSE acc,
              <<>>, [i \in DOMAIN s |-> i])

\* list_push_front, list_push_back, list_insert: before position i.
Insert(l, i, e) ==
  /\ mem' = list_insert(mem, At(l, i), e)
  /\ seq' = [seq EXCEPT ![l] = InsertAt(@, i, e)]

\* list_pop_front, list_pop_back, list_remove.
RemoveElem(l, i) ==
  /\ mem' = list_remove(mem, At(l, i))
  /\ seq' = [seq EXCEPT ![l] = RemoveAt(@, i)]

\* Positions i up to j of list l go before position k of the other list.
Splice(l, i, j, k) ==
  LET o == Other(l)
  IN /\ mem' = list_splice(mem, At(o, k), At(l, i), At(l, j))
     /\ seq' = [seq EXCEPT
                  ![l] = SubSeq(@, 1, i - 1) \o SubSeq(@, j, Len(@)),
                  ![o] = SubSeq(@, 1, k - 1) \o SubSeq(seq[l], i, j - 1)
                           \o SubSeq(@, k, Len(@))]

ReverseList(l) ==
  /\ mem' = list_reverse(mem, l)
  /\ seq' = [seq EXCEPT ![l] = Reverse(@)]

Sort(l) ==
  /\ mem' = list_sort(mem, l)
  /\ seq' = [seq EXCEPT ![l] = Sorted(@)]

\* list_insert_ordered, into a list that is sorted.
InsertOrdered(l, e) ==
  /\ seq[l] = Sorted(seq[l])
  /\ mem' = list_insert_ordered(mem, l, e)
  /\ seq' = [seq EXCEPT ![l] = Sorted(Append(@, e))]

Unique(l) ==
  /\ mem' = list_unique(mem, l, Other(l))
  /\ seq' = [seq EXCEPT ![l] = Repeats(@, FALSE),
                        ![Other(l)] = @ \o Repeats(seq[l], TRUE)]

LinkedNext ==
  \E l \in List :
    \/ \E e \in Outside : \E i \in 1..(Len(seq[l]) + 1) : Insert(l, i, e)
    \/ \E i \in 1..Len(seq[l]) : RemoveElem(l, i)
    \/ \E i, j \in 1..(Len(seq[l]) + 1), k \in 1..(Len(seq[Other(l)]) + 1) :
         i <= j /\ Splice(l, i, j, k)
    \/ ReverseList(l) \/ Sort(l) \/ Unique(l)
    \/ \E e \in Outside : InsertOrdered(l, e)

LinkedSpec == LinkedInit /\ [][LinkedNext]_linkedVars
-----------------------------------------------------------------------------
\* The cells from c by `dir' up to, and without, the cell end, if it is reached
\* within n elements.
RECURSIVE Walk(_, _, _, _)
Walk(dir, c, end, n) ==
  IF c = end THEN <<>>
  ELSE IF n = 0 \/ c \notin Interior THEN <<NULL>>
  ELSE <<c>> \o Walk(dir, dir[c], end, n - 1)

\* A list is the sequence that the operations call for, walked forward and
\* walked backward: list_sort sorts and is stable, list_unique moves exactly
\* the repeats, no operation loses or shares an element; list_max and list_min
\* return the first extreme element.
ListMatchesSequence ==
  \A l \in List :
    /\ Walk(mem.next, list_begin(mem, l), tail(l), Len(seq[l])) = seq[l]
    /\ Walk(mem.prev, mem.prev[tail(l)], head(l), Len(seq[l])) = Reverse(seq[l])
    /\ seq[l] # <<>> =>
         /\ list_extreme(mem, l, seq[l][1], At(l, 2), FALSE) = Sorted(seq[l])[1]
         /\ list_extreme(mem, l, seq[l][1], At(l, 2), TRUE)
              = seq[l][SelectInSeq(seq[l], LAMBDA x :
                         \A i \in DOMAIN seq[l] : ~less(x, seq[l][i]))]
=============================================================================
