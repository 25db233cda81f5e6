------------------------------- MODULE Sorting -------------------------------
(***************************************************************************)
(* sort (a heap sort) and binary_search of lib/stdlib.c, on arrays of      *)
(* integers; qsort and bsearch only adapt the comparison.                  *)
(***************************************************************************)
EXTENDS Integers, SequencesExt, FiniteSetsExt

CONSTANTS Number, MaxCnt        \* the elements, and a bound on their number

VARIABLE array

SortInit == array = <<>>
-----------------------------------------------------------------------------
do_swap(a, i, j) == [a EXCEPT ![i] = a[j], ![j] = a[i]]

\* heapify: element i floats down in the first cnt elements.
RECURSIVE heapify(_, _, _)
heapify(a, i, cnt) ==
  LET left == 2 * i
      right == 2 * i + 1
      m == IF left <= cnt /\ a[left] > a[i] THEN left ELSE i
      max == IF right <= cnt /\ a[right] > a[m] THEN right ELSE m
  IN IF max = i THEN a ELSE heapify(do_swap(a, i, max), max, cnt)

\* Down(n, m): the sequence n, n - 1, ..., m.
Down(n, m) == [k \in 1..n - m + 1 |-> n - k + 1]

\* Fault: the heap still has the element that was just put in its place.
sort_whole_heap(a) ==
  LET heap == FoldLeft(LAMBDA b, i : heapify(b, i, Len(a)), a, Down(Len(a) \div 2, 1))
  IN FoldLeft(LAMBDA b, i : heapify(do_swap(b, 1, i), 1, i), heap, Down(Len(a), 2))

\* sort: builds a heap, then moves its largest element behind it.
sort(a) ==
  LET heap == FoldLeft(LAMBDA b, i : heapify(b, i, Len(a)), a, Down(Len(a) \div 2, 1))
  IN FoldLeft(LAMBDA b, i : heapify(do_swap(b, 1, i), 1, i - 1), heap,
              Down(Len(a), 2))

\* binary_search in the elements from first up to, and without, last; 0 when
\* key is not among them.
RECURSIVE binary_search(_, _, _, _)
binary_search(key, a, first, last) ==
  LET middle == first + (last - first) \div 2
  IN IF first >= last THEN 0
     ELSE IF key < a[middle] THEN binary_search(key, a, first, middle)
     ELSE IF key > a[middle] THEN binary_search(key, a, middle + 1, last)
     ELSE middle

\* A program fills an array and sorts it, over and over.
SortNext ==
  \/ \E n \in Number : Len(array) < MaxCnt /\ array' = Append(array, n)
  \/ array' = sort(array)

SortSpec == SortInit /\ [][SortNext]_array
-----------------------------------------------------------------------------
\* sort returns the same elements in ascending order, for any array, and
\* binary_search in it finds every key that is there and no other.
SortsAndSearches ==
  LET a == sort(array)
      Times(s, n) == Cardinality({i \in DOMAIN s : s[i] = n})
  IN /\ \A n \in Number : Times(a, n) = Times(array, n)
     /\ \A i, j \in DOMAIN a : i < j => a[i] <= a[j]
     /\ \A n \in Number :
          LET i == binary_search(n, a, 1, Len(a) + 1)
          IN IF n \in ToSet(array) THEN i \in DOMAIN a /\ a[i] = n ELSE i = 0
=============================================================================
