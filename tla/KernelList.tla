----------------------------- MODULE KernelList -----------------------------
(***************************************************************************)
(* Operations of lib/kernel/list.c, on sequences.                          *)
(*                                                                         *)
(* A `struct list' is a sequence of the things its elements are embedded   *)
(* in.  The kernel orders a list with a `less' callback that compares one  *)
(* integer field; here the field is a function `key' on the elements and   *)
(* "a is less than b" is key[a] > key[b], which is what compare_priorities *)
(* (threads/thread.c) and compare_priorities_sema (threads/synch.c) do.    *)
(***************************************************************************)
EXTENDS Integers, Sequences, FiniteSetsExt

\* list_insert, before the element at position i or at the end.
list_insert(list, i, elem) ==
  SubSeq(list, 1, i - 1) \o <<elem>> \o SubSeq(list, i, Len(list))

\* list_remove, of an element that is in the list.
list_remove(list, elem) ==
  LET i == CHOOSE i \in DOMAIN list : list[i] = elem
  IN  SubSeq(list, 1, i - 1) \o SubSeq(list, i + 1, Len(list))

\* Fault: a new element goes before those with an equal key.
InsertBeforeEquals(list, elem, key) ==
  LET e == Min({i \in DOMAIN list : key[elem] >= key[list[i]]} \cup {Len(list) + 1})
  IN  list_insert(list, e, elem)

\* list_insert_ordered: before the first element that ELEM is less than, so
\* behind all elements with an equal key.  Nothing re-establishes the order
\* of a list whose keys changed: on such a list the first smaller element
\* still decides.
InsertOrdered(list, elem, key) ==
  LET e == Min({i \in DOMAIN list : key[elem] > key[list[i]]} \cup {Len(list) + 1})
  IN  list_insert(list, e, elem)

\* Position i of the sorted list holds the element that was at position p[i]:
\* larger keys first, and equal keys in the order they had (the merge sort of
\* list_sort only moves an element ahead of a strictly greater one).
SortingOrders(list, key) ==
  { p \in Bijection(DOMAIN list, DOMAIN list) :
      \A i, j \in DOMAIN list :
        i < j => \/ key[list[p[i]]] > key[list[p[j]]]
                 \/ key[list[p[i]]] = key[list[p[j]]] /\ p[i] < p[j] }

\* Fault: the list is left as it was.
ListUnsorted(list, key) == {list}

\* The lists that list_sort may leave: there is exactly one.
ListSort(list, key) ==
  { [i \in DOMAIN list |-> list[p[i]]] : p \in SortingOrders(list, key) }

\* The order that list_insert_ordered asks of its argument.
IsOrdered(list, key) ==
  \A i, j \in DOMAIN list : i < j => key[list[i]] >= key[list[j]]
=============================================================================
