---------------------------- MODULE List_proofs -----------------------------
(***************************************************************************)
(* What the operators of KernelList return, for every list and key.        *)
(***************************************************************************)
EXTENDS KernelList, WellFoundedInduction, SequenceTheorems,
        TLAPS

\* A non-empty set of naturals has a least element.
LEMMA MinExists ==
  ASSUME NEW S \in SUBSET Nat, S # {}
  PROVE  Min(S) \in S /\ \A y \in S : Min(S) <= y
<1>1. PICK x \in S : \A y \in S : ~(<<y, x>> \in OpToRel(<, Nat))
  BY NatLessThanWellFounded, WFMin, Zenon
<1>2. \A y \in S : ~(y < x)
  BY <1>1, Zenon DEF OpToRel
<1>3. \A y \in S : x <= y
  BY <1>2
<1> QED BY <1>3, Zenon DEF Min

\* A non-empty bounded set of naturals has a greatest element.
LEMMA MaxExists ==
  ASSUME NEW n \in Nat, NEW S \in SUBSET (0..n), S # {}
  PROVE  Max(S) \in S /\ \A y \in S : Max(S) >= y
<1> DEFINE T == {n - y : y \in S}
<1>1. T \in SUBSET Nat /\ T # {}
  <2>1. \A y \in S : y \in 0..n
    OBVIOUS
  <2>2. \A y \in S : n - y \in Nat
    BY <2>1
  <2> QED BY <2>2, Zenon
<1>2. Min(T) \in T /\ \A z \in T : Min(T) <= z
  BY <1>1, MinExists, Zenon
<1>3. PICK x \in S : Min(T) = n - x
  BY <1>2, Zenon
<1>4. \A y \in S : x >= y
  <2> TAKE y \in S
  <2>1. n - x <= n - y
    BY <1>2, <1>3, Zenon
  <2> QED BY <2>1
<1> QED BY <1>4, Zenon DEF Max

\* The elements of a sequence, by index.
LEMMA ElementsByIndex ==
  ASSUME NEW S, NEW s \in Seq(S)
  PROVE  /\ \A x : x \in Range(s) <=> \E i \in 1..Len(s) : s[i] = x
         /\ IsInjective(s) <=>
              \A i, j \in 1..Len(s) : s[i] = s[j] => i = j
<1>1. DOMAIN s = 1..Len(s)
  OBVIOUS
<1> QED BY <1>1, Zenon DEF Range, IsInjective

\* list_insert with a valid position adds the element and keeps the others.
LEMMA ListInsertProps ==
  ASSUME NEW S, NEW s \in Seq(S), NEW e \in S, NEW i \in 1..(Len(s) + 1)
  PROVE  /\ list_insert(s, i, e) \in Seq(S)
         /\ Len(list_insert(s, i, e)) = Len(s) + 1
         /\ \A j \in 1..(Len(s) + 1) :
              list_insert(s, i, e)[j] = IF j < i THEN s[j]
                                     ELSE IF j = i THEN e ELSE s[j - 1]
<1> DEFINE a == SubSeq(s, 1, i - 1)
           b == SubSeq(s, i, Len(s))
<1>1. a \in Seq(S) /\ Len(a) = i - 1 /\ \A j \in 1..(i - 1) : a[j] = s[j]
  OBVIOUS
<1>2. /\ b \in Seq(S) /\ Len(b) = Len(s) - i + 1
      /\ \A j \in 1..(Len(s) - i + 1) : b[j] = s[i + j - 1]
  OBVIOUS
<1>3. list_insert(s, i, e) = (a \o <<e>>) \o b
  BY DEF list_insert
<1> HIDE DEF a, b
<1>4. /\ a \o <<e>> \in Seq(S) /\ Len(a \o <<e>>) = i
      /\ \A j \in 1..i : (a \o <<e>>)[j] = IF j < i THEN s[j] ELSE e
  BY <1>1
<1> DEFINE c == a \o <<e>>
<1>5. /\ c \in Seq(S) /\ Len(c) = i
      /\ \A j \in 1..i : c[j] = IF j < i THEN s[j] ELSE e
  BY <1>4
<1>6. list_insert(s, i, e) = c \o b
  BY <1>3
<1> HIDE DEF c
<1>7. c \o b \in Seq(S) /\ Len(c \o b) = Len(s) + 1
  <2>1. c \in Seq(S) /\ b \in Seq(S)
    BY <1>2, <1>5
  <2>2. c \o b \in Seq(S) /\ Len(c \o b) = Len(c) + Len(b)
    BY <2>1, ConcatProperties, Zenon
  <2>3. Len(c) = i /\ Len(b) = Len(s) - i + 1
    BY <1>2, <1>5
  <2>4. i + (Len(s) - i + 1) = Len(s) + 1
    OBVIOUS
  <2> QED BY <2>2, <2>3, <2>4
<1>8. ASSUME NEW j \in 1..(Len(s) + 1)
      PROVE  (c \o b)[j] = IF j < i THEN s[j]
                            ELSE IF j = i THEN e ELSE s[j - 1]
  <2>1. (c \o b)[j] = IF j <= i THEN c[j] ELSE b[j - i]
    <3>1. c \in Seq(S) /\ b \in Seq(S)
      BY <1>2, <1>5, Zenon
    <3>2. Len(c) = i
      BY <1>5, Zenon
    <3>3. j \in 1..(Len(c) + Len(b))
      BY <1>2, <1>5
    <3>4. (c \o b)[j] = IF j <= Len(c) THEN c[j] ELSE b[j - Len(c)]
      BY <3>1, <3>3, ConcatProperties, Zenon
    <3> QED BY <3>2, <3>4, Zenon
  <2>2. CASE j <= i
    BY <1>5, <2>1, <2>2
  <2>3. CASE j > i
    <3>1. j - i \in 1..(Len(s) - i + 1) /\ i + (j - i) - 1 = j - 1
      BY <2>3
    <3> QED BY <1>2, <2>1, <2>3, <3>1
  <2>4. j <= i \/ j > i
    OBVIOUS
  <2> QED BY <2>2, <2>3, <2>4, Zenon
<1> QED BY <1>6, <1>7, <1>8

\* list_insert_ordered puts an element before the first one with a smaller key.
LEMMA InsertPosition ==
  ASSUME NEW S, NEW list \in Seq(S), NEW elem \in S, NEW key
  PROVE  \E k \in 1..(Len(list) + 1) :
           /\ InsertOrdered(list, elem, key) = list_insert(list, k, elem)
           /\ InsertOrdered(list, elem, key) \in Seq(S)
           /\ Len(InsertOrdered(list, elem, key)) = Len(list) + 1
           /\ \A j \in 1..(Len(list) + 1) :
                InsertOrdered(list, elem, key)[j] =
                  IF j < k THEN list[j] ELSE IF j = k THEN elem ELSE list[j - 1]
           /\ \A j \in 1..Len(list) : j < k => ~(key[elem] > key[list[j]])
           /\ k <= Len(list) => key[elem] > key[list[k]]
<1> DEFINE I == {i \in DOMAIN list : key[elem] > key[list[i]]} \cup {Len(list) + 1}
<1>1. PICK k \in I : k = Min(I) /\ \A y \in I : k <= y
  <2>1. I \in SUBSET Nat /\ I # {}
    OBVIOUS
  <2> HIDE DEF I
  <2>2. Min(I) \in I /\ \A y \in I : Min(I) <= y
    BY <2>1, MinExists, Zenon
  <2> QED BY <2>2, Zenon
<1>2. InsertOrdered(list, elem, key) = list_insert(list, k, elem)
  BY <1>1, Zenon DEF InsertOrdered
<1>3. k \in 1..(Len(list) + 1)
  OBVIOUS
<1>4. k <= Len(list) => key[elem] > key[list[k]]
  OBVIOUS
<1>5. ASSUME NEW j \in 1..Len(list), j < k PROVE ~(key[elem] > key[list[j]])
  <2>1. j \in DOMAIN list /\ ~(k <= j)
    BY <1>3, <1>5
  <2> QED BY <1>1, <2>1, Zenon
<1>6. /\ list_insert(list, k, elem) \in Seq(S)
      /\ Len(list_insert(list, k, elem)) = Len(list) + 1
  BY <1>3, ListInsertProps, Zenon
<1> HIDE DEF I
<1>7. ASSUME NEW j \in 1..(Len(list) + 1)
      PROVE  list_insert(list, k, elem)[j] =
               IF j < k THEN list[j] ELSE IF j = k THEN elem ELSE list[j - 1]
  BY <1>3, ListInsertProps
<1> QED BY <1>2, <1>3, <1>4, <1>5, <1>6, <1>7, Zenon

\* list_insert_ordered adds exactly the new element, once.
LEMMA InsertOrderedProps ==
  ASSUME NEW S, NEW list \in Seq(S), NEW elem \in S, NEW key
  PROVE  /\ InsertOrdered(list, elem, key) \in Seq(S)
         /\ InsertOrdered(list, elem, key) # <<>>
         /\ Range(InsertOrdered(list, elem, key)) = Range(list) \cup {elem}
         /\ IsInjective(list) /\ elem \notin Range(list)
              => IsInjective(InsertOrdered(list, elem, key))
<1> DEFINE r == InsertOrdered(list, elem, key)
<1>1. PICK i \in 1..(Len(list) + 1) :
        /\ InsertOrdered(list, elem, key) \in Seq(S)
        /\ Len(InsertOrdered(list, elem, key)) = Len(list) + 1
        /\ \A j \in 1..(Len(list) + 1) :
             InsertOrdered(list, elem, key)[j] =
               IF j < i THEN list[j] ELSE IF j = i THEN elem ELSE list[j - 1]
        /\ \A j \in 1..Len(list) : j < i => ~(key[elem] > key[list[j]])
        /\ i <= Len(list) => key[elem] > key[list[i]]
  BY InsertPosition, Zenon
<1>2. /\ r \in Seq(S) /\ Len(r) = Len(list) + 1
      /\ \A j \in 1..(Len(list) + 1) :
           r[j] = IF j < i THEN list[j]
                  ELSE IF j = i THEN elem ELSE list[j - 1]
  BY <1>1, Zenon
<1> HIDE DEF r
<1>3. Range(r) = Range(list) \cup {elem}
  <2>1. \A x : x \in Range(r) => x \in Range(list) \cup {elem}
    <3> TAKE x
    <3> SUFFICES ASSUME NEW j \in 1..(Len(list) + 1), x = r[j]
                 PROVE  x \in Range(list) \cup {elem}
      BY <1>2, ElementsByIndex
    <3>1. x = elem \/ \E k \in 1..Len(list) : x = list[k]
      <4>1. CASE j < i
        BY <1>2, <4>1
      <4>2. CASE j > i
        <5>1. j - 1 \in 1..Len(list) /\ x = list[j - 1]
          BY <1>2, <4>2
        <5> QED BY <5>1
      <4> QED BY <1>2, <4>1, <4>2
    <3> QED BY <3>1, ElementsByIndex
  <2>2. elem \in Range(r)
    <3>1. i \in 1..Len(r) /\ r[i] = elem
      BY <1>2
    <3> QED BY <1>2, <3>1, ElementsByIndex
  <2>3. ASSUME NEW k \in 1..Len(list) PROVE list[k] \in Range(r)
    <3>1. \E j \in 1..Len(r) : r[j] = list[k]
      <4>1. CASE k < i
        BY <1>2, <4>1
      <4>2. CASE k >= i
        <5>1. k + 1 \in 1..Len(r) /\ r[k + 1] = list[k]
          BY <1>2, <4>2
        <5> QED BY <5>1
      <4> QED BY <4>1, <4>2
    <3> QED BY <1>2, <3>1, ElementsByIndex
  <2>4. \A x : x \in Range(list) => x \in Range(r)
    BY <2>3, ElementsByIndex
  <2> QED BY <2>1, <2>2, <2>4
<1>4. ASSUME IsInjective(list), elem \notin Range(list)
      PROVE  IsInjective(r)
  <2> SUFFICES ASSUME NEW j \in 1..(Len(list) + 1),
                      NEW k \in 1..(Len(list) + 1), r[j] = r[k]
               PROVE  j = k
    BY <1>2, ElementsByIndex, Zenon
  <2>1. \A m \in 1..Len(list) : list[m] # elem
    BY <1>4, ElementsByIndex
  <2>2. \A m, n \in 1..Len(list) : list[m] = list[n] => m = n
    BY <1>4, ElementsByIndex
  <2>3. \A m \in 1..(Len(list) + 1) :
          \/ m < i /\ m \in 1..Len(list) /\ r[m] = list[m]
          \/ m = i /\ r[m] = elem
          \/ m > i /\ m - 1 \in 1..Len(list) /\ r[m] = list[m - 1]
    BY <1>2
  <2> QED BY <2>1, <2>2, <2>3
<1>5. r # <<>>
  BY <1>2
<1> QED BY <1>2, <1>3, <1>4, <1>5 DEF r

\* list_pop_front removes exactly the first element.
LEMMA PopFrontProps ==
  ASSUME NEW S, NEW list \in Seq(S), list # <<>>
  PROVE  /\ Head(list) \in S
         /\ Head(list) \in Range(list)
         /\ Tail(list) \in Seq(S)
         /\ IsInjective(list) => /\ Range(Tail(list)) = Range(list) \ {Head(list)}
                                 /\ IsInjective(Tail(list))
<1>1. /\ Head(list) = list[1] /\ 1 \in 1..Len(list) /\ list[1] \in S
      /\ Tail(list) \in Seq(S) /\ Len(Tail(list)) = Len(list) - 1
      /\ \A i \in 1..(Len(list) - 1) : Tail(list)[i] = list[i + 1]
  OBVIOUS
<1>2. Head(list) \in Range(list)
  BY <1>1, ElementsByIndex
<1>3. ASSUME IsInjective(list)
      PROVE  /\ Range(Tail(list)) = Range(list) \ {Head(list)}
             /\ IsInjective(Tail(list))
  <2>1. \A i, j \in 1..Len(list) : list[i] = list[j] => i = j
    BY <1>3, ElementsByIndex
  <2>2. \A x : x \in Range(Tail(list)) => x \in Range(list) /\ x # Head(list)
    <3> TAKE x
    <3> HAVE x \in Range(Tail(list))
    <3>0. PICK i \in 1..(Len(list) - 1) : x = Tail(list)[i]
      <4>1. \E i \in 1..Len(Tail(list)) : Tail(list)[i] = x
        <5>1. Tail(list) \in Seq(S)
          BY <1>1
        <5> QED BY <5>1, ElementsByIndex, Zenon
      <4> QED BY <1>1, <4>1
    <3>1. i + 1 \in 1..Len(list) /\ x = list[i + 1] /\ i + 1 # 1
      BY <1>1, <3>0
    <3> QED BY <1>1, <2>1, <3>1, ElementsByIndex
  <2>3. ASSUME NEW k \in 1..Len(list), list[k] # list[1]
        PROVE  list[k] \in Range(Tail(list))
    <3>1. k - 1 \in 1..Len(Tail(list)) /\ Tail(list)[k - 1] = list[k]
      BY <1>1, <2>3
    <3> QED BY <1>1, <3>1, ElementsByIndex, Zenon
  <2>4. \A x : x \in Range(list) /\ x # Head(list) => x \in Range(Tail(list))
    BY <1>1, <2>3, ElementsByIndex
  <2>5. \A i, j \in 1..Len(Tail(list)) :
          Tail(list)[i] = Tail(list)[j] => i = j
    BY <1>1, <2>1
  <2>6. IsInjective(Tail(list))
    BY <1>1, <2>5, ElementsByIndex, Zenon
  <2> QED BY <2>2, <2>4, <2>6
<1> QED BY <1>1, <1>2, <1>3

\* list_sort returns a permutation of the list.
LEMMA ListSortProps ==
  ASSUME NEW S, NEW list \in Seq(S), NEW key,
         NEW sorted \in ListSort(list, key)
  PROVE  /\ sorted \in Seq(S)
         /\ Len(sorted) = Len(list)
         /\ Range(sorted) = Range(list)
         /\ IsInjective(list) => IsInjective(sorted)
<1>1. PICK p \in SortingOrders(list, key) :
        sorted = [i \in DOMAIN list |-> list[p[i]]]
  BY DEF ListSort
<1>2. p \in Bijection(DOMAIN list, DOMAIN list)
  BY <1>1 DEF SortingOrders
<1>3. DOMAIN list = 1..Len(list) /\ \A i \in 1..Len(list) : list[i] \in S
  OBVIOUS
<1>4. /\ p \in [DOMAIN list -> DOMAIN list]
      /\ \A i, j \in DOMAIN list : p[i] = p[j] => i = j
      /\ \A k \in DOMAIN list : \E i \in DOMAIN list : p[i] = k
  BY <1>2, Zenon DEF Bijection, Injection, Surjection, IsInjective
<1>5. /\ sorted = [i \in 1..Len(list) |-> list[p[i]]]
      /\ p \in [1..Len(list) -> 1..Len(list)]
      /\ \A i, j \in 1..Len(list) : p[i] = p[j] => i = j
      /\ \A k \in 1..Len(list) : \E i \in 1..Len(list) : p[i] = k
  BY <1>1, <1>3, <1>4, Zenon
<1>6. sorted \in Seq(S) /\ Len(sorted) = Len(list)
  <2>1. \A i \in 1..Len(list) : list[p[i]] \in S
    BY <1>3, <1>5, Zenon
  <2>2. sorted \in [1..Len(list) -> S]
    BY <1>5, <2>1
  <2>3. Len(list) \in Nat
    OBVIOUS
  <2> QED BY <2>2, <2>3, SeqDef
<1>7. \A x : x \in Range(sorted) <=> x \in Range(list)
  <2> TAKE x
  <2>1. (\E i \in 1..Len(list) : sorted[i] = x)
          <=> (\E k \in 1..Len(list) : list[k] = x)
    BY <1>5, Zenon
  <2> QED BY <1>6, <2>1, ElementsByIndex
<1>8. IsInjective(list) => IsInjective(sorted)
  <2> SUFFICES ASSUME \A i, j \in 1..Len(list) : list[i] = list[j] => i = j
               PROVE  \A i, j \in 1..Len(list) : sorted[i] = sorted[j] => i = j
    BY <1>6, ElementsByIndex
  <2> TAKE i, j \in 1..Len(list)
  <2>1. /\ sorted[i] = list[p[i]] /\ sorted[j] = list[p[j]]
        /\ p[i] \in 1..Len(list) /\ p[j] \in 1..Len(list)
    BY <1>5, Zenon
  <2> QED BY <1>5, <2>1, Zenon
<1> QED BY <1>6, <1>7, <1>8, Zenon

\* list_sort puts an element with the largest key first.
LEMMA ListSortFirst ==
  ASSUME NEW S, NEW list \in Seq(S), NEW key, \A x \in S : key[x] \in Int,
         NEW sorted \in ListSort(list, key), sorted # <<>>
  PROVE  \A u \in Range(Tail(sorted)) : key[Head(sorted)] >= key[u]
<1>1. PICK p \in SortingOrders(list, key) :
        sorted = [i \in DOMAIN list |-> list[p[i]]]
  BY DEF ListSort
<1>2. DOMAIN list = 1..Len(list)
  OBVIOUS
<1>3. sorted \in Seq(S) /\ Len(sorted) = Len(list)
  BY ListSortProps
<1>4. \A i, j \in 1..Len(list) :
        i < j => \/ key[list[p[i]]] > key[list[p[j]]]
                 \/ key[list[p[i]]] = key[list[p[j]]]
  BY <1>2 DEF SortingOrders
<1>5. \A i \in 1..Len(list) : sorted[i] = list[p[i]]
  BY <1>1, <1>2
<1>6. /\ Tail(sorted) \in Seq(S) /\ Len(Tail(sorted)) = Len(list) - 1
      /\ \A i \in 1..(Len(list) - 1) : Tail(sorted)[i] = sorted[i + 1]
      /\ Head(sorted) = sorted[1] /\ 1 \in 1..Len(list)
      /\ \A i \in 1..Len(list) : sorted[i] \in S
  BY <1>3
<1> SUFFICES ASSUME NEW u \in Range(Tail(sorted))
             PROVE  key[Head(sorted)] >= key[u]
  OBVIOUS
<1>7. PICK i \in 1..(Len(list) - 1) : u = Tail(sorted)[i]
  <2>1. \E i \in 1..Len(Tail(sorted)) : Tail(sorted)[i] = u
    <3>1. Tail(sorted) \in Seq(S)
      BY <1>6
    <3> QED BY <3>1, ElementsByIndex, Zenon
  <2> QED BY <1>6, <2>1
<1>8. u = sorted[i + 1] /\ i + 1 \in 1..Len(list) /\ 1 < i + 1
  BY <1>6, <1>7
<1>9. key[sorted[1]] \in Int /\ key[sorted[i + 1]] \in Int
  BY <1>6, <1>8
<1>10. sorted[1] = list[p[1]] /\ sorted[i + 1] = list[p[i + 1]]
  BY <1>5, <1>6, <1>8, Zenon
<1>11. \/ key[list[p[1]]] > key[list[p[i + 1]]]
       \/ key[list[p[1]]] = key[list[p[i + 1]]]
  BY <1>4, <1>6, <1>8, Zenon
<1>12. \/ key[sorted[1]] > key[sorted[i + 1]]
       \/ key[sorted[1]] = key[sorted[i + 1]]
  BY <1>10, <1>11, Zenon
<1>13. key[sorted[1]] >= key[sorted[i + 1]]
  BY <1>9, <1>12
<1> QED BY <1>6, <1>8, <1>13, Zenon

\* Append adds its element at the end and keeps the others.
LEMMA AppendProps ==
  ASSUME NEW S, NEW list \in Seq(S), NEW elem \in S
  PROVE  /\ Append(list, elem) \in Seq(S)
         /\ Range(Append(list, elem)) = Range(list) \cup {elem}
         /\ IsInjective(list) /\ elem \notin Range(list)
              => IsInjective(Append(list, elem))
<1> DEFINE t == Append(list, elem)
<1>1. /\ t \in Seq(S) /\ Len(t) = Len(list) + 1 /\ Len(list) \in Nat
      /\ \A j \in 1..Len(t) : t[j] = IF j <= Len(list) THEN list[j] ELSE elem
  OBVIOUS
<1> HIDE DEF t
<1>2. \A x : x \in Range(list) <=> \E j \in 1..Len(list) : list[j] = x
  BY ElementsByIndex, Zenon
<1>3. \A x : x \in Range(t) <=> \E j \in 1..Len(t) : t[j] = x
  BY <1>1, ElementsByIndex, Zenon
<1>4. \A x : x \in Range(t) <=> x \in Range(list) \cup {elem}
  <2> TAKE x
  <2>1. ASSUME NEW j \in 1..Len(list), list[j] = x
        PROVE  j \in 1..Len(t) /\ t[j] = x
    BY <1>1, <2>1
  <2>2. Len(t) \in 1..Len(t) /\ t[Len(t)] = elem
    BY <1>1
  <2>3. ASSUME NEW j \in 1..Len(t), t[j] = x
        PROVE  x = elem \/ (j \in 1..Len(list) /\ list[j] = x)
    BY <1>1, <2>3
  <2> QED BY <1>2, <1>3, <2>1, <2>2, <2>3, Zenon
<1>5. ASSUME IsInjective(list), elem \notin Range(list)  PROVE IsInjective(t)
  <2>1. \A i, j \in 1..Len(list) : list[i] = list[j] => i = j
    BY <1>5, ElementsByIndex, Zenon
  <2>2. \A j \in 1..Len(list) : list[j] # elem
    BY <1>2, <1>5, Zenon
  <2>3. \A i, j \in 1..Len(t) : t[i] = t[j] => i = j
    BY <1>1, <2>1, <2>2
  <2> QED BY <1>1, <2>3, ElementsByIndex, Zenon
<1> QED BY <1>1, <1>4, <1>5, Zenon DEF t

\* list_remove takes away its element and keeps the others.
LEMMA ListRemoveProps ==
  ASSUME NEW S, NEW list \in Seq(S), NEW elem \in Range(list), IsInjective(list)
  PROVE  /\ list_remove(list, elem) \in Seq(S)
         /\ Range(list_remove(list, elem)) = Range(list) \ {elem}
         /\ IsInjective(list_remove(list, elem))
<1>0. /\ \A x : x \in Range(list) <=> \E j \in 1..Len(list) : list[j] = x
      /\ \A i, j \in 1..Len(list) : list[i] = list[j] => i = j
  BY ElementsByIndex, Zenon
<1>1. Len(list) \in Nat /\ DOMAIN list = 1..Len(list)
  OBVIOUS
<1> DEFINE k == CHOOSE i \in DOMAIN list : list[i] = elem
           t == SubSeq(list, 1, k - 1) \o SubSeq(list, k + 1, Len(list))
<1>3. k \in 1..Len(list) /\ list[k] = elem
  <2>1. \E i \in DOMAIN list : list[i] = elem
    BY <1>0, <1>1, Zenon
  <2>2. k \in DOMAIN list /\ list[k] = elem
    BY <2>1, Zenon
  <2> QED BY <1>1, <2>2, Zenon
<1>4. list_remove(list, elem) = t
  BY Zenon DEF list_remove
<1> HIDE DEF k
<1>5. /\ t \in Seq(S) /\ Len(t) = Len(list) - 1
      /\ \A j \in 1..Len(t) : t[j] = IF j < k THEN list[j] ELSE list[j + 1]
  <2> DEFINE a == SubSeq(list, 1, k - 1)
             b == SubSeq(list, k + 1, Len(list))
  <2>1. a \in Seq(S) /\ Len(a) = k - 1 /\ \A j \in 1..(k - 1) : a[j] = list[j]
    BY <1>3
  <2>2. /\ b \in Seq(S) /\ Len(b) = Len(list) - k
        /\ \A j \in 1..(Len(list) - k) : b[j] = list[k + j]
    BY <1>3
  <2>3. t = a \o b
    BY DEF t
  <2> HIDE DEF a, b, t
  <2>4. /\ a \in Seq(S) /\ b \in Seq(S) /\ Len(a) = k - 1
        /\ Len(b) = Len(list) - k
    BY <2>1, <2>2, Zenon
  <2>5. a \o b \in Seq(S) /\ Len(a \o b) = Len(a) + Len(b)
    BY <2>4
  <2>6. Len(a \o b) = Len(list) - 1
    BY <1>1, <1>3, <2>4, <2>5
  <2>7. ASSUME NEW j \in 1..(Len(list) - 1)
        PROVE  (a \o b)[j] = IF j < k THEN list[j] ELSE list[j + 1]
    <3>1. (a \o b)[j] = IF j <= Len(a) THEN a[j] ELSE b[j - Len(a)]
      BY <1>1, <1>3, <2>4
    <3>2. CASE j < k
      BY <1>1, <1>3, <2>1, <3>1, <3>2
    <3>3. CASE ~(j < k)
      BY <1>1, <1>3, <2>2, <2>4, <3>1, <3>3
    <3> QED BY <3>2, <3>3, Zenon
  <2>8. t \in Seq(S) /\ Len(t) = Len(list) - 1
    BY <2>3, <2>5, <2>6, Zenon
  <2> QED BY <2>3, <2>7, <2>8, Zenon
<1> HIDE DEF t
<1>6. \A x : x \in Range(t) <=> \E j \in 1..Len(t) : t[j] = x
  <2>1. t \in Seq(S)
    BY <1>5, Zenon
  <2> QED BY <2>1, ElementsByIndex, Zenon
<1>7. \A x : x \in Range(t) <=> x \in Range(list) \ {elem}
  <2> TAKE x
  <2>1. ASSUME NEW j \in 1..Len(t), t[j] = x
        PROVE  x # elem /\ \E i \in 1..Len(list) : list[i] = x
    BY <1>0, <1>1, <1>3, <1>5, <2>1
  <2>2. ASSUME NEW i \in 1..Len(list), list[i] = x, x # elem
        PROVE  \E j \in 1..Len(t) : t[j] = x
    <3>1. CASE i < k
      BY <1>1, <1>3, <1>5, <2>2, <3>1
    <3>2. CASE i > k
      <4>1. i - 1 \in 1..Len(t) /\ ~(i - 1 < k) /\ (i - 1) + 1 = i
        BY <1>1, <1>3, <1>5, <3>2
      <4> QED BY <1>5, <2>2, <4>1
    <3> QED BY <1>3, <2>2, <3>1, <3>2
  <2> QED BY <1>0, <1>6, <2>1, <2>2, Zenon
<1>8. \A i, j \in 1..Len(t) : t[i] = t[j] => i = j
  BY <1>0, <1>1, <1>3, <1>5
<1>9. IsInjective(t)
  BY <1>5, <1>8, ElementsByIndex, Zenon
<1> QED BY <1>4, <1>5, <1>7, <1>9, Zenon

\* list_insert_ordered keeps an ordered list in order.
LEMMA InsertKeepsOrder ==
  ASSUME NEW S, NEW list \in Seq(S), NEW elem \in S, NEW key,
         key[elem] \in Int, \A i \in 1..Len(list) : key[list[i]] \in Int,
         IsOrdered(list, key)
  PROVE  IsOrdered(InsertOrdered(list, elem, key), key)
<1>1. PICK k \in 1..(Len(list) + 1) :
        /\ InsertOrdered(list, elem, key) \in Seq(S)
        /\ Len(InsertOrdered(list, elem, key)) = Len(list) + 1
        /\ \A j \in 1..(Len(list) + 1) :
             InsertOrdered(list, elem, key)[j] =
               IF j < k THEN list[j] ELSE IF j = k THEN elem ELSE list[j - 1]
        /\ \A j \in 1..Len(list) : j < k => ~(key[elem] > key[list[j]])
        /\ k <= Len(list) => key[elem] > key[list[k]]
  BY InsertPosition, Zenon
<1> DEFINE r == InsertOrdered(list, elem, key)
<1>2. /\ DOMAIN r = 1..(Len(list) + 1)
      /\ \A j \in 1..(Len(list) + 1) :
           r[j] = IF j < k THEN list[j] ELSE IF j = k THEN elem ELSE list[j - 1]
  <2>1. r \in Seq(S) /\ Len(r) = Len(list) + 1
    BY <1>1, Zenon
  <2> QED BY <1>1, <2>1
<1> HIDE DEF r
<1>3. \A i, j \in 1..Len(list) : i < j => key[list[i]] >= key[list[j]]
  BY DEF IsOrdered
<1>4. \A j \in 1..Len(list) : j < k => key[list[j]] >= key[elem]
  BY <1>1
<1>5. ASSUME NEW j \in 1..Len(list), j >= k PROVE key[elem] >= key[list[j]]
  <2>1. k \in 1..Len(list) /\ (k = j \/ k < j)
    BY <1>5
  <2>2. key[elem] > key[list[k]]
    BY <1>1, <2>1
  <2>3. k = j \/ key[list[k]] >= key[list[j]]
    BY <1>3, <2>1, Zenon
  <2>4. key[list[k]] \in Int /\ key[list[j]] \in Int
    BY <2>1, Zenon
  <2> QED BY <2>2, <2>3, <2>4
<1>6. ASSUME NEW i \in 1..(Len(list) + 1), NEW j \in 1..(Len(list) + 1), i < j
      PROVE  key[r[i]] >= key[r[j]]
  <2>1. CASE j < k
    <3>1. i \in 1..Len(list) /\ j \in 1..Len(list) /\ r[i] = list[i] /\ r[j] = list[j]
      BY <1>2, <1>6, <2>1
    <3> QED BY <1>3, <1>6, <3>1, Zenon
  <2>2. CASE j = k
    <3>1. i \in 1..Len(list) /\ i < k /\ r[i] = list[i] /\ r[j] = elem
      BY <1>2, <1>6, <2>2
    <3> QED BY <1>4, <3>1, Zenon
  <2>3. CASE j > k /\ i < k
    <3>1. /\ i \in 1..Len(list) /\ j - 1 \in 1..Len(list) /\ i < j - 1
          /\ r[i] = list[i] /\ r[j] = list[j - 1]
      BY <1>2, <1>6, <2>3
    <3> QED BY <1>3, <3>1, Zenon
  <2>4. CASE i = k
    <3>1. j - 1 \in 1..Len(list) /\ j - 1 >= k /\ r[i] = elem /\ r[j] = list[j - 1]
      BY <1>2, <1>6, <2>4
    <3> QED BY <1>5, <3>1, Zenon
  <2>5. CASE i > k
    <3>1. /\ i - 1 \in 1..Len(list) /\ j - 1 \in 1..Len(list) /\ i - 1 < j - 1
          /\ r[i] = list[i - 1] /\ r[j] = list[j - 1]
      BY <1>2, <1>6, <2>5
    <3> QED BY <1>3, <3>1, Zenon
  <2>6. j < k \/ j = k \/ (j > k /\ i < k) \/ i = k \/ i > k
    OBVIOUS
  <2> QED BY <2>1, <2>2, <2>3, <2>4, <2>5, <2>6, Zenon
<1>7. IsOrdered(r, key)
  BY <1>2, <1>6, Zenon DEF IsOrdered
<1> QED BY <1>7 DEF r

\* The front of an ordered list is a greatest element, and list_pop_front
\* keeps the order.
LEMMA OrderedFront ==
  ASSUME NEW S, NEW list \in Seq(S), list # <<>>, NEW key, IsOrdered(list, key),
         \A i \in 1..Len(list) : key[list[i]] \in Int
  PROVE  /\ IsOrdered(Tail(list), key)
         /\ \A x \in Range(list) : key[x] <= key[Head(list)]
<1>1. /\ Head(list) = list[1] /\ 1 \in 1..Len(list) /\ DOMAIN list = 1..Len(list)
      /\ DOMAIN Tail(list) = 1..(Len(list) - 1)
      /\ \A i \in 1..(Len(list) - 1) :
           Tail(list)[i] = list[i + 1] /\ i + 1 \in 1..Len(list)
  OBVIOUS
<1>2. \A i, j \in 1..Len(list) : i < j => key[list[i]] >= key[list[j]]
  BY <1>1, Zenon DEF IsOrdered
<1>3. ASSUME NEW i \in 1..(Len(list) - 1), NEW j \in 1..(Len(list) - 1), i < j
      PROVE  key[Tail(list)[i]] >= key[Tail(list)[j]]
  <2>1. i + 1 < j + 1
    BY <1>3
  <2> QED BY <1>1, <1>2, <2>1, Zenon
<1>4. ASSUME NEW x \in Range(list) PROVE key[x] <= key[Head(list)]
  <2>1. PICK i \in 1..Len(list) : x = list[i]
    BY ElementsByIndex, Zenon
  <2>2. i = 1 \/ 1 < i
    OBVIOUS
  <2>3. i = 1 \/ key[list[1]] >= key[list[i]]
    BY <1>1, <1>2, <2>2, Zenon
  <2>4. key[list[1]] \in Int /\ key[list[i]] \in Int
    BY <1>1, Zenon
  <2>5. key[list[i]] <= key[list[1]]
    BY <2>3, <2>4
  <2> QED BY <1>1, <2>1, <2>5, Zenon
<1> QED BY <1>1, <1>3, <1>4, Zenon DEF IsOrdered

\* The order depends on the keys of the elements only.
LEMMA SameOrder ==
  ASSUME NEW S, NEW list \in Seq(S), NEW key, NEW other, IsOrdered(list, key),
         \A x \in Range(list) : other[x] = key[x]
  PROVE  IsOrdered(list, other)
<1>1. \A i \in DOMAIN list : list[i] \in Range(list)
  BY Zenon DEF Range
<1> QED BY <1>1, Zenon DEF IsOrdered
=============================================================================
