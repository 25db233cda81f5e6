------------------------------ MODULE HashTable ------------------------------
(***************************************************************************)
(* The hash tables of lib/kernel/hash.c: buckets of elements with distinct *)
(* keys, whose number follows that of the elements whenever malloc can     *)
(* give rehash the memory.  A bucket is a sequence (LinkedList shows the   *)
(* lists to be sequences); a key is its own hash value.                    *)
(***************************************************************************)
EXTENDS Integers, SequencesExt, FiniteSetsExt, Bitwise

CONSTANTS
  Key,          \* hash values
  Twin,         \* elements with the same key
  MinBuckets    \* the least number of buckets, 4 in hash.c

VARIABLES
  elem_cnt, buckets,    \* struct hash; bucket i is buckets[i + 1]
  inserted              \* history: the elements that are in the table

hashVars == <<elem_cnt, buckets, inserted>>

HElem == Key \X Twin            \* <<key, twin>>: equal when their keys are
BEST_ELEMS_PER_BUCKET == 2
Empty(cnt) == [i \in 1..cnt |-> <<>>]

\* hash_init and hash_clear; the table of an init that fails is not used.
HashInit == elem_cnt = 0 /\ buckets = Empty(MinBuckets) /\ inserted = {}
-----------------------------------------------------------------------------
\* find_bucket, by the low bits of the hash value.
find_bucket(bs, key) == (key & (Len(bs) - 1)) + 1

\* find_elem in a bucket, as its position there, 0 when there is none.
find_elem(bucket, key) == SelectInSeq(bucket, LAMBDA e : e[1] = key)

\* turn_off_least_1bit until the number is a power of 2.
RECURSIVE PowerOf2(_)
PowerOf2(x) == IF x & (x - 1) = 0 THEN x ELSE PowerOf2(x & (x - 1))

\* The number of buckets that rehash wants for cnt elements.
BucketCnt(cnt) ==
  LET best == cnt \div BEST_ELEMS_PER_BUCKET
  IN PowerOf2(IF best < MinBuckets THEN MinBuckets ELSE best)

\* Every element, bucket by bucket, goes to the front of its new bucket.
Moved(bs, cnt) ==
  FoldLeft(LAMBDA new, e : [new EXCEPT ![find_bucket(new, e[1])] = <<e>> \o @],
           Empty(cnt), FlattenSeq(bs))

\* Fault: the elements are moved by the old number of buckets.
rehash_by_old_count(cnt, bs) ==
  LET new == BucketCnt(cnt)
  IN {bs, [i \in 1..new |-> IF i <= Len(bs) THEN bs[i] ELSE <<>>]}

\* rehash: nothing changes when malloc fails.
rehash(cnt, bs) ==
  LET new == BucketCnt(cnt)
  IN IF new = Len(bs) THEN {bs} ELSE {bs, Moved(bs, new)}

insert_elem(bs, e) == [bs EXCEPT ![find_bucket(bs, e[1])] = <<e>> \o @]
remove_elem(bs, b, i) == [bs EXCEPT ![b] = RemoveAt(@, i)]
-----------------------------------------------------------------------------
hash_insert(e) ==
  LET b == find_bucket(buckets, e[1])
      old == find_elem(buckets[b], e[1])
      bs == IF old = 0 THEN insert_elem(buckets, e) ELSE buckets
  IN /\ elem_cnt' = IF old = 0 THEN elem_cnt + 1 ELSE elem_cnt
     /\ buckets' \in rehash(elem_cnt', bs)
     /\ inserted' = IF \E f \in inserted : f[1] = e[1] THEN inserted
                    ELSE inserted \cup {e}

hash_replace(e) ==
  LET b == find_bucket(buckets, e[1])
      old == find_elem(buckets[b], e[1])
      bs == IF old = 0 THEN buckets ELSE remove_elem(buckets, b, old)
  IN /\ elem_cnt' = IF old = 0 THEN elem_cnt + 1 ELSE elem_cnt
     /\ buckets' \in rehash(elem_cnt', insert_elem(bs, e))
     /\ inserted' = {f \in inserted : f[1] # e[1]} \cup {e}

hash_delete(key) ==
  LET b == find_bucket(buckets, key)
      found == find_elem(buckets[b], key)
  IN /\ found # 0
     /\ elem_cnt' = elem_cnt - 1
     /\ buckets' \in rehash(elem_cnt', remove_elem(buckets, b, found))
     /\ inserted' = {f \in inserted : f[1] # key}

hash_clear ==
  elem_cnt' = 0 /\ buckets' = Empty(Len(buckets)) /\ inserted' = {}

HashNext ==
  \/ \E e \in HElem : e \notin inserted /\ (hash_insert(e) \/ hash_replace(e))
  \/ \E key \in Key : hash_delete(key)
  \/ hash_clear

HashSpec == HashInit /\ [][HashNext]_hashVars
-----------------------------------------------------------------------------
\* hash_find.
hash_find(key) ==
  LET bucket == buckets[find_bucket(buckets, key)]
      i == find_elem(bucket, key)
  IN IF i = 0 THEN {} ELSE {bucket[i]}

\* hash_first and hash_next, hash_apply: the elements in the order of their
\* buckets, empty buckets passed over.
RECURSIVE hash_next(_, _)
hash_next(b, i) ==
  IF b > Len(buckets) THEN <<>>
  ELSE IF i > Len(buckets[b]) THEN hash_next(b + 1, 1)
  ELSE <<buckets[b][i]>> \o hash_next(b, i + 1)

\* Whatever was inserted, replaced and deleted, and whether or not rehash got
\* its memory: hash_find finds exactly the element that is in the table, an
\* iteration returns each element once, and hash_size is their number.
HashMatchesSet ==
  /\ \A key \in Key : hash_find(key) = {f \in inserted : f[1] = key}
  /\ LET all == hash_next(1, 1)
     IN ToSet(all) = inserted /\ Len(all) = Cardinality(inserted)
  /\ elem_cnt = Cardinality(inserted)
=============================================================================
