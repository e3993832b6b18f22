------------------------------ MODULE KeyOrder ------------------------------
(***************************************************************************)
(* The pure key algorithms of the store (src/server/kvs.c, operations.c). *)
(* A key is the sequence of its byte codes (the C string without its NUL). *)
(*   hash                      : bucket index from the key's first byte    *)
(*   strcasecmp                : case-insensitive byte comparison          *)
(*   create_alphabetical_index : selection sort of the batch positions     *)
(* kvs_write, kvs_read and kvs_delete visit a batch in the order of        *)
(* create_alphabetical_index and lock buckets as they go, so this order is *)
(* also the lock-acquisition order of a batch.                             *)
(***************************************************************************)
EXTENDS Integers, Sequences, FiniteSets

\* tolower() of the C locale on one byte.
ToLower(c) == IF c \in 65..90 THEN c + 32 ELSE c

\* Mutant: hash() without tolower(), so upper-case keys are rejected (-1).
HashNoLower(key) ==
  LET f == key[1]
  IN  IF f \in 97..122 THEN f - 97 ELSE IF f \in 48..57 THEN f - 48 ELSE -1

\* hash(): 'a'..'z' (either case) -> 0..25, '0'..'9' -> 0..9, else -1.
\* Digits fold onto the buckets of the first ten letters.
Hash(key) ==
  LET f == ToLower(key[1])
  IN  IF f \in 97..122 THEN f - 97
      ELSE IF f \in 48..57 THEN f - 48
      ELSE -1

\* strcasecmp(): compares tolower'ed bytes; the shorter string ends in NUL (0).
\* Only the sign of the result is used by the callers.
RECURSIVE StrCaseCmp(_, _)
StrCaseCmp(a, b) ==
  IF a = <<>> /\ b = <<>> THEN 0
  ELSE LET ca == IF a = <<>> THEN 0 ELSE ToLower(Head(a))
           cb == IF b = <<>> THEN 0 ELSE ToLower(Head(b))
       IN  IF ca # cb THEN ca - cb
           ELSE StrCaseCmp(Tail(a), Tail(b))

\* Position (in idx) of the least key of keys[idx[i]], ..., keys[idx[n]],
\* keeping the earliest one on ties: the inner loop of the selection sort.
RECURSIVE MinFrom(_, _, _, _)
MinFrom(keys, idx, minIdx, j) ==
  IF j > Len(idx) THEN minIdx
  ELSE MinFrom(keys, idx,
               IF StrCaseCmp(keys[idx[j]], keys[idx[minIdx]]) < 0 THEN j ELSE minIdx,
               j + 1)

\* Mutant: the swap stores s[m] at i but loses the old s[i].
SwapLosingOne(s, i, m) == [s EXCEPT ![i] = s[m]]

\* Exchange positions i and m of a sequence.
Swap(s, i, m) == [s EXCEPT ![i] = s[m], ![m] = s[i]]

\* The outer loop, i = 1 .. n-1.
RECURSIVE SelectionSort(_, _, _)
SelectionSort(keys, idx, i) ==
  IF i >= Len(idx) THEN idx
  ELSE LET m == MinFrom(keys, idx, i, i + 1)
       IN  SelectionSort(keys, IF m # i THEN Swap(idx, i, m) ELSE idx, i + 1)

\* create_alphabetical_index(keys, num_pairs): the batch positions in the
\* order the batch is executed. Callers never pass num_pairs = 0.
CreateAlphabeticalIndex(keys) ==
  SelectionSort(keys, [i \in 1..Len(keys) |-> i], 1)

(***************************************************************************)
(* Reference definitions the sort is checked against.                      *)
(***************************************************************************)

\* idx is a permutation of the positions of keys.
IsPermutationOf(idx, keys) ==
  /\ Len(idx) = Len(keys)
  /\ {idx[i] : i \in 1..Len(idx)} = 1..Len(keys)

\* keys visited in idx order are non-decreasing under strcasecmp.
IsCaseOrdered(idx, keys) ==
  \A i \in 1..Len(idx) - 1 : StrCaseCmp(keys[idx[i]], keys[idx[i + 1]]) <= 0

\* The buckets of keys visited in idx order never decrease.
BucketsAscend(idx, keys) ==
  \A i \in 1..Len(idx) - 1 : Hash(keys[idx[i]]) <= Hash(keys[idx[i + 1]])
=============================================================================
