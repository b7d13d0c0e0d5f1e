---------------------------- MODULE DataProofs -----------------------------
(***************************************************************************)
(* What the operators on data return, for the proofs about the components  *)
(* that use them.                                                          *)
(*   - The LruCache stays a sequence of entries with one entry per key and *)
(*     never outgrows its capacity, and the entries it holds afterwards    *)
(*     are entries it held before, plus the one put: for the connections   *)
(*     and the gossip history.                                             *)
(*   - Rows inserted into tables and deleted, and the numbers SQLite       *)
(*     gives: for the database, the node and the client.                   *)
(*   - What the importer of passports makes of stored blocks: for the node *)
(*     and the client.                                                     *)
(***************************************************************************)
EXTENDS Lru, PassportImporter, SequenceTheorems, FiniteSetTheorems,
        WellFoundedInduction, TLAPS

-----------------------------------------------------------------------------
(* The LruCache                                                            *)

(* A key of the cache is found at the position Index gives.                *)
LEMMA IndexFinds ==
    ASSUME NEW K, NEW V, NEW cache \in Seq(Entries(K, V)), NEW k, HasKey(cache, k)
    PROVE  /\ Index(cache, k) \in 1..Len(cache)
           /\ cache[Index(cache, k)].key = k
           /\ cache[Index(cache, k)] \in Entries(K, V)
<1>1. \E i \in 1..Len(cache) : cache[i].key = k
  BY DEF HasKey
<1>2. /\ Index(cache, k) \in 1..Len(cache)
      /\ cache[Index(cache, k)].key = k
  BY <1>1 DEF Index
<1> QED
  BY <1>2

(* Removing position i keeps every other entry, in order, and nothing else. *)
LEMMA RemoveAtElements ==
    ASSUME NEW S, NEW s \in Seq(S), NEW i \in 1..Len(s)
    PROVE  /\ RemoveAt(s, i) \in Seq(S)
           /\ Len(RemoveAt(s, i)) = Len(s) - 1
           /\ \A j \in 1..(Len(s) - 1) :
                RemoveAt(s, i)[j] = IF j < i THEN s[j] ELSE s[j + 1]
<1>1. /\ SubSeq(s, 1, i - 1) \in Seq(S)
      /\ Len(SubSeq(s, 1, i - 1)) = i - 1
      /\ \A j \in 1..(i - 1) : SubSeq(s, 1, i - 1)[j] = s[j]
  OBVIOUS
<1>2. /\ SubSeq(s, i + 1, Len(s)) \in Seq(S)
      /\ Len(SubSeq(s, i + 1, Len(s))) = Len(s) - i
      /\ \A j \in 1..(Len(s) - i) : SubSeq(s, i + 1, Len(s))[j] = s[i + j]
  OBVIOUS
<1> DEFINE left == SubSeq(s, 1, i - 1)
           right == SubSeq(s, i + 1, Len(s))
<1>3. RemoveAt(s, i) = left \o right
  BY DEF RemoveAt
<1>4. /\ left \in Seq(S) /\ Len(left) = i - 1
      /\ right \in Seq(S) /\ Len(right) = Len(s) - i
  BY <1>1, <1>2
<1> HIDE DEF left, right
<1>5. /\ left \o right \in Seq(S)
      /\ Len(left \o right) = Len(left) + Len(right)
      /\ \A j \in 1..(Len(left) + Len(right)) :
           (left \o right)[j] = IF j <= Len(left) THEN left[j]
                               ELSE right[j - Len(left)]
  BY <1>4, ConcatProperties
<1>6. Len(s) \in Nat
  OBVIOUS
<1>7. ASSUME NEW j \in 1..(Len(s) - 1)
      PROVE  (left \o right)[j] = IF j < i THEN s[j] ELSE s[j + 1]
  <2>1. CASE j < i
    BY <2>1, <1>1, <1>4, <1>5, <1>6 DEF left
  <2>2. CASE ~(j < i)
    <3>1. (left \o right)[j] = right[j - (i - 1)]
      BY <2>2, <1>4, <1>5, <1>6
    <3>2. /\ j - (i - 1) \in 1..(Len(s) - i)
          /\ i + (j - (i - 1)) = j + 1
      BY <2>2, <1>6
    <3>3. right[j - (i - 1)] = s[i + (j - (i - 1))]
      BY <3>2, <1>2 DEF right
    <3> QED
      BY <2>2, <3>1, <3>2, <3>3
  <2> QED
    BY <2>1, <2>2
<1>8. Len(left \o right) = Len(s) - 1
  BY <1>4, <1>5, <1>6
<1> QED
  BY <1>3, <1>5, <1>7, <1>8

(* pop leaves no entry of the key and otherwise only what was there.       *)
LEMMA PopProperties ==
    ASSUME NEW K, NEW V, NEW cache \in Seq(Entries(K, V)), UniqueKeys(cache), NEW k
    PROVE  /\ Pop(cache, k) \in Seq(Entries(K, V))
           /\ Len(Pop(cache, k)) <= Len(cache)
           /\ UniqueKeys(Pop(cache, k))
           /\ \A j \in 1..Len(Pop(cache, k)) :
                /\ Pop(cache, k)[j].key # k
                /\ \E m \in 1..Len(cache) : Pop(cache, k)[j] = cache[m]
<1>1. CASE ~HasKey(cache, k)
  BY <1>1 DEF Pop, HasKey
<1>2. CASE HasKey(cache, k)
  <2> DEFINE i == Index(cache, k)
             rest == RemoveAt(cache, i)
  <2>1. i \in 1..Len(cache) /\ cache[i].key = k
    BY <1>2, IndexFinds
  <2> HIDE DEF i
  <2>2. /\ rest \in Seq(Entries(K, V))
        /\ Len(rest) = Len(cache) - 1
        /\ \A j \in 1..(Len(cache) - 1) :
             rest[j] = IF j < i THEN cache[j] ELSE cache[j + 1]
    BY <2>1, RemoveAtElements
  <2>3. Pop(cache, k) = rest
    BY <1>2 DEF Pop, i
  <2> HIDE DEF rest
  <2>4. Len(cache) \in Nat
    OBVIOUS
  <2>5. \A j \in 1..Len(rest) : \E m \in 1..Len(cache) : m # i /\ rest[j] = cache[m]
    BY <2>1, <2>2, <2>4
  <2>6. \A j \in 1..Len(rest) : rest[j].key # k
    BY <2>1, <2>5 DEF UniqueKeys
  <2>7. UniqueKeys(rest)
    <3> SUFFICES ASSUME NEW a \in 1..Len(rest), NEW b \in 1..Len(rest),
                        rest[a].key = rest[b].key
                 PROVE  a = b
      BY DEF UniqueKeys
    <3> DEFINE pa == IF a < i THEN a ELSE a + 1
               pb == IF b < i THEN b ELSE b + 1
    <3>1. pa \in 1..Len(cache) /\ pb \in 1..Len(cache)
      BY <2>1, <2>2, <2>4
    <3>2. rest[a] = cache[pa] /\ rest[b] = cache[pb]
      BY <2>1, <2>2, <2>4
    <3>3. pa = pb
      BY <3>1, <3>2 DEF UniqueKeys
    <3> QED
      BY <3>3, <2>1, <2>4
  <2> QED
    BY <2>2, <2>3, <2>4, <2>5, <2>6, <2>7
<1> QED
  BY <1>1, <1>2

(* get only moves an entry to the front.                                   *)
LEMMA PromoteProperties ==
    ASSUME NEW K, NEW V, NEW cache \in Seq(Entries(K, V)), UniqueKeys(cache), NEW k
    PROVE  /\ Promote(cache, k) \in Seq(Entries(K, V))
           /\ Len(Promote(cache, k)) = Len(cache)
           /\ UniqueKeys(Promote(cache, k))
           /\ \A j \in 1..Len(Promote(cache, k)) :
                \E m \in 1..Len(cache) : Promote(cache, k)[j] = cache[m]
<1>1. CASE ~HasKey(cache, k)
  BY <1>1 DEF Promote
<1>2. CASE HasKey(cache, k)
  <2> DEFINE e == cache[Index(cache, k)]
             rest == Pop(cache, k)
  <2>1. Index(cache, k) \in 1..Len(cache) /\ e.key = k /\ e \in Entries(K, V)
    BY <1>2, IndexFinds
  <2>2. /\ rest \in Seq(Entries(K, V))
        /\ UniqueKeys(rest)
        /\ \A j \in 1..Len(rest) :
             /\ rest[j].key # k
             /\ \E m \in 1..Len(cache) : rest[j] = cache[m]
    BY PopProperties
  <2>3. Len(rest) = Len(cache) - 1
    BY <1>2, <2>1, RemoveAtElements DEF Pop
  <2>4. Promote(cache, k) = <<e>> \o rest
    BY <1>2 DEF Promote
  <2>5. \E m \in 1..Len(cache) : e = cache[m]
    BY <2>1
  <2> HIDE DEF e, rest
  <2>6. /\ <<e>> \o rest \in Seq(Entries(K, V))
        /\ Len(<<e>> \o rest) = Len(rest) + 1
        /\ \A j \in 1..(Len(rest) + 1) :
             (<<e>> \o rest)[j] = IF j = 1 THEN e ELSE rest[j - 1]
    BY <2>1, <2>2
  <2>7. UniqueKeys(<<e>> \o rest)
    BY <2>1, <2>2, <2>6 DEF UniqueKeys
  <2> QED
    BY <2>2, <2>3, <2>4, <2>5, <2>6, <2>7
<1> QED
  BY <1>1, <1>2

(* put adds one entry, replaces the one of the same key, and evicts to     *)
(* stay within the capacity.                                               *)
LEMMA PutProperties ==
    ASSUME NEW K, NEW V, NEW cache \in Seq(Entries(K, V)), UniqueKeys(cache),
           NEW k \in K, NEW v \in V, NEW cap \in Nat \ {0}, Len(cache) <= cap
    PROVE  /\ Put(cache, k, v, cap) \in Seq(Entries(K, V))
           /\ Len(Put(cache, k, v, cap)) <= cap
           /\ Len(Put(cache, k, v, cap)) >= 1
           /\ UniqueKeys(Put(cache, k, v, cap))
           /\ Put(cache, k, v, cap)[1] = [key |-> k, val |-> v]
           /\ \A j \in 2..Len(Put(cache, k, v, cap)) :
                /\ Put(cache, k, v, cap)[j].key # k
                /\ \E m \in 1..Len(cache) : Put(cache, k, v, cap)[j] = cache[m]
<1> DEFINE e == [key |-> k, val |-> v]
           rest == Pop(cache, k)
           kept == IF Len(rest) >= cap THEN SubSeq(rest, 1, cap - 1) ELSE rest
<1>1. /\ rest \in Seq(Entries(K, V))
      /\ Len(rest) <= cap
      /\ UniqueKeys(rest)
      /\ \A j \in 1..Len(rest) :
           /\ rest[j].key # k
           /\ \E m \in 1..Len(cache) : rest[j] = cache[m]
  <2>1. Len(cache) \in Nat /\ Len(rest) \in Nat
    BY PopProperties
  <2> QED
    BY <2>1, PopProperties
<1>2. Put(cache, k, v, cap) = <<e>> \o kept
  BY DEF Put
<1>3. e \in Entries(K, V) /\ e.key = k
  BY DEF Entries
<1> HIDE DEF rest, e
<1>4. /\ kept \in Seq(Entries(K, V))
      /\ Len(kept) < cap
      /\ Len(kept) <= Len(rest)
      /\ \A j \in 1..Len(kept) : kept[j] = rest[j]
  <2>1. CASE Len(rest) >= cap
    BY <1>1, <2>1
  <2>2. CASE Len(rest) < cap
    BY <1>1, <2>2
  <2> QED
    BY <1>1, <2>1, <2>2
<1> HIDE DEF kept
<1> DEFINE new == <<e>> \o kept
<1>5. Len(rest) \in Nat /\ Len(kept) \in Nat
  BY <1>1, <1>4
<1>6. /\ new \in Seq(Entries(K, V))
      /\ Len(new) = Len(kept) + 1
      /\ \A j \in 1..(Len(kept) + 1) :
           new[j] = IF j = 1 THEN e ELSE kept[j - 1]
  BY <1>3, <1>4 DEF new
<1> HIDE DEF new
<1>7. ASSUME NEW j \in 2..(Len(kept) + 1)
      PROVE  /\ new[j] = rest[j - 1]
             /\ j - 1 \in 1..Len(rest)
  <2>1. j - 1 \in 1..Len(kept) /\ j # 1 /\ j \in 1..(Len(kept) + 1)
    BY <1>5
  <2>2. new[j] = kept[j - 1]
    BY <2>1, <1>6
  <2>3. kept[j - 1] = rest[j - 1]
    BY <2>1, <1>4
  <2>4. j - 1 \in 1..Len(rest)
    BY <2>1, <1>4, <1>5
  <2> QED
    BY <2>2, <2>3, <2>4
<1>8. ASSUME NEW j \in 2..(Len(kept) + 1)
      PROVE  /\ new[j].key # k
             /\ \E m \in 1..Len(cache) : new[j] = cache[m]
  BY <1>1, <1>7
<1>9. new[1].key = k
  BY <1>3, <1>5, <1>6
<1>10. UniqueKeys(new)
  <2> SUFFICES ASSUME NEW a \in 1..(Len(kept) + 1), NEW b \in 1..(Len(kept) + 1),
                      new[a].key = new[b].key
               PROVE  a = b
    BY <1>6 DEF UniqueKeys
  <2>1. CASE a = 1 \/ b = 1
    BY <2>1, <1>5, <1>8, <1>9
  <2>2. CASE a # 1 /\ b # 1
    <3>1. a \in 2..(Len(kept) + 1) /\ b \in 2..(Len(kept) + 1)
      BY <2>2, <1>5
    <3>2. rest[a - 1].key = rest[b - 1].key
      BY <3>1, <1>7
    <3>3. a - 1 \in 1..Len(rest) /\ b - 1 \in 1..Len(rest)
      BY <3>1, <1>7
    <3>4. a - 1 = b - 1
      BY <3>2, <3>3, <1>1 DEF UniqueKeys
    <3> QED
      BY <3>4, <1>5
  <2> QED
    BY <2>1, <2>2
<1> QED
  BY <1>2, <1>4, <1>5, <1>6, <1>8, <1>10 DEF e, new

----------------------------------------------------------------------------
(* What the operations do not lose.                                        *)

(* Pop loses the entry of its key only.                                    *)
LEMMA PopKeeps ==
    ASSUME NEW K, NEW V, NEW cache \in Seq(Entries(K, V)), NEW k,
           NEW m \in 1..Len(cache), cache[m].key # k
    PROVE  \E j \in 1..Len(Pop(cache, k)) : Pop(cache, k)[j] = cache[m]
<1>1. CASE ~HasKey(cache, k)
  BY <1>1 DEF Pop
<1>2. CASE HasKey(cache, k)
  <2> DEFINE i == Index(cache, k)
             rest == RemoveAt(cache, i)
  <2>1. i \in 1..Len(cache) /\ cache[i].key = k
    BY <1>2, IndexFinds
  <2>2. Pop(cache, k) = rest
    BY <1>2 DEF Pop
  <2>3. /\ Len(rest) = Len(cache) - 1
        /\ \A j \in 1..(Len(cache) - 1) : rest[j] = IF j < i THEN cache[j] ELSE cache[j + 1]
    BY <2>1, RemoveAtElements
  <2> HIDE DEF rest, i
  <2>4. Len(cache) \in Nat /\ m # i
    BY <2>1
  <2>5. CASE m < i
    <3>1. m \in 1..(Len(cache) - 1)
      BY <2>1, <2>4, <2>5
    <3>2. rest[m] = cache[m] /\ m \in 1..Len(rest)
      BY <2>3, <2>5, <3>1
    <3> QED
      BY <2>2, <3>2
  <2>6. CASE m > i
    <3>1. m - 1 \in 1..(Len(cache) - 1) /\ ~(m - 1 < i) /\ m - 1 + 1 = m
      BY <2>1, <2>4, <2>6
    <3>2. rest[m - 1] = cache[m] /\ m - 1 \in 1..Len(rest)
      BY <2>3, <3>1
    <3> QED
      BY <2>2, <3>2
  <2> QED
    BY <2>1, <2>4, <2>5, <2>6
<1> QED
  BY <1>1, <1>2

(* Promote loses nothing.                                                  *)
LEMMA PromoteKeeps ==
    ASSUME NEW K, NEW V, NEW cache \in Seq(Entries(K, V)), UniqueKeys(cache), NEW k,
           NEW m \in 1..Len(cache)
    PROVE  \E j \in 1..Len(Promote(cache, k)) : Promote(cache, k)[j] = cache[m]
<1>1. CASE ~HasKey(cache, k)
  BY <1>1 DEF Promote
<1>2. CASE HasKey(cache, k)
  <2> DEFINE e == cache[Index(cache, k)]
             rest == Pop(cache, k)
             new == <<e>> \o rest
  <2>1. Index(cache, k) \in 1..Len(cache) /\ e.key = k /\ e \in Entries(K, V)
    BY <1>2, IndexFinds
  <2>2. rest \in Seq(Entries(K, V)) /\ Len(rest) \in Nat
    BY PopProperties
  <2>3. Promote(cache, k) = new
    BY <1>2 DEF Promote
  <2>4. cache[m].key = k => cache[m] = e
    BY <2>1 DEF UniqueKeys
  <2>5. cache[m].key # k => \E j \in 1..Len(rest) : rest[j] = cache[m]
    BY PopKeeps
  <2> HIDE DEF e, rest
  <2>6. /\ Len(new) = Len(rest) + 1
        /\ new[1] = e
        /\ \A j \in 1..Len(rest) : new[j + 1] = rest[j]
    <3>1. <<e>> \in Seq(Entries(K, V)) /\ Len(<<e>>) = 1 /\ <<e>>[1] = e
      BY <2>1
    <3> QED
      BY <2>2, <3>1, ConcatProperties
  <2> HIDE DEF new
  <2>7. CASE cache[m].key = k
    <3>1. 1 \in 1..Len(new)
      BY <2>2, <2>6
    <3> QED
      BY <2>3, <2>4, <2>6, <2>7, <3>1
  <2>8. CASE cache[m].key # k
    <3>1. PICK j \in 1..Len(rest) : rest[j] = cache[m]
      BY <2>5, <2>8
    <3>2. j + 1 \in 1..Len(new) /\ new[j + 1] = cache[m]
      BY <2>2, <2>6, <3>1
    <3> QED
      BY <2>3, <3>2
  <2> QED
    BY <2>7, <2>8
<1> QED
  BY <1>1, <1>2

(* A cache has no more entries than there are keys.                        *)
LEMMA KeysFit ==
    ASSUME NEW K, NEW V, IsFiniteSet(K), NEW cache \in Seq(Entries(K, V)), UniqueKeys(cache)
    PROVE  Len(cache) <= Cardinality(K)
<1> DEFINE n == Len(cache)
           keys == [i \in 1..n |-> cache[i].key]
<1>1. n \in Nat /\ n \in Int /\ 1 \in Int
  OBVIOUS
<1>2. ASSUME NEW i \in 1..n PROVE cache[i].key \in K
  <2>1. cache[i] \in Entries(K, V)
    OBVIOUS
  <2> QED
    BY <2>1 DEF Entries
<1>3. \A i, j \in 1..n : cache[i].key = cache[j].key => i = j
  BY DEF UniqueKeys
<1> HIDE DEF n
<1>4. keys \in Injection(1..n, K)
  BY <1>2, <1>3 DEF Injection, IsInjective
<1>5. Cardinality(1..n) <= Cardinality(K)
  BY <1>4, FS_Injection
<1>6. Cardinality(1..n) = IF 1 > n THEN 0 ELSE n - 1 + 1
  BY <1>1, FS_Interval
<1>7. Cardinality(1..n) = n
  BY <1>1, <1>6
<1> QED
  BY <1>5, <1>7 DEF n

(* A cache with room for every key loses nothing but the former value.     *)
LEMMA PutKeeps ==
    ASSUME NEW K, NEW V, IsFiniteSet(K), NEW cache \in Seq(Entries(K, V)), UniqueKeys(cache),
           NEW k \in K, NEW v \in V, NEW cap \in Nat, Cardinality(K) <= cap,
           NEW m \in 1..Len(cache), cache[m].key # k
    PROVE  \E j \in 1..Len(Put(cache, k, v, cap)) : Put(cache, k, v, cap)[j] = cache[m]
<1> DEFINE e == [key |-> k, val |-> v]
           rest == Pop(cache, k)
           new == <<e>> \o rest
<1>1. /\ rest \in Seq(Entries(K, V)) /\ Len(rest) \in Nat
      /\ UniqueKeys(rest)
      /\ \A j \in 1..Len(rest) : rest[j].key # k
  BY PopProperties
<1>2. e \in Entries(K, V) /\ e.key = k
  BY DEF Entries
<1>3. \E j \in 1..Len(rest) : rest[j] = cache[m]
  BY PopKeeps
<1> HIDE DEF e, rest
<1>4. <<e>> \in Seq(Entries(K, V)) /\ Len(<<e>>) = 1 /\ <<e>>[1] = e
  BY <1>2
<1>5. /\ new \in Seq(Entries(K, V))
      /\ Len(new) = Len(rest) + 1
      /\ new[1] = e
      /\ \A j \in 1..Len(rest) : new[j + 1] = rest[j]
  BY <1>1, <1>4, ConcatProperties
<1>6. \A j \in 1..Len(new) : new[j] = IF j = 1 THEN e ELSE rest[j - 1]
  BY <1>1, <1>4, ConcatProperties
<1> HIDE DEF new
<1>7. UniqueKeys(new)
  <2>1. ASSUME NEW i \in 1..Len(new), NEW j \in 1..Len(new), new[i].key = new[j].key
        PROVE  i = j
    <3>1. \A l \in 1..Len(new) : l = 1 \/ l - 1 \in 1..Len(rest)
      BY <1>1, <1>5
    <3>2. CASE i = 1 /\ j # 1
      BY <1>1, <1>2, <1>6, <2>1, <3>1, <3>2
    <3>3. CASE i # 1 /\ j = 1
      BY <1>1, <1>2, <1>6, <2>1, <3>1, <3>3
    <3>4. CASE i # 1 /\ j # 1
      <4>1. i - 1 \in 1..Len(rest) /\ j - 1 \in 1..Len(rest)
        BY <3>1, <3>4
      <4>2. rest[i - 1].key = rest[j - 1].key
        BY <1>6, <2>1, <3>4
      <4>3. i - 1 = j - 1
        BY <1>1, <4>1, <4>2 DEF UniqueKeys
      <4> QED
        BY <4>3
    <3> QED
      BY <3>2, <3>3, <3>4
  <2> QED
    BY <2>1 DEF UniqueKeys
<1>8. Len(rest) < cap
  <2>1. Len(new) <= Cardinality(K)
    BY <1>5, <1>7, KeysFit
  <2>2. Cardinality(K) \in Nat
    BY FS_CardinalityType
  <2> QED
    BY <1>1, <1>5, <2>1, <2>2
<1>9. Put(cache, k, v, cap) = new
  BY <1>1, <1>8 DEF Put, e, rest, new
<1>10. PICK j \in 1..Len(rest) : rest[j] = cache[m]
  BY <1>3
<1>11. j + 1 \in 1..Len(new) /\ new[j + 1] = cache[m]
  BY <1>1, <1>5, <1>10
<1> QED
  BY <1>9, <1>11

(* Put loses, besides the former value, the last entry of a full cache.    *)
LEMMA PutEvictsLast ==
    ASSUME NEW K, NEW V, NEW cache \in Seq(Entries(K, V)),
           NEW k \in K, NEW v \in V, NEW cap \in Nat \ {0}, Len(cache) <= cap,
           NEW m \in 1..Len(cache), cache[m].key # k
    PROVE  \/ \E j \in 1..Len(Put(cache, k, v, cap)) : Put(cache, k, v, cap)[j] = cache[m]
           \/ m = cap /\ Len(cache) = cap /\ Len(Put(cache, k, v, cap)) = cap
<1> DEFINE e == [key |-> k, val |-> v]
<1>1. e \in Entries(K, V)
  BY DEF Entries
<1>2. /\ Len(cache) \in Nat
      /\ <<e>> \in Seq(Entries(K, V)) /\ Len(<<e>>) = 1 /\ <<e>>[1] = e
  BY <1>1
<1> HIDE DEF e
<1>3. CASE HasKey(cache, k) \/ Len(cache) < cap
  <2> DEFINE rest == Pop(cache, k)
             new == <<e>> \o rest
  <2>1. rest \in Seq(Entries(K, V)) /\ Len(rest) \in Nat
    <3>1. CASE HasKey(cache, k)
      BY <3>1, IndexFinds, RemoveAtElements DEF Pop
    <3>2. CASE ~HasKey(cache, k)
      BY <3>2 DEF Pop
    <3> QED
      BY <3>1, <3>2
  <2>2. Len(rest) < cap
    <3>1. CASE HasKey(cache, k)
      <4>1. Len(rest) = Len(cache) - 1
        BY <3>1, IndexFinds, RemoveAtElements DEF Pop
      <4> QED
        BY <4>1, <1>2
    <3>2. CASE ~HasKey(cache, k)
      BY <3>2, <1>3 DEF Pop
    <3> QED
      BY <3>1, <3>2
  <2>3. PICK j \in 1..Len(rest) : rest[j] = cache[m]
    BY PopKeeps
  <2> HIDE DEF rest
  <2>4. /\ Len(new) = Len(rest) + 1
        /\ \A i \in 1..Len(rest) : new[i + 1] = rest[i]
    BY <1>2, <2>1, ConcatProperties
  <2>5. ~(Len(rest) >= cap)
    BY <2>1, <2>2
  <2>6. Put(cache, k, v, cap) = new
    BY <2>5 DEF Put, e, rest
  <2> HIDE DEF new
  <2>7. j + 1 \in 1..Len(new) /\ new[j + 1] = cache[m]
    BY <2>1, <2>3, <2>4
  <2> QED
    BY <2>6, <2>7
<1>4. CASE ~HasKey(cache, k) /\ Len(cache) = cap
  <2> DEFINE kept == SubSeq(cache, 1, cap - 1)
             new == <<e>> \o kept
  <2>1. /\ kept \in Seq(Entries(K, V)) /\ Len(kept) = cap - 1
        /\ \A i \in 1..(cap - 1) : kept[i] = cache[i]
    BY <1>2, <1>4
  <2>2. Put(cache, k, v, cap) = new
    BY <1>2, <1>4 DEF Put, Pop, e
  <2> HIDE DEF kept
  <2>3. /\ Len(new) = cap
        /\ \A i \in 1..(cap - 1) : new[i + 1] = kept[i]
    BY <1>2, <2>1, ConcatProperties
  <2> HIDE DEF new
  <2>4. CASE m = cap
    BY <1>4, <2>2, <2>3, <2>4
  <2>5. CASE m # cap
    <3>1. m \in 1..(cap - 1) /\ m + 1 \in 1..cap
      BY <1>2, <1>4, <2>5
    <3>2. new[m + 1] = cache[m]
      BY <2>1, <2>3, <3>1
    <3> QED
      BY <2>2, <2>3, <3>1, <3>2
  <2> QED
    BY <2>4, <2>5
<1> QED
  BY <1>2, <1>3, <1>4

-----------------------------------------------------------------------------
(* Tables                                                                  *)

(* Some relation orders the natural numbers and is well founded.           *)
LEMMA SmallerIsWellFounded ==
    \E R : IsWellFoundedOn(R, Nat) /\ \A x, y \in Nat : x < y => <<x, y>> \in R
<1>1. IsWellFoundedOn(OpToRel(<, Nat), Nat)
  BY NatLessThanWellFounded
<1>2. \A x, y \in Nat : x < y => <<x, y>> \in OpToRel(<, Nat)
  BY DEF OpToRel
<1> QED
  BY <1>1, <1>2

(* A set of natural numbers has a least element.                           *)
LEMMA LeastExists ==
    ASSUME NEW S, S \subseteq Nat, S # {}
    PROVE  \E x \in S : \A y \in S : x <= y
<1>1. PICK R : IsWellFoundedOn(R, Nat) /\ \A x, y \in Nat : x < y => <<x, y>> \in R
  BY SmallerIsWellFounded
<1>2. IsWellFoundedOn(R, Nat)
  BY <1>1
<1>3. S \in SUBSET Nat
  OBVIOUS
<1>4. \E x \in S : \A y \in S : ~(<<y, x>> \in R)
  BY <1>2, <1>3, WFMin, Zenon
<1>5. PICK x \in S : \A y \in S : ~(<<y, x>> \in R)
  BY <1>4, Zenon
<1>6. \A y \in S : ~(y < x)
  BY <1>1, <1>5, Zenon
<1> QED
  BY <1>6

(* A set of natural numbers that stays below some number has a greatest    *)
(* element: the one nearest to that number.                                *)
LEMMA GreatestExists ==
    ASSUME NEW S, NEW n \in Nat, S \subseteq 0..n, S # {}
    PROVE  \E x \in S : \A y \in S : x >= y
<1> DEFINE T == {n - x : x \in S}
<1>1. T \subseteq Nat /\ T # {}
  <2>1. PICK x \in S : TRUE
    OBVIOUS
  <2>2. n - x \in T
    BY <2>1
  <2>3. \A u \in T : u \in Nat
    OBVIOUS
  <2> QED
    BY <2>2, <2>3
<1> HIDE DEF T
<1>2. PICK t \in T : \A u \in T : t <= u
  BY <1>1, LeastExists, Zenon
<1>3. PICK x \in S : t = n - x
  BY <1>2 DEF T
<1>4. \A y \in S : n - x <= n - y
  BY <1>2, <1>3 DEF T
<1> QED
  BY <1>4

(* The next row number is not in use, and one more than one in use, or 1.  *)
LEMMA NextIdIsFresh ==
    ASSUME NEW f, NEW n \in Nat, DOMAIN f \subseteq 1..n
    PROVE  NextId(f) \in 1..(n + 1) /\ NextId(f) \notin DOMAIN f
<1> DEFINE S == DOMAIN f \cup {0}
<1>1. S \subseteq 0..n /\ S # {}
  OBVIOUS
<1>2. \E x \in S : \A y \in S : x >= y
  BY <1>1, GreatestExists, Zenon
<1>3. Max(S) \in S /\ \A y \in S : Max(S) >= y
  BY <1>2 DEF Max
<1>4. Max(S) \in 0..n
  BY <1>1, <1>3
<1>5. NextId(f) = Max(S) + 1
  BY DEF NextId
<1> HIDE DEF S
<1>6. DOMAIN f \subseteq S
  BY DEF S
<1> QED
  BY <1>3, <1>4, <1>5, <1>6

(* One row more, in a table of rows of one kind.                           *)
LEMMA InsertAdds ==
    ASSUME NEW f, NEW k, NEW row
    PROVE  /\ DOMAIN Insert(f, k, row) = DOMAIN f \cup {k}
           /\ Insert(f, k, row)[k] = row
           /\ \A x \in DOMAIN f : x # k => Insert(f, k, row)[x] = f[x]
BY DEF Insert

LEMMA InsertTable ==
    ASSUME NEW f, NEW K, NEW V, IsTable(f, K, V), NEW k \in K, NEW row \in V
    PROVE  IsTable(Insert(f, k, row), K, V)
<1> DEFINE new == Insert(f, k, row)
<1>0. /\ DOMAIN new = DOMAIN f \cup {k}
      /\ new[k] = row
      /\ \A x \in DOMAIN f : x # k => new[x] = f[x]
  BY DEF Insert
<1>1. DOMAIN new \subseteq K
  BY <1>0 DEF IsTable
<1>2. \A x \in DOMAIN new : new[x] \in V
  BY <1>0 DEF IsTable
<1>3. Insert(f, k, row) = [x \in DOMAIN Insert(f, k, row) |-> Insert(f, k, row)[x]]
  BY DEF Insert
<1> QED
  BY <1>1, <1>2, <1>3 DEF IsTable

(* The rows that are left are as they were.                                *)
LEMMA DeleteRemoves ==
    ASSUME NEW f, NEW gone
    PROVE  /\ DOMAIN Delete(f, gone) = DOMAIN f \ gone
           /\ \A x \in DOMAIN f \ gone : Delete(f, gone)[x] = f[x]
BY DEF Delete, Restrict

LEMMA DeleteTable ==
    ASSUME NEW f, NEW K, NEW V, IsTable(f, K, V), NEW gone
    PROVE  IsTable(Delete(f, gone), K, V)
<1>1. Delete(f, gone) = [x \in DOMAIN Delete(f, gone) |-> Delete(f, gone)[x]]
  BY DEF Delete, Restrict
<1>2. /\ DOMAIN Delete(f, gone) = DOMAIN f \ gone
      /\ \A x \in DOMAIN f \ gone : Delete(f, gone)[x] = f[x]
  BY DeleteRemoves
<1> QED
  BY <1>1, <1>2 DEF IsTable

(* A row that changes in place.                                            *)
LEMMA UpdateTable ==
    ASSUME NEW f, NEW K, NEW V, IsTable(f, K, V), NEW k \in DOMAIN f, NEW row \in V
    PROVE  IsTable([f EXCEPT ![k] = row], K, V)
BY DEF IsTable

-----------------------------------------------------------------------------
(* The importer                                                            *)

(* A fold to the left is the recursive function that its definition names; *)
(* that there is one is shown from each length to the next.                *)
PutFunction(g, imp, s, D) ==
    g = [t \in SUBSET D |-> IF t = {} THEN imp
            ELSE PutBlock(g[t \ {Max(t)}], s[Max(t)])]

(* What the importer gets from is a record with the waiting blocks.        *)
IsImporter(imp) == imp = Fault \/ "pending" \in DOMAIN imp

PutsTo(n, imp, s) == \E g : PutFunction(g, imp, s, 1..n)

LEMMA MaxFinds ==
    ASSUME NEW t \in SUBSET Nat, NEW n \in t, \A y \in t : n >= y
    PROVE  Max(t) = n
<1>1. \E x \in t : \A y \in t : x >= y
  OBVIOUS
<1>2. Max(t) \in t /\ \A y \in t : Max(t) >= y
  BY <1>1, Zenon DEF Max
<1>3. n \in Nat /\ Max(t) \in Nat
  BY <1>2
<1> QED
  BY <1>2, <1>3

LEMMA PutBlockImporter ==
    ASSUME NEW imp, IsImporter(imp), NEW b
    PROVE  IsImporter(PutBlock(imp, b))
<1>1. CASE imp = Fault \/ Parent[b] = NoParent
  BY <1>1 DEF PutBlock, IsImporter
<1>2. CASE imp # Fault /\ Parent[b] # NoParent
  <2> DEFINE all == Insert(imp.pending, Parent[b], Append(Pending(imp, Parent[b]), b))
  <2>1. PutBlock(imp, b) = [imp EXCEPT !.pending = all]
    BY <1>2, Zenon DEF PutBlock
  <2> HIDE DEF all
  <2> QED
    BY <1>2, <2>1 DEF IsImporter
<1> QED
  BY <1>1, <1>2

LEMMA PutFunctionGrows ==
    ASSUME NEW imp, NEW s, NEW n \in Nat, PutsTo(n, imp, s)
    PROVE  PutsTo(n + 1, imp, s)
<1>1. PICK g : PutFunction(g, imp, s, 1..n)
  BY DEF PutsTo
<1>2. \A t \in SUBSET (1..n) :
        g[t] = IF t = {} THEN imp ELSE PutBlock(g[t \ {Max(t)}], s[Max(t)])
  BY <1>1 DEF PutFunction
<1> DEFINE F(h) == [t \in SUBSET (1..(n + 1)) |-> IF t = {} THEN imp
                      ELSE PutBlock(h[t \ {Max(t)}], s[Max(t)])]
           H == [t \in SUBSET (1..(n + 1)) |->
                    IF n + 1 \in t THEN PutBlock(g[t \ {n + 1}], s[n + 1])
                    ELSE g[t]]
<1>3. ASSUME NEW t \in SUBSET (1..(n + 1)), n + 1 \in t
      PROVE  Max(t) = n + 1 /\ t \ {n + 1} \in SUBSET (1..n)
  <2>1. \A x \in t : n + 1 >= x
    OBVIOUS
  <2>2. t \in SUBSET Nat
    OBVIOUS
  <2> QED
    BY <1>3, <2>1, <2>2, MaxFinds
<1>4. ASSUME NEW t \in SUBSET (1..(n + 1)) PROVE H[t] = F(H)[t]
  <2>1. CASE n + 1 \in t
    <3>1. /\ Max(t) = n + 1 /\ t \ {n + 1} \in SUBSET (1..n)
          /\ t \ {n + 1} \in SUBSET (1..(n + 1)) /\ n + 1 \notin t \ {n + 1}
      BY <1>3, <2>1
    <3>2. H[t \ {n + 1}] = g[t \ {n + 1}]
      BY <3>1
    <3>3. H[t] = PutBlock(g[t \ {n + 1}], s[n + 1])
      BY <2>1
    <3>4. F(H)[t] = PutBlock(H[t \ {Max(t)}], s[Max(t)])
      BY <2>1
    <3> QED
      BY <3>1, <3>2, <3>3, <3>4
  <2>2. CASE n + 1 \notin t
    <3>1. t \in SUBSET (1..n)
      BY <2>2
    <3>2. \A r \in SUBSET (1..n) : H[r] = g[r]
      <4> TAKE r \in SUBSET (1..n)
      <4>1. r \in SUBSET (1..(n + 1)) /\ n + 1 \notin r
        OBVIOUS
      <4> QED
        BY <4>1
    <3>3. H[t] = g[t] /\ H[t \ {Max(t)}] = g[t \ {Max(t)}]
      <4>1. t \ {Max(t)} \in SUBSET (1..n)
        BY <3>1
      <4> QED
        BY <3>1, <3>2, <4>1
    <3>4. F(H)[t] = IF t = {} THEN imp ELSE PutBlock(H[t \ {Max(t)}], s[Max(t)])
      OBVIOUS
    <3> HIDE DEF H, F
    <3> QED
      BY <1>2, <3>1, <3>3, <3>4
  <2> QED
    BY <2>1, <2>2
<1>5. H = F(H)
  <2>1. /\ H = [t \in SUBSET (1..(n + 1)) |-> H[t]]
        /\ F(H) = [t \in SUBSET (1..(n + 1)) |-> F(H)[t]]
    OBVIOUS
  <2> HIDE DEF H, F
  <2> QED
    BY <1>4, <2>1
<1>6. PutFunction(H, imp, s, 1..(n + 1))
  BY <1>5 DEF PutFunction
<1> HIDE DEF H
<1> QED
  BY <1>6 DEF PutsTo

LEMMA PutFunctionExists ==
    ASSUME NEW imp, NEW s, NEW n \in Nat
    PROVE  PutsTo(n, imp, s)
<1> DEFINE bad == {m \in Nat : ~PutsTo(m, imp, s)}
<1>1. PutsTo(0, imp, s)
  <2> DEFINE none == [t \in SUBSET (1..0) |-> imp]
  <2>1. \A t \in SUBSET (1..0) : t = {}
    OBVIOUS
  <2>2. none = [t \in SUBSET (1..0) |-> IF t = {} THEN imp
                  ELSE PutBlock(none[t \ {Max(t)}], s[Max(t)])]
    BY <2>1
  <2>3. PutFunction(none, imp, s, 1..0)
    BY <2>2 DEF PutFunction
  <2> QED
    BY <2>3 DEF PutsTo
<1> SUFFICES ASSUME bad # {} PROVE FALSE
  OBVIOUS
<1>2. PICK m \in bad : \A k \in bad : m <= k
  BY LeastExists
<1>3. m # 0 /\ m - 1 \in Nat /\ m - 1 \notin bad
  BY <1>1, <1>2
<1>4. PutsTo((m - 1) + 1, imp, s)
  BY <1>3, PutFunctionGrows
<1> QED
  BY <1>2, <1>3, <1>4

(* The fold begins with imp and puts the last block last.                  *)
LEMMA FoldPuts ==
    ASSUME NEW S, NEW s \in Seq(S), NEW imp, IsImporter(imp)
    PROVE  /\ s = <<>> => FoldLeft(PutBlock, imp, s) = imp
           /\ s # <<>> => \E x : /\ IsImporter(x)
                                 /\ FoldLeft(PutBlock, imp, s) = PutBlock(x, s[Len(s)])
<1> DEFINE D == DOMAIN s
           g == CHOOSE g : g = [t \in SUBSET D |-> IF t = {} THEN imp
                                  ELSE PutBlock(g[t \ {Max(t)}], s[Max(t)])]
<1>1. FoldLeft(PutBlock, imp, s) = g[D]
  BY Zenon DEF FoldLeft, MapThenFoldSet
<1>2. D = 1..Len(s) /\ Len(s) \in Nat
  OBVIOUS
<1>3. g = CHOOSE h : PutFunction(h, imp, s, D)
  BY Zenon DEF PutFunction
<1> HIDE DEF g
<1>4. PutsTo(Len(s), imp, s)
  BY <1>2, PutFunctionExists
<1>5. PutFunction(g, imp, s, D)
  BY <1>2, <1>3, <1>4, Zenon DEF PutsTo
<1>6. g[{}] = imp
  BY <1>5 DEF PutFunction
<1>7. ASSUME NEW k \in 1..Len(s)
      PROVE  g[1..k] = PutBlock(g[1..(k - 1)], s[k])
  <2>1. 1..k \in SUBSET D /\ 1..k # {}
    <3>1. k \in 1..k
      OBVIOUS
    <3>2. \A i \in 1..k : i \in 1..Len(s)
      BY <1>2
    <3> QED
      BY <1>2, <3>1, <3>2
  <2>2. (1..k) \ {k} = 1..(k - 1)
    BY <1>2
  <2>3. Max(1..k) = k
    <3>1. k \in 1..k /\ 1..k \in SUBSET Nat /\ \A y \in 1..k : k >= y
      OBVIOUS
    <3> QED
      BY <3>1, MaxFinds
  <2>4. g[1..k] = IF 1..k = {} THEN imp
                  ELSE PutBlock(g[(1..k) \ {Max(1..k)}], s[Max(1..k)])
    BY <1>5, <2>1 DEF PutFunction
  <2> QED
    BY <2>1, <2>2, <2>3, <2>4
<1>8. \A k \in 0..Len(s) : IsImporter(g[1..k])
  <2> DEFINE bad == {k \in 0..Len(s) : ~IsImporter(g[1..k])}
  <2> SUFFICES ASSUME bad # {} PROVE FALSE
    OBVIOUS
  <2>0. bad \subseteq Nat
    BY <1>2
  <2>1. PICK k \in bad : \A j \in bad : k <= j
    <3> HIDE DEF bad
    <3> QED
      BY <2>0, LeastExists
  <2>2. k # 0
    BY <1>6, <2>1
  <2>3. k \in 1..Len(s) /\ k - 1 \in 0..Len(s) /\ k - 1 \notin bad
    BY <1>2, <2>1, <2>2
  <2>4. IsImporter(g[1..(k - 1)])
    BY <2>3
  <2>5. IsImporter(g[1..k])
    BY <1>7, <2>3, <2>4, PutBlockImporter
  <2> QED
    BY <2>1, <2>5
<1>9. CASE s = <<>>
  BY <1>1, <1>6, <1>9
<1>10. CASE s # <<>>
  <2>1. Len(s) \in 1..Len(s) /\ Len(s) - 1 \in 0..Len(s)
    BY <1>2, <1>10
  <2> QED
    BY <1>1, <1>2, <1>7, <1>8, <1>10, <2>1
<1> QED
  BY <1>9, <1>10

(* Only the first block of a passport ever gets in: from_blocks returns a  *)
(* passport of that one block, or none.                                    *)
LEMMA FromBlocksIsFirst ==
    ASSUME NEW S, NEW blocks \in Seq(S), FromBlocks(blocks) # <<>>
    PROVE  /\ Len(blocks) = 1 /\ Parent[blocks[1]] = NoParent
           /\ FromBlocks(blocks) = blocks
<1> DEFINE first == NewOwned(blocks[1])
           imp == FoldLeft(PutBlock, first, Tail(blocks))
<1>1. blocks # <<>>
  BY Zenon DEF FromBlocks
<1>2. FromBlocks(blocks) = Finalize(imp)
  BY <1>1, Zenon DEF FromBlocks
<1>3. imp # Fault /\ DOMAIN imp.pending = {} /\ FromBlocks(blocks) = imp.current
  BY <1>2, Zenon DEF Finalize
<1>4. Tail(blocks) \in Seq(S) /\ Len(Tail(blocks)) = Len(blocks) - 1
  BY <1>1
<1>5. IsImporter(first)
  BY DEF NewOwned, IsImporter
<1> HIDE DEF first
<1>6. ASSUME Tail(blocks) # <<>> PROVE FALSE
  <2> DEFINE b == Tail(blocks)[Len(Tail(blocks))]
  <2>1. PICK x : IsImporter(x) /\ imp = PutBlock(x, b)
    BY <1>4, <1>5, <1>6, FoldPuts
  <2> HIDE DEF b, imp
  <2> DEFINE all == Insert(x.pending, Parent[b], Append(Pending(x, Parent[b]), b))
  <2>2. x # Fault /\ imp = [x EXCEPT !.pending = all]
    BY <1>3, <2>1, Zenon DEF PutBlock
  <2>3. Parent[b] \in DOMAIN all
    BY DEF Insert
  <2> HIDE DEF all
  <2>4. imp.pending = all
    BY <2>1, <2>2 DEF IsImporter
  <2> QED
    BY <1>3, <2>3, <2>4
<1>7. Tail(blocks) = <<>>
  BY <1>6
<1>8. imp = first
  BY <1>4, <1>5, <1>7, FoldPuts
<1> HIDE DEF imp
<1>9. Len(blocks) = 1
  BY <1>1, <1>4, <1>7
<1>10. blocks = <<blocks[1]>>
  BY <1>9
<1>11. Parent[blocks[1]] = NoParent /\ first.current = <<blocks[1]>>
  BY <1>3, <1>8 DEF NewOwned, first
<1> QED
  BY <1>3, <1>8, <1>9, <1>10, <1>11

(* The first block of a passport alone makes one.                          *)
LEMMA FromFirst ==
    ASSUME NEW b, Parent[b] = NoParent
    PROVE  FromBlocks(<<b>>) = <<b>>
<1> DEFINE first == NewOwned(b)
<1>1. /\ <<b>> \in Seq({b}) /\ Tail(<<b>>) = <<>> /\ <<b>>[1] = b /\ <<b>> # <<>>
  OBVIOUS
<1>2. first = [current |-> <<b>>, pending |-> <<>>, added |-> {}]
  BY DEF NewOwned
<1>3. first # Fault /\ DOMAIN first.pending = {} /\ first.current = <<b>>
  BY <1>2 DEF Fault
<1>4. IsImporter(first) /\ <<>> \in Seq({b})
  BY <1>2 DEF IsImporter
<1> HIDE DEF first
<1>5. FoldLeft(PutBlock, first, <<>>) = first
  BY <1>4, FoldPuts
<1> QED
  BY <1>1, <1>3, <1>5, Zenon DEF FromBlocks, Finalize, first

(* load knows no parent while nothing was added, and nothing is added      *)
(* before a parent is known: it does what put does.                        *)
IsFirst(imp) ==
    imp # Fault => /\ imp.added = {}
                   /\ "pending" \in DOMAIN imp /\ "added" \in DOMAIN imp

LEMMA LoadPuts ==
    ASSUME NEW imp, IsFirst(imp), NEW b
    PROVE  /\ Load(imp, b) = PutBlock(imp, b)
           /\ IsFirst(PutBlock(imp, b))
<1>1. Load(imp, b) = PutBlock(imp, b)
  <2>1. CASE imp = Fault
    BY <2>1 DEF Load, PutBlock
  <2>2. CASE imp # Fault
    <3>1. Parent[b] \notin imp.added
      BY <2>2 DEF IsFirst
    <3> QED
      BY <2>2, <3>1, Zenon DEF Load, PutBlock
  <2> QED
    BY <2>1, <2>2
<1>2. CASE imp = Fault \/ Parent[b] = NoParent
  <2>1. PutBlock(imp, b) = Fault
    BY <1>2, Zenon DEF PutBlock
  <2> QED
    BY <1>1, <2>1, Zenon DEF IsFirst
<1>3. CASE imp # Fault /\ Parent[b] # NoParent
  <2> DEFINE all == Insert(imp.pending, Parent[b], Append(Pending(imp, Parent[b]), b))
  <2>1. PutBlock(imp, b) = [imp EXCEPT !.pending = all]
    BY <1>3, Zenon DEF PutBlock
  <2> HIDE DEF all
  <2>2. imp.added = {} /\ "pending" \in DOMAIN imp /\ "added" \in DOMAIN imp
    BY <1>3 DEF IsFirst
  <2> DEFINE res == [imp EXCEPT !.pending = all]
  <2>3. DOMAIN res = DOMAIN imp /\ res.added = imp.added
    BY <2>2
  <2> HIDE DEF res
  <2>4. PutBlock(imp, b) = res
    BY <2>1 DEF res
  <2> QED
    BY <1>1, <2>2, <2>3, <2>4 DEF IsFirst
<1> QED
  BY <1>2, <1>3

(* So do their folds.                                                      *)
LEMMA FoldLoads ==
    ASSUME NEW S, NEW s \in Seq(S), NEW imp, IsFirst(imp)
    PROVE  FoldLeft(Load, imp, s) = FoldLeft(PutBlock, imp, s)
<1> DEFINE D == DOMAIN s
           g == CHOOSE g : g = [t \in SUBSET D |-> IF t = {} THEN imp
                                  ELSE PutBlock(g[t \ {Max(t)}], s[Max(t)])]
           h == CHOOSE h : h = [t \in SUBSET D |-> IF t = {} THEN imp
                                  ELSE Load(h[t \ {Max(t)}], s[Max(t)])]
<1>1. FoldLeft(PutBlock, imp, s) = g[D] /\ FoldLeft(Load, imp, s) = h[D]
  BY Zenon DEF FoldLeft, MapThenFoldSet
<1>2. D = 1..Len(s) /\ Len(s) \in Nat
  OBVIOUS
<1>3. PutFunction(g, imp, s, D)
  <2>1. g = CHOOSE f : PutFunction(f, imp, s, D)
    BY Zenon DEF PutFunction
  <2> HIDE DEF g
  <2> QED
    BY <1>2, <2>1, PutFunctionExists, Zenon DEF PutsTo
<1> DEFINE Loads(f) == f = [t \in SUBSET D |-> IF t = {} THEN imp
                              ELSE Load(f[t \ {Max(t)}], s[Max(t)])]
<1>4. h = CHOOSE f : Loads(f)
  BY Zenon
<1> HIDE DEF g, h
(* The greatest element of a set, and the set without it.                  *)
<1>5. ASSUME NEW t \in SUBSET D, t # {}
      PROVE  /\ Max(t) \in D /\ t \ {Max(t)} \in SUBSET (1..(Max(t) - 1))
             /\ \A k \in Nat : t \subseteq 1..k => Max(t) <= k
  <2>1. t \subseteq 0..Len(s) /\ t \in SUBSET Nat
    BY <1>2
  <2>2. PICK x \in t : \A y \in t : x >= y
    BY <1>2, <1>5, <2>1, GreatestExists, Zenon
  <2>3. Max(t) = x
    BY <2>1, <2>2, MaxFinds
  <2>4. x \in Nat /\ x \in 1..Len(s)
    BY <1>2, <2>2
  <2>5. \A y \in t : y \in Nat /\ y >= 1 /\ y <= x
    BY <1>2, <2>2
  <2>6. \A y \in t \ {x} : y \in 1..(x - 1)
    BY <2>4, <2>5
  <2>7. \A k \in Nat : t \subseteq 1..k => x <= k
    BY <2>2, <2>4
  <2> QED
    BY <1>2, <2>3, <2>4, <2>6, <2>7
<1>6. \A t \in SUBSET D :
        g[t] = IF t = {} THEN imp ELSE PutBlock(g[t \ {Max(t)}], s[Max(t)])
  BY <1>3 DEF PutFunction
<1>7. \A t \in SUBSET D : IsFirst(g[t])
  <2> DEFINE bad == {k \in Nat : \E t \in SUBSET D : t \subseteq 1..k /\ ~IsFirst(g[t])}
  <2>1. bad = {}
    <3> SUFFICES ASSUME bad # {} PROVE FALSE
      OBVIOUS
    <3>1. PICK k \in bad : \A j \in bad : k <= j
      BY LeastExists
    <3>2. PICK t \in SUBSET D : t \subseteq 1..k /\ ~IsFirst(g[t])
      BY <3>1
    <3>3. t # {}
      BY <1>6, <3>2
    <3> DEFINE n == Max(t)
               u == t \ {n}
    <3>4. n \in 1..Len(s) /\ u \in SUBSET (1..(n - 1)) /\ n <= k /\ u \in SUBSET D
      BY <1>2, <1>5, <3>1, <3>2, <3>3
    <3>5. g[t] = PutBlock(g[u], s[n])
      BY <1>6, <3>3
    <3> HIDE DEF n, u
    <3>6. n - 1 \in Nat /\ n - 1 < k /\ k \in Nat
      BY <1>2, <3>1, <3>4
    <3>7. n - 1 \notin bad
      BY <3>1, <3>6
    <3>8. IsFirst(g[u])
      BY <3>4, <3>6, <3>7
    <3> QED
      BY <3>2, <3>5, <3>8, LoadPuts
  <2>2. ASSUME NEW t \in SUBSET D, ~IsFirst(g[t]) PROVE FALSE
    <3>1. Len(s) \in bad
      BY <1>2, <2>2
    <3> QED
      BY <2>1, <3>1
  <2> QED
    BY <2>2
<1>8. \A t \in SUBSET D : t # {} =>
        /\ t \ {Max(t)} \in SUBSET D
        /\ Load(g[t \ {Max(t)}], s[Max(t)]) = PutBlock(g[t \ {Max(t)}], s[Max(t)])
  BY <1>7, LoadPuts
<1>9. Loads(g)
  <2>1. g = [t \in SUBSET D |-> g[t]]
    BY <1>3, Zenon DEF PutFunction
  <2>2. \A t \in SUBSET D :
          g[t] = IF t = {} THEN imp ELSE Load(g[t \ {Max(t)}], s[Max(t)])
    BY <1>6, <1>8, Zenon
  <2> QED
    BY <2>1, <2>2
<1>10. Loads(h)
  BY <1>4, <1>9, Zenon
<1>11. \A t \in SUBSET D :
        h[t] = IF t = {} THEN imp ELSE Load(h[t \ {Max(t)}], s[Max(t)])
  BY <1>10
<1>12. \A t \in SUBSET D : h[t] = g[t]
  <2> DEFINE bad == {k \in Nat : \E t \in SUBSET D : t \subseteq 1..k /\ h[t] # g[t]}
  <2>1. bad = {}
    <3> SUFFICES ASSUME bad # {} PROVE FALSE
      OBVIOUS
    <3>1. PICK k \in bad : \A j \in bad : k <= j
      BY LeastExists
    <3>2. PICK t \in SUBSET D : t \subseteq 1..k /\ h[t] # g[t]
      BY <3>1
    <3>3. t # {}
      BY <1>6, <1>11, <3>2
    <3> DEFINE n == Max(t)
               u == t \ {n}
    <3>4. n \in 1..Len(s) /\ u \in SUBSET (1..(n - 1)) /\ n <= k /\ u \in SUBSET D
      BY <1>2, <1>5, <3>1, <3>2, <3>3
    <3>5. g[t] = Load(g[u], s[n]) /\ h[t] = Load(h[u], s[n])
      BY <1>6, <1>8, <1>11, <3>3
    <3> HIDE DEF n, u
    <3>6. n - 1 \in Nat /\ n - 1 < k /\ k \in Nat
      BY <1>2, <3>1, <3>4
    <3>7. n - 1 \notin bad
      BY <3>1, <3>6
    <3>8. h[u] = g[u]
      BY <3>4, <3>6, <3>7
    <3> QED
      BY <3>2, <3>5, <3>8
  <2>2. ASSUME NEW t \in SUBSET D, h[t] # g[t] PROVE FALSE
    <3>1. Len(s) \in bad
      BY <1>2, <2>2
    <3> QED
      BY <2>1, <3>1
  <2> QED
    BY <2>2
<1> QED
  BY <1>1, <1>12

LEMMA LoadBlocksIsFromBlocks ==
    ASSUME NEW S, NEW blocks \in Seq(S)
    PROVE  LoadBlocks(blocks) = FromBlocks(blocks)
<1>1. CASE blocks = <<>>
  BY <1>1, Zenon DEF LoadBlocks, FromBlocks
<1>2. CASE blocks # <<>>
  <2> DEFINE first == NewOwned(blocks[1])
  <2>1. IsFirst(first)
    BY DEF NewOwned, IsFirst
  <2>2. Tail(blocks) \in Seq(S)
    BY <1>2
  <2> HIDE DEF first
  <2>3. FoldLeft(Load, first, Tail(blocks)) = FoldLeft(PutBlock, first, Tail(blocks))
    BY <2>1, <2>2, FoldLoads
  <2> QED
    BY <1>2, <2>3, Zenon DEF LoadBlocks, FromBlocks, first
<1> QED
  BY <1>1, <1>2

(* The importer accepts a sequence of blocks exactly when it is one first  *)
(* block, with from_blocks and with load alike: from_blocks takes no block *)
(* out of `pending`, and load looks for a parent in `added`, where the     *)
(* first block never is (passport_importer.rs).                            *)
THEOREM OnlyFirstBlocksImport ==
    ASSUME NEW S, NEW blocks \in Seq(S)
    PROVE  /\ FromBlocks(blocks) # <<>> <=>
                Len(blocks) = 1 /\ Parent[blocks[1]] = NoParent
           /\ LoadBlocks(blocks) = FromBlocks(blocks)
<1>1. ASSUME FromBlocks(blocks) # <<>>
      PROVE  Len(blocks) = 1 /\ Parent[blocks[1]] = NoParent
  BY <1>1, FromBlocksIsFirst
<1>2. ASSUME Len(blocks) = 1, Parent[blocks[1]] = NoParent
      PROVE  FromBlocks(blocks) # <<>>
  <2> DEFINE b == blocks[1]
  <2>1. blocks = <<b>>
    BY <1>2
  <2> HIDE DEF b
  <2>2. FromBlocks(<<b>>) = <<b>>
    BY <1>2, FromFirst DEF b
  <2>3. <<b>> # <<>>
    OBVIOUS
  <2> QED
    BY <2>1, <2>2, <2>3
<1> QED
  BY <1>1, <1>2, LoadBlocksIsFromBlocks

=============================================================================
