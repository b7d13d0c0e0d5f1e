-------------------------------- MODULE Lru --------------------------------
(***************************************************************************)
(* The `LruCache` of the external crate lru, as asmtpd uses it: the map of *)
(* the opened connections (connections.rs) and the history of the gossips  *)
(* (network/mod.rs).  A cache is the sequence of its entries, the most     *)
(* recently used one first; a key has at most one entry.                   *)
(***************************************************************************)
EXTENDS Naturals, Sequences, SequencesExt

Entries(K, V) == [key : K, val : V]

HasKey(cache, k) == \E i \in 1..Len(cache) : cache[i].key = k

Index(cache, k) == CHOOSE i \in 1..Len(cache) : cache[i].key = k

Lookup(cache, k) == cache[Index(cache, k)].val

(* LruCache::pop: forget the entry of a key, if there is one.              *)
Pop(cache, k) ==
    IF HasKey(cache, k) THEN RemoveAt(cache, Index(cache, k)) ELSE cache

(* LruCache::get: the entry looked up becomes the most recently used one.  *)
Promote(cache, k) ==
    IF HasKey(cache, k) THEN <<cache[Index(cache, k)]>> \o Pop(cache, k) ELSE cache

(* LruCache::put: a new value replaces the one of the same key; a new key  *)
(* takes the place of the least recently used one in a full cache.         *)
Put(cache, k, v, cap) ==
    LET rest == Pop(cache, k)
        kept == IF Len(rest) >= cap THEN SubSeq(rest, 1, cap - 1) ELSE rest
    IN  <<[key |-> k, val |-> v]>> \o kept

UniqueKeys(cache) ==
    \A i, j \in 1..Len(cache) : cache[i].key = cache[j].key => i = j

============================================================================
