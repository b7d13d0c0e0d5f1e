------------------------ MODULE DisseminationProofs ------------------------
(***************************************************************************)
(* What a MessageCache of any size guarantees, for every set of nodes, of  *)
(* links and of messages.  The invariant relates the cache of a node to    *)
(* the messages the node took for new: below the last slot the cache is    *)
(* complete (DisseminationInv), and a cache with room for more messages    *)
(* than there are is never cut (RoomInv).                                  *)
(***************************************************************************)
EXTENDS Dissemination, SequenceTheorems, FiniteSetTheorems, TLAPS

USE SetsAssumption, MaxKnownAssumption, MaxRestartsAssumption

(* What is taken for new again was taken for new before, and as long as    *)
(* the last two slots are free the cache holds all that was.               *)
CacheComplete ==
    /\ \A n \in Nodes, m \in Messages : <<n, m>> \in again => m \in original[n]
    /\ \A n \in Nodes : Len(messages[n]) < MaxKnown[n] - 1 =>
          \A m \in original[n] : Holds(messages[n], m)

DisseminationInv == TypeOK /\ CacheComplete /\ OldestNeverTwice

(* Cutting leaves the oldest entries in their places, and room for one.    *)
LEMMA CutProperties ==
    ASSUME NEW cache \in Seq(Messages), NEW max \in Nat \ {0}, Len(cache) <= max
    PROVE  /\ Cut(cache, max) \in Seq(Messages)
           /\ Len(Cut(cache, max)) = IF Len(cache) < max THEN Len(cache) ELSE max - 1
           /\ \A i \in 1..Len(Cut(cache, max)) : Cut(cache, max)[i] = cache[i]
<1> DEFINE n == IF Len(cache) < max THEN Len(cache) ELSE max - 1
<1>1. n \in Nat /\ n <= Len(cache)
  OBVIOUS
<1>2. \A i \in 1..n : cache[i] \in Messages
  BY <1>1
<1>3. /\ SubSeq(cache, 1, n) \in Seq(Messages)
      /\ Len(SubSeq(cache, 1, n)) = n
      /\ \A i \in 1..n : SubSeq(cache, 1, n)[i] = cache[i]
  <2> HIDE DEF n
  <2> QED
    BY <1>1, <1>2, SubSeqProperties
<1>4. Cut(cache, max) = SubSeq(cache, 1, n)
  BY DEF Cut
<1> QED
  BY <1>3, <1>4

(* Looking a message up keeps the type and the bound of the cache, and the *)
(* entries below the last slot; a new message lands behind them.           *)
LEMMA CheckedProperties ==
    ASSUME NEW cache \in Seq(Messages), NEW max \in Nat \ {0}, Len(cache) <= max, NEW m \in Messages
    PROVE  /\ Checked(cache, max, m) \in Seq(Messages)
           /\ Len(Checked(cache, max, m)) = Len(Cut(cache, max)) + (IF IsNew(cache, max, m) THEN 1 ELSE 0)
           /\ Len(Checked(cache, max, m)) <= max
           /\ \A i \in 1..Len(Cut(cache, max)) : Checked(cache, max, m)[i] = cache[i]
           /\ IsNew(cache, max, m) => Checked(cache, max, m)[Len(Cut(cache, max)) + 1] = m
<1>1. /\ Cut(cache, max) \in Seq(Messages)
      /\ Len(Cut(cache, max)) \in Nat
      /\ Len(Cut(cache, max)) < max
      /\ \A i \in 1..Len(Cut(cache, max)) : Cut(cache, max)[i] = cache[i]
  BY CutProperties
<1> DEFINE cut == Cut(cache, max)
<1>2. cut \in Seq(Messages) /\ Len(cut) \in Nat /\ Len(cut) < max
  BY <1>1
<1>3. \A i \in 1..Len(cut) : cut[i] = cache[i]
  BY <1>1
<1>4. Checked(cache, max, m) = IF IsNew(cache, max, m) THEN Append(cut, m) ELSE cut
  BY DEF Checked
<1> HIDE DEF cut
<1>5. CASE IsNew(cache, max, m)
  <2>1. /\ Append(cut, m) \in Seq(Messages)
        /\ Len(Append(cut, m)) = Len(cut) + 1
        /\ \A i \in 1..Len(cut) : Append(cut, m)[i] = cut[i]
        /\ Append(cut, m)[Len(cut) + 1] = m
    BY <1>2, AppendProperties
  <2> QED
    BY <1>2, <1>3, <1>4, <1>5, <2>1 DEF cut
<1>6. CASE ~IsNew(cache, max, m)
  BY <1>2, <1>3, <1>4, <1>6 DEF cut
<1> QED
  BY <1>5, <1>6

----------------------------------------------------------------------------
(* The types.                                                              *)

LEMMA PacketFields ==
    ASSUME TypeOK, NEW p \in underWay
    PROVE  p.to \in Nodes /\ p.msg \in Messages /\ p.from \in Nodes \cup {Client}
BY DEF TypeOK, Packets

LEMMA HandleTypes ==
    ASSUME TypeOK, NEW p \in underWay, Handle(p)
    PROVE  TypeOK'
<1> DEFINE n == p.to
           m == p.msg
<1>1. /\ n \in Nodes /\ m \in Messages /\ p.from \in Nodes \cup {Client}
      /\ MaxKnown[n] \in Nat \ {0}
  BY PacketFields
<1>2. messages' = [messages EXCEPT ![n] = Checked(messages[n], MaxKnown[n], m)]
  BY DEF Handle, HandleKnown, HandleNew
<1>3. /\ Checked(messages[n], MaxKnown[n], m) \in Seq(Messages)
      /\ Len(Checked(messages[n], MaxKnown[n], m)) <= MaxKnown[n]
  BY <1>1, CheckedProperties DEF TypeOK
<1>4. /\ messages' \in [Nodes -> Seq(Messages)]
      /\ \A q \in Nodes : Len(messages'[q]) <= MaxKnown[q]
  BY <1>1, <1>2, <1>3 DEF TypeOK
<1>5. CASE HandleKnown(p)
  BY <1>4, <1>5 DEF HandleKnown, TypeOK
<1>6. CASE HandleNew(p)
  <2>1. original' \in [Nodes -> SUBSET Messages]
    BY <1>1, <1>6 DEF HandleNew, TypeOK
  <2>2. again' \subseteq Nodes \X Messages
    BY <1>1, <1>6 DEF HandleNew, TypeOK
  <2>3. stored' \in [Nodes -> SUBSET Messages]
    <3>1. stored \in [Nodes -> SUBSET Messages]
      BY DEF TypeOK
    <3>2. stored[n] \cup {m} \in SUBSET Messages
      BY <1>1, <3>1
    <3>3. \/ stored' = stored
          \/ stored' = [stored EXCEPT ![n] = IF n \in Keepers THEN stored[n] \cup {m}
                                                           ELSE stored[n]]
      BY <1>6 DEF HandleNew
    <3> QED
      BY <1>1, <3>1, <3>2, <3>3
  <2>4. underWay' \subseteq Packets
    <3>1. CASE underWay' = underWay \ {p}
      BY <3>1 DEF TypeOK
    <3>2. ASSUME NEW view \in SUBSET (Neighbours(n) \ {p.from}),
                 underWay' = (underWay \ {p}) \cup
                                 {[from |-> n, to |-> q, msg |-> m] : q \in view}
          PROVE  underWay' \subseteq Packets
      <4>1. \A q \in view : q \in Nodes
        BY DEF Neighbours
      <4>2. \A q \in view : [from |-> n, to |-> q, msg |-> m] \in Packets
        BY <1>1, <4>1 DEF Packets
      <4> QED
        BY <3>2, <4>2 DEF TypeOK
    <3> QED
      BY <1>6, <3>1, <3>2 DEF HandleNew
  <2> QED
    BY <1>4, <1>6, <2>1, <2>2, <2>3, <2>4 DEF HandleNew, TypeOK
<1> QED
  BY <1>5, <1>6 DEF Handle

LEMMA TypeStep == TypeOK /\ [Next]_vars => TypeOK'
<1> SUFFICES ASSUME TypeOK, [Next]_vars PROVE TypeOK'
  OBVIOUS
<1>1. ASSUME NEW n \in Nodes, NEW m \in Messages, Publish(n, m)
      PROVE  TypeOK'
  <2>1. [from |-> Client, to |-> n, msg |-> m] \in Packets
    BY DEF Packets
  <2> QED
    BY <1>1, <2>1 DEF Publish, TypeOK
<1>2. ASSUME NEW p \in underWay, Handle(p)
      PROVE  TypeOK'
  BY <1>2, HandleTypes
<1>3. ASSUME NEW p \in underWay, Lose(p)
      PROVE  TypeOK'
  BY <1>3 DEF Lose, TypeOK
<1>4. ASSUME NEW n \in Nodes, Restart(n)
      PROVE  TypeOK'
  <2>1. restarts' \in 0..MaxRestarts
    BY <1>4 DEF Restart, TypeOK
  <2>2. <<>> \in Seq(Messages) /\ Len(<<>>) = 0
    OBVIOUS
  <2>3. /\ messages' \in [Nodes -> Seq(Messages)]
        /\ \A q \in Nodes : Len(messages'[q]) <= MaxKnown[q]
    BY <1>4, <2>2 DEF Restart, TypeOK
  <2> QED
    BY <1>4, <2>1, <2>3 DEF Restart, TypeOK
<1>5. CASE UNCHANGED vars
  BY <1>5 DEF vars, TypeOK
<1> QED
  BY <1>1, <1>2, <1>3, <1>4, <1>5 DEF Next

----------------------------------------------------------------------------
(* The oldest entries.                                                     *)

LEMMA HandleKeepsInv ==
    ASSUME DisseminationInv, NEW p \in underWay, Handle(p)
    PROVE  CacheComplete' /\ OldestNeverTwice'
<1> DEFINE n == p.to
           m == p.msg
           cut == Cut(messages[n], MaxKnown[n])
           new == messages'[n]
<1>1. TypeOK /\ CacheComplete /\ OldestNeverTwice
  BY DEF DisseminationInv
<1>2. n \in Nodes /\ m \in Messages
  BY <1>1, PacketFields
<1>3. messages' = [messages EXCEPT ![n] = Checked(messages[n], MaxKnown[n], m)]
  BY DEF Handle, HandleKnown, HandleNew
<1>4. /\ messages[n] \in Seq(Messages) /\ Len(messages[n]) <= MaxKnown[n]
      /\ MaxKnown[n] \in Nat \ {0}
  BY <1>1, <1>2 DEF TypeOK
<1>5. /\ cut \in Seq(Messages) /\ MaxKnown[n] \in Nat \ {0}
      /\ Len(cut) = IF Len(messages[n]) < MaxKnown[n] THEN Len(messages[n]) ELSE MaxKnown[n] - 1
      /\ \A i \in 1..Len(cut) : cut[i] = messages[n][i]
  BY <1>4, CutProperties
<1>6. new = Checked(messages[n], MaxKnown[n], m)
  BY <1>1, <1>2, <1>3 DEF TypeOK
<1>7. /\ new \in Seq(Messages)
      /\ Len(new) \in Nat
      /\ Len(new) = Len(cut) + (IF IsNew(messages[n], MaxKnown[n], m) THEN 1 ELSE 0)
      /\ \A i \in 1..Len(cut) : new[i] = messages[n][i]
      /\ IsNew(messages[n], MaxKnown[n], m) => new[Len(cut) + 1] = m
  <2> DEFINE checked == Checked(messages[n], MaxKnown[n], m)
  <2>1. /\ checked \in Seq(Messages)
        /\ Len(checked) = Len(cut) + (IF IsNew(messages[n], MaxKnown[n], m) THEN 1 ELSE 0)
        /\ \A i \in 1..Len(cut) : checked[i] = messages[n][i]
        /\ IsNew(messages[n], MaxKnown[n], m) => checked[Len(cut) + 1] = m
    BY <1>2, <1>4, CheckedProperties
  <2>2. Len(checked) \in Nat
    BY <2>1
  <2> HIDE DEF checked, cut
  <2> QED
    BY <1>6, <2>1, <2>2 DEF checked
<1>8. \A q \in Nodes : q # n => messages'[q] = messages[q]
  BY <1>1, <1>2, <1>3 DEF TypeOK
<1>9. IsNew(messages[n], MaxKnown[n], m) <=> \A i \in 1..Len(cut) : cut[i] # m
  BY DEF IsNew, Holds
<1> HIDE DEF n, m, cut, new
<1>10. CASE HandleKnown(p)
  <2>1. ~IsNew(messages[n], MaxKnown[n], m) /\ UNCHANGED <<original, again>>
    BY <1>10 DEF HandleKnown, n, m
  <2>2. Len(new) = Len(cut)
    BY <1>5, <1>7, <2>1
  <2>3. CacheComplete'
    <3>1. ASSUME NEW q \in Nodes, Len(messages'[q]) < MaxKnown[q] - 1, NEW x \in original[q]
          PROVE  Holds(messages'[q], x)
      <4>1. CASE q # n
        BY <1>1, <1>8, <3>1, <4>1 DEF CacheComplete
      <4>2. CASE q = n
        <5>1. Len(messages[n]) = Len(new) /\ Len(messages[n]) < MaxKnown[n] - 1
          BY <1>4, <1>5, <2>2, <3>1, <4>2 DEF new
        <5>2. Holds(messages[n], x)
          BY <1>1, <1>2, <3>1, <4>2, <5>1 DEF CacheComplete
        <5> QED
          BY <1>5, <1>7, <2>2, <4>2, <5>1, <5>2 DEF Holds, new
      <4> QED
        BY <4>1, <4>2
    <3> QED
      BY <1>1, <2>1, <3>1 DEF CacheComplete
  <2>4. ASSUME NEW q \in Nodes, NEW i \in 1..Len(messages'[q]), i < MaxKnown[q]
        PROVE  <<q, messages'[q][i]>> \notin again
    <3>1. CASE q # n
      BY <1>1, <1>8, <2>4, <3>1 DEF OldestNeverTwice
    <3>2. CASE q = n
      <4>1. i \in 1..Len(messages[n]) /\ messages'[q][i] = messages[n][i]
        BY <1>4, <1>5, <1>7, <2>2, <2>4, <3>2 DEF new
      <4> QED
        BY <1>1, <1>2, <2>4, <3>2, <4>1 DEF OldestNeverTwice
    <3> QED
      BY <3>1, <3>2
  <2> QED
    BY <2>1, <2>3, <2>4 DEF OldestNeverTwice
<1>11. CASE HandleNew(p)
  <2>1. /\ IsNew(messages[n], MaxKnown[n], m)
        /\ original' = [original EXCEPT ![n] = original[n] \cup {m}]
        /\ again' = IF m \in original[n] THEN again \cup {<<n, m>>} ELSE again
    BY <1>11 DEF HandleNew, n, m
  <2>2. Len(new) = Len(cut) + 1 /\ new[Len(new)] = m
    BY <1>5, <1>7, <2>1
  <2>3. \A q \in Nodes : original'[q] = IF q = n THEN original[n] \cup {m} ELSE original[q]
    BY <1>1, <1>2, <2>1 DEF TypeOK
  <2>4. CacheComplete'
    <3>1. ASSUME NEW q \in Nodes, NEW x \in Messages, <<q, x>> \in again'
          PROVE  x \in original'[q]
      <4>1. CASE <<q, x>> \in again
        BY <1>1, <2>3, <3>1, <4>1 DEF CacheComplete
      <4>2. CASE <<q, x>> \notin again
        BY <2>1, <2>3, <3>1, <4>2
      <4> QED
        BY <4>1, <4>2
    <3>2. ASSUME NEW q \in Nodes, Len(messages'[q]) < MaxKnown[q] - 1, NEW x \in original'[q]
          PROVE  Holds(messages'[q], x)
      <4>1. CASE q # n
        BY <1>1, <1>8, <2>3, <3>2, <4>1 DEF CacheComplete
      <4>2. CASE q = n /\ x = m
        <5>1. Len(new) \in 1..Len(new)
          <6>1. Len(cut) \in Nat
            BY <1>5
          <6> QED
            BY <6>1, <2>2
        <5> QED
          BY <2>2, <4>2, <5>1 DEF Holds, new
      <4>3. CASE q = n /\ x # m
        <5>1. Len(messages[n]) < MaxKnown[n] - 1 /\ Len(cut) = Len(messages[n])
          BY <1>4, <1>5, <2>2, <3>2, <4>3 DEF new
        <5>2. Holds(messages[n], x)
          BY <1>1, <1>2, <2>3, <3>2, <4>3, <5>1 DEF CacheComplete
        <5>3. PICK i \in 1..Len(messages[n]) : messages[n][i] = x
          BY <5>2 DEF Holds
        <5>4. i \in 1..Len(new) /\ new[i] = x
          <6>1. Len(cut) \in Nat /\ i \in 1..Len(cut)
            BY <1>5, <5>1, <5>3
          <6>2. new[i] = x
            BY <1>7, <5>3, <6>1
          <6> QED
            BY <2>2, <6>1, <6>2
        <5> QED
          BY <4>3, <5>4 DEF Holds, new
      <4> QED
        BY <4>1, <4>2, <4>3
    <3> QED
      BY <3>1, <3>2 DEF CacheComplete
  <2>5. ASSUME NEW q \in Nodes, NEW i \in 1..Len(messages'[q]), i < MaxKnown[q]
        PROVE  <<q, messages'[q][i]>> \notin again'
    <3>1. CASE q # n
      <4>1. <<q, messages'[q][i]>> \notin again
        BY <1>1, <1>8, <2>5, <3>1 DEF OldestNeverTwice
      <4> QED
        BY <2>1, <3>1, <4>1
    <3>2. CASE q = n /\ i <= Len(cut)
      <4>1. i \in 1..Len(cut) /\ i \in 1..Len(messages[n])
        BY <1>4, <1>5, <1>7, <2>5, <3>2
      <4>2. messages'[q][i] = messages[n][i] /\ messages[n][i] # m
        BY <1>5, <1>7, <1>9, <2>1, <3>2, <4>1 DEF new
      <4>3. <<n, messages[n][i]>> \notin again
        BY <1>1, <1>2, <2>5, <3>2, <4>1 DEF OldestNeverTwice
      <4> QED
        BY <2>1, <3>2, <4>2, <4>3
    <3>3. CASE q = n /\ i > Len(cut)
      <4>1. i = Len(new) /\ Len(cut) < MaxKnown[n] - 1
        BY <1>5, <2>2, <2>5, <3>3 DEF new
      <4>2. Len(messages[n]) < MaxKnown[n] - 1 /\ Len(cut) = Len(messages[n])
        BY <1>4, <1>5, <4>1
      <4>3. ~Holds(messages[n], m)
        BY <1>4, <1>5, <1>9, <2>1, <4>2 DEF Holds
      <4>4. m \notin original[n]
        BY <1>1, <1>2, <4>2, <4>3 DEF CacheComplete
      <4>5. <<n, m>> \notin again /\ again' = again
        BY <1>1, <1>2, <2>1, <4>4 DEF CacheComplete
      <4> QED
        BY <2>2, <3>3, <4>1, <4>5 DEF new
    <3> QED
      BY <1>5, <2>5, <3>1, <3>2, <3>3
  <2> QED
    BY <2>4, <2>5 DEF OldestNeverTwice
<1> QED
  BY <1>10, <1>11 DEF Handle

LEMMA InvStep == DisseminationInv /\ [Next]_vars => DisseminationInv'
<1> SUFFICES ASSUME DisseminationInv, [Next]_vars PROVE DisseminationInv'
  OBVIOUS
<1>1. TypeOK /\ CacheComplete /\ OldestNeverTwice
  BY DEF DisseminationInv
<1>2. TypeOK'
  BY <1>1, TypeStep
<1>3. ASSUME NEW p \in underWay, Handle(p)
      PROVE  CacheComplete' /\ OldestNeverTwice'
  BY <1>3, HandleKeepsInv
<1>4. ASSUME NEW n \in Nodes, Restart(n)
      PROVE  CacheComplete' /\ OldestNeverTwice'
  <2>1. /\ messages' = [messages EXCEPT ![n] = <<>>]
        /\ original' = [original EXCEPT ![n] = {}]
        /\ again' = {taken \in again : taken[1] # n}
    BY <1>4 DEF Restart
  <2>2. \A q \in Nodes : /\ messages'[q] = IF q = n THEN <<>> ELSE messages[q]
                         /\ original'[q] = IF q = n THEN {} ELSE original[q]
    BY <1>1, <2>1 DEF TypeOK
  <2>3. CacheComplete'
    BY <1>1, <2>1, <2>2 DEF CacheComplete
  <2>4. OldestNeverTwice'
    BY <1>1, <2>1, <2>2 DEF OldestNeverTwice
  <2> QED
    BY <2>3, <2>4
<1>5. ASSUME UNCHANGED <<messages, original, again>>
      PROVE  CacheComplete' /\ OldestNeverTwice'
  BY <1>1, <1>5 DEF CacheComplete, OldestNeverTwice
<1>6. ASSUME NEW n \in Nodes, NEW m \in Messages, Publish(n, m)
      PROVE  UNCHANGED <<messages, original, again>>
  BY <1>6 DEF Publish
<1>7. ASSUME NEW p \in underWay, Lose(p)
      PROVE  UNCHANGED <<messages, original, again>>
  BY <1>7 DEF Lose
<1>8. CASE UNCHANGED vars
  BY <1>2, <1>5, <1>8 DEF vars, DisseminationInv
<1> QED
  BY <1>2, <1>3, <1>4, <1>5, <1>6, <1>7, <1>8 DEF Next, DisseminationInv

LEMMA InitInv == Init => DisseminationInv
<1> SUFFICES ASSUME Init PROVE DisseminationInv
  OBVIOUS
<1>1. \A n \in Nodes : messages[n] = <<>> /\ original[n] = {}
  BY DEF Init
<1>2. TypeOK
  BY DEF Init, TypeOK
<1>3. CacheComplete /\ OldestNeverTwice
  BY <1>1 DEF Init, CacheComplete, OldestNeverTwice
<1> QED
  BY <1>2, <1>3 DEF DisseminationInv

(* Every reachable state is well typed, and no cache exceeds its size.     *)
THEOREM DisseminationTypeCorrect == Spec => []TypeOK
<1>1. DisseminationInv => TypeOK
  BY DEF DisseminationInv
<1> QED
  BY <1>1, InitInv, InvStep, PTL DEF Spec

(* Whatever the size of the cache, the links and the losses: a message     *)
(* that MessageCache::check put below the last slot is never taken for new *)
(* again before the node restarts.                                         *)
THEOREM OldestAreNeverTwice == Spec => []OldestNeverTwice
<1>1. DisseminationInv => OldestNeverTwice
  BY DEF DisseminationInv
<1> QED
  BY <1>1, InitInv, InvStep, PTL DEF Spec

----------------------------------------------------------------------------
(* Caches with room to spare.                                              *)

Roomy == {n \in Nodes : Cardinality(Messages) < MaxKnown[n]}

(* Every entry of such a cache is another message, and all its node took   *)
(* for new is there.                                                       *)
RoomInv ==
    /\ \A n \in Roomy : \A i, j \in 1..Len(messages[n]) :
          messages[n][i] = messages[n][j] => i = j
    /\ \A n \in Roomy : \A m \in original[n] : Holds(messages[n], m)
    /\ \A taken \in again : taken[1] \notin Roomy

(* A cache of different messages is no longer than there are messages.     *)
LEMMA CacheFits ==
    ASSUME NEW cache \in Seq(Messages),
           \A i, j \in 1..Len(cache) : cache[i] = cache[j] => i = j
    PROVE  Len(cache) <= Cardinality(Messages)
<1>1. Len(cache) \in Nat /\ cache \in [1..Len(cache) -> Messages]
  OBVIOUS
<1>2. cache \in Injection(1..Len(cache), Messages)
  BY <1>1 DEF Injection, IsInjective
<1>3. Cardinality(1..Len(cache)) <= Cardinality(Messages)
  BY <1>2, FS_Injection
<1>4. Cardinality(1..Len(cache)) = Len(cache)
  <2> DEFINE n == Len(cache)
  <2>1. n \in Int /\ 1 \in Int /\ n \in Nat
    BY <1>1
  <2> HIDE DEF n
  <2>2. Cardinality(1..n) = IF 1 > n THEN 0 ELSE n - 1 + 1
    BY <2>1, FS_Interval
  <2>3. Cardinality(1..n) = n
    BY <2>1, <2>2
  <2> QED
    BY <2>3 DEF n
<1> QED
  BY <1>3, <1>4

(* So a roomy cache is not cut.                                            *)
LEMMA RoomyIsNotCut ==
    ASSUME TypeOK, RoomInv, NEW n \in Roomy
    PROVE  Cut(messages[n], MaxKnown[n]) = messages[n]
<1> DEFINE cache == messages[n]
           max == MaxKnown[n]
<1>1. n \in Nodes /\ Cardinality(Messages) < max /\ max \in Nat \ {0}
  BY DEF Roomy
<1>2. cache \in Seq(Messages) /\ Len(cache) \in Nat
  BY <1>1 DEF TypeOK
<1>3. Len(cache) <= Cardinality(Messages)
  BY <1>2, CacheFits DEF RoomInv
<1>4. Cardinality(Messages) \in Nat
  BY FS_CardinalityType
<1> HIDE DEF cache, max
<1>5. Len(cache) < max
  BY <1>1, <1>2, <1>3, <1>4
<1>6. /\ Cut(cache, max) \in Seq(Messages)
      /\ Len(Cut(cache, max)) = Len(cache)
      /\ \A i \in 1..Len(cache) : Cut(cache, max)[i] = cache[i]
  BY <1>1, <1>2, <1>5, CutProperties
<1>7. Cut(cache, max) = cache
  BY <1>2, <1>6
<1> QED
  BY <1>7 DEF cache, max

(* A message that a roomy cache does not know is appended, and its node    *)
(* never took it for new before.                                           *)
LEMMA RoomyHandlesNew ==
    ASSUME TypeOK, RoomInv, NEW p \in underWay, HandleNew(p), p.to \in Roomy
    PROVE  /\ p.msg \notin original[p.to]
           /\ \A i, j \in 1..Len(messages'[p.to]) :
                 messages'[p.to][i] = messages'[p.to][j] => i = j
           /\ \A x \in original'[p.to] : Holds(messages'[p.to], x)
<1> DEFINE n == p.to
           m == p.msg
           cache == messages[n]
           new == messages'[n]
<1>1. n \in Nodes /\ m \in Messages /\ n \in Roomy
  BY PacketFields
<1>2. cache \in Seq(Messages) /\ Len(cache) \in Nat
  BY <1>1 DEF TypeOK
<1>3. Cut(cache, MaxKnown[n]) = cache
  BY <1>1, RoomyIsNotCut
<1>4. \A i \in 1..Len(cache) : cache[i] # m
  BY <1>3 DEF HandleNew, IsNew, Holds
<1>5. new = Append(cache, m)
  BY <1>1, <1>3 DEF HandleNew, Checked, TypeOK
<1>6. original'[n] = original[n] \cup {m}
  BY <1>1 DEF HandleNew, TypeOK
<1>7. /\ \A x \in original[n] : Holds(cache, x)
      /\ \A i, j \in 1..Len(cache) : cache[i] = cache[j] => i = j
  BY <1>1 DEF RoomInv
<1> HIDE DEF n, m, cache, new
<1>8. /\ Len(new) = Len(cache) + 1
      /\ new[Len(cache) + 1] = m
      /\ \A i \in 1..Len(cache) : new[i] = cache[i]
  BY <1>1, <1>2, <1>5, AppendProperties
<1>9. m \notin original[n]
  BY <1>4, <1>7 DEF Holds
<1>10. ASSUME NEW i \in 1..Len(new), NEW j \in 1..Len(new), new[i] = new[j]
       PROVE  i = j
  <2>1. \A k \in 1..Len(new) : k \in 1..Len(cache) \/ k = Len(cache) + 1
    BY <1>2, <1>8
  <2>2. CASE i \in 1..Len(cache) /\ j \in 1..Len(cache)
    BY <1>7, <1>8, <1>10, <2>2
  <2> QED
    BY <1>4, <1>8, <1>10, <2>1, <2>2
<1>11. ASSUME NEW x \in original'[n]
       PROVE  Holds(new, x)
  <2>1. CASE x = m
    <3>1. Len(cache) + 1 \in 1..Len(new)
      BY <1>2, <1>8
    <3> QED
      BY <1>8, <2>1, <3>1 DEF Holds
  <2>2. CASE x # m
    <3>1. PICK i \in 1..Len(cache) : cache[i] = x
      BY <1>6, <1>7, <1>11, <2>2 DEF Holds
    <3>2. i \in 1..Len(new) /\ new[i] = x
      BY <1>2, <1>8, <3>1
    <3> QED
      BY <3>2 DEF Holds
  <2> QED
    BY <2>1, <2>2
<1> QED
  BY <1>9, <1>10, <1>11 DEF n, m, new

LEMMA HandleKeepsRoom ==
    ASSUME TypeOK, RoomInv, NEW p \in underWay, Handle(p)
    PROVE  RoomInv'
<1> DEFINE n == p.to
           m == p.msg
<1>1. n \in Nodes /\ m \in Messages
  BY PacketFields
<1>2. messages' = [messages EXCEPT ![n] = Checked(messages[n], MaxKnown[n], m)]
  BY DEF Handle, HandleKnown, HandleNew
<1>3. \A q \in Nodes : q # n => messages'[q] = messages[q]
  BY <1>1, <1>2 DEF TypeOK
<1>4. Roomy \subseteq Nodes
  BY DEF Roomy
<1>5. CASE HandleKnown(p)
  <2>1. UNCHANGED <<original, again>> /\ ~IsNew(messages[n], MaxKnown[n], m)
    BY <1>5 DEF HandleKnown
  <2>2. n \in Roomy => messages'[n] = messages[n]
    BY <1>1, <1>2, <2>1, RoomyIsNotCut DEF Checked, TypeOK
  <2>3. \A q \in Roomy : messages'[q] = messages[q]
    BY <1>3, <1>4, <2>2
  <2> QED
    BY <2>1, <2>3 DEF RoomInv, Roomy
<1>6. CASE HandleNew(p)
  <2>1. /\ original' = [original EXCEPT ![n] = original[n] \cup {m}]
        /\ again' = IF m \in original[n] THEN again \cup {<<n, m>>} ELSE again
    BY <1>6 DEF HandleNew
  <2>2. \A q \in Nodes : q # n => original'[q] = original[q]
    BY <1>1, <2>1 DEF TypeOK
  <2>3. n \in Roomy => /\ m \notin original[n]
                       /\ \A i, j \in 1..Len(messages'[n]) :
                             messages'[n][i] = messages'[n][j] => i = j
                       /\ \A x \in original'[n] : Holds(messages'[n], x)
    BY <1>6, RoomyHandlesNew
  <2>4. ASSUME NEW q \in Roomy, NEW i \in 1..Len(messages'[q]), NEW j \in 1..Len(messages'[q]),
               messages'[q][i] = messages'[q][j]
        PROVE  i = j
    BY <1>3, <1>4, <2>3, <2>4 DEF RoomInv
  <2>5. ASSUME NEW q \in Roomy, NEW x \in original'[q]
        PROVE  Holds(messages'[q], x)
    BY <1>3, <1>4, <2>2, <2>3, <2>5 DEF RoomInv
  <2>6. \A taken \in again' : taken[1] \notin Roomy
    BY <2>1, <2>3 DEF RoomInv
  <2> QED
    BY <2>4, <2>5, <2>6 DEF RoomInv, Roomy
<1> QED
  BY <1>5, <1>6 DEF Handle

LEMMA RoomStep == TypeOK /\ RoomInv /\ [Next]_vars => RoomInv'
<1> SUFFICES ASSUME TypeOK, RoomInv, [Next]_vars PROVE RoomInv'
  OBVIOUS
<1>1. ASSUME NEW p \in underWay, Handle(p)
      PROVE  RoomInv'
  BY <1>1, HandleKeepsRoom
<1>2. ASSUME NEW n \in Nodes, Restart(n)
      PROVE  RoomInv'
  <2>1. /\ messages' = [messages EXCEPT ![n] = <<>>]
        /\ original' = [original EXCEPT ![n] = {}]
        /\ again' = {taken \in again : taken[1] # n}
    BY <1>2 DEF Restart
  <2>2. \A q \in Nodes : /\ messages'[q] = IF q = n THEN <<>> ELSE messages[q]
                         /\ original'[q] = IF q = n THEN {} ELSE original[q]
    BY <2>1 DEF TypeOK
  <2>3. Roomy \subseteq Nodes
    BY DEF Roomy
  <2> QED
    BY <2>1, <2>2, <2>3 DEF RoomInv, Roomy
<1>3. ASSUME UNCHANGED <<messages, original, again>>
      PROVE  RoomInv'
  BY <1>3 DEF RoomInv, Roomy
<1>4. ASSUME NEW n \in Nodes, NEW m \in Messages, Publish(n, m)
      PROVE  UNCHANGED <<messages, original, again>>
  BY <1>4 DEF Publish
<1>5. ASSUME NEW p \in underWay, Lose(p)
      PROVE  UNCHANGED <<messages, original, again>>
  BY <1>5 DEF Lose
<1>6. CASE UNCHANGED vars
  BY <1>3, <1>6 DEF vars
<1> QED
  BY <1>1, <1>2, <1>3, <1>4, <1>5, <1>6 DEF Next

(* A node whose cache is larger than the number of messages takes each of  *)
(* them for new at most once until it restarts: handle_message relays it   *)
(* once, over whichever cycles of the network it comes back.               *)
THEOREM NothingIsTakenTwice == Spec => []NothingTwice
<1>1. Init => RoomInv
  <2> SUFFICES ASSUME Init PROVE RoomInv
    OBVIOUS
  <2>1. \A n \in Nodes : messages[n] = <<>> /\ original[n] = {}
    BY DEF Init
  <2>2. Roomy \subseteq Nodes
    BY DEF Roomy
  <2> QED
    BY <2>1, <2>2 DEF Init, RoomInv
<1>2. TypeOK /\ RoomInv /\ [Next]_vars => RoomInv'
  BY RoomStep
<1>3. TypeOK /\ RoomInv => NothingTwice
  <2> SUFFICES ASSUME TypeOK, RoomInv, NEW taken \in again
               PROVE  MaxKnown[taken[1]] <= Cardinality(Messages)
    BY DEF NothingTwice
  <2>1. taken[1] \in Nodes /\ taken[1] \notin Roomy
    BY DEF TypeOK, RoomInv
  <2>2. MaxKnown[taken[1]] \in Nat /\ Cardinality(Messages) \in Nat
    BY <2>1, FS_CardinalityType
  <2> QED
    BY <2>1, <2>2 DEF Roomy
<1> QED
  BY <1>1, <1>2, <1>3, DisseminationTypeCorrect, PTL DEF Spec

============================================================================
