---------------------------- MODULE GossipProofs ----------------------------
(***************************************************************************)
(* What the GossipCache guarantees for every set of peers and all sizes.   *)
(* The invariants relate the queue of interests, the history and the time  *)
(* since a gossip was really sent: whoever waits in the queue has not been *)
(* gossiped with for MinElapsed, and whoever has been is in the history    *)
(* with an age that is no greater (SpacingInv).                            *)
(***************************************************************************)
EXTENDS GossipCache, DataProofs

USE PeersAssumption, SizesAssumption, MinElapsedAssumption

GossipInv ==
    /\ TypeOK
    /\ UniqueKeys(has_gossiped)
    /\ Len(has_gossiped) <= HistorySize
    /\ QueueBounded

(* Nobody was gossiped with too soon, nor will be.                         *)
SpacingInv ==
    /\ tooSoon = {}
    /\ \A i \in 1..Len(has_gossiped) : has_gossiped[i].val <= since[has_gossiped[i].key]
    /\ \A p \in Peers : since[p] < MinElapsed => HasKey(has_gossiped, p)
    /\ \A i \in 1..Len(will_gossip) : since[will_gossip[i]] = MinElapsed

----------------------------------------------------------------------------
(* The operators.                                                          *)

(* An interest is inserted once, behind those that are kept, within the    *)
(* bound.                                                                  *)
LEMMA EnqueueProperties ==
    ASSUME NEW queue \in Seq(Peers), Len(queue) <= QueueSize, NEW p \in Peers,
           \A i, j \in 1..Len(queue) : queue[i] = queue[j] => i = j
    PROVE  /\ Enqueue(queue, p) \in Seq(Peers)
           /\ Len(Enqueue(queue, p)) <= QueueSize
           /\ \A i, j \in 1..Len(Enqueue(queue, p)) :
                Enqueue(queue, p)[i] = Enqueue(queue, p)[j] => i = j
           /\ \A i \in 1..Len(Enqueue(queue, p)) :
                Enqueue(queue, p)[i] = p
                \/ \E j \in 1..Len(queue) : Enqueue(queue, p)[i] = queue[j]
<1> DEFINE n == IF Len(queue) < QueueSize THEN Len(queue) ELSE QueueSize - 1
           cut == SubSeq(queue, 1, n)
<1>1. n \in Nat /\ n <= Len(queue) /\ n < QueueSize
  OBVIOUS
<1> HIDE DEF n
<1>2. \A i \in 1..n : queue[i] \in Peers
  BY <1>1
<1>3. /\ cut \in Seq(Peers)
      /\ Len(cut) = n
      /\ \A i \in 1..n : cut[i] = queue[i]
  BY <1>1, <1>2, SubSeqProperties
<1>4. \A i \in 1..n : i \in 1..Len(queue)
  BY <1>1
<1> DEFINE has == \E i \in 1..Len(cut) : cut[i] = p
<1>5. Enqueue(queue, p) = IF has THEN cut ELSE Append(cut, p)
  BY DEF Enqueue, n
<1> HIDE DEF cut
<1>6. CASE has
  BY <1>1, <1>3, <1>4, <1>5, <1>6
<1>7. CASE ~has
  <2>1. /\ Append(cut, p) \in Seq(Peers)
        /\ Len(Append(cut, p)) = n + 1
        /\ \A i \in 1..n : Append(cut, p)[i] = cut[i]
        /\ Append(cut, p)[n + 1] = p
    BY <1>3, AppendProperties
  <2>2. \A i \in 1..(n + 1) : i \in 1..n \/ i = n + 1
    BY <1>1
  <2> DEFINE new == Append(cut, p)
  <2> HIDE DEF new
  <2>3. \A i \in 1..Len(new) : new[i] = p \/ \E j \in 1..Len(queue) : new[i] = queue[j]
    BY <1>3, <1>4, <2>1, <2>2 DEF new
  <2>4. ASSUME NEW i \in 1..Len(new), NEW j \in 1..Len(new), new[i] = new[j]
        PROVE  i = j
    <3>1. CASE i \in 1..n /\ j \in 1..n
      BY <1>3, <1>4, <2>1, <2>4, <3>1 DEF new
    <3>2. CASE i = n + 1 \/ j = n + 1
      BY <1>3, <1>7, <2>1, <2>2, <2>4, <3>2 DEF new
    <3> QED
      BY <2>1, <2>2, <3>1, <3>2 DEF new
  <2> QED
    BY <1>1, <1>5, <1>7, <2>1, <2>3, <2>4 DEF new
<1> QED
  BY <1>6, <1>7

(* An age grows to the bound, and no age overtakes another.                *)
LEMMA OlderProperties ==
    ASSUME NEW a \in Ages, NEW b \in Ages
    PROVE  /\ Older(a) \in Ages
           /\ a <= Older(a)
           /\ a <= b => Older(a) <= Older(b)
           /\ a = MinElapsed => Older(a) = MinElapsed
BY DEF Older, Ages

LEMMA HistoryEntry ==
    ASSUME TypeOK, NEW i \in 1..Len(has_gossiped)
    PROVE  /\ has_gossiped[i] \in Entries(Peers, Ages)
           /\ has_gossiped[i].key \in Peers
           /\ has_gossiped[i].val \in Ages
<1>1. has_gossiped[i] \in Entries(Peers, Ages)
  BY DEF TypeOK
<1> QED
  BY <1>1 DEF Entries

(* Taking the last interest out leaves the others in their places.         *)
LEMMA FrontOfQueue ==
    ASSUME NEW queue \in Seq(Peers), queue # <<>>
    PROVE  LET n == Len(queue) IN
           /\ n \in Nat /\ n >= 1
           /\ SubSeq(queue, 1, n - 1) \in Seq(Peers)
           /\ Len(SubSeq(queue, 1, n - 1)) = n - 1
           /\ \A i \in 1..(n - 1) : SubSeq(queue, 1, n - 1)[i] = queue[i] /\ i \in 1..n
<1> DEFINE n == Len(queue)
<1>1. n \in Nat /\ n >= 1
  OBVIOUS
<1>2. \A i \in 1..(n - 1) : i \in 1..n /\ queue[i] \in Peers
  BY <1>1
<1> DEFINE m == n - 1
<1>3. m \in Nat /\ \A i \in 1..m : queue[i] \in Peers
  BY <1>1, <1>2
<1> HIDE DEF m
<1>4. /\ SubSeq(queue, 1, m) \in Seq(Peers)
      /\ Len(SubSeq(queue, 1, m)) = m
      /\ \A i \in 1..m : SubSeq(queue, 1, m)[i] = queue[i]
  BY <1>3, SubSeqProperties
<1> QED
  BY <1>1, <1>2, <1>4 DEF m

----------------------------------------------------------------------------
(* The types and the bounds.                                               *)

(* A registered interest promotes the entry of the peer and goes into the  *)
(* queue, unless the last gossip is too recent.                            *)
LEMMA RegisterInterestKeeps ==
    ASSUME GossipInv, NEW p \in Peers, RegisterInterest(p)
    PROVE  /\ will_gossip' \in Seq(Peers)
           /\ has_gossiped' \in Seq(Entries(Peers, Ages))
           /\ UniqueKeys(has_gossiped')
           /\ Len(has_gossiped') <= HistorySize
           /\ QueueBounded'
<1>1. /\ has_gossiped' = Promote(has_gossiped, p)
      /\ has_gossiped \in Seq(Entries(Peers, Ages))
      /\ UniqueKeys(has_gossiped)
      /\ Len(has_gossiped) <= HistorySize
  BY DEF GossipInv, TypeOK, RegisterInterest
<1>2. /\ has_gossiped' \in Seq(Entries(Peers, Ages))
      /\ UniqueKeys(has_gossiped')
      /\ Len(has_gossiped') <= HistorySize
  BY <1>1, PromoteProperties
<1>3. will_gossip \in Seq(Peers) /\ QueueBounded
  BY DEF GossipInv, TypeOK
<1>4. will_gossip' \in {will_gossip, Enqueue(will_gossip, p)}
  BY DEF RegisterInterest
<1>5. will_gossip' \in Seq(Peers) /\ QueueBounded'
  BY <1>3, <1>4, EnqueueProperties DEF QueueBounded
<1> QED
  BY <1>2, <1>5

LEMMA GossipNextKeeps ==
    ASSUME GossipInv, GossipNext
    PROVE  GossipInv'
<1> DEFINE n == Len(will_gossip)
           p == will_gossip[n]
<1>1. will_gossip \in Seq(Peers) /\ will_gossip # <<>> /\ QueueBounded
  BY DEF GossipInv, TypeOK, GossipNext
<1>2. n \in Nat /\ n >= 1 /\ n <= QueueSize /\ p \in Peers
  BY <1>1 DEF QueueBounded
<1>3. /\ will_gossip' = SubSeq(will_gossip, 1, n - 1)
      /\ has_gossiped' = Put(has_gossiped, p, 0, HistorySize)
      /\ pc' = "refill"
      /\ \/ /\ since' = [since EXCEPT ![p] = 0]
            /\ tooSoon' \in {tooSoon, tooSoon \cup {p}}
         \/ UNCHANGED <<since, tooSoon>>
  BY DEF GossipNext
<1> HIDE DEF n, p
<1>4. /\ will_gossip' \in Seq(Peers)
      /\ Len(will_gossip') = n - 1
      /\ \A i \in 1..(n - 1) : will_gossip'[i] = will_gossip[i] /\ i \in 1..n
  BY <1>1, <1>3, FrontOfQueue DEF n
<1>5. QueueBounded'
  BY <1>1, <1>2, <1>4 DEF QueueBounded, n
<1>6. 0 \in Ages
  BY DEF Ages
<1>7. /\ has_gossiped' \in Seq(Entries(Peers, Ages))
      /\ UniqueKeys(has_gossiped')
      /\ Len(has_gossiped') <= HistorySize
  <2>1. /\ has_gossiped \in Seq(Entries(Peers, Ages)) /\ UniqueKeys(has_gossiped)
        /\ Len(has_gossiped) <= HistorySize
    BY DEF GossipInv, TypeOK
  <2> QED
    BY <1>2, <1>3, <1>6, <2>1, PutProperties
<1>8. since' \in [Peers -> Ages] /\ tooSoon' \subseteq Peers
  BY <1>2, <1>3, <1>6 DEF GossipInv, TypeOK
<1> QED
  BY <1>3, <1>4, <1>5, <1>7, <1>8 DEF GossipInv, TypeOK

LEMMA TickKeeps ==
    ASSUME GossipInv, Tick
    PROVE  /\ GossipInv'
           /\ Len(has_gossiped') = Len(has_gossiped)
           /\ \A i \in 1..Len(has_gossiped) :
                /\ has_gossiped'[i].key = has_gossiped[i].key
                /\ has_gossiped'[i].val = Older(has_gossiped[i].val)
<1> DEFINE n == Len(has_gossiped)
           old(i) == [has_gossiped[i] EXCEPT !.val = Older(@)]
<1>1. n \in Nat /\ has_gossiped' = [i \in 1..n |-> old(i)]
  BY DEF GossipInv, TypeOK, Tick
<1>2. ASSUME NEW i \in 1..n
      PROVE  /\ old(i) \in Entries(Peers, Ages)
             /\ old(i).key = has_gossiped[i].key
             /\ old(i).val = Older(has_gossiped[i].val)
  <2>1. has_gossiped[i] \in Entries(Peers, Ages) /\ has_gossiped[i].val \in Ages
    BY HistoryEntry DEF GossipInv
  <2>2. Older(has_gossiped[i].val) \in Ages
    BY <2>1, OlderProperties
  <2> QED
    BY <2>1, <2>2 DEF Entries
<1> HIDE DEF old
<1>3. /\ has_gossiped' \in Seq(Entries(Peers, Ages))
      /\ Len(has_gossiped') = n
      /\ \A i \in 1..n : has_gossiped'[i] = old(i)
  BY <1>1, <1>2
<1>4. \A i \in 1..n : /\ has_gossiped'[i].key = has_gossiped[i].key
                      /\ has_gossiped'[i].val = Older(has_gossiped[i].val)
  BY <1>2, <1>3
<1>5. UniqueKeys(has_gossiped')
  BY <1>3, <1>4 DEF GossipInv, UniqueKeys
<1>6. since' \in [Peers -> Ages]
  <2>1. \A q \in Peers : since[q] \in Ages
    BY DEF GossipInv, TypeOK
  <2> QED
    BY <2>1, OlderProperties DEF Tick
<1>7. UNCHANGED <<will_gossip, pc, tooSoon>>
  BY DEF Tick
<1>8. TypeOK'
  BY <1>3, <1>6, <1>7 DEF GossipInv, TypeOK
<1>9. QueueBounded'
  BY <1>7 DEF GossipInv, QueueBounded
<1> QED
  BY <1>3, <1>4, <1>5, <1>8, <1>9 DEF GossipInv

LEMMA GossipInvStep ==
    ASSUME GossipInv, [Next]_vars
    PROVE  GossipInv'
<1>1. ASSUME NEW p \in Peers, RegisterInterest(p), UNCHANGED <<since, tooSoon>>,
             pc' \in {"startup", "top", "select"}
      PROVE  GossipInv'
  <2>1. TypeOK'
    BY <1>1, RegisterInterestKeeps DEF GossipInv, TypeOK
  <2> QED
    BY <1>1, <2>1, RegisterInterestKeeps DEF GossipInv
<1>2. ASSUME UNCHANGED <<will_gossip, has_gossiped, since, tooSoon>>,
             pc' \in {"startup", "top", "refill", "select"}
      PROVE  GossipInv'
  BY <1>2 DEF GossipInv, TypeOK, QueueBounded
<1>3. CASE Startup
  <2>1. CASE \E p \in Peers : RegisterInterest(p) /\ UNCHANGED pc
    BY <1>1, <1>3, <2>1 DEF Startup
  <2>2. CASE pc' = "top" /\ UNCHANGED <<will_gossip, has_gossiped>>
    BY <1>2, <1>3, <2>2 DEF Startup
  <2> QED
    BY <1>3, <2>1, <2>2 DEF Startup
<1>4. CASE GossipNext
  BY <1>4, GossipNextKeeps
<1>5. CASE NobodyNext \/ NoRandomInterest \/ WakeUp
  BY <1>2, <1>5 DEF NobodyNext, NoRandomInterest, WakeUp
<1>6. CASE Tick
  BY <1>6, TickKeeps
<1>7. ASSUME NEW p \in Peers, RandomInterest(p) \/ ReceiveGossip(p)
      PROVE  GossipInv'
  BY <1>1, <1>7 DEF RandomInterest, ReceiveGossip
<1>8. CASE UNCHANGED vars
  BY <1>8 DEF GossipInv, TypeOK, QueueBounded, vars
<1> QED
  BY <1>3, <1>4, <1>5, <1>6, <1>7, <1>8 DEF Next

LEMMA GossipInvInit ==
    ASSUME Init
    PROVE  GossipInv
<1>1. MinElapsed \in Ages
  BY DEF Ages
<1> QED
  BY <1>1 DEF Init, GossipInv, TypeOK, UniqueKeys, QueueBounded

(* Every reachable state is well-formed.                                   *)
THEOREM GossipTypeCorrect == Spec => []TypeOK
<1>1. GossipInv => TypeOK
  BY DEF GossipInv
<1> QED
  BY <1>1, GossipInvInit, GossipInvStep, PTL DEF Spec

(* The queue of the gossip interests never exceeds queue_size, and a peer  *)
(* waits in it at most once.                                               *)
THEOREM QueueIsBounded == Spec => []QueueBounded
<1>1. GossipInv => QueueBounded
  BY DEF GossipInv
<1> QED
  BY <1>1, GossipInvInit, GossipInvStep, PTL DEF Spec

----------------------------------------------------------------------------
(* The spacing of the gossips.                                             *)

(* A registered interest keeps the history, and what goes into the queue   *)
(* is not recent.                                                          *)
LEMMA RegisterInterestSpaced ==
    ASSUME GossipInv, SpacingInv, NEW p \in Peers, RegisterInterest(p), UNCHANGED <<since, tooSoon>>
    PROVE  SpacingInv'
<1>1. /\ has_gossiped' = Promote(has_gossiped, p)
      /\ has_gossiped \in Seq(Entries(Peers, Ages))
      /\ UniqueKeys(has_gossiped)
  BY DEF GossipInv, TypeOK, RegisterInterest
<1>2. \A j \in 1..Len(has_gossiped') : \E m \in 1..Len(has_gossiped) : has_gossiped'[j] = has_gossiped[m]
  BY <1>1, PromoteProperties
<1>3. \A m \in 1..Len(has_gossiped) : \E j \in 1..Len(has_gossiped') : has_gossiped'[j] = has_gossiped[m]
  BY <1>1, PromoteKeeps
<1>4. \A i \in 1..Len(has_gossiped') : has_gossiped'[i].val <= since'[has_gossiped'[i].key]
  BY <1>2 DEF SpacingInv
<1>5. \A q \in Peers : since'[q] < MinElapsed => HasKey(has_gossiped', q)
  BY <1>3 DEF SpacingInv, HasKey
<1>6. ~Recent(p) => since[p] = MinElapsed
  <2> SUFFICES ASSUME since[p] # MinElapsed PROVE Recent(p)
    OBVIOUS
  <2>1. since[p] \in Ages /\ since[p] < MinElapsed
    BY DEF GossipInv, TypeOK, Ages
  <2>2. HasKey(has_gossiped, p)
    BY <2>1 DEF SpacingInv
  <2> DEFINE i == Index(has_gossiped, p)
  <2>3. i \in 1..Len(has_gossiped) /\ has_gossiped[i].key = p
    BY <1>1, <2>2, IndexFinds
  <2>4. has_gossiped[i].val <= since[p] /\ has_gossiped[i].val \in Ages
    BY <2>3, HistoryEntry DEF SpacingInv, GossipInv
  <2>5. Lookup(has_gossiped, p) < MinElapsed
    BY <2>1, <2>4 DEF Lookup, Ages
  <2> QED
    BY <2>2, <2>5 DEF Recent
<1>7. \A i \in 1..Len(will_gossip') : since'[will_gossip'[i]] = MinElapsed
  <2>1. CASE Recent(p)
    BY <2>1 DEF RegisterInterest, SpacingInv
  <2>2. CASE ~Recent(p)
    <3>1. will_gossip' = Enqueue(will_gossip, p)
      BY <2>2 DEF RegisterInterest
    <3>2. \A i \in 1..Len(will_gossip') :
            will_gossip'[i] = p \/ \E j \in 1..Len(will_gossip) : will_gossip'[i] = will_gossip[j]
      BY <3>1, EnqueueProperties DEF GossipInv, TypeOK, QueueBounded
    <3> QED
      BY <1>6, <2>2, <3>2 DEF SpacingInv
  <2> QED
    BY <2>1, <2>2
<1> QED
  BY <1>4, <1>5, <1>7 DEF SpacingInv

(* Who is gossiped with comes from the queue, so it was not too soon; it   *)
(* leaves the queue and enters the history, which forgets nobody.          *)
LEMMA GossipNextSpaced ==
    ASSUME Cardinality(Peers) <= HistorySize, GossipInv, SpacingInv, GossipNext
    PROVE  SpacingInv'
<1> DEFINE n == Len(will_gossip)
           p == will_gossip[n]
<1>1. /\ will_gossip \in Seq(Peers) /\ will_gossip # <<>>
      /\ \A i, j \in 1..n : will_gossip[i] = will_gossip[j] => i = j
      /\ has_gossiped \in Seq(Entries(Peers, Ages))
      /\ UniqueKeys(has_gossiped)
      /\ Len(has_gossiped) <= HistorySize
      /\ since \in [Peers -> Ages]
  BY DEF GossipInv, TypeOK, QueueBounded, GossipNext
<1>2. n \in Nat /\ n >= 1 /\ n \in 1..n /\ p \in Peers
  BY <1>1
<1>3. since[p] = MinElapsed
  BY <1>2 DEF SpacingInv
<1>4. /\ will_gossip' = SubSeq(will_gossip, 1, n - 1)
      /\ has_gossiped' = Put(has_gossiped, p, 0, HistorySize)
      /\ \/ since' = [since EXCEPT ![p] = 0] /\ tooSoon' = tooSoon
         \/ UNCHANGED <<since, tooSoon>>
  BY <1>3 DEF GossipNext
<1>5. \A q \in Peers : q # p => since'[q] = since[q]
  BY <1>1, <1>4
<1>6. since'[p] \in Ages /\ 0 <= since'[p] /\ 0 \in Ages
  BY <1>1, <1>2, <1>4 DEF Ages
<1>7. \A i \in 1..(n - 1) : i \in 1..n /\ i # n /\ will_gossip[i] # p /\ will_gossip[i] \in Peers
  BY <1>1, <1>2
<1>8. Len(will_gossip') = n - 1 /\ \A i \in 1..(n - 1) : will_gossip'[i] = will_gossip[i]
  BY <1>1, <1>4, FrontOfQueue
<1>9. \A i \in 1..Len(will_gossip') : since'[will_gossip'[i]] = MinElapsed
  BY <1>5, <1>7, <1>8 DEF SpacingInv
<1> HIDE DEF p
<1> DEFINE new == Put(has_gossiped, p, 0, HistorySize)
<1>10. /\ new \in Seq(Entries(Peers, Ages))
       /\ Len(new) >= 1
       /\ new[1] = [key |-> p, val |-> 0]
       /\ \A j \in 2..Len(new) :
            /\ new[j].key # p
            /\ \E m \in 1..Len(has_gossiped) : new[j] = has_gossiped[m]
  BY <1>1, <1>2, <1>6, PutProperties
<1>11. ASSUME NEW m \in 1..Len(has_gossiped), has_gossiped[m].key # p
       PROVE  \E j \in 1..Len(new) : new[j] = has_gossiped[m]
  <2>1. /\ IsFiniteSet(Peers) /\ Cardinality(Peers) <= HistorySize
        /\ HistorySize \in Nat /\ p \in Peers /\ 0 \in Ages
        /\ has_gossiped \in Seq(Entries(Peers, Ages)) /\ UniqueKeys(has_gossiped)
    BY <1>1, <1>2, <1>6, PeersAssumption, SizesAssumption
  <2> QED
    BY <2>1, <1>11, PutKeeps
<1> HIDE DEF new
<1>12. \A j \in 1..Len(new) : j = 1 \/ j \in 2..Len(new)
  BY <1>10
<1>13. \A j \in 1..Len(new) : new[j].val <= since'[new[j].key]
  <2> SUFFICES ASSUME NEW j \in 1..Len(new) PROVE new[j].val <= since'[new[j].key]
    OBVIOUS
  <2>1. CASE j = 1
    BY <1>6, <1>10, <2>1
  <2>2. CASE j \in 2..Len(new)
    <3>1. PICK m \in 1..Len(has_gossiped) : new[j] = has_gossiped[m]
      BY <1>10, <2>2
    <3>2. new[j].key # p /\ new[j].key \in Peers
      BY <1>10, <2>2, <3>1, HistoryEntry DEF GossipInv
    <3>3. has_gossiped[m].val <= since[has_gossiped[m].key]
      BY DEF SpacingInv
    <3> QED
      BY <1>5, <3>1, <3>2, <3>3
  <2> QED
    BY <1>12, <2>1, <2>2
<1>14. \A q \in Peers : since'[q] < MinElapsed => HasKey(new, q)
  <2> SUFFICES ASSUME NEW q \in Peers, since'[q] < MinElapsed PROVE HasKey(new, q)
    OBVIOUS
  <2>1. CASE q = p
    <3>1. 1 \in 1..Len(new) /\ new[1].key = p
      BY <1>10
    <3> QED
      BY <2>1, <3>1 DEF HasKey
  <2>2. CASE q # p
    <3>1. since[q] < MinElapsed
      BY <1>5, <2>2
    <3>2. PICK m \in 1..Len(has_gossiped) : has_gossiped[m].key = q
      BY <3>1 DEF SpacingInv, HasKey
    <3>3. PICK j \in 1..Len(new) : new[j] = has_gossiped[m]
      BY <1>11, <2>2, <3>2
    <3> QED
      BY <3>2, <3>3 DEF HasKey
  <2> QED
    BY <2>1, <2>2
<1>15. tooSoon' = {}
  BY <1>4 DEF SpacingInv
<1> QED
  BY <1>4, <1>9, <1>13, <1>14, <1>15 DEF SpacingInv, new

(* Time lets the two ages of a peer grow alike.                            *)
LEMMA TickSpaced ==
    ASSUME GossipInv, SpacingInv, Tick
    PROVE  SpacingInv'
<1>1. /\ Len(has_gossiped') = Len(has_gossiped)
      /\ \A i \in 1..Len(has_gossiped) :
           /\ has_gossiped'[i].key = has_gossiped[i].key
           /\ has_gossiped'[i].val = Older(has_gossiped[i].val)
  BY TickKeeps
<1>2. \A q \in Peers : since'[q] = Older(since[q]) /\ since[q] \in Ages
  BY DEF Tick, GossipInv, TypeOK
<1>3. will_gossip' = will_gossip /\ tooSoon' = tooSoon
  BY DEF Tick
<1>4. ASSUME NEW i \in 1..Len(has_gossiped')
      PROVE  has_gossiped'[i].val <= since'[has_gossiped'[i].key]
  <2>1. /\ has_gossiped[i].key \in Peers /\ has_gossiped[i].val \in Ages
        /\ has_gossiped[i].val <= since[has_gossiped[i].key]
    BY <1>1, <1>4, HistoryEntry DEF GossipInv, SpacingInv
  <2>2. Older(has_gossiped[i].val) <= Older(since[has_gossiped[i].key])
    BY <1>2, <2>1, OlderProperties
  <2> QED
    BY <1>1, <1>2, <2>1, <2>2
<1>5. ASSUME NEW q \in Peers, since'[q] < MinElapsed
      PROVE  HasKey(has_gossiped', q)
  <2>1. since[q] < MinElapsed
    BY <1>2, <1>5 DEF Older, Ages
  <2> QED
    BY <1>1, <2>1 DEF SpacingInv, HasKey
<1>6. ASSUME NEW i \in 1..Len(will_gossip')
      PROVE  since'[will_gossip'[i]] = MinElapsed
  <2>1. will_gossip[i] \in Peers /\ since[will_gossip[i]] = MinElapsed
    BY <1>3, <1>6 DEF GossipInv, TypeOK, SpacingInv
  <2> QED
    BY <1>2, <1>3, <2>1, OlderProperties
<1> QED
  BY <1>3, <1>4, <1>5, <1>6 DEF SpacingInv

LEMMA SpacingInvStep ==
    ASSUME Cardinality(Peers) <= HistorySize, GossipInv, SpacingInv, [Next]_vars
    PROVE  SpacingInv'
<1>1. ASSUME UNCHANGED <<will_gossip, has_gossiped, since, tooSoon>>
      PROVE  SpacingInv'
  BY <1>1 DEF SpacingInv
<1>2. CASE Startup
  <2>1. CASE \E p \in Peers : RegisterInterest(p) /\ UNCHANGED pc
    BY <1>2, <2>1, RegisterInterestSpaced DEF Startup
  <2>2. CASE pc' = "top" /\ UNCHANGED <<will_gossip, has_gossiped>>
    BY <1>1, <1>2, <2>2 DEF Startup
  <2> QED
    BY <1>2, <2>1, <2>2 DEF Startup
<1>3. CASE GossipNext
  BY <1>3, GossipNextSpaced
<1>4. CASE NobodyNext \/ NoRandomInterest \/ WakeUp
  BY <1>1, <1>4 DEF NobodyNext, NoRandomInterest, WakeUp
<1>5. CASE Tick
  BY <1>5, TickSpaced
<1>6. ASSUME NEW p \in Peers, RandomInterest(p) \/ ReceiveGossip(p)
      PROVE  SpacingInv'
  BY <1>6, RegisterInterestSpaced DEF RandomInterest, ReceiveGossip
<1>7. CASE UNCHANGED vars
  BY <1>1, <1>7 DEF vars
<1> QED
  BY <1>2, <1>3, <1>4, <1>5, <1>6, <1>7 DEF Next

LEMMA SpacingInvInit ==
    ASSUME Init
    PROVE  SpacingInv
BY DEF Init, SpacingInv, HasKey

(* A history with room for every peer spaces the gossips: no peer gets two *)
(* within the minimum time, wherever between the check of the time and the *)
(* gossip the clock ticks.                                                 *)
THEOREM GossipsAreSpaced == Spec => []GossipSpacing
<1> DEFINE Room == Cardinality(Peers) <= HistorySize
           Both == GossipInv /\ (Room => SpacingInv)
<1>1. Init => Both
  BY GossipInvInit, SpacingInvInit
<1>2. Both /\ [Next]_vars => Both'
  BY GossipInvStep, SpacingInvStep
<1>3. Both => GossipSpacing
  BY DEF GossipSpacing, SpacingInv
<1> QED
  BY <1>1, <1>2, <1>3, PTL DEF Spec

============================================================================
