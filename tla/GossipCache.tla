---------------------------- MODULE GossipCache ----------------------------
(***************************************************************************)
(* Whom an asmtpd node gossips with, and when: the GossipCache and the     *)
(* parts of the loop of the Runner that drive it (network/mod.rs).  Peers  *)
(* whose gossips arrive are put into `will_gossip`, at each turn of the    *)
(* loop one is taken out and gossiped with, and `has_gossiped` remembers   *)
(* when, so that no peer is gossiped with more often than every            *)
(* `min_elapsed`.                                                          *)
(*                                                                         *)
(* Time is the age of the events, which stops at MinElapsed: nothing       *)
(* depends on how much older an event is.                                  *)
(***************************************************************************)
EXTENDS Lru, FiniteSets

CONSTANTS
    Peers,        \* the public keys of the other nodes
    QueueSize,    \* config.gossiping.queue_size
    HistorySize,  \* config.gossiping.history_size
    MinElapsed    \* config.gossiping.minimum_time_elapsed, in ticks

ASSUME PeersAssumption == IsFiniteSet(Peers)
ASSUME SizesAssumption == QueueSize \in Nat \ {0} /\ HistorySize \in Nat \ {0}
ASSUME MinElapsedAssumption == MinElapsed \in Nat \ {0}

VARIABLES
    will_gossip,   \* the IndexSet of the peers to gossip with, the newest last
    has_gossiped,  \* the LruCache of the ages of the gossips
    pc,            \* where the loop of the runner is
    \* history
    since,         \* the time since a gossip was last sent to a peer
    tooSoon        \* the peers that got two gossips within MinElapsed

vars == <<will_gossip, has_gossiped, pc, since, tooSoon>>

Ages == 0..MinElapsed

TypeOK ==
    /\ will_gossip \in Seq(Peers)
    /\ has_gossiped \in Seq(Entries(Peers, Ages))
    /\ pc \in {"startup", "top", "refill", "select"}
    /\ since \in [Peers -> Ages]
    /\ tooSoon \subseteq Peers

Init ==
    /\ will_gossip = <<>>
    /\ has_gossiped = <<>>
    /\ pc = "startup"
    /\ since = [p \in Peers |-> MinElapsed]
    /\ tooSoon = {}

(* Mutant of Enqueue: nothing is cut.                                       *)
EnqueueUncut(queue, p) ==
    IF \E i \in 1..Len(queue) : queue[i] = p THEN queue ELSE Append(queue, p)

(* IndexSet::insert into a set that is first cut, newest first, until it   *)
(* has room for one more.                                                  *)
Enqueue(queue, p) ==
    LET cut == SubSeq(queue, 1, IF Len(queue) < QueueSize THEN Len(queue) ELSE QueueSize - 1)
    IN  IF \E i \in 1..Len(cut) : cut[i] = p THEN cut ELSE Append(cut, p)

(* Mutant of Recent: the time of the last gossip is not looked at.         *)
RecentNever(p) == FALSE

(* The last gossip with the peer is too recent.                            *)
Recent(p) == HasKey(has_gossiped, p) /\ Lookup(has_gossiped, p) < MinElapsed

(* Mutant of RegisterInterest: a refusal counts as a gossip.               *)
RegisterInterestRefreshes(p) ==
    IF Recent(p)
    THEN /\ has_gossiped' = Put(has_gossiped, p, 0, HistorySize)
         /\ UNCHANGED will_gossip
    ELSE /\ has_gossiped' = Promote(has_gossiped, p)
         /\ will_gossip' = Enqueue(will_gossip, p)

RegisterInterest(p) ==
    /\ has_gossiped' = Promote(has_gossiped, p)
    /\ will_gossip' = IF Recent(p) THEN will_gossip ELSE Enqueue(will_gossip, p)

(* Before the loop the runner registers the peers it knows.                *)
Startup ==
    /\ pc = "startup"
    /\ \/ \E p \in Peers : RegisterInterest(p) /\ UNCHANGED pc
       \/ pc' = "top" /\ UNCHANGED <<will_gossip, has_gossiped>>
    /\ UNCHANGED <<since, tooSoon>>

(* next_gossip_peer: the newest interest first.  The gossip is sent if the *)
(* topology still knows the peer; the history records it either way.       *)
GossipNext ==
    LET p == will_gossip[Len(will_gossip)]
    IN  /\ pc = "top"
        /\ will_gossip # <<>>
        /\ will_gossip' = SubSeq(will_gossip, 1, Len(will_gossip) - 1)
        /\ has_gossiped' = Put(has_gossiped, p, 0, HistorySize)
        /\ \/ /\ since' = [since EXCEPT ![p] = 0]
              /\ tooSoon' = IF since[p] < MinElapsed THEN tooSoon \cup {p} ELSE tooSoon
           \/ UNCHANGED <<since, tooSoon>>
        /\ pc' = "refill"

NobodyNext ==
    /\ pc = "top"
    /\ will_gossip = <<>>
    /\ pc' = "refill"
    /\ UNCHANGED <<will_gossip, has_gossiped, since, tooSoon>>

(* An empty queue gets a random peer of the topology.                      *)
RandomInterest(p) ==
    /\ pc = "refill"
    /\ will_gossip = <<>>
    /\ RegisterInterest(p)
    /\ pc' = "select"
    /\ UNCHANGED <<since, tooSoon>>

(* There is no need for one, or the topology has none.                     *)
NoRandomInterest ==
    /\ pc = "refill"
    /\ pc' = "select"
    /\ UNCHANGED <<will_gossip, has_gossiped, since, tooSoon>>

(* The select! of the loop: a gossip came from a peer.                     *)
ReceiveGossip(p) ==
    /\ pc = "select"
    /\ RegisterInterest(p)
    /\ pc' = "top"
    /\ UNCHANGED <<since, tooSoon>>

(* Any other event, at the latest the heart beat.                          *)
WakeUp ==
    /\ pc = "select"
    /\ pc' = "top"
    /\ UNCHANGED <<will_gossip, has_gossiped, since, tooSoon>>

(* Mutant of Older: ages grow beyond the bound.                            *)
OlderUnbounded(age) == age + 1

Older(age) == IF age < MinElapsed THEN age + 1 ELSE MinElapsed

Tick ==
    /\ since' = [p \in Peers |-> Older(since[p])]
    /\ has_gossiped' = [i \in 1..Len(has_gossiped) |->
                            [has_gossiped[i] EXCEPT !.val = Older(@)]]
    /\ UNCHANGED <<will_gossip, pc, tooSoon>>

Next ==
    \/ Startup \/ GossipNext \/ NobodyNext \/ NoRandomInterest \/ WakeUp \/ Tick
    \/ \E p \in Peers : RandomInterest(p) \/ ReceiveGossip(p)

Spec == Init /\ [][Next]_vars

(* The loop turns (the heart beat wakes it), time passes, and the topology *)
(* is not without peers for ever.                                          *)
Fairness ==
    /\ WF_vars(pc' = "top" /\ Startup)
    /\ WF_vars(GossipNext \/ NobodyNext)
    /\ WF_vars(NoRandomInterest)
    /\ SF_vars(\E p \in Peers : RandomInterest(p))
    /\ WF_vars(WakeUp)
    /\ WF_vars(Tick)

FairSpec == Spec /\ Fairness

----------------------------------------------------------------------------
(* The properties.                                                         *)

(* "number of seconds between 2 gossips to a specific node" (config.yaml): *)
(* as long as the history has room for every peer, no two gossips go to a  *)
(* peer within MinElapsed, although the time is only looked at when the    *)
(* interest is registered and the gossip is sent much later.               *)
GossipSpacing == Cardinality(Peers) <= HistorySize => tooSoon = {}

(* A peer waits in the queue at most once, however often it gossips, and   *)
(* the queue never exceeds its size.                                       *)
QueueBounded ==
    /\ Len(will_gossip) <= QueueSize
    /\ \A i, j \in 1..Len(will_gossip) : will_gossip[i] = will_gossip[j] => i = j

(* The node does not fall silent: somebody comes to be gossiped with again *)
(* and again, even when no peer ever sends a gossip.                       *)
NeverSilent == []<>(will_gossip # <<>>)

============================================================================
