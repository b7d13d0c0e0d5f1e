--------------------------- MODULE Dissemination ---------------------------
(***************************************************************************)
(* How a message on a topic spreads over the nodes (network/mod.rs): each  *)
(* node looks it up in its MessageCache, stores it if it keeps the topic,  *)
(* and relays it to a view of its topology without the peer it came from.  *)
(* The cache is what ends the spreading in a network with cycles.          *)
(*                                                                         *)
(* A message is its content here, which is all the cache looks at.  The    *)
(* connections deliver what is sent or lose it (see PeerMessaging); two    *)
(* copies of a message under way between the same nodes count as one.      *)
(***************************************************************************)
EXTENDS Naturals, Sequences, FiniteSets

CONSTANTS
    Nodes,
    Messages,     \* the contents clients publish
    Links,        \* <<n, m>>: m may be in a view of n's topology
    Keepers,      \* the nodes that have the topic as a thread of their storage
    MaxKnown,     \* config.known_message_cache_size of each node
    MaxRestarts,  \* bound: how often nodes restart
    Client        \* a peer that publishes and relays nothing

ASSUME SetsAssumption ==
    /\ IsFiniteSet(Messages)
    /\ Links \subseteq Nodes \X Nodes
    /\ Keepers \subseteq Nodes
    /\ Client \notin Nodes
ASSUME MaxKnownAssumption == MaxKnown \in [Nodes -> Nat \ {0}]
ASSUME MaxRestartsAssumption == MaxRestarts \in Nat

VARIABLES
    messages,    \* the MessageCache of a node: an IndexSet, the newest last
    underWay,    \* the messages sent and not yet handled
    stored,      \* the messages in the storage of a node
    unpublished, \* the messages no client sent yet
    restarts,    \* how often a node restarted so far
    \* history
    original,    \* the messages a node took for new since it started
    again        \* <<node, message>>: taken for new again since it started

vars == <<messages, underWay, stored, unpublished, restarts, original, again>>

Packets == [from : Nodes \cup {Client}, to : Nodes, msg : Messages]

TypeOK ==
    /\ messages \in [Nodes -> Seq(Messages)]
    /\ \A n \in Nodes : Len(messages[n]) <= MaxKnown[n]
    /\ underWay \subseteq Packets
    /\ stored \in [Nodes -> SUBSET Messages]
    /\ unpublished \subseteq Messages
    /\ restarts \in 0..MaxRestarts
    /\ original \in [Nodes -> SUBSET Messages]
    /\ again \subseteq Nodes \X Messages

Init ==
    /\ messages = [n \in Nodes |-> <<>>]
    /\ underWay = {}
    /\ stored = [n \in Nodes |-> {}]
    /\ unpublished = Messages
    /\ restarts = 0
    /\ original = [n \in Nodes |-> {}]
    /\ again = {}

----------------------------------------------------------------------------
(* MessageCache::check, of a cache of at most max messages.                *)

Holds(cache, m) == \E i \in 1..Len(cache) : cache[i] = m

(* Mutant of Cut: it makes room at the oldest end.                         *)
CutOldest(cache, max) ==
    IF Len(cache) < max THEN cache ELSE SubSeq(cache, Len(cache) - max + 2, Len(cache))

(* A full cache is cut from the newest end until it has room for one more, *)
(* and before it is known whether the message is in it.                    *)
Cut(cache, max) ==
    SubSeq(cache, 1, IF Len(cache) < max THEN Len(cache) ELSE max - 1)

IsNew(cache, max, m) == ~Holds(Cut(cache, max), m)

(* Mutant of Checked: room is made after the message got in.               *)
CheckedUncut(cache, max, m) == IF IsNew(cache, max, m) THEN Append(cache, m) ELSE cache

(* Mutant of Checked: a new message is looked up and not inserted.         *)
CheckedForgets(cache, max, m) == Cut(cache, max)

Checked(cache, max, m) ==
    IF IsNew(cache, max, m) THEN Append(Cut(cache, max), m) ELSE Cut(cache, max)

----------------------------------------------------------------------------
Neighbours(n) == {q \in Nodes : <<n, q>> \in Links}

(* A client sends a message to the node it is connected to.                *)
Publish(n, m) ==
    /\ m \in unpublished
    /\ unpublished' = unpublished \ {m}
    /\ underWay' = underWay \cup {[from |-> Client, to |-> n, msg |-> m]}
    /\ UNCHANGED <<messages, stored, restarts, original, again>>

(* handle_message, of a message the cache knows.                           *)
HandleKnown(p) ==
    /\ ~IsNew(messages[p.to], MaxKnown[p.to], p.msg)
    /\ messages' = [messages EXCEPT ![p.to] = Checked(@, MaxKnown[p.to], p.msg)]
    /\ underWay' = underWay \ {p}
    /\ UNCHANGED <<stored, unpublished, restarts, original, again>>

(* handle_message, of one it does not know: mark it known, store it, relay *)
(* it.  When the storage fails the message is known all the same, and goes *)
(* no further.                                                             *)
HandleNew(p) ==
    LET n == p.to
    IN  /\ IsNew(messages[n], MaxKnown[n], p.msg)
        /\ messages' = [messages EXCEPT ![n] = Checked(@, MaxKnown[n], p.msg)]
        /\ original' = [original EXCEPT ![n] = @ \cup {p.msg}]
        /\ again' = IF p.msg \in original[n] THEN again \cup {<<n, p.msg>>} ELSE again
        /\ \/ /\ stored' = [stored EXCEPT ![n] = IF n \in Keepers THEN @ \cup {p.msg} ELSE @]
              /\ \E view \in SUBSET (Neighbours(n) \ {p.from}) :
                    underWay' = (underWay \ {p}) \cup
                                    {[from |-> n, to |-> q, msg |-> p.msg] : q \in view}
           \/ underWay' = underWay \ {p} /\ UNCHANGED stored
        /\ UNCHANGED <<unpublished, restarts>>

(* A connection takes a message along when it closes.                      *)
Lose(p) ==
    /\ underWay' = underWay \ {p}
    /\ UNCHANGED <<messages, stored, unpublished, restarts, original, again>>

(* The cache lives in memory, the messages in the database.                *)
Restart(n) ==
    /\ restarts < MaxRestarts
    /\ restarts' = restarts + 1
    /\ messages' = [messages EXCEPT ![n] = <<>>]
    /\ original' = [original EXCEPT ![n] = {}]
    /\ again' = {taken \in again : taken[1] # n}
    /\ underWay' = {p \in underWay : p.to # n}
    /\ UNCHANGED <<stored, unpublished>>

Handle(p) == HandleKnown(p) \/ HandleNew(p)

Next ==
    \/ \E n \in Nodes, m \in Messages : Publish(n, m)
    \/ \E p \in underWay : Handle(p) \/ Lose(p)
    \/ \E n \in Nodes : Restart(n)

Spec == Init /\ [][Next]_vars

(* A node handles what its connections bring it.                           *)
FairSpec == Spec /\ \A p \in Packets : WF_vars(p \in underWay /\ Handle(p))

----------------------------------------------------------------------------
(* The properties.                                                         *)

(* "we are keeping a hash of the messages who passed by so we don't        *)
(* re-propagate messages we already visited" (config.rs:45): a node whose  *)
(* cache has room for more messages than there are takes each of them for  *)
(* new at most once until it restarts, over whichever cycles of the        *)
(* network, and through whichever smaller caches, the message comes back.  *)
NothingTwice ==
    \A taken \in again : MaxKnown[taken[1]] <= Cardinality(Messages)

(* A full cache gives up its newest entry and never an older one: a        *)
(* message that is not in the last slot is never taken for new again.      *)
OldestNeverTwice ==
    \A n \in Nodes : \A i \in 1..Len(messages[n]) :
        i < MaxKnown[n] => <<n, messages[n][i]>> \notin again

(* "This allows to prevent re-propagating the same messages over and over" *)
(* (config.yaml:34): what is published stops travelling in the end.        *)
SpreadingEnds == <>[](underWay = {})

============================================================================
