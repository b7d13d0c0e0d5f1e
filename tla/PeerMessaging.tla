--------------------------- MODULE PeerMessaging ---------------------------
(***************************************************************************)
(* What the connections of a node promise to its runner, without cache,    *)
(* lock, tasks or channels: messages travel over connections, each bound   *)
(* to one peer for good.  A message is written only where it is addressed, *)
(* in the order of sending, over one connection of the peer at most, or    *)
(* never; the messages a connection brings are handled in their order,     *)
(* each once, or never.                                                    *)
(***************************************************************************)
EXTENDS Naturals, Sequences

CONSTANTS Peers, Conns, Messages, NoPeer

VARIABLES
    owner,      \* the peer a connection is with
    nread,      \* how many messages a connection brought
    handled,    \* the messages of each connection that were handled
    addressed,  \* <<peer, message>>: what was sent to whom
    delivered   \* <<connection, message>>: what was written where

vars == <<owner, nread, handled, addressed, delivered>>

Init ==
    /\ owner = [c \in Conns |-> NoPeer]
    /\ nread = [c \in Conns |-> 0]
    /\ handled = [c \in Conns |-> <<>>]
    /\ addressed = {}
    /\ delivered = {}

Bind(c, p) ==
    /\ owner[c] = NoPeer
    /\ owner' = [owner EXCEPT ![c] = p]

(* A peer comes.                                                           *)
Meet(c, p) ==
    /\ Bind(c, p)
    /\ UNCHANGED <<nread, handled, addressed, delivered>>

(* Messages are sent to a peer, which may take a connection of their own.  *)
Send(p, msgs) ==
    /\ \A m \in msgs : \A n \in Messages : <<p, n>> \in addressed => n < m
    /\ addressed' = addressed \cup {<<p, m>> : m \in msgs}
    /\ \/ UNCHANGED owner
       \/ \E c \in Conns : Bind(c, p)
    /\ UNCHANGED <<nread, handled, delivered>>

Deliverable(c) ==
    {m \in Messages :
        /\ <<owner[c], m>> \in addressed
        /\ \A n \in Messages : <<c, n>> \in delivered => n < m
        /\ \A d \in Conns : owner[d] = owner[c] => <<d, m>> \notin delivered}

Deliver(c, msgs) ==
    /\ msgs \subseteq Deliverable(c)
    /\ delivered' = delivered \cup {<<c, m>> : m \in msgs}
    /\ UNCHANGED <<owner, nread, handled, addressed>>

Read(c) ==
    /\ owner[c] # NoPeer
    /\ nread' = [nread EXCEPT ![c] = @ + 1]
    /\ UNCHANGED <<owner, handled, addressed, delivered>>

Handle(c) ==
    /\ Len(handled[c]) < nread[c]
    /\ handled' = [handled EXCEPT ![c] = Append(@, Len(@) + 1)]
    /\ UNCHANGED <<owner, nread, addressed, delivered>>

Next ==
    \/ \E p \in Peers, msgs \in SUBSET Messages : Send(p, msgs)
    \/ \E c \in Conns :
        \/ \E p \in Peers : Meet(c, p)
        \/ \E msgs \in SUBSET Messages : Deliver(c, msgs)
        \/ Read(c) \/ Handle(c)

Spec == Init /\ [][Next]_vars

============================================================================
