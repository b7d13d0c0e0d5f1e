---------------------------- MODULE Connections ----------------------------
(***************************************************************************)
(* The connections of an asmtpd node (asmtpd/src/network/connections.rs):  *)
(* the LruCache `to` of the channels that lead to the connections, behind  *)
(* a Mutex; one task per connection, outbound (`connect`) or inbound       *)
(* (`accept`), each with a command channel of its own; the bounded queue   *)
(* all of them fill and only the runner of the network drains.             *)
(*                                                                         *)
(* The runner is the one caller of the methods of `Connections` (they take *)
(* &mut self), so its control state is one program counter.  A channel     *)
(* send that finds no room suspends its task; the Mutex is a blocking one. *)
(* Messages are numbers, so that their order and their loss are visible:   *)
(* each connection numbers what it reads, the runner what it sends.        *)
(***************************************************************************)
EXTENDS Lru

CONSTANTS
    Peers,       \* the public keys of the other nodes
    Conns,       \* the connection tasks a behaviour may spawn (a bound)
    MaxOpened,   \* config.max_opened_connections
    CmdCap,      \* the capacity of a command channel, 8 in the code
    QueueCap,    \* config.message_queue_size
    MaxReads,    \* bound: the messages each connection brings in
    MaxIssued,   \* bound: the messages the runner sends
    NoPeer,
    NoConn

ASSUME MaxOpenedAssumption == MaxOpened \in Nat \ {0}
ASSUME CmdCapAssumption == CmdCap \in Nat \ {0}
ASSUME QueueCapAssumption == QueueCap \in Nat \ {0}
ASSUME BoundsAssumption == MaxReads \in Nat /\ MaxIssued \in Nat
ASSUME NoneAssumption == NoPeer \notin Peers /\ NoConn \notin Conns

VARIABLES
    to,        \* the LruCache: peer to connection, most recently used first
    known,     \* the peers of the topology
    phase,     \* how far the task of a connection got
    peer,      \* whom a connection is with
    dialled,   \* whether the node opened the connection itself
    cmds,      \* the command channel of a connection
    hand,      \* the message a task read and could not yet queue, 0 if none
    nread,     \* how many messages a task has read
    queue,     \* the inbound message queue
    pc,        \* where the runner is
    nodes,     \* the peers the runner has still to send to, the current one first
    target,    \* the connection whose channel it is sending into
    payload,   \* the messages of the command it is sending
    from,      \* the peer whose query it is answering
    issued,    \* how many messages it has sent
    writing,   \* what is left to write of the command a task took
    \* history
    wire,      \* the messages written to each connection
    handled,   \* the messages of each connection the runner took
    addressed  \* which message was meant for which peer

registry == <<to, known>>
tasks == <<phase, peer, dialled>>
inbound == <<hand, nread, queue>>
runner == <<pc, nodes, target, payload, from, issued, addressed>>
outbound == <<writing, wire>>
vars == <<registry, tasks, cmds, inbound, runner, outbound, handled>>

Phases == {"unused", "connecting", "accepting", "admitted", "live", "closing", "done"}
Messages == 1..MaxIssued
Commands == [to : Peers, msgs : Seq(Messages)]
Inbound == [from : Peers, conn : Conns, num : 1..MaxReads]

TypeOK ==
    /\ to \in Seq(Entries(Peers, Conns))
    /\ known \subseteq Peers
    /\ phase \in [Conns -> Phases]
    /\ peer \in [Conns -> Peers \cup {NoPeer}]
    /\ dialled \in [Conns -> BOOLEAN]
    /\ cmds \in [Conns -> Seq(Commands)]
    /\ hand \in [Conns -> 0..MaxReads]
    /\ nread \in [Conns -> 0..MaxReads]
    /\ queue \in Seq(Inbound)
    /\ pc \in {"select", "replying", "nodes", "sending", "locked", "stopped"}
    /\ nodes \in Seq(Peers)
    /\ target \in Conns \cup {NoConn}
    /\ payload \in Seq(Messages)
    /\ from \in Peers \cup {NoPeer}
    /\ issued \in 0..MaxIssued
    /\ writing \in [Conns -> Seq(Messages)]
    /\ wire \in [Conns -> Seq(Messages)]
    /\ handled \in [Conns -> Seq(1..MaxReads)]
    /\ addressed \subseteq Peers \X Messages

Init ==
    /\ to = <<>>
    /\ known \in SUBSET Peers
    /\ phase = [c \in Conns |-> "unused"]
    /\ peer = [c \in Conns |-> NoPeer]
    /\ dialled = [c \in Conns |-> FALSE]
    /\ cmds = [c \in Conns |-> <<>>]
    /\ hand = [c \in Conns |-> 0]
    /\ nread = [c \in Conns |-> 0]
    /\ queue = <<>>
    /\ pc = "select"
    /\ nodes = <<>>
    /\ target = NoConn
    /\ payload = <<>>
    /\ from = NoPeer
    /\ issued = 0
    /\ writing = [c \in Conns |-> <<>>]
    /\ wire = [c \in Conns |-> <<>>]
    /\ handled = [c \in Conns |-> <<>>]
    /\ addressed = {}

(* The Mutex around `to`.  Every critical section is short, and so is one  *)
(* action, but for the one that takes the lock again while it holds it and *)
(* never comes back (see Relock).                                          *)
LockFree == pc # "locked"

(* Sender::is_closed: the task dropped its receiver.                       *)
IsClosed(c) == phase[c] \in {"closing", "done"}

(* Mutant of HasSender: accepted connections too keep a clone.             *)
HasSenderKept(c) == phase[c] = "live"

(* Somebody can still send into the channel of c: its entry of the cache,  *)
(* a clone the runner is sending with, or the clone the task that dialled  *)
(* keeps for itself until it ends.                                         *)
HasSender(c) ==
    \/ dialled[c]
    \/ \E i \in 1..Len(to) : to[i].val = c
    \/ pc = "sending" /\ target = c

(* The sequences `view_for` may return: distinct peers of the topology.    *)
Views ==
    {s \in UNION {[1..n -> known] : n \in 1..2} :
        \A i, j \in DOMAIN s : s[i] = s[j] => i = j}

----------------------------------------------------------------------------
(* The runner of the network: the calls it makes on Connections.           *)

(* Start sending one command with the next n messages to each node of a    *)
(* view: send_all and send (one message), send_gossips (a batch).          *)
StartSending(view, n) ==
    /\ issued + n <= MaxIssued
    /\ issued' = issued + n
    /\ payload' = [i \in 1..n |-> issued + i]
    /\ nodes' = view
    /\ pc' = "nodes"

SendGossips(p) ==
    /\ pc = "select"
    /\ p \in known
    /\ \E n \in 1..2 : StartSending(<<p>>, n)
    /\ UNCHANGED <<registry, tasks, cmds, inbound, target, from, addressed, outbound, handled>>

(* Mutant of UseEntry: the most recent channel, whosever it is.            *)
UseEntryFirst(p, msgs) ==
    /\ HasKey(to, p)
    /\ ~IsClosed(to[1].val)
    /\ target' = to[1].val
    /\ addressed' = addressed \cup {<<p, msgs[i]>> : i \in DOMAIN msgs}
    /\ pc' = "sending"
    /\ UNCHANGED to

(* get_or_connect, send_to_peer: an open channel was found under the lock. *)
UseEntry(p, msgs) ==
    /\ HasKey(to, p)
    /\ ~IsClosed(Lookup(to, p))
    /\ to' = Promote(to, p)
    /\ target' = Lookup(to, p)
    /\ addressed' = addressed \cup {<<p, msgs[i]>> : i \in DOMAIN msgs}
    /\ pc' = "sending"

(* get_or_connect, send_to_peer: the channel found is closed.  The arm that *)
(* removes the entry locks the Mutex while the guard of the scrutinee is   *)
(* still alive: the runner waits for itself.                               *)
Relock(p) ==
    /\ HasKey(to, p)
    /\ IsClosed(Lookup(to, p))
    /\ to' = Promote(to, p)
    /\ pc' = "locked"
    /\ UNCHANGED <<target, addressed>>

(* get_or_connect: no entry, spawn a task that connects and send to it.    *)
Dial(p) ==
    /\ ~HasKey(to, p)
    /\ \E c \in Conns :
        /\ phase[c] = "unused"
        /\ phase' = [phase EXCEPT ![c] = "connecting"]
        /\ peer' = [peer EXCEPT ![c] = p]
        /\ dialled' = [dialled EXCEPT ![c] = TRUE]
        /\ target' = c
    /\ addressed' = addressed \cup {<<p, payload[i]>> : i \in DOMAIN payload}
    /\ pc' = "sending"

GetOrConnect ==
    /\ pc = "nodes"
    /\ \/ UseEntry(Head(nodes), payload) /\ UNCHANGED tasks
       \/ Relock(Head(nodes)) /\ UNCHANGED tasks
       \/ Dial(Head(nodes)) /\ UNCHANGED to
    /\ UNCHANGED <<known, cmds, inbound, nodes, payload, from, issued, outbound, handled>>

(* The send to the current node is over: the next one, the next answer, or *)
(* back to the loop.                                                       *)
NextNode ==
    /\ nodes' = Tail(nodes)
    /\ pc' = IF Len(nodes) > 1 THEN "nodes"
             ELSE IF from # NoPeer THEN "replying" ELSE "select"
    /\ target' = NoConn
    /\ UNCHANGED <<payload, from, issued, addressed>>

(* Into the channel once it has room; an error if the task ended while the *)
(* runner held a clone of its sender.                                      *)
PushCommand ==
    /\ pc = "sending"
    /\ \/ /\ ~IsClosed(target)
          /\ Len(cmds[target]) < CmdCap
          /\ cmds' = [cmds EXCEPT ![target] =
                          Append(@, [to |-> Head(nodes), msgs |-> payload])]
       \/ IsClosed(target) /\ UNCHANGED cmds
    /\ NextNode
    /\ UNCHANGED <<registry, tasks, inbound, outbound, handled>>

TakeMessage ==
    /\ pc = "select"
    /\ queue # <<>>
    /\ queue' = Tail(queue)
    /\ handled' = [handled EXCEPT ![Head(queue).conn] = Append(@, Head(queue).num)]
    /\ UNCHANGED <<hand, nread>>

(* A gossip brings a profile to the topology.                              *)
ReceiveGossip(p) ==
    /\ TakeMessage
    /\ known' = known \cup {p}
    /\ UNCHANGED <<to, tasks, cmds, runner, outbound>>

(* A message on a topic is relayed to a view of the topology, unless it is *)
(* known already, cannot be stored or nobody else subscribed.              *)
ReceiveTopic ==
    /\ TakeMessage
    /\ \/ UNCHANGED <<pc, nodes, payload, issued>>
       \/ \E view \in Views : StartSending(view, 1)
    /\ UNCHANGED <<registry, tasks, cmds, target, from, addressed, outbound>>

(* A query for messages or for a passport is answered with send_to_peer.   *)
ReceiveQuery ==
    /\ TakeMessage
    /\ from' = Head(queue).from
    /\ pc' = "replying"
    /\ UNCHANGED <<registry, tasks, cmds, nodes, target, payload, issued, addressed, outbound>>

(* send_to_peer never connects: without an entry the answer is dropped.    *)
Reply ==
    /\ pc = "replying"
    /\ issued < MaxIssued
    /\ issued' = issued + 1
    /\ payload' = <<issued + 1>>
    /\ \/ UseEntry(from, payload') /\ nodes' = <<from>>
       \/ Relock(from) /\ UNCHANGED nodes
       \/ /\ ~HasKey(to, from)
          /\ UNCHANGED <<to, nodes, target, addressed, pc>>
    /\ UNCHANGED <<known, tasks, cmds, inbound, from, outbound, handled>>

EndReplies ==
    /\ pc = "replying"
    /\ pc' = "select"
    /\ from' = NoPeer
    /\ UNCHANGED <<registry, tasks, cmds, inbound, nodes, target, payload, issued,
                   addressed, outbound, handled>>

(* The listener gave a connection: a task of its own does the handshake.   *)
Accept(c) ==
    /\ pc = "select"
    /\ phase[c] = "unused"
    /\ phase' = [phase EXCEPT ![c] = "accepting"]
    /\ UNCHANGED <<registry, peer, dialled, cmds, inbound, runner, outbound, handled>>

(* The run of the runner ends, on the shutdown command or when the         *)
(* listener or the storage of the gossips fails; the receiving end of the  *)
(* queue goes with it, the tasks of the connections do not.                *)
Stop ==
    /\ pc = "select"
    /\ pc' = "stopped"
    /\ queue' = <<>>
    /\ UNCHANGED <<registry, tasks, cmds, hand, nread, nodes, target, payload, from,
                   issued, addressed, outbound, handled>>

----------------------------------------------------------------------------
(* The tasks of the connections.                                           *)

(* A task drops the receiver of its channel, and the commands in it.       *)
DropReceiver(c, ph) ==
    /\ phase' = [phase EXCEPT ![c] = ph]
    /\ cmds' = [cmds EXCEPT ![c] = <<>>]

(* The handshake succeeds: register the connection, whatever `to` holds    *)
(* for its peer by now.                                                    *)
Register(c) ==
    /\ phase[c] \in {"connecting", "admitted"}
    /\ LockFree
    /\ phase' = [phase EXCEPT ![c] = "live"]
    /\ to' = Put(to, peer[c], c, MaxOpened)
    /\ UNCHANGED <<known, peer, dialled, cmds, inbound, runner, outbound, handled>>

(* Mutant of ConnectFails: it also pops the entry of the peer.             *)
ConnectFailsPops(c) ==
    /\ phase[c] = "connecting"
    /\ DropReceiver(c, "done")
    /\ to' = Pop(to, peer[c])
    /\ known' = known \ {peer[c]}
    /\ UNCHANGED <<peer, dialled, inbound, runner, outbound, handled>>

(* Connecting fails: the peer leaves the topology.                         *)
ConnectFails(c) ==
    /\ phase[c] = "connecting"
    /\ DropReceiver(c, "done")
    /\ known' = known \ {peer[c]}
    /\ UNCHANGED <<to, peer, dialled, inbound, runner, outbound, handled>>

(* Mutant of CheckId: the identity checked is not kept.                    *)
CheckIdForgets(c, p) ==
    /\ phase[c] = "accepting"
    /\ LockFree
    /\ phase' = [phase EXCEPT ![c] = IF HasKey(to, p) THEN "done" ELSE "admitted"]
    /\ UNCHANGED <<registry, peer, dialled, cmds, inbound, runner, outbound, handled>>

(* The first handshake message tells who calls: a peer that has an entry   *)
(* is turned away.                                                         *)
CheckId(c, p) ==
    /\ phase[c] = "accepting"
    /\ LockFree
    /\ phase' = [phase EXCEPT ![c] = IF HasKey(to, p) THEN "done" ELSE "admitted"]
    /\ peer' = [peer EXCEPT ![c] = p]
    /\ UNCHANGED <<registry, dialled, cmds, inbound, runner, outbound, handled>>

AcceptFails(c) ==
    /\ phase[c] \in {"accepting", "admitted"}
    /\ phase' = [phase EXCEPT ![c] = "done"]
    /\ UNCHANGED <<registry, peer, dialled, cmds, inbound, runner, outbound, handled>>

(* The select! of the Runtime: a task is in it only with nothing in hand   *)
(* and nothing left to write.                                              *)
Selecting(c) == phase[c] = "live" /\ hand[c] = 0 /\ writing[c] = <<>>

Read(c) ==
    /\ Selecting(c)
    /\ nread[c] < MaxReads
    /\ nread' = [nread EXCEPT ![c] = @ + 1]
    /\ hand' = [hand EXCEPT ![c] = nread[c] + 1]
    /\ UNCHANGED <<registry, tasks, cmds, queue, runner, outbound, handled>>

(* Mutant of Enqueue: the message stays in hand.                           *)
EnqueueTwice(c) ==
    /\ hand[c] # 0
    /\ pc # "stopped"
    /\ Len(queue) < QueueCap
    /\ queue' = Append(queue, [from |-> peer[c], conn |-> c, num |-> hand[c]])
    /\ UNCHANGED <<registry, tasks, cmds, hand, nread, runner, outbound, handled>>

Enqueue(c) ==
    /\ hand[c] # 0
    /\ pc # "stopped"
    /\ Len(queue) < QueueCap
    /\ queue' = Append(queue, [from |-> peer[c], conn |-> c, num |-> hand[c]])
    /\ hand' = [hand EXCEPT ![c] = 0]
    /\ UNCHANGED <<registry, tasks, cmds, nread, runner, outbound, handled>>

(* Mutant of EnqueueFails: the error is returned before the pop.           *)
EnqueueFailsReturns(c) ==
    /\ hand[c] # 0
    /\ pc = "stopped"
    /\ hand' = [hand EXCEPT ![c] = 0]
    /\ DropReceiver(c, "done")
    /\ UNCHANGED <<registry, peer, dialled, nread, queue, runner, outbound, handled>>

(* Nobody will ever take the message: the task gives up.                   *)
EnqueueFails(c) ==
    /\ hand[c] # 0
    /\ pc = "stopped"
    /\ hand' = [hand EXCEPT ![c] = 0]
    /\ DropReceiver(c, "closing")
    /\ UNCHANGED <<registry, peer, dialled, nread, queue, runner, outbound, handled>>

TakeCommand(c) ==
    /\ Selecting(c)
    /\ cmds[c] # <<>>
    /\ cmds' = [cmds EXCEPT ![c] = Tail(@)]
    /\ writing' = [writing EXCEPT ![c] = Head(cmds[c]).msgs]
    /\ UNCHANGED <<registry, tasks, inbound, runner, wire, handled>>

(* Mutant of WriteMessage: the message may be written again.               *)
WriteMessageAgain(c) ==
    /\ writing[c] # <<>>
    /\ wire' = [wire EXCEPT ![c] = Append(@, Head(writing[c]))]
    /\ writing' \in {writing, [writing EXCEPT ![c] = Tail(@)]}
    /\ UNCHANGED <<registry, tasks, cmds, inbound, runner, handled>>

(* The send returns once the message is flushed to the socket; it waits,   *)
(* and the task with it, for as long as the peer does not read.            *)
WriteMessage(c) ==
    /\ writing[c] # <<>>
    /\ wire' = [wire EXCEPT ![c] = Append(@, Head(writing[c]))]
    /\ writing' = [writing EXCEPT ![c] = Tail(@)]
    /\ UNCHANGED <<registry, tasks, cmds, inbound, runner, handled>>

(* An error drops the rest of the command and leaves the connection as is. *)
WriteFails(c) ==
    /\ writing[c] # <<>>
    /\ writing' = [writing EXCEPT ![c] = <<>>]
    /\ UNCHANGED <<registry, tasks, cmds, inbound, runner, wire, handled>>

(* The peer closes the connection.                                         *)
Disconnected(c) ==
    /\ Selecting(c)
    /\ DropReceiver(c, "closing")
    /\ UNCHANGED <<registry, peer, dialled, inbound, runner, outbound, handled>>

(* The channel is empty and nobody can send into it any more.              *)
NoMoreCommands(c) ==
    /\ Selecting(c)
    /\ cmds[c] = <<>>
    /\ ~HasSender(c)
    /\ DropReceiver(c, "closing")
    /\ UNCHANGED <<registry, peer, dialled, inbound, runner, outbound, handled>>

(* Mutant of Unregister: the entry stays.                                  *)
UnregisterNothing(c) ==
    /\ phase[c] = "closing"
    /\ phase' = [phase EXCEPT ![c] = "done"]
    /\ UNCHANGED <<registry, peer, dialled, cmds, inbound, runner, outbound, handled>>

(* The task forgets the peer, whichever connection its entry leads to now. *)
Unregister(c) ==
    /\ phase[c] = "closing"
    /\ LockFree
    /\ phase' = [phase EXCEPT ![c] = "done"]
    /\ to' = Pop(to, peer[c])
    /\ UNCHANGED <<known, peer, dialled, cmds, inbound, runner, outbound, handled>>

----------------------------------------------------------------------------
RunnerNext ==
    \/ \E p \in Peers : SendGossips(p) \/ ReceiveGossip(p)
    \/ GetOrConnect \/ PushCommand
    \/ ReceiveTopic \/ ReceiveQuery \/ Reply \/ EndReplies
    \/ \E c \in Conns : Accept(c)
    \/ Stop

TaskNext(c) ==
    \/ Register(c) \/ ConnectFails(c) \/ AcceptFails(c)
    \/ \E p \in Peers : CheckId(c, p)
    \/ Read(c) \/ Enqueue(c) \/ EnqueueFails(c)
    \/ TakeCommand(c) \/ WriteMessage(c) \/ WriteFails(c)
    \/ Disconnected(c) \/ NoMoreCommands(c) \/ Unregister(c)

Next == RunnerNext \/ \E c \in Conns : TaskNext(c)

Spec == Init /\ [][Next]_vars

(* Tasks that can run are run: tokio polls a task whose channel has room,  *)
(* whose command came or whose senders are gone, and select! picks a ready *)
(* branch at random.  Nothing is assumed of the peers: they may stay       *)
(* silent, in a handshake too, and never read what is written to them.     *)
Fairness ==
    /\ \A c \in Conns :
        /\ WF_vars(Enqueue(c) \/ EnqueueFails(c))
        /\ WF_vars(TakeCommand(c))
        /\ WF_vars(NoMoreCommands(c))
        /\ WF_vars(Unregister(c))
    /\ WF_vars(GetOrConnect)
    /\ WF_vars(PushCommand)
    /\ WF_vars(EndReplies)
    /\ WF_vars((\E p \in Peers : ReceiveGossip(p)) \/ ReceiveTopic \/ ReceiveQuery)

FairSpec == Spec /\ Fairness

----------------------------------------------------------------------------
(* The properties.                                                         *)

Registered(c) == \E i \in 1..Len(to) : to[i].val = c

(* What the control state implies of the data it goes with.                *)
ControlOK ==
    /\ pc \in {"nodes", "sending"} => nodes # <<>>
    /\ pc = "sending" => target \in Conns
    /\ pc = "replying" => from \in Peers
    /\ \A c \in Conns :
        /\ phase[c] \in {"connecting", "admitted", "live", "closing"} => peer[c] \in Peers
        /\ hand[c] # 0 => phase[c] = "live"
        /\ writing[c] # <<>> => phase[c] = "live" /\ hand[c] = 0

(* An entry leads to a connection whose handshake proved that very peer    *)
(* and whose task has not ended: what is sent to a peer never goes to a    *)
(* half open connection, to another peer, or to a task that is gone for    *)
(* good, however dials, accepts, replacements and exits interleave.        *)
RegistryAuthentic ==
    \A i \in 1..Len(to) :
        /\ phase[to[i].val] \in {"live", "closing"}
        /\ peer[to[i].val] = to[i].key

(* Where the messages of connection c wait in the inbound queue, and how   *)
(* many of them have got there.                                            *)
Queued(c) == {i \in 1..Len(queue) : queue[i].conn = c}
Enqueued(c) == IF hand[c] = 0 THEN nread[c] ELSE nread[c] - 1

(* Between the wire and the runner no message of a connection is lost,     *)
(* repeated or overtaken, and each is attributed to the peer it came from: *)
(* those handled are the first, those in the queue the next, in order, and *)
(* the one in hand the last; only the end of the runner drops what is      *)
(* still under way.                                                        *)
InboundInOrder ==
    /\ \A c \in Conns :
        /\ handled[c] = [i \in 1..Len(handled[c]) |-> i]
        /\ Len(handled[c]) <= Enqueued(c)
        /\ pc # "stopped" =>
            /\ {queue[i].num : i \in Queued(c)} = Len(handled[c]) + 1 .. Enqueued(c)
            /\ \A i, j \in Queued(c) : i < j => queue[i].num < queue[j].num
            /\ hand[c] \in {0, nread[c]}
    /\ \A i \in 1..Len(queue) : queue[i].from = peer[queue[i].conn]

(* What the runner has to say to a peer waits in channels of connections   *)
(* with that peer, and nowhere else.                                       *)
CommandsReachTheirPeer ==
    /\ \A c \in Conns : \A i \in 1..Len(cmds[c]) : cmds[c][i].to = peer[c]
    /\ pc = "sending" => peer[target] = Head(nodes)

Written(c) == {wire[c][i] : i \in DOMAIN wire[c]}
InHand(c) == {writing[c][i] : i \in DOMAIN writing[c]}
InChannel(c) ==
    UNION {{cmds[c][i].msgs[j] : j \in DOMAIN cmds[c][i].msgs} : i \in DOMAIN cmds[c]}
Waiting(c) == InHand(c) \cup InChannel(c)

(* A connection carries messages out in the order the runner sent them:    *)
(* what it has written is older than what is left of the command its task  *)
(* took, that is older than what waits in its channel, and each of them is *)
(* in order.  Only what was meant for the peer goes that way, and, also    *)
(* when a peer comes to have several connections, only one way.            *)
OutboundInOrder ==
    \A c \in Conns :
        /\ \A i, j \in DOMAIN wire[c] : i < j => wire[c][i] < wire[c][j]
        /\ \A i, j \in DOMAIN writing[c] : i < j => writing[c][i] < writing[c][j]
        /\ \A m \in Written(c), n \in Waiting(c) : m < n
        /\ \A m \in InHand(c), n \in InChannel(c) : m < n
        /\ \A i, j \in DOMAIN cmds[c] : i < j =>
            \A k \in DOMAIN cmds[c][i].msgs, l \in DOMAIN cmds[c][j].msgs :
                cmds[c][i].msgs[k] < cmds[c][j].msgs[l]
        /\ \A m \in Written(c) \cup Waiting(c) :
            /\ <<peer[c], m>> \in addressed
            /\ \A d \in Conns \ {c} :
                peer[d] = peer[c] => m \notin Written(d) \cup Waiting(d)

(* An entry disappears only by what the code does on purpose: the task of  *)
(* some connection with that peer ends, a newer connection with the peer   *)
(* takes its place, or a full cache evicts the least recently used entry.  *)
EntriesLeaveForAReason ==
    [][ \A i \in 1..Len(to) :
            LET e == to[i]
                kept == \E j \in 1..Len(to') : to'[j] = e
                ended == \E c \in Conns : /\ peer[c] = e.key
                                          /\ phase[c] = "closing" /\ phase'[c] = "done"
                replaced == HasKey(to', e.key)
                evicted == /\ i = MaxOpened /\ Len(to) = MaxOpened
                           /\ Len(to') = MaxOpened
            IN  kept \/ ended \/ replaced \/ evicted ]_vars

(* The runner waits for something that may never come: its own lock, room  *)
(* in the channel of a connection, or (in the model only) an unused        *)
(* connection to dial with.                                                *)
RunnerStuck == \E at \in {"locked", "sending", "nodes"} : <>[](pc = at)

(* A task waits for ever for its peer to read what it writes.              *)
WriteStuck(c) == <>[](writing[c] # <<>>)

(* "we don't keep opened connections indefinitely if we are not using      *)
(* them" (connections.rs:24): a live inbound connection that lost its      *)
(* entry closes by itself, unless the runner is stuck or the peer has      *)
(* stopped reading.  One that the node dialled does not: its task keeps a  *)
(* sender of its own (see HasSender).                                      *)
EvictedInboundCloses ==
    RunnerStuck \/
    \A c \in Conns :
        \/ WriteStuck(c)
        \/ (phase[c] = "live" /\ ~dialled[c] /\ ~Registered(c)) ~> (phase[c] # "live")

(* However a connection ends, and an error of its loop too, its entry is   *)
(* removed in the end, unless the runner holds the lock.                   *)
ClosedIsForgotten ==
    \A c \in Conns :
        IsClosed(c) ~> ((phase[c] = "done" /\ ~Registered(c)) \/ ~LockFree)

(* "the operation of adding or removing an entry from the mutex should be  *)
(* atomic, isolated and we should not hold the lock more than necessary"   *)
(* (connections.rs:27): no operation keeps the lock.                       *)
LockReleased == LockFree

(* "make sure to wake up the network every `heart_beat`" (config.rs:56):   *)
(* as long as peers read what is written, a send to a connection does not  *)
(* keep the runner from its loop for ever.                                 *)
SendsEnd ==
    (\E c \in Conns : WriteStuck(c)) \/ (pc = "sending" ~> pc # "sending")

(* What was written where.                                                 *)
Delivered == UNION {{<<c, m>> : m \in Written(c)} : c \in Conns}

(* However many connections a peer has, and whichever of them the cache    *)
(* forgets, the messages flow as PeerMessaging says.                       *)
Messaging == INSTANCE PeerMessaging WITH
    owner <- peer,
    delivered <- Delivered,
    Messages <- Messages

ImplementsMessaging == Messaging!Spec

============================================================================
