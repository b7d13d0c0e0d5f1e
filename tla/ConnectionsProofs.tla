------------------------- MODULE ConnectionsProofs -------------------------
(***************************************************************************)
(* The connections of a node, for every number of peers, connections and   *)
(* messages and every capacity: the registry is sound, commands reach      *)
(* their peer, messages keep their order both ways, and all of it          *)
(* implements PeerMessaging.  Each part is an invariant on top of the      *)
(* ones before: ConnectionsInv (types, control state and registry, where   *)
(* the uniqueness of keys makes a task that pops its peer remove its own   *)
(* entry), ReachInv (commands), InInv (inbound) and OutInv (outbound).     *)
(***************************************************************************)
EXTENDS Connections, DataProofs

(* What the operations of an LruCache keep of it.                          *)
RegistryBounded ==
    /\ Len(to) <= MaxOpened
    /\ UniqueKeys(to)
    /\ \A i, j \in 1..Len(to) : to[i].val = to[j].val => i = j

ConnectionsInv ==
    /\ TypeOK
    /\ ControlOK
    /\ RegistryAuthentic
    /\ RegistryBounded

USE MaxOpenedAssumption, CmdCapAssumption, QueueCapAssumption, BoundsAssumption,
    NoneAssumption

(* The views of the topology are sequences of peers.                       *)
LEMMA ViewsAreSequences ==
    ASSUME known \subseteq Peers, NEW view \in Views
    PROVE  view \in Seq(Peers) /\ view # <<>>
<1>1. PICK n \in 1..2 : view \in [1..n -> known]
  BY DEF Views
<1>2. view \in [1..n -> Peers]
  BY <1>1
<1>3. view \in Seq(Peers) /\ Len(view) = n
  BY <1>1, <1>2
<1> QED
  BY <1>1, <1>3

(* The batches the runner sends are sequences of messages.                 *)
LEMMA BatchIsSequence ==
    ASSUME issued \in 0..MaxIssued, NEW n \in 1..2, issued + n <= MaxIssued
    PROVE  /\ [i \in 1..n |-> issued + i] \in Seq(Messages)
           /\ issued + n \in 0..MaxIssued
BY DEF Messages

(* Taking a message keeps the types of what it changes.                    *)
LEMMA TakeMessageTypes ==
    ASSUME TypeOK, TakeMessage
    PROVE  /\ queue' \in Seq(Inbound)
           /\ handled' \in [Conns -> Seq(1..MaxReads)]
           /\ hand' \in [Conns -> 0..MaxReads]
           /\ nread' \in [Conns -> 0..MaxReads]
           /\ Head(queue).from \in Peers
<1>1. Head(queue) \in Inbound
  BY DEF TypeOK, TakeMessage
<1>2. /\ Head(queue).conn \in Conns
      /\ Head(queue).num \in 1..MaxReads
      /\ Head(queue).from \in Peers
  BY <1>1 DEF Inbound
<1>3. queue' \in Seq(Inbound)
  BY DEF TypeOK, TakeMessage
<1>4. handled' \in [Conns -> Seq(1..MaxReads)]
  <2> DEFINE c == Head(queue).conn
             num == Head(queue).num
  <2>1. handled \in [Conns -> Seq(1..MaxReads)] /\ c \in Conns /\ num \in 1..MaxReads
    BY <1>2 DEF TypeOK
  <2>2. handled' = [handled EXCEPT ![c] = Append(handled[c], num)]
    BY DEF TakeMessage
  <2> HIDE DEF c, num
  <2>3. Append(handled[c], num) \in Seq(1..MaxReads)
    BY <2>1
  <2> QED
    BY <2>1, <2>2, <2>3
<1> QED
  BY <1>2, <1>3, <1>4 DEF TypeOK, TakeMessage

(* So does the start of a send.                                            *)
LEMMA StartSendingTypes ==
    ASSUME TypeOK, NEW view \in Seq(Peers), NEW n \in 1..2, StartSending(view, n)
    PROVE  /\ issued' \in 0..MaxIssued
           /\ payload' \in Seq(Messages)
           /\ nodes' \in Seq(Peers)
           /\ pc' = "nodes"
BY BatchIsSequence DEF StartSending, TypeOK

(* The types of what a lookup under the lock changes.                      *)
LEMMA UseEntryTypes ==
    ASSUME ConnectionsInv, NEW p \in Peers, NEW msgs \in Seq(Messages), UseEntry(p, msgs)
    PROVE  /\ to' \in Seq(Entries(Peers, Conns))
           /\ target' \in Conns
           /\ addressed \subseteq Peers \X Messages =>
                addressed' \subseteq Peers \X Messages
           /\ pc' = "sending"
<1>1. to' \in Seq(Entries(Peers, Conns))
  BY PromoteProperties DEF ConnectionsInv, TypeOK, RegistryBounded, UseEntry
<1>2. to[Index(to, p)] \in Entries(Peers, Conns)
  BY IndexFinds DEF ConnectionsInv, TypeOK, UseEntry
<1>3. target' \in Conns
  BY <1>2 DEF UseEntry, Lookup, Entries
<1>4. {<<p, msgs[i]>> : i \in DOMAIN msgs} \subseteq Peers \X Messages
  OBVIOUS
<1> QED
  BY <1>1, <1>3, <1>4 DEF UseEntry

LEMMA RelockTypes ==
    ASSUME ConnectionsInv, NEW p, Relock(p)
    PROVE  /\ to' \in Seq(Entries(Peers, Conns))
           /\ pc' = "locked"
           /\ UNCHANGED <<target, addressed>>
BY PromoteProperties DEF ConnectionsInv, TypeOK, RegistryBounded, Relock

(* A task that drops its receiver keeps the types.                         *)
LEMMA DropReceiverTypes ==
    ASSUME TypeOK, NEW c \in Conns, NEW ph \in Phases, DropReceiver(c, ph)
    PROVE  phase' \in [Conns -> Phases] /\ cmds' \in [Conns -> Seq(Commands)]
<1>1. phase \in [Conns -> Phases] /\ cmds \in [Conns -> Seq(Commands)]
  BY DEF TypeOK
<1>2. phase' = [phase EXCEPT ![c] = ph] /\ cmds' = [cmds EXCEPT ![c] = <<>>]
  BY DEF DropReceiver
<1>3. <<>> \in Seq(Commands)
  OBVIOUS
<1> QED
  BY <1>1, <1>2, <1>3

LEMMA InitInv == Init => ConnectionsInv
BY DEF Init, ConnectionsInv, TypeOK, ControlOK, RegistryAuthentic, RegistryBounded,
       UniqueKeys, Phases

LEMMA TypeStep == ConnectionsInv /\ [Next]_vars => TypeOK'
<1> SUFFICES ASSUME ConnectionsInv, [Next]_vars PROVE TypeOK'
  OBVIOUS
<1> USE DEF ConnectionsInv, registry, tasks, inbound, runner, outbound
<1>0. TypeOK /\ ControlOK
  OBVIOUS
<1>1. ASSUME NEW p \in Peers, SendGossips(p) PROVE TypeOK'
  <2>1. PICK n \in 1..2 : StartSending(<<p>>, n)
    BY <1>1 DEF SendGossips
  <2>2. <<p>> \in Seq(Peers)
    OBVIOUS
  <2> QED
    BY <1>0, <1>1, <2>1, <2>2, StartSendingTypes DEF SendGossips, TypeOK
<1>2. ASSUME NEW p \in Peers, ReceiveGossip(p) PROVE TypeOK'
  BY <1>2, <1>0, TakeMessageTypes DEF ReceiveGossip, TypeOK
<1>3. ASSUME GetOrConnect PROVE TypeOK'
  <2> DEFINE p == Head(nodes)
  <2>1. p \in Peers /\ payload \in Seq(Messages)
    BY <1>3, <1>0 DEF GetOrConnect, TypeOK, ControlOK
  <2>2. {<<p, payload[i]>> : i \in DOMAIN payload} \subseteq Peers \X Messages
    BY <2>1
  <2>3. CASE UseEntry(p, payload) /\ UNCHANGED tasks
    BY <1>3, <1>0, <2>1, <2>3, UseEntryTypes DEF GetOrConnect, TypeOK
  <2>4. CASE Relock(p) /\ UNCHANGED tasks
    BY <1>3, <1>0, <2>4, RelockTypes DEF GetOrConnect, TypeOK
  <2>5. CASE Dial(p) /\ UNCHANGED to
    <3>1. /\ phase' \in [Conns -> Phases]
          /\ peer' \in [Conns -> Peers \cup {NoPeer}]
          /\ dialled' \in [Conns -> BOOLEAN]
          /\ target' \in Conns
          /\ pc' = "sending"
      <4>1. PICK c \in Conns :
                /\ phase' = [phase EXCEPT ![c] = "connecting"]
                /\ peer' = [peer EXCEPT ![c] = p]
                /\ dialled' = [dialled EXCEPT ![c] = TRUE]
                /\ target' = c
        BY <2>5 DEF Dial
      <4>2. /\ phase \in [Conns -> Phases]
            /\ peer \in [Conns -> Peers \cup {NoPeer}]
            /\ dialled \in [Conns -> BOOLEAN]
        BY <1>0 DEF TypeOK
      <4>3. phase' \in [Conns -> Phases]
        BY <4>1, <4>2 DEF Phases
      <4>4. peer' \in [Conns -> Peers \cup {NoPeer}] /\ dialled' \in [Conns -> BOOLEAN]
        BY <2>1, <4>1, <4>2
      <4>5. pc' = "sending"
        BY <2>5 DEF Dial
      <4> QED
        BY <4>1, <4>3, <4>4, <4>5
    <3>2. addressed' \subseteq Peers \X Messages
      BY <1>0, <2>2, <2>5 DEF Dial, TypeOK
    <3> QED
      BY <1>3, <1>0, <2>5, <3>1, <3>2 DEF GetOrConnect, TypeOK
  <2> QED
    BY <1>3, <2>3, <2>4, <2>5 DEF GetOrConnect
<1>4. ASSUME PushCommand PROVE TypeOK'
  <2>1. nodes \in Seq(Peers) /\ nodes # <<>> /\ target \in Conns
    BY <1>4, <1>0 DEF PushCommand, TypeOK, ControlOK
  <2>2. Head(nodes) \in Peers /\ nodes' \in Seq(Peers)
    BY <1>4, <2>1 DEF PushCommand, NextNode
  <2>3. cmds' \in [Conns -> Seq(Commands)]
    <3> DEFINE cmd == [to |-> Head(nodes), msgs |-> payload]
    <3>1. cmd \in Commands
      BY <1>0, <2>2 DEF TypeOK, Commands
    <3>2. Append(cmds[target], cmd) \in Seq(Commands)
      BY <1>0, <2>1, <3>1 DEF TypeOK
    <3> QED
      BY <1>0, <1>4, <2>1, <3>2 DEF TypeOK, PushCommand
  <2> QED
    BY <1>0, <1>4, <2>2, <2>3 DEF TypeOK, PushCommand, NextNode
<1>5. ASSUME ReceiveTopic PROVE TypeOK'
  <2>1. CASE UNCHANGED <<pc, nodes, payload, issued>>
    BY <1>5, <1>0, <2>1, TakeMessageTypes DEF ReceiveTopic, TypeOK
  <2>2. ASSUME NEW view \in Views, StartSending(view, 1) PROVE TypeOK'
    <3>1. view \in Seq(Peers)
      BY <1>0, ViewsAreSequences DEF TypeOK
    <3> QED
      <4>1. /\ issued' \in 0..MaxIssued
            /\ payload' \in Seq(Messages)
            /\ nodes' \in Seq(Peers)
            /\ pc' = "nodes"
        BY <1>0, <2>2, <3>1, StartSendingTypes
      <4> QED
        BY <1>5, <1>0, <4>1, TakeMessageTypes DEF ReceiveTopic, TypeOK
  <2> QED
    BY <1>5, <2>1, <2>2 DEF ReceiveTopic
<1>6. ASSUME ReceiveQuery PROVE TypeOK'
  BY <1>6, <1>0, TakeMessageTypes DEF ReceiveQuery, TypeOK
<1>7. ASSUME Reply PROVE TypeOK'
  <2>1. from \in Peers /\ payload' \in Seq(Messages) /\ issued' \in 0..MaxIssued
    <3>1. issued + 1 \in Messages
      BY <1>7, <1>0 DEF Reply, TypeOK, Messages
    <3> QED
      BY <1>7, <1>0, <3>1 DEF Reply, TypeOK, ControlOK
  <2>2. CASE UseEntry(from, payload') /\ nodes' = <<from>>
    <3>1. nodes' \in Seq(Peers)
      BY <2>1, <2>2
    <3> QED
      BY <1>7, <1>0, <2>1, <2>2, <3>1, UseEntryTypes DEF Reply, TypeOK
  <2>3. CASE Relock(from) /\ UNCHANGED nodes
    BY <1>7, <1>0, <2>1, <2>3, RelockTypes DEF Reply, TypeOK
  <2>4. CASE UNCHANGED <<to, nodes, target, addressed, pc>>
    BY <1>7, <1>0, <2>1, <2>4 DEF Reply, TypeOK
  <2> QED
    BY <1>7, <2>2, <2>3, <2>4 DEF Reply
<1>8. ASSUME EndReplies PROVE TypeOK'
  BY <1>8, <1>0 DEF EndReplies, TypeOK
<1>9. ASSUME NEW c \in Conns, Accept(c) PROVE TypeOK'
  BY <1>9, <1>0 DEF Accept, TypeOK, Phases
<1>10. ASSUME Stop PROVE TypeOK'
  BY <1>10, <1>0 DEF Stop, TypeOK
<1>11. ASSUME NEW c \in Conns, Register(c) PROVE TypeOK'
  BY <1>11, <1>0, PutProperties DEF Register, TypeOK, ControlOK, Phases, RegistryBounded
<1>12. ASSUME NEW c \in Conns, ConnectFails(c) PROVE TypeOK'
  <2>1. /\ phase' \in [Conns -> Phases]
        /\ cmds' \in [Conns -> Seq(Commands)]
        /\ known' \subseteq Peers
    <3>1. DropReceiver(c, "done") /\ known' = known \ {peer[c]} /\ "done" \in Phases
      BY <1>12 DEF ConnectFails, Phases
    <3> QED
      BY <1>0, <3>1, DropReceiverTypes DEF TypeOK
  <2> QED
    BY <1>12, <1>0, <2>1 DEF ConnectFails, TypeOK
<1>13. ASSUME NEW c \in Conns, AcceptFails(c) PROVE TypeOK'
  BY <1>13, <1>0 DEF AcceptFails, TypeOK, Phases
<1>14. ASSUME NEW c \in Conns, NEW p \in Peers, CheckId(c, p) PROVE TypeOK'
  BY <1>14, <1>0 DEF CheckId, TypeOK, Phases
<1>15. ASSUME NEW c \in Conns, Read(c) PROVE TypeOK'
  <2>1. nread[c] + 1 \in 0..MaxReads
    <3>1. nread[c] \in 0..MaxReads
      BY <1>0 DEF TypeOK
    <3>2. nread[c] < MaxReads
      BY <1>15 DEF Read
    <3> QED
      BY <3>1, <3>2
  <2>2. /\ nread' \in [Conns -> 0..MaxReads]
        /\ hand' \in [Conns -> 0..MaxReads]
    BY <1>15, <1>0, <2>1 DEF Read, TypeOK
  <2> QED
    BY <1>15, <1>0, <2>2 DEF Read, TypeOK
<1>16. ASSUME NEW c \in Conns, Enqueue(c) PROVE TypeOK'
  <2> DEFINE m == [from |-> peer[c], conn |-> c, num |-> hand[c]]
  <2>1. peer[c] \in Peers /\ hand[c] \in 1..MaxReads
    BY <1>16, <1>0 DEF Enqueue, TypeOK, ControlOK
  <2>2. m \in Inbound
    BY <2>1 DEF Inbound
  <2>3. queue' \in Seq(Inbound)
    BY <1>16, <1>0, <2>2 DEF Enqueue, TypeOK
  <2>4. hand' \in [Conns -> 0..MaxReads]
    BY <1>16, <1>0 DEF Enqueue, TypeOK
  <2> QED
    BY <1>16, <1>0, <2>3, <2>4 DEF Enqueue, TypeOK
<1>17. ASSUME NEW c \in Conns, EnqueueFails(c) PROVE TypeOK'
  <2>1. phase' \in [Conns -> Phases] /\ cmds' \in [Conns -> Seq(Commands)]
    <3>1. DropReceiver(c, "closing") /\ "closing" \in Phases
      BY <1>17 DEF EnqueueFails, Phases
    <3> QED
      BY <1>0, <3>1, DropReceiverTypes
  <2>2. hand' \in [Conns -> 0..MaxReads]
    BY <1>17, <1>0 DEF EnqueueFails, TypeOK
  <2> QED
    BY <1>17, <1>0, <2>1, <2>2 DEF EnqueueFails, TypeOK
<1>18. ASSUME NEW c \in Conns, TakeCommand(c) PROVE TypeOK'
  <2>1. cmds[c] \in Seq(Commands) /\ cmds[c] # <<>>
    BY <1>18, <1>0 DEF TakeCommand, TypeOK
  <2>2. Head(cmds[c]).msgs \in Seq(Messages) /\ Tail(cmds[c]) \in Seq(Commands)
    <3>1. Head(cmds[c]) \in Commands /\ Tail(cmds[c]) \in Seq(Commands)
      BY <2>1
    <3> QED
      BY <3>1 DEF Commands
  <2>3. writing' \in [Conns -> Seq(Messages)] /\ cmds' \in [Conns -> Seq(Commands)]
    BY <1>18, <1>0, <2>2 DEF TakeCommand, TypeOK
  <2> QED
    BY <1>18, <1>0, <2>3 DEF TakeCommand, TypeOK
<1>19. ASSUME NEW c \in Conns, WriteMessage(c) PROVE TypeOK'
  <2>1. writing[c] \in Seq(Messages) /\ writing[c] # <<>> /\ wire[c] \in Seq(Messages)
    BY <1>19, <1>0 DEF WriteMessage, TypeOK
  <2>2. /\ Tail(writing[c]) \in Seq(Messages)
        /\ Append(wire[c], Head(writing[c])) \in Seq(Messages)
    BY <2>1
  <2>3. writing' \in [Conns -> Seq(Messages)] /\ wire' \in [Conns -> Seq(Messages)]
    BY <1>19, <1>0, <2>2 DEF WriteMessage, TypeOK
  <2> QED
    BY <1>19, <1>0, <2>3 DEF WriteMessage, TypeOK
<1>20. ASSUME NEW c \in Conns, WriteFails(c) PROVE TypeOK'
  <2>1. writing' \in [Conns -> Seq(Messages)]
    <3>1. <<>> \in Seq(Messages)
      OBVIOUS
    <3> QED
      BY <1>20, <1>0, <3>1 DEF WriteFails, TypeOK
  <2> QED
    BY <1>20, <1>0, <2>1 DEF WriteFails, TypeOK
<1>21. ASSUME NEW c \in Conns, Disconnected(c) PROVE TypeOK'
  <2>1. phase' \in [Conns -> Phases] /\ cmds' \in [Conns -> Seq(Commands)]
    <3>1. DropReceiver(c, "closing") /\ "closing" \in Phases
      BY <1>21 DEF Disconnected, Phases
    <3> QED
      BY <1>0, <3>1, DropReceiverTypes
  <2> QED
    BY <1>21, <1>0, <2>1 DEF Disconnected, TypeOK
<1>22. ASSUME NEW c \in Conns, NoMoreCommands(c) PROVE TypeOK'
  <2>1. phase' \in [Conns -> Phases] /\ cmds' \in [Conns -> Seq(Commands)]
    <3>1. DropReceiver(c, "closing") /\ "closing" \in Phases
      BY <1>22 DEF NoMoreCommands, Phases
    <3> QED
      BY <1>0, <3>1, DropReceiverTypes
  <2> QED
    BY <1>22, <1>0, <2>1 DEF NoMoreCommands, TypeOK
<1>23. ASSUME NEW c \in Conns, Unregister(c) PROVE TypeOK'
  BY <1>23, <1>0, PopProperties DEF Unregister, TypeOK, Phases, RegistryBounded
<1>24. ASSUME UNCHANGED vars PROVE TypeOK'
  BY <1>24, <1>0 DEF vars, TypeOK
<1> QED
  BY <1>1, <1>2, <1>3, <1>4, <1>5, <1>6, <1>7, <1>8, <1>9, <1>10, <1>11, <1>12, <1>13,
     <1>14, <1>15, <1>16, <1>17, <1>18, <1>19, <1>20, <1>21, <1>22,
     <1>23, <1>24
  DEF Next, RunnerNext, TaskNext

(* What the control state implies survives every step.                     *)
LEMMA ControlStep == ConnectionsInv /\ [Next]_vars => ControlOK'
<1> SUFFICES ASSUME ConnectionsInv, [Next]_vars PROVE ControlOK'
  OBVIOUS
<1> USE DEF ConnectionsInv, registry, tasks, inbound, runner, outbound
<1>0. TypeOK /\ ControlOK
  OBVIOUS
<1>1. ASSUME NEW p \in Peers, SendGossips(p) PROVE ControlOK'
  BY <1>1, <1>0 DEF SendGossips, StartSending, ControlOK
<1>2. ASSUME NEW p \in Peers, ReceiveGossip(p) PROVE ControlOK'
  BY <1>2, <1>0 DEF ReceiveGossip, TakeMessage, ControlOK
<1>3. ASSUME GetOrConnect PROVE ControlOK'
  <2>1. nodes # <<>> /\ Head(nodes) \in Peers
    BY <1>3, <1>0 DEF GetOrConnect, TypeOK, ControlOK
  <2>2. CASE UseEntry(Head(nodes), payload) /\ UNCHANGED tasks
    BY <1>3, <1>0, <2>1, <2>2, UseEntryTypes DEF GetOrConnect, TypeOK, ControlOK
  <2>3. CASE Relock(Head(nodes)) /\ UNCHANGED tasks
    BY <1>3, <1>0, <2>3 DEF GetOrConnect, Relock, ControlOK
  <2>4. CASE Dial(Head(nodes)) /\ UNCHANGED to
    BY <1>3, <1>0, <2>1, <2>4 DEF GetOrConnect, Dial, TypeOK, ControlOK
  <2> QED
    BY <1>3, <2>2, <2>3, <2>4 DEF GetOrConnect
<1>4. ASSUME PushCommand PROVE ControlOK'
  <2>1. nodes \in Seq(Peers) /\ nodes # <<>>
    BY <1>4, <1>0 DEF PushCommand, TypeOK, ControlOK
  <2>2. Len(nodes) > 1 => nodes' # <<>>
    <3> DEFINE n == Len(nodes)
               k == Len(Tail(nodes))
    <3>1. k = n - 1 /\ n \in Nat
      BY <2>1
    <3> HIDE DEF n, k
    <3>2. n > 1 => k # 0
      BY <3>1
    <3>3. nodes' = Tail(nodes) /\ Len(<<>>) = 0
      BY <1>4 DEF PushCommand, NextNode
    <3> QED
      BY <3>2, <3>3 DEF n, k
  <2>3. pc' \in {"nodes", "replying", "select"} /\ (pc' = "replying" => from # NoPeer)
        /\ (pc' = "nodes" => Len(nodes) > 1) /\ from' = from
    BY <1>4 DEF PushCommand, NextNode
  <2> QED
    BY <1>4, <1>0, <2>2, <2>3 DEF PushCommand, TypeOK, ControlOK
<1>5. ASSUME ReceiveTopic PROVE ControlOK'
  <2>1. CASE UNCHANGED <<pc, nodes, payload, issued>>
    BY <1>5, <1>0, <2>1 DEF ReceiveTopic, TakeMessage, ControlOK
  <2>2. ASSUME NEW view \in Views, StartSending(view, 1) PROVE ControlOK'
    BY <1>5, <1>0, <2>2, ViewsAreSequences
    DEF ReceiveTopic, TakeMessage, StartSending, TypeOK, ControlOK
  <2> QED
    BY <1>5, <2>1, <2>2 DEF ReceiveTopic
<1>6. ASSUME ReceiveQuery PROVE ControlOK'
  BY <1>6, <1>0, TakeMessageTypes DEF ReceiveQuery, TakeMessage, ControlOK
<1>7. ASSUME Reply PROVE ControlOK'
  <2>1. from \in Peers /\ payload' \in Seq(Messages)
    BY <1>7, <1>0, TypeStep DEF Reply, ControlOK, TypeOK
  <2>2. CASE UseEntry(from, payload') /\ nodes' = <<from>>
    BY <1>7, <1>0, <2>1, <2>2, UseEntryTypes DEF Reply, ControlOK
  <2>3. CASE Relock(from) /\ UNCHANGED nodes
    BY <1>7, <1>0, <2>3 DEF Reply, Relock, ControlOK
  <2>4. CASE UNCHANGED <<to, nodes, target, addressed, pc>>
    BY <1>7, <1>0, <2>4 DEF Reply, ControlOK
  <2> QED
    BY <1>7, <2>2, <2>3, <2>4 DEF Reply
<1>8. ASSUME EndReplies PROVE ControlOK'
  BY <1>8, <1>0 DEF EndReplies, ControlOK
<1>9. ASSUME NEW c \in Conns, Accept(c) PROVE ControlOK'
  BY <1>9, <1>0 DEF Accept, TypeOK, ControlOK
<1>10. ASSUME Stop PROVE ControlOK'
  BY <1>10, <1>0 DEF Stop, ControlOK
<1>11. ASSUME NEW c \in Conns, Register(c) PROVE ControlOK'
  BY <1>11, <1>0 DEF Register, TypeOK, ControlOK
<1>12. ASSUME NEW c \in Conns, ConnectFails(c) PROVE ControlOK'
  BY <1>12, <1>0 DEF ConnectFails, DropReceiver, TypeOK, ControlOK
<1>13. ASSUME NEW c \in Conns, AcceptFails(c) PROVE ControlOK'
  BY <1>13, <1>0 DEF AcceptFails, TypeOK, ControlOK
<1>14. ASSUME NEW c \in Conns, NEW p \in Peers, CheckId(c, p) PROVE ControlOK'
  BY <1>14, <1>0 DEF CheckId, TypeOK, ControlOK
<1>15. ASSUME NEW c \in Conns, Read(c) PROVE ControlOK'
  BY <1>15, <1>0 DEF Read, Selecting, TypeOK, ControlOK
<1>16. ASSUME NEW c \in Conns, Enqueue(c) PROVE ControlOK'
  BY <1>16, <1>0 DEF Enqueue, TypeOK, ControlOK
<1>17. ASSUME NEW c \in Conns, EnqueueFails(c) PROVE ControlOK'
  BY <1>17, <1>0 DEF EnqueueFails, DropReceiver, TypeOK, ControlOK
<1>18. ASSUME NEW c \in Conns, TakeCommand(c) PROVE ControlOK'
  BY <1>18, <1>0 DEF TakeCommand, Selecting, TypeOK, ControlOK
<1>19. ASSUME NEW c \in Conns, WriteMessage(c) PROVE ControlOK'
  BY <1>19, <1>0 DEF WriteMessage, TypeOK, ControlOK
<1>20. ASSUME NEW c \in Conns, WriteFails(c) PROVE ControlOK'
  BY <1>20, <1>0 DEF WriteFails, TypeOK, ControlOK
<1>21. ASSUME NEW c \in Conns, Disconnected(c) PROVE ControlOK'
  BY <1>21, <1>0 DEF Disconnected, Selecting, DropReceiver, TypeOK, ControlOK
<1>22. ASSUME NEW c \in Conns, NoMoreCommands(c) PROVE ControlOK'
  BY <1>22, <1>0 DEF NoMoreCommands, Selecting, DropReceiver, TypeOK, ControlOK
<1>23. ASSUME NEW c \in Conns, Unregister(c) PROVE ControlOK'
  BY <1>23, <1>0 DEF Unregister, TypeOK, ControlOK
<1>24. ASSUME UNCHANGED vars PROVE ControlOK'
  BY <1>24, <1>0 DEF vars, ControlOK
<1> QED
  BY <1>1, <1>2, <1>3, <1>4, <1>5, <1>6, <1>7, <1>8, <1>9, <1>10, <1>11, <1>12, <1>13,
     <1>14, <1>15, <1>16, <1>17, <1>18, <1>19, <1>20, <1>21, <1>22,
     <1>23, <1>24
  DEF Next, RunnerNext, TaskNext

(* A step leaves the cache alone, moves an entry to its front, or is the   *)
(* registration or the end of a task.                                      *)
RegistryKept ==
    /\ \/ UNCHANGED to
       \/ \E p \in Peers : to' = Promote(to, p)
    /\ \A c \in Conns : phase[c] \in {"live", "closing"} =>
            phase'[c] \in {"live", "closing"} /\ peer'[c] = peer[c]

LEMMA RegistrySteps ==
    ASSUME ConnectionsInv, [Next]_vars
    PROVE  RegistryKept \/ \E c \in Conns : Register(c) \/ Unregister(c)
<1> USE DEF ConnectionsInv, registry, tasks, inbound, runner, outbound
<1>0. TypeOK /\ ControlOK
  OBVIOUS
<1>1. ASSUME NEW p \in Peers, SendGossips(p) \/ ReceiveGossip(p) PROVE RegistryKept
  BY <1>1 DEF SendGossips, ReceiveGossip, RegistryKept
<1>2. ASSUME GetOrConnect PROVE RegistryKept
  <2>1. Head(nodes) \in Peers
    BY <1>2, <1>0 DEF GetOrConnect, TypeOK, ControlOK
  <2>2. CASE Dial(Head(nodes)) /\ UNCHANGED to
    BY <1>0, <2>2 DEF Dial, TypeOK, RegistryKept
  <2> QED
    BY <1>2, <2>1, <2>2 DEF GetOrConnect, UseEntry, Relock, RegistryKept
<1>3. ASSUME PushCommand PROVE RegistryKept
  BY <1>3 DEF PushCommand, RegistryKept
<1>4. ASSUME ReceiveTopic \/ ReceiveQuery \/ EndReplies \/ Stop PROVE RegistryKept
  BY <1>4 DEF ReceiveTopic, ReceiveQuery, EndReplies, Stop, RegistryKept
<1>5. ASSUME Reply PROVE RegistryKept
  BY <1>5, <1>0 DEF Reply, UseEntry, Relock, TypeOK, ControlOK, RegistryKept
<1>6. ASSUME NEW c \in Conns, Accept(c) PROVE RegistryKept
  BY <1>6, <1>0 DEF Accept, TypeOK, RegistryKept
<1>7. ASSUME NEW c \in Conns, ConnectFails(c) \/ AcceptFails(c) PROVE RegistryKept
  BY <1>7, <1>0 DEF ConnectFails, AcceptFails, DropReceiver, TypeOK, RegistryKept
<1>8. ASSUME NEW c \in Conns, NEW p \in Peers, CheckId(c, p) PROVE RegistryKept
  BY <1>8, <1>0 DEF CheckId, TypeOK, RegistryKept
<1>9. ASSUME NEW c \in Conns,
             Read(c) \/ Enqueue(c) \/ TakeCommand(c) \/ WriteMessage(c) \/ WriteFails(c)
      PROVE  RegistryKept
  BY <1>9 DEF Read, Enqueue, TakeCommand, WriteMessage, WriteFails, RegistryKept
<1>10. ASSUME NEW c \in Conns, EnqueueFails(c) \/ Disconnected(c) \/ NoMoreCommands(c)
       PROVE RegistryKept
  BY <1>10, <1>0 DEF EnqueueFails, Disconnected, NoMoreCommands, DropReceiver, TypeOK,
     RegistryKept
<1>11. ASSUME UNCHANGED vars PROVE RegistryKept
  BY <1>11 DEF vars, RegistryKept
<1> QED
  BY <1>1, <1>2, <1>3, <1>4, <1>5, <1>6, <1>7, <1>8, <1>9, <1>10, <1>11
  DEF Next, RunnerNext, TaskNext

(* The entries stay authentic.                                             *)
LEMMA AuthenticStep == ConnectionsInv /\ [Next]_vars => RegistryAuthentic'
<1> SUFFICES ASSUME ConnectionsInv, [Next]_vars PROVE RegistryAuthentic'
  OBVIOUS
<1>0. /\ to \in Seq(Entries(Peers, Conns)) /\ UniqueKeys(to) /\ Len(to) <= MaxOpened
      /\ RegistryAuthentic
      /\ phase \in [Conns -> Phases] /\ peer \in [Conns -> Peers \cup {NoPeer}]
      /\ \A i \in 1..Len(to) : to[i].val \in Conns
  <2>1. /\ to \in Seq(Entries(Peers, Conns))
        /\ phase \in [Conns -> Phases] /\ peer \in [Conns -> Peers \cup {NoPeer}]
    BY DEF ConnectionsInv, TypeOK
  <2>2. ASSUME NEW i \in 1..Len(to) PROVE to[i].val \in Conns
    <3>1. to[i] \in Entries(Peers, Conns)
      BY <2>1
    <3> QED
      BY <3>1 DEF Entries
  <2> QED
    BY <2>1, <2>2 DEF ConnectionsInv, RegistryBounded
<1>1. CASE RegistryKept
  <2>1. \A i \in 1..Len(to') : \E j \in 1..Len(to) : to'[i] = to[j]
    BY <1>0, <1>1, PromoteProperties DEF RegistryKept
  <2> QED
    BY <1>0, <1>1, <2>1 DEF RegistryKept, RegistryAuthentic
<1>2. ASSUME NEW c \in Conns, Register(c) PROVE RegistryAuthentic'
  <2>1. peer[c] \in Peers
    BY <1>2 DEF ConnectionsInv, ControlOK, Register
  <2>2. /\ to'[1] = [key |-> peer[c], val |-> c]
        /\ \A j \in 2..Len(to') : \E m \in 1..Len(to) : to'[j] = to[m]
        /\ Len(to') \in Nat
    BY <1>0, <1>2, <2>1, PutProperties DEF Register
  <2>3. phase'[c] = "live" /\ peer' = peer
    BY <1>0, <1>2 DEF Register, tasks
  <2>4. \A d \in Conns : d # c => phase'[d] = phase[d]
    BY <1>0, <1>2 DEF Register
  <2>5. \A m \in 1..Len(to) : to[m].val # c
    BY <1>0, <1>2 DEF Register, RegistryAuthentic
  <2>6. ASSUME NEW j \in 2..Len(to')
        PROVE  phase'[to'[j].val] \in {"live", "closing"} /\ peer'[to'[j].val] = to'[j].key
    <3>1. PICK m \in 1..Len(to) : to'[j] = to[m]
      BY <2>2
    <3> QED
      BY <1>0, <2>3, <2>4, <2>5, <3>1 DEF RegistryAuthentic
  <2>7. phase'[to'[1].val] \in {"live", "closing"} /\ peer'[to'[1].val] = to'[1].key
    BY <2>2, <2>3
  <2> QED
    BY <2>2, <2>6, <2>7 DEF RegistryAuthentic
<1>3. ASSUME NEW c \in Conns, Unregister(c) PROVE RegistryAuthentic'
  <2>1. \A j \in 1..Len(to') : /\ to'[j].key # peer[c]
                               /\ \E m \in 1..Len(to) : to'[j] = to[m]
    BY <1>0, <1>3, PopProperties DEF Unregister
  <2>2. peer' = peer /\ \A d \in Conns : d # c => phase'[d] = phase[d]
    BY <1>0, <1>3 DEF Unregister
  <2>3. ASSUME NEW j \in 1..Len(to')
        PROVE  phase'[to'[j].val] \in {"live", "closing"} /\ peer'[to'[j].val] = to'[j].key
    <3>1. PICK m \in 1..Len(to) : to'[j] = to[m]
      BY <2>1
    <3>2. to[m].val # c
      BY <1>0, <2>1, <3>1 DEF RegistryAuthentic
    <3> QED
      BY <1>0, <2>2, <3>1, <3>2 DEF RegistryAuthentic
  <2> QED
    BY <2>3 DEF RegistryAuthentic
<1> QED
  BY <1>1, <1>2, <1>3, RegistrySteps

(* The cache keeps one entry per key and per connection, within its bound. *)
LEMMA BoundedStep ==
    ConnectionsInv /\ [Next]_vars /\ TypeOK' /\ RegistryAuthentic' => RegistryBounded'
<1> SUFFICES ASSUME ConnectionsInv, [Next]_vars, TypeOK', RegistryAuthentic'
             PROVE  RegistryBounded'
  OBVIOUS
<1>0. to \in Seq(Entries(Peers, Conns)) /\ UniqueKeys(to) /\ Len(to) <= MaxOpened
  BY DEF ConnectionsInv, TypeOK, RegistryBounded
<1>1. UniqueKeys(to') /\ Len(to') <= MaxOpened
  <2>1. CASE RegistryKept
    BY <1>0, <2>1, PromoteProperties DEF RegistryKept
  <2>2. ASSUME NEW c \in Conns, Register(c) PROVE UniqueKeys(to') /\ Len(to') <= MaxOpened
    <3>1. peer[c] \in Peers
      BY <2>2 DEF ConnectionsInv, ControlOK, Register
    <3> QED
      BY <1>0, <2>2, <3>1, PutProperties DEF Register
  <2>3. ASSUME NEW c \in Conns, Unregister(c) PROVE UniqueKeys(to') /\ Len(to') <= MaxOpened
    <3>1. UniqueKeys(to') /\ Len(to') <= Len(to) /\ Len(to') \in Nat /\ Len(to) \in Nat
      BY <1>0, <2>3, PopProperties DEF Unregister
    <3> QED
      BY <1>0, <3>1
  <2> QED
    BY <2>1, <2>2, <2>3, RegistrySteps
<1>2. \A i, j \in 1..Len(to') : to'[i].val = to'[j].val => i = j
  BY <1>1 DEF RegistryAuthentic, UniqueKeys
<1> QED
  BY <1>1, <1>2 DEF RegistryBounded, UniqueKeys

LEMMA StepInv == ConnectionsInv /\ [Next]_vars => ConnectionsInv'
BY TypeStep, ControlStep, AuthenticStep, BoundedStep DEF ConnectionsInv

(* Every reachable state of the connections is well typed.                 *)
THEOREM ConnectionsTypeCorrect == Spec => []TypeOK
<1>1. ConnectionsInv => TypeOK
  BY DEF ConnectionsInv
<1> QED
  BY <1>1, InitInv, StepInv, PTL DEF Spec

(* In every reachable state the entries of `to` lead to connections of the *)
(* peer they are filed under that have not ended: whatever connect,        *)
(* accept, get_or_connect and the tasks of connections.rs do, in whatever  *)
(* order.                                                                  *)
THEOREM RegistryIsAuthentic == Spec => []RegistryAuthentic
<1>1. ConnectionsInv => RegistryAuthentic
  BY DEF ConnectionsInv
<1> QED
  BY <1>1, InitInv, StepInv, PTL DEF Spec

(* What a step does to one entry: it stays, or has a reason to leave.      *)
LEMMA EntriesStayOrLeave ==
    ASSUME ConnectionsInv, [Next]_vars, NEW i \in 1..Len(to)
    PROVE  \/ \E j \in 1..Len(to') : to'[j] = to[i]
           \/ \E c \in Conns : /\ peer[c] = to[i].key
                               /\ phase[c] = "closing" /\ phase'[c] = "done"
           \/ HasKey(to', to[i].key)
           \/ i = MaxOpened /\ Len(to) = MaxOpened /\ Len(to') = MaxOpened
<1>0. /\ to \in Seq(Entries(Peers, Conns)) /\ UniqueKeys(to) /\ Len(to) <= MaxOpened
      /\ phase \in [Conns -> Phases]
  BY DEF ConnectionsInv, TypeOK, RegistryBounded
<1>1. CASE RegistryKept
  <2>1. CASE UNCHANGED to
    BY <2>1
  <2>2. ASSUME NEW p \in Peers, to' = Promote(to, p)
        PROVE  \E j \in 1..Len(to') : to'[j] = to[i]
    BY <1>0, <2>2, PromoteKeeps
  <2> QED
    BY <1>1, <2>1, <2>2 DEF RegistryKept
<1>2. ASSUME NEW c \in Conns, Register(c)
      PROVE  \/ \E j \in 1..Len(to') : to'[j] = to[i]
             \/ HasKey(to', to[i].key)
             \/ i = MaxOpened /\ Len(to) = MaxOpened /\ Len(to') = MaxOpened
  <2>1. peer[c] \in Peers /\ to' = Put(to, peer[c], c, MaxOpened)
    BY <1>2 DEF ConnectionsInv, ControlOK, Register
  <2>2. CASE to[i].key = peer[c]
    <3>1. to'[1] = [key |-> peer[c], val |-> c] /\ 1 \in 1..Len(to')
      BY <1>0, <2>1, PutProperties
    <3> QED
      BY <2>2, <3>1 DEF HasKey
  <2>3. CASE to[i].key # peer[c]
    BY <1>0, <2>1, <2>3, PutEvictsLast
  <2> QED
    BY <2>2, <2>3
<1>3. ASSUME NEW c \in Conns, Unregister(c)
      PROVE  \/ \E j \in 1..Len(to') : to'[j] = to[i]
             \/ peer[c] = to[i].key /\ phase[c] = "closing" /\ phase'[c] = "done"
  <2>1. CASE to[i].key = peer[c]
    BY <1>0, <1>3, <2>1 DEF Unregister
  <2>2. CASE to[i].key # peer[c]
    BY <1>0, <1>3, <2>2, PopKeeps DEF Unregister
  <2> QED
    BY <2>1, <2>2
<1> QED
  BY <1>1, <1>2, <1>3, RegistrySteps

(* An entry leaves only because the task of a connection with that peer    *)
(* ended, a newer connection took its place, or the cache was full and it  *)
(* was the least recently used.                                            *)
THEOREM ConnectionsEntriesLeave == Spec => EntriesLeaveForAReason
<1>1. ConnectionsInv /\ [Next]_vars =>
        [ \A i \in 1..Len(to) :
            LET e == to[i]
                kept == \E j \in 1..Len(to') : to'[j] = e
                ended == \E c \in Conns : /\ peer[c] = e.key
                                          /\ phase[c] = "closing" /\ phase'[c] = "done"
                replaced == HasKey(to', e.key)
                evicted == /\ i = MaxOpened /\ Len(to) = MaxOpened
                           /\ Len(to') = MaxOpened
            IN  kept \/ ended \/ replaced \/ evicted ]_vars
  BY EntriesStayOrLeave
<1>2. Init => ConnectionsInv
  BY InitInv
<1>3. ConnectionsInv /\ [Next]_vars => ConnectionsInv'
  BY StepInv
<1> QED
  BY <1>1, <1>2, <1>3, PTL DEF Spec, EntriesLeaveForAReason

----------------------------------------------------------------------------
(* The commands.                                                           *)

Unbound == {"unused", "accepting"}

(* Nobody can send to a connection before it has a peer; after that the    *)
(* peer of the connection is settled.                                      *)
ReachInv ==
    /\ CommandsReachTheirPeer
    /\ \A c \in Conns : phase[c] \in Unbound => cmds[c] = <<>>
    /\ pc = "sending" => phase[target] \notin Unbound

(* Steps that bind no connection, start no send, and leave in a channel at *)
(* most what is in it.                                                     *)
LEMMA ReachKept ==
    ASSUME ConnectionsInv, ReachInv, peer' = peer,
           \A c \in Conns : phase'[c] \in Unbound => phase[c] \in Unbound,
           \A c \in Conns : \/ cmds'[c] = cmds[c]
                            \/ cmds'[c] = <<>>
                            \/ cmds[c] # <<>> /\ cmds'[c] = Tail(cmds[c]),
           pc' = "sending" => pc = "sending" /\ target' = target /\ nodes' = nodes
    PROVE  ReachInv'
<1>1. cmds \in [Conns -> Seq(Commands)] /\ (pc = "sending" => target \in Conns)
  BY DEF ConnectionsInv, TypeOK, ControlOK
<1>2. ASSUME NEW c \in Conns, NEW i \in 1..Len(cmds'[c])
      PROVE  cmds'[c][i].to = peer'[c]
  <2>1. cmds[c] \in Seq(Commands)
    BY <1>1
  <2>2. CASE cmds'[c] = cmds[c]
    BY <1>2, <2>2 DEF ReachInv, CommandsReachTheirPeer
  <2>3. CASE cmds'[c] = <<>>
    BY <1>2, <2>3
  <2>4. CASE cmds[c] # <<>> /\ cmds'[c] = Tail(cmds[c])
    <3>1. i + 1 \in 1..Len(cmds[c]) /\ cmds'[c][i] = cmds[c][i + 1]
      BY <1>2, <2>1, <2>4
    <3> QED
      BY <3>1 DEF ReachInv, CommandsReachTheirPeer
  <2> QED
    BY <2>2, <2>3, <2>4
<1>3. ASSUME NEW c \in Conns, phase'[c] \in Unbound
      PROVE  cmds'[c] = <<>>
  BY <1>3 DEF ReachInv
<1>4. ASSUME pc' = "sending"
      PROVE  peer'[target'] = Head(nodes') /\ phase'[target'] \notin Unbound
  BY <1>1, <1>4 DEF ReachInv, CommandsReachTheirPeer
<1>5. CommandsReachTheirPeer'
  BY <1>2, <1>4 DEF CommandsReachTheirPeer
<1>6. \A c \in Conns : phase'[c] \in Unbound => cmds'[c] = <<>>
  BY <1>3
<1> QED
  BY <1>4, <1>5, <1>6 DEF ReachInv, Unbound

(* An entry found under the lock leads to a connection with the peer.      *)
LEMMA UseEntryReaches ==
    ASSUME ConnectionsInv, NEW p \in Peers, NEW msgs, UseEntry(p, msgs)
    PROVE  target' \in Conns /\ peer[target'] = p /\ phase[target'] \notin Unbound
<1> DEFINE i == Index(to, p)
<1>1. /\ to \in Seq(Entries(Peers, Conns))
      /\ HasKey(to, p)
  BY DEF ConnectionsInv, TypeOK, UseEntry
<1>2. i \in 1..Len(to) /\ to[i].key = p /\ to[i] \in Entries(Peers, Conns)
  BY <1>1, IndexFinds
<1>3. target' = to[i].val
  BY DEF UseEntry, Lookup
<1>4. to[i].val \in Conns
  BY <1>2 DEF Entries
<1> HIDE DEF i
<1>5. phase[to[i].val] \in {"live", "closing"} /\ peer[to[i].val] = to[i].key
  BY <1>2 DEF ConnectionsInv, RegistryAuthentic
<1> QED
  BY <1>2, <1>3, <1>4, <1>5 DEF Unbound

LEMMA ReachStep == ConnectionsInv /\ ReachInv /\ [Next]_vars => ReachInv'
<1> SUFFICES ASSUME ConnectionsInv, ReachInv, [Next]_vars PROVE ReachInv'
  OBVIOUS
<1> USE DEF registry, tasks, inbound, runner, outbound
<1>0. /\ phase \in [Conns -> Phases]
      /\ peer \in [Conns -> Peers \cup {NoPeer}]
      /\ cmds \in [Conns -> Seq(Commands)]
      /\ nodes \in Seq(Peers)
      /\ payload \in Seq(Messages)
      /\ pc \in {"nodes", "sending"} => nodes # <<>>
      /\ pc = "sending" => target \in Conns
      /\ pc = "replying" => from \in Peers
  BY DEF ConnectionsInv, TypeOK, ControlOK
<1>1. ASSUME UNCHANGED <<phase, peer, cmds>>,
             pc' # "sending" \/ UNCHANGED <<pc, target, nodes>>
      PROVE  ReachInv'
  BY <1>1, ReachKept
<1>2. ASSUME NEW p \in Peers, SendGossips(p) \/ ReceiveGossip(p) PROVE ReachInv'
  BY <1>1, <1>2 DEF SendGossips, StartSending, ReceiveGossip, TakeMessage
<1>3. ASSUME GetOrConnect PROVE ReachInv'
  <2> DEFINE p == Head(nodes)
  <2>1. p \in Peers
    BY <1>0, <1>3 DEF GetOrConnect
  <2>2. CASE UseEntry(p, payload) /\ UNCHANGED tasks
    <3>1. target' \in Conns /\ peer[target'] = p /\ phase[target'] \notin Unbound
      BY <2>1, <2>2, UseEntryReaches
    <3>2. UNCHANGED <<phase, peer, cmds, nodes>>
      BY <1>3, <2>2 DEF GetOrConnect
    <3> QED
      BY <3>1, <3>2 DEF ReachInv, CommandsReachTheirPeer, Unbound
  <2>3. CASE Relock(p) /\ UNCHANGED tasks
    BY <1>1, <1>3, <2>3 DEF GetOrConnect, Relock
  <2>4. CASE Dial(p) /\ UNCHANGED to
    <3>1. PICK c \in Conns :
              /\ phase[c] = "unused"
              /\ phase' = [phase EXCEPT ![c] = "connecting"]
              /\ peer' = [peer EXCEPT ![c] = p]
              /\ target' = c
      BY <2>4 DEF Dial
    <3>2. UNCHANGED <<cmds, nodes>>
      BY <1>3 DEF GetOrConnect
    <3>3. cmds[c] = <<>>
      BY <3>1 DEF ReachInv, Unbound
    <3>4. peer'[c] = p /\ phase'[c] = "connecting"
      BY <1>0, <3>1
    <3>5. \A d \in Conns : d # c => peer'[d] = peer[d] /\ phase'[d] = phase[d]
      BY <1>0, <3>1
    <3>6. \A d \in Conns : \A i \in 1..Len(cmds'[d]) : cmds'[d][i].to = peer'[d]
      BY <3>2, <3>3, <3>5 DEF ReachInv, CommandsReachTheirPeer
    <3>7. \A d \in Conns : phase'[d] \in Unbound => cmds'[d] = <<>>
      BY <3>2, <3>3, <3>5 DEF ReachInv
    <3>8. peer'[target'] = Head(nodes') /\ phase'[target'] \notin Unbound
      BY <3>1, <3>2, <3>4 DEF Unbound
    <3> QED
      BY <3>6, <3>7, <3>8 DEF ReachInv, CommandsReachTheirPeer, Unbound
  <2> QED
    BY <1>3, <2>2, <2>3, <2>4 DEF GetOrConnect
<1>4. ASSUME PushCommand PROVE ReachInv'
  <2>1. UNCHANGED <<phase, peer>> /\ pc' # "sending"
    BY <1>4 DEF PushCommand, NextNode
  <2>2. CASE UNCHANGED cmds
    BY <1>1, <2>1, <2>2
  <2>3. CASE cmds' = [cmds EXCEPT ![target] =
                          Append(cmds[target], [to |-> Head(nodes), msgs |-> payload])]
    <3> DEFINE cmd == [to |-> Head(nodes), msgs |-> payload]
    <3>1. target \in Conns /\ Head(nodes) = peer[target] /\ phase[target] \notin Unbound
      BY <1>0, <1>4 DEF PushCommand, ReachInv, CommandsReachTheirPeer
    <3>2. cmd \in Commands
      BY <1>0, <1>4 DEF PushCommand, Commands
    <3>3. cmds[target] \in Seq(Commands)
      BY <1>0, <3>1
    <3>4. cmds'[target] = Append(cmds[target], cmd)
      BY <1>0, <2>3, <3>1
    <3>5. \A c \in Conns : c # target => cmds'[c] = cmds[c]
      BY <1>0, <2>3
    <3>6. cmd.to = peer[target]
      BY <3>1
    <3> HIDE DEF cmd
    <3>7. ASSUME NEW i \in 1..Len(cmds'[target]) PROVE cmds'[target][i].to = peer[target]
      <4>1. /\ Len(cmds'[target]) = Len(cmds[target]) + 1
            /\ \A j \in 1..Len(cmds[target]) : cmds'[target][j] = cmds[target][j]
            /\ cmds'[target][Len(cmds[target]) + 1] = cmd
        BY <3>2, <3>3, <3>4, AppendProperties
      <4>2. Len(cmds[target]) \in Nat
        BY <3>3
      <4>3. i \in 1..Len(cmds[target]) \/ i = Len(cmds[target]) + 1
        BY <3>7, <4>1, <4>2
      <4>4. \A j \in 1..Len(cmds[target]) : cmds[target][j].to = peer[target]
        BY <3>1 DEF ReachInv, CommandsReachTheirPeer
      <4> QED
        BY <3>6, <4>1, <4>3, <4>4
    <3>8. \A c \in Conns : \A i \in 1..Len(cmds'[c]) : cmds'[c][i].to = peer[c]
      BY <3>5, <3>7 DEF ReachInv, CommandsReachTheirPeer
    <3>9. \A c \in Conns : phase[c] \in Unbound => cmds'[c] = <<>>
      BY <3>1, <3>5 DEF ReachInv
    <3> QED
      BY <2>1, <3>8, <3>9 DEF ReachInv, CommandsReachTheirPeer
  <2> QED
    BY <1>4, <2>2, <2>3 DEF PushCommand
<1>5. ASSUME ReceiveTopic \/ ReceiveQuery PROVE ReachInv'
  BY <1>1, <1>5 DEF ReceiveTopic, ReceiveQuery, StartSending, TakeMessage
<1>6. ASSUME Reply PROVE ReachInv'
  <2>1. UNCHANGED <<phase, peer, cmds>> /\ from \in Peers
    BY <1>0, <1>6 DEF Reply
  <2>2. CASE UseEntry(from, payload') /\ nodes' = <<from>>
    <3>1. target' \in Conns /\ peer[target'] = from /\ phase[target'] \notin Unbound
      BY <2>1, <2>2, UseEntryReaches
    <3>2. Head(nodes') = from
      BY <2>2
    <3> QED
      BY <2>1, <3>1, <3>2 DEF ReachInv, CommandsReachTheirPeer, Unbound
  <2>3. CASE Relock(from)
    BY <1>1, <2>1, <2>3 DEF Relock
  <2>4. CASE UNCHANGED <<to, nodes, target, addressed, pc>>
    BY <1>1, <2>1, <2>4
  <2> QED
    BY <1>6, <2>2, <2>3, <2>4 DEF Reply
<1>7. ASSUME EndReplies \/ Stop PROVE ReachInv'
  BY <1>1, <1>7 DEF EndReplies, Stop
<1>8. ASSUME NEW c \in Conns,
             Accept(c) \/ Register(c) \/ AcceptFails(c) \/ Unregister(c)
      PROVE  ReachInv'
  <2>1. /\ \E ph \in Phases : phase' = [phase EXCEPT ![c] = ph]
        /\ phase'[c] \in Unbound => phase[c] \in Unbound
    BY <1>0, <1>8 DEF Accept, Register, AcceptFails, Unregister, Phases, Unbound
  <2>2. \A d \in Conns : phase'[d] \in Unbound => phase[d] \in Unbound
    BY <1>0, <2>1
  <2>3. UNCHANGED <<peer, cmds, pc, target, nodes>>
    BY <1>8 DEF Accept, Register, AcceptFails, Unregister
  <2> QED
    BY <2>2, <2>3, ReachKept
<1>9. ASSUME NEW c \in Conns,
             ConnectFails(c) \/ EnqueueFails(c) \/ Disconnected(c) \/ NoMoreCommands(c)
      PROVE  ReachInv'
  <2>1. DropReceiver(c, "done") \/ DropReceiver(c, "closing")
    BY <1>9 DEF ConnectFails, EnqueueFails, Disconnected, NoMoreCommands
  <2>2. \A d \in Conns : /\ phase'[d] \in Unbound => phase[d] \in Unbound
                         /\ cmds'[d] = cmds[d] \/ cmds'[d] = <<>>
    BY <1>0, <2>1 DEF DropReceiver, Unbound
  <2>3. UNCHANGED <<peer, pc, target, nodes>>
    BY <1>9 DEF ConnectFails, EnqueueFails, Disconnected, NoMoreCommands
  <2> QED
    BY <2>2, <2>3, ReachKept
<1>10. ASSUME NEW c \in Conns, NEW p \in Peers, CheckId(c, p) PROVE ReachInv'
  <2>1. /\ phase[c] = "accepting"
        /\ peer' = [peer EXCEPT ![c] = p]
        /\ UNCHANGED <<cmds, pc, target, nodes>>
    BY <1>10 DEF CheckId
  <2>2. \A d \in Conns : d # c => peer'[d] = peer[d] /\ phase'[d] = phase[d]
    BY <1>0, <1>10 DEF CheckId
  <2>3. phase'[c] \notin Unbound
    BY <1>0, <1>10 DEF CheckId, Unbound
  <2>4. cmds[c] = <<>> /\ (pc = "sending" => target # c)
    BY <2>1 DEF ReachInv, Unbound
  <2>5. \A d \in Conns : \A i \in 1..Len(cmds'[d]) : cmds'[d][i].to = peer'[d]
    BY <2>1, <2>2, <2>4 DEF ReachInv, CommandsReachTheirPeer
  <2>6. \A d \in Conns : phase'[d] \in Unbound => cmds'[d] = <<>>
    BY <2>1, <2>2, <2>3 DEF ReachInv
  <2>7. pc' = "sending" => peer'[target'] = Head(nodes') /\ phase'[target'] \notin Unbound
    BY <1>0, <2>1, <2>2, <2>4 DEF ReachInv, CommandsReachTheirPeer
  <2> QED
    BY <2>5, <2>6, <2>7 DEF ReachInv, CommandsReachTheirPeer, Unbound
<1>11. ASSUME NEW c \in Conns, Read(c) \/ Enqueue(c) \/ WriteMessage(c) \/ WriteFails(c)
       PROVE  ReachInv'
  BY <1>1, <1>11 DEF Read, Enqueue, WriteMessage, WriteFails
<1>12. ASSUME NEW c \in Conns, TakeCommand(c) PROVE ReachInv'
  <2>1. cmds[c] # <<>> /\ cmds' = [cmds EXCEPT ![c] = Tail(cmds[c])]
    BY <1>12 DEF TakeCommand
  <2>2. \A d \in Conns : \/ cmds'[d] = cmds[d]
                         \/ cmds'[d] = <<>>
                         \/ cmds[d] # <<>> /\ cmds'[d] = Tail(cmds[d])
    <3>1. cmds'[c] = Tail(cmds[c])
      BY <1>0, <2>1
    <3>2. \A d \in Conns : d # c => cmds'[d] = cmds[d]
      BY <1>0, <2>1
    <3> QED
      BY <2>1, <3>1, <3>2
  <2>3. UNCHANGED <<phase, peer, pc, target, nodes>>
    BY <1>12 DEF TakeCommand
  <2> QED
    BY <2>2, <2>3, ReachKept
<1>13. ASSUME UNCHANGED vars PROVE ReachInv'
  BY <1>1, <1>13 DEF vars
<1> QED
  BY <1>2, <1>3, <1>4, <1>5, <1>6, <1>7, <1>8, <1>9, <1>10, <1>11, <1>12, <1>13
  DEF Next, RunnerNext, TaskNext

(* Whatever channel the runner sends into, and whatever happens to its     *)
(* entry while the send waits, every command in a channel and every send   *)
(* under way is for the peer of that connection.                           *)
THEOREM CommandsAreForTheirPeer == Spec => []CommandsReachTheirPeer
<1>1. Init => ReachInv
  BY DEF Init, ReachInv, CommandsReachTheirPeer
<1>2. ReachInv => CommandsReachTheirPeer
  BY DEF ReachInv
<1> QED
  BY <1>1, <1>2, InitInv, StepInv, ReachStep, PTL DEF Spec

----------------------------------------------------------------------------
(* The inbound messages.                                                   *)

(* A connection that is not with a peer yet has read nothing; and the      *)
(* runner that stopped dropped its queue.                                  *)
InInv ==
    /\ InboundInOrder
    /\ \A c \in Conns : phase[c] \in Unbound => nread[c] = 0
    /\ pc = "stopped" => queue = <<>>

(* The types the proofs about the inbound messages need.                   *)
LEMMA InTypes ==
    ASSUME ConnectionsInv
    PROVE  /\ phase \in [Conns -> Phases]
           /\ peer \in [Conns -> Peers \cup {NoPeer}]
           /\ hand \in [Conns -> Nat]
           /\ nread \in [Conns -> Nat]
           /\ queue \in Seq(Inbound)
           /\ handled \in [Conns -> Seq(Nat)]
           /\ \A c \in Conns : Len(handled[c]) \in Nat /\ handled[c] \in Seq(Nat)
           /\ \A i \in 1..Len(queue) : queue[i].conn \in Conns /\ queue[i].num \in Nat
<1>1. TypeOK
  BY DEF ConnectionsInv
<1>2. /\ phase \in [Conns -> Phases]
      /\ peer \in [Conns -> Peers \cup {NoPeer}]
      /\ hand \in [Conns -> Nat]
      /\ nread \in [Conns -> Nat]
      /\ queue \in Seq(Inbound)
  BY <1>1 DEF TypeOK
<1>3. \A c \in Conns : handled[c] \in Seq(1..MaxReads)
  BY <1>1 DEF TypeOK
<1>4. \A c \in Conns : handled[c] \in Seq(Nat)
  <2>1. 1..MaxReads \subseteq Nat
    OBVIOUS
  <2> QED
    BY <1>3, <2>1, SeqMonotonic
<1>5. \A i \in 1..Len(queue) : queue[i] \in Inbound
  BY <1>2
<1>6. \A i \in 1..Len(queue) : queue[i].conn \in Conns /\ queue[i].num \in Nat
  BY <1>5 DEF Inbound
<1>7. \A c \in Conns : Len(handled[c]) \in Nat
  BY <1>4
<1>8. handled \in [Conns -> Seq(Nat)]
  <2>1. handled = [c \in Conns |-> handled[c]]
    BY <1>1 DEF TypeOK
  <2> QED
    BY <1>4, <2>1
<1> QED
  BY <1>2, <1>4, <1>6, <1>7, <1>8

(* A connection with a message in the queue has read it, and so is with a  *)
(* peer.                                                                   *)
LEMMA QueuedWasRead ==
    ASSUME ConnectionsInv, InInv, NEW i \in 1..Len(queue)
    PROVE  /\ queue[i].conn \in Conns
           /\ queue[i].num \in Len(handled[queue[i].conn]) + 1 .. Enqueued(queue[i].conn)
           /\ phase[queue[i].conn] \notin Unbound
<1> DEFINE c == queue[i].conn
<1>1. c \in Conns /\ i \in Queued(c) /\ pc # "stopped"
  BY InTypes DEF Queued, InInv
<1>2. queue[i].num \in Len(handled[c]) + 1 .. Enqueued(c)
  <2>1. {queue[j].num : j \in Queued(c)} = Len(handled[c]) + 1 .. Enqueued(c)
    BY <1>1 DEF InInv, InboundInOrder
  <2> QED
    BY <1>1, <2>1
<1>3. nread[c] # 0
  <2>1. Len(handled[c]) \in Nat /\ nread[c] \in Nat /\ hand[c] \in Nat
    BY <1>1, InTypes
  <2> QED
    BY <1>2, <2>1 DEF Enqueued
<1> QED
  BY <1>1, <1>2, <1>3 DEF InInv

(* Steps that move no inbound message and bind at most connections that    *)
(* had no peer.                                                            *)
LEMMA InKept ==
    ASSUME ConnectionsInv, InInv, UNCHANGED <<hand, nread, queue, handled>>,
           pc' = "stopped" <=> pc = "stopped",
           \A c \in Conns : phase'[c] \in Unbound => phase[c] \in Unbound,
           \A c \in Conns : peer'[c] = peer[c] \/ phase[c] \in Unbound
    PROVE  InInv'
<1>1. \A i \in 1..Len(queue) : peer'[queue[i].conn] = peer[queue[i].conn]
  BY QueuedWasRead
<1>2. \A c \in Conns : Queued(c)' = Queued(c) /\ Enqueued(c)' = Enqueued(c)
  BY DEF Queued, Enqueued
<1>3. InboundInOrder'
  BY <1>1, <1>2 DEF InInv, InboundInOrder
<1> QED
  BY <1>3 DEF InInv, Unbound

(* The message the runner takes is the next one of its connection.         *)
LEMMA TakenIsNext ==
    ASSUME ConnectionsInv, InInv, queue # <<>>
    PROVE  /\ Head(queue).conn \in Conns
           /\ Head(queue).num = Len(handled[Head(queue).conn]) + 1
           /\ Len(handled[Head(queue).conn]) < Enqueued(Head(queue).conn)
<1> DEFINE c == queue[1].conn
           k == Len(handled[c])
<1>1. queue \in Seq(Inbound) /\ 1 \in 1..Len(queue) /\ Head(queue) = queue[1]
  BY InTypes
<1>2. c \in Conns /\ queue[1].num \in k + 1 .. Enqueued(c) /\ pc # "stopped"
  BY <1>1, QueuedWasRead DEF InInv
<1>3. k \in Nat /\ Enqueued(c) \in Int
  BY <1>2, InTypes DEF Enqueued
<1>4. {queue[i].num : i \in Queued(c)} = k + 1 .. Enqueued(c)
  BY <1>2 DEF InInv, InboundInOrder
<1>5. PICK i \in Queued(c) : queue[i].num = k + 1
  <2>1. k + 1 \in k + 1 .. Enqueued(c)
    BY <1>2, <1>3
  <2> QED
    BY <1>4, <2>1
<1>6. CASE i = 1
  BY <1>1, <1>2, <1>3, <1>5, <1>6
<1>7. CASE i # 1
  <2>1. 1 \in Queued(c) /\ 1 < i
    BY <1>1, <1>5, <1>7 DEF Queued
  <2>2. queue[1].num < queue[i].num
    BY <1>2, <1>5, <2>1 DEF InInv, InboundInOrder
  <2>3. queue[1].num \in Int /\ queue[1].num >= k + 1
    BY <1>2, <1>3
  <2> QED
    BY <1>3, <1>5, <2>2, <2>3
<1> QED
  BY <1>6, <1>7

(* Taking a message keeps the order of all.                                *)
LEMMA TakeMessageInOrder ==
    ASSUME ConnectionsInv, InInv, TakeMessage, UNCHANGED <<phase, peer>>,
           pc' # "stopped"
    PROVE  InInv'
<1>0. PICK b \in Conns : b = Head(queue).conn
  BY TakenIsNext DEF TakeMessage
<1>1. PICK k \in Nat : k = Len(handled[b])
  BY InTypes
<1>2. /\ queue \in Seq(Inbound) /\ queue # <<>>
       /\ queue' = Tail(queue)
       /\ handled' = [handled EXCEPT ![b] = Append(handled[b], Head(queue).num)]
  BY <1>0, InTypes DEF TakeMessage
<1>3. /\ queue \in Seq(Inbound) /\ queue # <<>> /\ pc # "stopped"
      /\ b \in Conns /\ Head(queue).num = k + 1 /\ k \in Nat
      /\ Head(queue) = queue[1] /\ k < Enqueued(b)
      /\ queue[1].conn = b /\ Len(handled[b]) = k
      /\ handled' = [handled EXCEPT ![b] = Append(handled[b], k + 1)]
  <2>1. Head(queue).num = k + 1 /\ k < Enqueued(b)
    BY <1>0, <1>1, <1>2, TakenIsNext
  <2>2. Head(queue) = queue[1] /\ pc # "stopped"
    BY <1>2 DEF InInv
  <2> QED
    BY <1>0, <1>1, <1>2, <2>1, <2>2
<1>4. /\ queue' \in Seq(Inbound) /\ Len(queue') = Len(queue) - 1
      /\ \A i \in 1..Len(queue') : i + 1 \in 1..Len(queue) /\ queue'[i] = queue[i + 1]
      /\ \A i \in 1..Len(queue) : i # 1 => i - 1 \in 1..Len(queue') /\ queue'[i - 1] = queue[i]
  BY <1>3 DEF TakeMessage
<1>5. /\ handled'[b] = Append(handled[b], k + 1)
      /\ \A c \in Conns : c # b => handled'[c] = handled[c]
  BY <1>3, InTypes DEF TakeMessage
<1>6. \A c \in Conns : Enqueued(c)' = Enqueued(c) /\ Enqueued(c) \in Int
  BY InTypes DEF Enqueued, TakeMessage
<1>7. 1 \in Queued(b) /\ queue[1].num = k + 1
  BY <1>3 DEF Queued
<1>8. ASSUME NEW c \in Conns
      PROVE  /\ \A i \in Queued(c)' : i + 1 \in Queued(c) /\ queue'[i] = queue[i + 1]
             /\ \A i \in Queued(c) : i # 1 => i - 1 \in Queued(c)' /\ queue'[i - 1] = queue[i]
             /\ Queued(c) \subseteq Nat /\ Queued(c)' \subseteq Nat
             /\ 1 \in Queued(c) => c = b
  BY <1>3, <1>4 DEF Queued
<1>9. ASSUME NEW c \in Conns
      PROVE  /\ {queue[i].num : i \in Queued(c)} = Len(handled[c]) + 1 .. Enqueued(c)
             /\ \A i, j \in Queued(c) : i < j => queue[i].num < queue[j].num
             /\ hand[c] \in {0, nread[c]}
             /\ handled[c] = [i \in 1..Len(handled[c]) |-> i]
             /\ Len(handled[c]) <= Enqueued(c)
  BY <1>3 DEF InInv, InboundInOrder
<1>10. ASSUME NEW c \in Conns
      PROVE  \A i, j \in Queued(c)' : i < j => queue'[i].num < queue'[j].num
  <2> TAKE i, j \in Queued(c)'
  <2> HAVE i < j
  <2>1. i + 1 \in Queued(c) /\ j + 1 \in Queued(c) /\ i + 1 < j + 1
    BY <1>8
  <2>2. queue[i + 1].num < queue[j + 1].num
    BY <1>9, <2>1
  <2> QED
    BY <1>8, <2>2
<1>11. ASSUME NEW c \in Conns
      PROVE  /\ handled'[c] = [i \in 1..Len(handled'[c]) |-> i]
             /\ Len(handled'[c]) <= Enqueued(c)
             /\ {queue'[i].num : i \in Queued(c)'} = Len(handled'[c]) + 1 .. Enqueued(c)
  <2>1. CASE c # b
    <3>1. {queue'[i].num : i \in Queued(c)'} = {queue[i].num : i \in Queued(c)}
      <4>1. \A i \in Queued(c) : i # 1
        BY <1>8, <2>1
      <4>2. {queue'[i].num : i \in Queued(c)'} \subseteq {queue[i].num : i \in Queued(c)}
        BY <1>8
      <4>3. {queue[i].num : i \in Queued(c)} \subseteq {queue'[i].num : i \in Queued(c)'}
        BY <1>8, <4>1
      <4> QED
        BY <4>2, <4>3
    <3> QED
      BY <1>5, <1>9, <2>1, <3>1
  <2>2. CASE c = b
    <3>1. /\ handled[b] \in Seq(Nat) /\ Len(handled'[b]) = k + 1
          /\ handled'[b] = [i \in 1..k + 1 |-> IF i \in 1..k THEN handled[b][i] ELSE k + 1]
      BY <1>3, <1>5, InTypes
    <3>2. handled'[b] = [i \in 1..k + 1 |-> i]
      <4>1. \A i \in 1..k : handled[b][i] = i
        <5>1. handled[b] = [i \in 1..k |-> i]
          BY <1>3, <1>9
        <5> QED
          BY <5>1
      <4>2. \A i \in 1..k + 1 : i \in 1..k \/ i = k + 1
        BY <1>3
      <4> QED
        BY <1>3, <3>1, <4>1, <4>2
    <3>3. {queue'[i].num : i \in Queued(b)'} \subseteq k + 2 .. Enqueued(b)
      <4>1. ASSUME NEW i \in Queued(b)' PROVE queue'[i].num \in k + 2 .. Enqueued(b)
        <5>1. i + 1 \in Queued(b) /\ 1 < i + 1 /\ queue'[i] = queue[i + 1]
          BY <1>3, <1>4, <4>1 DEF Queued
        <5>2. queue[1].num < queue[i + 1].num
          BY <1>3, <1>7, <1>9, <5>1
        <5>3. queue[i + 1].num \in k + 1 .. Enqueued(b)
          <6>1. {queue[j].num : j \in Queued(b)} = k + 1 .. Enqueued(b)
            BY <1>3, <1>9
          <6> QED
            BY <5>1, <6>1
        <5> QED
          BY <1>3, <1>6, <1>7, <5>1, <5>2, <5>3
      <4> QED
        BY <4>1
    <3>4. k + 2 .. Enqueued(b) \subseteq {queue'[i].num : i \in Queued(b)'}
      <4>1. ASSUME NEW n \in k + 2 .. Enqueued(b)
            PROVE  n \in {queue'[i].num : i \in Queued(b)'}
        <5>1. n \in k + 1 .. Enqueued(b) /\ n # k + 1
          BY <1>3, <1>6, <4>1
        <5>2. PICK i \in Queued(b) : queue[i].num = n
          <6>1. {queue[i].num : i \in Queued(b)} = k + 1 .. Enqueued(b)
            BY <1>3, <1>9
          <6> QED
            BY <5>1, <6>1
        <5>3. i # 1
          BY <1>7, <5>1, <5>2
        <5>4. i - 1 \in Queued(b)' /\ queue'[i - 1] = queue[i]
          BY <1>3, <1>8, <5>3
        <5> QED
          BY <5>2, <5>4
      <4> QED
        BY <4>1
    <3>5. (k + 1) + 1 = k + 2 /\ k + 1 <= Enqueued(b)
      BY <1>3, <1>6
    <3>6. Len(handled'[b]) + 1 = k + 2
      BY <3>1, <3>5
    <3>7. {queue'[i].num : i \in Queued(b)'} = Len(handled'[b]) + 1 .. Enqueued(b)
      BY <3>3, <3>4, <3>6
    <3>8. handled'[b] = [i \in 1..Len(handled'[b]) |-> i] /\ Len(handled'[b]) <= Enqueued(b)
      BY <3>1, <3>2, <3>5
    <3> QED
      BY <2>2, <3>7, <3>8
  <2> QED
    BY <2>1, <2>2
<1>12. \A i \in 1..Len(queue') : queue'[i].from = peer'[queue'[i].conn]
  BY <1>4 DEF InInv, InboundInOrder
<1>13. hand' = hand /\ nread' = nread
  BY DEF TakeMessage
<1>14. InboundInOrder'
  BY <1>6, <1>9, <1>10, <1>11, <1>12, <1>13 DEF InboundInOrder
<1> QED
  BY <1>13, <1>14 DEF InInv

LEMMA InStep == ConnectionsInv /\ InInv /\ [Next]_vars => InInv'
<1> SUFFICES ASSUME ConnectionsInv, InInv, [Next]_vars PROVE InInv'
  OBVIOUS
<1> USE DEF registry, tasks, inbound, runner, outbound
<1>0. /\ phase \in [Conns -> Phases]
      /\ peer \in [Conns -> Peers \cup {NoPeer}]
      /\ hand \in [Conns -> Nat]
      /\ nread \in [Conns -> Nat]
      /\ queue \in Seq(Inbound)
      /\ \A c \in Conns : hand[c] # 0 => phase[c] = "live"
  BY InTypes DEF ConnectionsInv, ControlOK
<1>1. ASSUME UNCHANGED <<phase, peer, hand, nread, queue, handled>>,
             pc' = "stopped" <=> pc = "stopped"
      PROVE  InInv'
  BY <1>1, InKept
<1>2. ASSUME NEW p \in Peers, SendGossips(p) PROVE InInv'
  BY <1>1, <1>2 DEF SendGossips, StartSending
<1>3. ASSUME (\E p \in Peers : ReceiveGossip(p)) \/ ReceiveTopic \/ ReceiveQuery
      PROVE  InInv'
  <2>1. TakeMessage /\ UNCHANGED <<phase, peer>>
    BY <1>3 DEF ReceiveGossip, ReceiveTopic, ReceiveQuery
  <2>2. pc' # "stopped"
    BY <1>3 DEF ReceiveGossip, ReceiveTopic, ReceiveQuery, TakeMessage, StartSending
  <2> QED
    BY <2>1, <2>2, TakeMessageInOrder
<1>4. ASSUME GetOrConnect PROVE InInv'
  <2>1. UNCHANGED <<hand, nread, queue, handled>> /\ pc # "stopped" /\ pc' # "stopped"
    BY <1>4 DEF GetOrConnect, UseEntry, Relock, Dial
  <2>2. \A c \in Conns : /\ phase'[c] \in Unbound => phase[c] \in Unbound
                         /\ peer'[c] = peer[c] \/ phase[c] \in Unbound
    BY <1>0, <1>4 DEF GetOrConnect, Dial, Unbound
  <2> QED
    BY <2>1, <2>2, InKept
<1>5. ASSUME PushCommand \/ Reply \/ EndReplies PROVE InInv'
  BY <1>1, <1>5 DEF PushCommand, NextNode, Reply, UseEntry, Relock, EndReplies
<1>6. ASSUME Stop PROVE InInv'
  <2>1. UNCHANGED <<phase, peer, hand, nread, handled>> /\ queue' = <<>> /\ pc' = "stopped"
    BY <1>6 DEF Stop
  <2>2. \A c \in Conns : Enqueued(c)' = Enqueued(c)
    BY <2>1 DEF Enqueued
  <2> QED
    BY <2>1, <2>2 DEF InInv, InboundInOrder
<1>7. ASSUME NEW c \in Conns,
             Accept(c) \/ (\E p \in Peers : CheckId(c, p)) \/ Register(c) \/ AcceptFails(c) \/ Unregister(c)
      PROVE  InInv'
  <2>1. UNCHANGED <<hand, nread, queue, handled, pc>>
    BY <1>7 DEF Accept, CheckId, Register, AcceptFails, Unregister
  <2>2. \A d \in Conns : /\ phase'[d] \in Unbound => phase[d] \in Unbound
                         /\ peer'[d] = peer[d] \/ phase[d] \in Unbound
    BY <1>0, <1>7 DEF Accept, CheckId, Register, AcceptFails, Unregister, Unbound
  <2> QED
    BY <2>1, <2>2, InKept
<1>8. ASSUME NEW c \in Conns, ConnectFails(c) \/ Disconnected(c) \/ NoMoreCommands(c)
      PROVE  InInv'
  <2>1. UNCHANGED <<peer, hand, nread, queue, handled, pc>>
    BY <1>8 DEF ConnectFails, Disconnected, NoMoreCommands
  <2>2. \A d \in Conns : phase'[d] \in Unbound => phase[d] \in Unbound
    BY <1>0, <1>8 DEF ConnectFails, Disconnected, NoMoreCommands, DropReceiver, Unbound
  <2> QED
    BY <2>1, <2>2, InKept
<1>9. ASSUME NEW c \in Conns, TakeCommand(c) \/ WriteMessage(c) \/ WriteFails(c)
      PROVE  InInv'
  BY <1>1, <1>9 DEF TakeCommand, WriteMessage, WriteFails
<1>10. ASSUME NEW c \in Conns, Read(c) PROVE InInv'
  <2>1. /\ phase[c] = "live" /\ hand[c] = 0
        /\ hand'[c] = nread[c] + 1 /\ nread'[c] = nread[c] + 1
        /\ \A d \in Conns : d # c => hand'[d] = hand[d] /\ nread'[d] = nread[d]
        /\ UNCHANGED <<phase, peer, queue, handled, pc>>
    BY <1>0, <1>10 DEF Read, Selecting
  <2>2. \A d \in Conns : Enqueued(d)' = Enqueued(d) /\ Queued(d)' = Queued(d)
    BY <1>0, <2>1 DEF Enqueued, Queued
  <2>3. \A d \in Conns : hand[d] \in {0, nread[d]} => hand'[d] \in {0, nread'[d]}
    BY <2>1
  <2>4. \A d \in Conns : phase'[d] \in Unbound => nread'[d] = 0
    BY <2>1 DEF InInv, Unbound
  <2>5. ASSUME NEW d \in Conns
        PROVE  /\ handled'[d] = [i \in 1..Len(handled'[d]) |-> i]
               /\ Len(handled'[d]) <= Enqueued(d)'
               /\ pc' # "stopped" =>
                   /\ {queue'[i].num : i \in Queued(d)'} = Len(handled'[d]) + 1 .. Enqueued(d)'
                   /\ \A i, j \in Queued(d)' : i < j => queue'[i].num < queue'[j].num
                   /\ hand'[d] \in {0, nread'[d]}
    <3>1. /\ handled[d] = [i \in 1..Len(handled[d]) |-> i]
          /\ Len(handled[d]) <= Enqueued(d)
          /\ pc # "stopped" =>
              /\ {queue[i].num : i \in Queued(d)} = Len(handled[d]) + 1 .. Enqueued(d)
              /\ \A i, j \in Queued(d) : i < j => queue[i].num < queue[j].num
              /\ hand[d] \in {0, nread[d]}
      BY DEF InInv, InboundInOrder
    <3>2. UNCHANGED <<handled, queue, pc>>
      BY <2>1
    <3> QED
      BY <2>2, <2>3, <3>1, <3>2
  <2>6. \A i \in 1..Len(queue') : queue'[i].from = peer'[queue'[i].conn]
    BY <2>1 DEF InInv, InboundInOrder
  <2>7. InboundInOrder'
    BY <2>5, <2>6 DEF InboundInOrder
  <2> QED
    BY <2>1, <2>4, <2>7 DEF InInv
<1>11. ASSUME NEW c \in Conns, Enqueue(c) PROVE InInv'
  <2> DEFINE m == [from |-> peer[c], conn |-> c, num |-> hand[c]]
             q == Len(queue)
  <2>1. /\ hand[c] # 0 /\ phase[c] = "live" /\ pc # "stopped"
        /\ queue' = Append(queue, m)
        /\ hand'[c] = 0
        /\ \A d \in Conns : d # c => hand'[d] = hand[d]
        /\ UNCHANGED <<phase, peer, nread, handled, pc>>
    BY <1>0, <1>11 DEF Enqueue
  <2>2. hand[c] = nread[c] /\ nread[c] \in Nat /\ Enqueued(c) = nread[c] - 1
    <3>1. hand[c] \in {0, nread[c]}
      BY <2>1 DEF InInv, InboundInOrder
    <3> QED
      BY <1>0, <2>1, <3>1 DEF Enqueued
  <2>3. m \in Inbound /\ Inbound # {}
    <3>1. hand[c] \in 1..MaxReads /\ peer[c] \in Peers
      BY <2>1 DEF ConnectionsInv, TypeOK, ControlOK
    <3>2. m \in Inbound
      BY <3>1 DEF Inbound
    <3> QED
      BY <3>2
  <2>4. /\ q \in Nat /\ Len(queue') = q + 1 /\ queue'[q + 1] = m
        /\ \A i \in 1..q : queue'[i] = queue[i]
    BY <1>0, <2>1, <2>3, AppendProperties
  <2>5. \A i \in 1..q + 1 : i \in 1..q \/ i = q + 1
    BY <2>4
  <2>6. Queued(c)' = Queued(c) \cup {q + 1}
    BY <2>4, <2>5 DEF Queued
  <2>7. \A d \in Conns : d # c => Queued(d)' = Queued(d)
    BY <2>4, <2>5 DEF Queued
  <2>8. Enqueued(c)' = nread[c] /\ \A d \in Conns : d # c => Enqueued(d)' = Enqueued(d)
    BY <2>1 DEF Enqueued
  <2> HIDE DEF m
  <2>9. m.conn = c /\ m.num = nread[c] /\ m.from = peer[c]
    BY <2>2 DEF m
  <2>10. \A d \in Conns : \A i \in Queued(d) : i \in 1..q /\ queue'[i] = queue[i]
    BY <2>4 DEF Queued
  <2> HIDE DEF q
  <2>11. ASSUME NEW d \in Conns
         PROVE  /\ {queue[i].num : i \in Queued(d)} = Len(handled[d]) + 1 .. Enqueued(d)
                /\ \A i, j \in Queued(d) : i < j => queue[i].num < queue[j].num
                /\ hand[d] \in {0, nread[d]}
                /\ handled[d] = [i \in 1..Len(handled[d]) |-> i]
                /\ Len(handled[d]) <= Enqueued(d)
    BY <2>1 DEF InInv, InboundInOrder
  <2>12. ASSUME NEW d \in Conns, d # c
         PROVE  /\ {queue'[i].num : i \in Queued(d)'} = Len(handled[d]) + 1 .. Enqueued(d)'
                /\ \A i, j \in Queued(d)' : i < j => queue'[i].num < queue'[j].num
    <3>1. Queued(d)' = Queued(d) /\ Enqueued(d)' = Enqueued(d)
      BY <2>7, <2>8, <2>12
    <3>2. {queue'[i].num : i \in Queued(d)} = {queue[i].num : i \in Queued(d)}
      BY <2>10
    <3>3. \A i, j \in Queued(d) : i < j => queue'[i].num < queue'[j].num
      BY <2>10, <2>11
    <3> QED
      BY <2>11, <3>1, <3>2, <3>3
  <2>13. /\ {queue'[i].num : i \in Queued(c)'} = Len(handled[c]) + 1 .. nread[c]
         /\ \A i, j \in Queued(c)' : i < j => queue'[i].num < queue'[j].num
         /\ Len(handled[c]) <= nread[c]
    <3>1. {queue'[i].num : i \in Queued(c)'} = {queue[i].num : i \in Queued(c)} \cup {nread[c]}
      BY <2>4, <2>6, <2>9, <2>10
    <3>2. Len(handled[c]) \in Nat
      BY InTypes
    <3>3. {queue[i].num : i \in Queued(c)} = Len(handled[c]) + 1 .. nread[c] - 1
      BY <2>2, <2>11
    <3>4. Len(handled[c]) <= nread[c] - 1
      BY <2>2, <2>11
    <3>5. {queue'[i].num : i \in Queued(c)'} = Len(handled[c]) + 1 .. nread[c]
      <4>1. \A k \in Nat, n \in Nat : k <= n - 1 => (k + 1 .. n - 1) \cup {n} = k + 1 .. n
        OBVIOUS
      <4>2. (Len(handled[c]) + 1 .. nread[c] - 1) \cup {nread[c]} = Len(handled[c]) + 1 .. nread[c]
        BY <2>2, <3>2, <3>4, <4>1
      <4> QED
        BY <3>1, <3>3, <4>2
    <3>6. \A i \in Queued(c) : queue[i].num \in Len(handled[c]) + 1 .. nread[c] - 1
      BY <3>3
    <3>7. ASSUME NEW i \in Queued(c)', NEW j \in Queued(c)', i < j
          PROVE  queue'[i].num < queue'[j].num
      <4>1. i \in 1..q + 1 /\ j \in 1..q + 1
        BY <2>4, <2>6, <2>10, <3>7
      <4>2. i \in Queued(c)
        BY <2>4, <2>6, <3>7, <4>1
      <4>3. CASE j \in Queued(c)
        BY <2>10, <2>11, <3>7, <4>2, <4>3
      <4>4. CASE j = q + 1
        <5>1. queue'[j].num = nread[c] /\ queue'[i].num = queue[i].num
          BY <2>4, <2>9, <2>10, <4>2, <4>4
        <5> QED
          BY <2>2, <3>2, <3>6, <4>2, <5>1
      <4> QED
        BY <2>6, <3>7, <4>3, <4>4
    <3>8. Len(handled[c]) <= nread[c]
      BY <2>2, <3>2, <3>4
    <3> QED
      BY <3>5, <3>7, <3>8
  <2>14. \A i \in 1..Len(queue') : queue'[i].from = peer'[queue'[i].conn]
    <3>1. \A i \in 1..q : queue[i].from = peer[queue[i].conn]
      BY DEF InInv, InboundInOrder, q
    <3> QED
      BY <2>1, <2>4, <2>5, <2>9, <3>1
  <2>15. ASSUME NEW d \in Conns
         PROVE  /\ handled'[d] = [i \in 1..Len(handled'[d]) |-> i]
                /\ Len(handled'[d]) <= Enqueued(d)'
                /\ {queue'[i].num : i \in Queued(d)'} = Len(handled'[d]) + 1 .. Enqueued(d)'
                /\ \A i, j \in Queued(d)' : i < j => queue'[i].num < queue'[j].num
                /\ hand'[d] \in {0, nread'[d]}
    <3>1. Len(handled[d]) \in Nat
      BY InTypes
    <3>2. handled'[d] = handled[d] /\ nread'[d] = nread[d]
      BY <2>1
    <3>3. handled'[d] = [i \in 1..Len(handled'[d]) |-> i]
      BY <2>11, <3>2
    <3>4. CASE d = c
      <4>1. Queued(d)' = Queued(c)' /\ Enqueued(d)' = Enqueued(c)'
        BY <3>4 DEF Queued, Enqueued
      <4> QED
        BY <2>1, <2>8, <2>13, <3>2, <3>3, <3>4, <4>1
    <3>5. CASE d # c
      BY <2>1, <2>8, <2>11, <2>12, <3>2, <3>3, <3>5
    <3> QED
      BY <3>4, <3>5
  <2>16. InboundInOrder'
    BY <2>14, <2>15 DEF InboundInOrder
  <2> QED
    BY <2>1, <2>16 DEF InInv
<1>12. ASSUME NEW c \in Conns, EnqueueFails(c) PROVE InInv'
  <2>1. /\ hand[c] # 0 /\ pc = "stopped" /\ pc' = "stopped" /\ queue = <<>>
        /\ hand'[c] = 0
        /\ \A d \in Conns : d # c => hand'[d] = hand[d]
        /\ UNCHANGED <<peer, nread, queue, handled>>
    BY <1>0, <1>12 DEF EnqueueFails, InInv
  <2>2. \A d \in Conns : phase'[d] \in Unbound => phase[d] \in Unbound
    BY <1>0, <1>12 DEF EnqueueFails, DropReceiver, Unbound
  <2>3. \A d \in Conns : Enqueued(d) \in Int /\ Enqueued(d) <= Enqueued(d)'
    BY <1>0, <2>1 DEF Enqueued
  <2>4. \A d \in Conns : Len(handled[d]) \in Nat /\ Enqueued(d)' \in Int
    BY <1>0, <2>1, InTypes DEF Enqueued
  <2>5. \A d \in Conns : Len(handled'[d]) <= Enqueued(d)'
    <3>1. \A d \in Conns : Len(handled[d]) <= Enqueued(d)
      BY DEF InInv, InboundInOrder
    <3> QED
      BY <2>1, <2>3, <2>4, <3>1
  <2> QED
    BY <2>1, <2>2, <2>5 DEF InInv, InboundInOrder
<1>13. ASSUME UNCHANGED vars PROVE InInv'
  BY <1>1, <1>13 DEF vars
<1> QED
  BY <1>2, <1>3, <1>4, <1>5, <1>6, <1>7, <1>8, <1>9, <1>10, <1>11, <1>12, <1>13
  DEF Next, RunnerNext, TaskNext

(* In every reachable state the messages of a connection are where they    *)
(* should be: the first were handled, the next wait in the queue in their  *)
(* order, the last is in the hand of the task.                             *)
THEOREM InboundKeepsOrder == Spec => []InboundInOrder
<1>1. Init => InInv
  BY DEF Init, InInv, InboundInOrder, Queued, Enqueued
<1>2. InInv => InboundInOrder
  BY DEF InInv
<1> QED
  BY <1>1, <1>2, InitInv, StepInv, InStep, PTL DEF Spec

----------------------------------------------------------------------------
(* The outbound messages.                                                  *)

(* What a connection carries out: w is written, h is left of the command   *)
(* its task took, the commands of q wait.                                  *)
Increasing(s) == \A i, j \in 1..Len(s) : i < j => s[i] < s[j]

LineInOrder(w, h, q) ==
    /\ Increasing(w) /\ Increasing(h)
    /\ \A i \in 1..Len(q) : Increasing(q[i].msgs)
    /\ \A i \in 1..Len(w), k \in 1..Len(h) : w[i] < h[k]
    /\ \A i \in 1..Len(w), j \in 1..Len(q) :
        \A k \in 1..Len(q[j].msgs) : w[i] < q[j].msgs[k]
    /\ \A i \in 1..Len(h), j \in 1..Len(q) :
        \A k \in 1..Len(q[j].msgs) : h[i] < q[j].msgs[k]
    /\ \A i, j \in 1..Len(q) : i < j =>
        \A k \in 1..Len(q[i].msgs), l \in 1..Len(q[j].msgs) : q[i].msgs[k] < q[j].msgs[l]

LineCarries(w, h, q, m) ==
    \/ \E i \in 1..Len(w) : w[i] = m
    \/ \E i \in 1..Len(h) : h[i] = m
    \/ \E j \in 1..Len(q) : \E k \in 1..Len(q[j].msgs) : q[j].msgs[k] = m

(* The command e is newer than all a line carries.                         *)
Newer(e, w, h, q) ==
    \A m : LineCarries(w, h, q, m) => \A k \in 1..Len(e.msgs) : m < e.msgs[k]

(* A line that loses what waits in its channel, or the rest of a command.  *)
LEMMA LineDropped ==
    ASSUME NEW w, NEW h, NEW q, LineInOrder(w, h, q)
    PROVE  /\ LineInOrder(w, h, <<>>) /\ LineInOrder(w, <<>>, q)
           /\ \A m : LineCarries(w, h, <<>>, m) => LineCarries(w, h, q, m)
           /\ \A m : LineCarries(w, <<>>, q, m) => LineCarries(w, h, q, m)
BY DEF LineInOrder, LineCarries, Increasing

(* A command newer than all a line carries goes to its end.                *)
LEMMA LineExtended ==
    ASSUME NEW w \in Seq(Messages), NEW h \in Seq(Messages), NEW q \in Seq(Commands),
           NEW cmd \in Commands, LineInOrder(w, h, q), Increasing(cmd.msgs),
           Newer(cmd, w, h, q)
    PROVE  /\ LineInOrder(w, h, Append(q, cmd))
           /\ \A m : LineCarries(w, h, Append(q, cmd), m)
                     => LineCarries(w, h, q, m) \/ \E k \in 1..Len(cmd.msgs) : cmd.msgs[k] = m
<1> DEFINE n == Len(q)
           r == Append(q, cmd)
<1>1. /\ n \in Nat /\ Len(r) = n + 1 /\ r[n + 1] = cmd
      /\ \A i \in 1..n : r[i] = q[i]
  BY AppendProperties
<1>2. \A i \in 1..n + 1 : i \in 1..n \/ i = n + 1
  BY <1>1
<1> HIDE DEF r, n
<1>3. \A i \in 1..n : r[i] = q[i] /\ i \in 1..Len(q)
  BY <1>1 DEF n
<1>4. \A i \in 1..Len(r) : Increasing(r[i].msgs)
  BY <1>1, <1>2, <1>3 DEF LineInOrder
<1>5. ASSUME NEW i \in 1..Len(w), NEW j \in 1..Len(r), NEW k \in 1..Len(r[j].msgs)
      PROVE  w[i] < r[j].msgs[k]
  <2>1. CASE j \in 1..n
    BY <1>3, <1>5, <2>1 DEF LineInOrder
  <2>2. CASE j = n + 1
    <3>1. LineCarries(w, h, q, w[i])
      BY DEF LineCarries
    <3> QED
      BY <1>1, <1>5, <2>2, <3>1 DEF Newer
  <2> QED
    BY <1>1, <1>2, <2>1, <2>2
<1>6. ASSUME NEW i \in 1..Len(h), NEW j \in 1..Len(r), NEW k \in 1..Len(r[j].msgs)
      PROVE  h[i] < r[j].msgs[k]
  <2>1. CASE j \in 1..n
    BY <1>3, <1>6, <2>1 DEF LineInOrder
  <2>2. CASE j = n + 1
    <3>1. LineCarries(w, h, q, h[i])
      BY DEF LineCarries
    <3> QED
      BY <1>1, <1>6, <2>2, <3>1 DEF Newer
  <2> QED
    BY <1>1, <1>2, <2>1, <2>2
<1>7. ASSUME NEW i \in 1..Len(r), NEW j \in 1..Len(r), i < j,
             NEW k \in 1..Len(r[i].msgs), NEW l \in 1..Len(r[j].msgs)
      PROVE  r[i].msgs[k] < r[j].msgs[l]
  <2>1. i \in 1..n
    BY <1>1, <1>2, <1>7
  <2>2. CASE j \in 1..n
    BY <1>3, <1>7, <2>1, <2>2 DEF LineInOrder
  <2>3. CASE j = n + 1
    <3>1. r[i] = q[i] /\ i \in 1..Len(q)
      BY <1>3, <2>1
    <3>2. LineCarries(w, h, q, r[i].msgs[k])
      BY <1>7, <3>1 DEF LineCarries
    <3> QED
      BY <1>1, <1>7, <2>3, <3>2 DEF Newer
  <2> QED
    BY <1>1, <1>2, <2>2, <2>3
<1>8. LineInOrder(w, h, r)
  BY <1>4, <1>5, <1>7, <1>6 DEF LineInOrder
<1>9. \A m : LineCarries(w, h, r, m)
             => LineCarries(w, h, q, m) \/ \E k \in 1..Len(cmd.msgs) : cmd.msgs[k] = m
  BY <1>1, <1>2, <1>3 DEF LineCarries
<1> QED
  BY <1>8, <1>9 DEF r

(* The task takes the first command.                                       *)
LEMMA LineTaken ==
    ASSUME NEW w, NEW q \in Seq(Commands), q # <<>>, LineInOrder(w, <<>>, q)
    PROVE  /\ LineInOrder(w, Head(q).msgs, Tail(q))
           /\ \A m : LineCarries(w, Head(q).msgs, Tail(q), m) => LineCarries(w, <<>>, q, m)
<1> DEFINE h == Head(q).msgs
           t == Tail(q)
<1>1. h = q[1].msgs /\ 1 \in 1..Len(q)
  OBVIOUS
<1>2. \A i \in 1..Len(t) : i + 1 \in 1..Len(q) /\ t[i] = q[i + 1] /\ 1 < i + 1
  BY HeadTailProperties
<1> HIDE DEF h, t
<1>3. Increasing(w) /\ Increasing(h) /\ \A i \in 1..Len(t) : Increasing(t[i].msgs)
  BY <1>1, <1>2 DEF LineInOrder
<1>4. /\ \A i \in 1..Len(w), k \in 1..Len(h) : w[i] < h[k]
      /\ \A i \in 1..Len(w), j \in 1..Len(t) :
          \A k \in 1..Len(t[j].msgs) : w[i] < t[j].msgs[k]
  BY <1>1, <1>2 DEF LineInOrder
<1>5. ASSUME NEW i \in 1..Len(h), NEW j \in 1..Len(t), NEW k \in 1..Len(t[j].msgs)
      PROVE  h[i] < t[j].msgs[k]
  <2>1. t[j] = q[j + 1] /\ j + 1 \in 1..Len(q) /\ 1 < j + 1
    BY <1>2
  <2>2. \A x \in 1..Len(q[1].msgs), y \in 1..Len(q[j + 1].msgs) :
            q[1].msgs[x] < q[j + 1].msgs[y]
    BY <1>1, <2>1 DEF LineInOrder
  <2> QED
    BY <1>1, <1>5, <2>1, <2>2
<1>6. ASSUME NEW i \in 1..Len(t), NEW j \in 1..Len(t), i < j,
             NEW k \in 1..Len(t[i].msgs), NEW l \in 1..Len(t[j].msgs)
      PROVE  t[i].msgs[k] < t[j].msgs[l]
  <2>1. /\ t[i] = q[i + 1] /\ t[j] = q[j + 1]
        /\ i + 1 \in 1..Len(q) /\ j + 1 \in 1..Len(q) /\ i + 1 < j + 1
    BY <1>2, <1>6
  <2> QED
    BY <1>6, <2>1 DEF LineInOrder
<1>7. LineInOrder(w, h, t)
  BY <1>3, <1>4, <1>5, <1>6 DEF LineInOrder
<1>8. ASSUME NEW m, LineCarries(w, h, t, m) PROVE LineCarries(w, <<>>, q, m)
  BY <1>1, <1>2, <1>8 DEF LineCarries
<1> QED
  BY <1>7, <1>8 DEF h, t

(* The first message of what is left is written.                           *)
LEMMA LineWritten ==
    ASSUME NEW w \in Seq(Messages), NEW h \in Seq(Messages), h # <<>>, NEW q,
           LineInOrder(w, h, q)
    PROVE  /\ LineInOrder(Append(w, Head(h)), Tail(h), q)
           /\ \A m : LineCarries(Append(w, Head(h)), Tail(h), q, m) => LineCarries(w, h, q, m)
<1> DEFINE v == Append(w, Head(h))
           t == Tail(h)
           n == Len(w)
<1>1. /\ n \in Nat /\ Len(v) = n + 1 /\ v[n + 1] = h[1] /\ 1 \in 1..Len(h)
      /\ \A i \in 1..n : v[i] = w[i]
  BY AppendProperties
<1>2. \A i \in 1..Len(t) : i + 1 \in 1..Len(h) /\ t[i] = h[i + 1] /\ 1 < i + 1
  BY HeadTailProperties
<1> HIDE DEF v, t
<1>3. \A i \in 1..Len(v) : (i \in 1..Len(w) /\ v[i] = w[i]) \/ (i = n + 1 /\ v[i] = h[1])
  BY <1>1
<1>4. ASSUME NEW i \in 1..Len(v), NEW j \in 1..Len(v), i < j PROVE v[i] < v[j]
  <2>1. i \in 1..Len(w) /\ v[i] = w[i]
    BY <1>1, <1>4
  <2>2. CASE j \in 1..Len(w) /\ v[j] = w[j]
    BY <1>4, <2>1, <2>2 DEF LineInOrder, Increasing
  <2>3. CASE v[j] = h[1]
    BY <1>1, <2>1, <2>3 DEF LineInOrder
  <2> QED
    BY <1>3, <2>2, <2>3
<1>5. Increasing(t)
  <2> SUFFICES ASSUME NEW i \in 1..Len(t), NEW j \in 1..Len(t), i < j PROVE t[i] < t[j]
    BY DEF Increasing
  <2>1. /\ t[i] = h[i + 1] /\ t[j] = h[j + 1]
        /\ i + 1 \in 1..Len(h) /\ j + 1 \in 1..Len(h) /\ i + 1 < j + 1
    BY <1>2
  <2> QED
    BY <2>1 DEF LineInOrder, Increasing
<1>6. ASSUME NEW i \in 1..Len(v), NEW k \in 1..Len(t) PROVE v[i] < t[k]
  <2>1. t[k] = h[k + 1] /\ k + 1 \in 1..Len(h) /\ 1 < k + 1
    BY <1>2
  <2>2. CASE i \in 1..Len(w) /\ v[i] = w[i]
    BY <2>1, <2>2 DEF LineInOrder
  <2>3. CASE v[i] = h[1]
    BY <1>1, <2>1, <2>3 DEF LineInOrder, Increasing
  <2> QED
    BY <1>3, <2>2, <2>3
<1>7. ASSUME NEW j \in 1..Len(q), NEW k \in 1..Len(q[j].msgs)
      PROVE  /\ \A i \in 1..Len(v) : v[i] < q[j].msgs[k]
             /\ \A i \in 1..Len(t) : t[i] < q[j].msgs[k]
  BY <1>1, <1>2, <1>3, <1>7 DEF LineInOrder
<1>8. LineInOrder(v, t, q)
  <2>1. Increasing(v)
    BY <1>4 DEF Increasing
  <2>2. \A i \in 1..Len(v), k \in 1..Len(t) : v[i] < t[k]
    BY <1>6
  <2>3. /\ \A i \in 1..Len(q) : Increasing(q[i].msgs)
        /\ \A i, j \in 1..Len(q) : i < j =>
            \A k \in 1..Len(q[i].msgs), l \in 1..Len(q[j].msgs) : q[i].msgs[k] < q[j].msgs[l]
    BY DEF LineInOrder
  <2>4. /\ \A i \in 1..Len(v), j \in 1..Len(q) :
            \A k \in 1..Len(q[j].msgs) : v[i] < q[j].msgs[k]
        /\ \A i \in 1..Len(t), j \in 1..Len(q) :
            \A k \in 1..Len(q[j].msgs) : t[i] < q[j].msgs[k]
    BY <1>7
  <2> QED
    BY <1>5, <2>1, <2>2, <2>3, <2>4 DEF LineInOrder
<1>9. ASSUME NEW m, LineCarries(v, t, q, m) PROVE LineCarries(w, h, q, m)
  <2>1. \A i \in 1..Len(v) : LineCarries(w, h, q, v[i])
    BY <1>1, <1>3 DEF LineCarries
  <2>2. \A i \in 1..Len(t) : LineCarries(w, h, q, t[i])
    BY <1>2 DEF LineCarries
  <2>3. \A j \in 1..Len(q) : \A k \in 1..Len(q[j].msgs) : LineCarries(w, h, q, q[j].msgs[k])
    BY DEF LineCarries
  <2>4. \/ \E i \in 1..Len(v) : v[i] = m
        \/ \E i \in 1..Len(t) : t[i] = m
        \/ \E j \in 1..Len(q) : \E k \in 1..Len(q[j].msgs) : q[j].msgs[k] = m
    BY <1>9 DEF LineCarries
  <2> QED
    BY <2>1, <2>2, <2>3, <2>4
<1> QED
  BY <1>8, <1>9 DEF v, t

Carries(c, m) == LineCarries(wire[c], writing[c], cmds[c], m)

(* What the runner is sending is newer than all that was meant for p.      *)
Fresh(p) ==
    \A m \in Messages : <<p, m>> \in addressed => \A k \in 1..Len(payload) : m < payload[k]

(* Messages are numbered as they are sent; each is meant for a peer once,  *)
(* since no peer is twice in a view.                                       *)
SendsInOrder ==
    /\ Increasing(payload)
    /\ \A k \in 1..Len(payload) : payload[k] <= issued
    /\ \A p \in Peers, m \in Messages : <<p, m>> \in addressed => m <= issued
    /\ pc \in {"nodes", "sending"} =>
        \A i, j \in 1..Len(nodes) : nodes[i] = nodes[j] => i = j
    /\ pc = "nodes" => \A i \in 1..Len(nodes) : Fresh(nodes[i])
    /\ pc = "sending" => \A i \in 2..Len(nodes) : Fresh(nodes[i])

(* The command under way is meant for the current node, and newer than     *)
(* what any connection with it carries.                                    *)
SendIsNewest ==
    pc = "sending" =>
        \A k \in 1..Len(payload) :
            /\ <<Head(nodes), payload[k]>> \in addressed
            /\ \A c \in Conns : peer[c] = Head(nodes) =>
                \A m \in Messages : Carries(c, m) => m < payload[k]

(* A connection that is not with a peer yet has written nothing; all that  *)
(* a line carries is meant for its peer, and is on no other line.          *)
LinesInOrder ==
    \A c \in Conns :
        /\ LineInOrder(wire[c], writing[c], cmds[c])
        /\ phase[c] \in Unbound => wire[c] = <<>> /\ writing[c] = <<>> /\ peer[c] = NoPeer
        /\ \A m \in Messages : Carries(c, m) =>
            /\ <<peer[c], m>> \in addressed
            /\ \A d \in Conns \ {c} : peer[d] = peer[c] => ~Carries(d, m)

OutInv == SendsInOrder /\ SendIsNewest /\ LinesInOrder

(* The types the proofs about the outbound messages need.                  *)
LEMMA OutTypes ==
    ASSUME ConnectionsInv
    PROVE  /\ phase \in [Conns -> Phases]
           /\ peer \in [Conns -> Peers \cup {NoPeer}]
           /\ cmds \in [Conns -> Seq(Commands)]
           /\ writing \in [Conns -> Seq(Messages)]
           /\ wire \in [Conns -> Seq(Messages)]
           /\ addressed \subseteq Peers \X Messages
           /\ nodes \in Seq(Peers)
           /\ payload \in Seq(Messages)
           /\ issued \in Nat
           /\ pc \in {"nodes", "sending"} => nodes # <<>>
           /\ pc = "sending" => target \in Conns
           /\ pc = "replying" => from \in Peers
           /\ \A k \in 1..Len(payload) : payload[k] \in Messages
           /\ Messages \subseteq Nat
<1>1. TypeOK /\ ControlOK
  BY DEF ConnectionsInv
<1>2. payload \in Seq(Messages)
  BY <1>1 DEF TypeOK
<1>3. \A k \in 1..Len(payload) : payload[k] \in Messages
  BY <1>2, ElementOfSeq
<1>4. Messages \subseteq Nat
  BY DEF Messages
<1> QED
  BY <1>1, <1>2, <1>3, <1>4 DEF TypeOK, ControlOK

(* A connection that is not with a peer yet carries nothing.               *)
LEMMA UnboundCarryNothing ==
    ASSUME ReachInv, LinesInOrder, NEW c \in Conns, phase[c] \in Unbound
    PROVE  \A m : ~Carries(c, m)
BY DEF ReachInv, LinesInOrder, Carries, LineCarries

(* What a step may do to a line when it sends nothing: the line stays in   *)
(* order and comes to carry nothing new, and it gets a peer at most once.  *)
LineShrinks(c) ==
    /\ LineInOrder(wire'[c], writing'[c], cmds'[c])
    /\ \A m \in Messages : Carries(c, m)' => Carries(c, m)
    /\ peer'[c] = peer[c] \/ phase[c] \in Unbound
    /\ phase'[c] \in Unbound => /\ phase[c] \in Unbound
                                /\ wire'[c] = wire[c] /\ writing'[c] = writing[c]
                                /\ peer'[c] = peer[c]

LEMMA LinesKept ==
    ASSUME ReachInv, LinesInOrder, addressed \subseteq addressed',
           \A c \in Conns : LineShrinks(c)
    PROVE  LinesInOrder'
<1>1. ASSUME NEW c \in Conns, NEW m \in Messages, Carries(c, m)'
      PROVE  /\ Carries(c, m) /\ peer'[c] = peer[c]
             /\ phase[c] \notin Unbound
  BY <1>1, UnboundCarryNothing DEF LineShrinks
<1>2. ASSUME NEW c \in Conns, NEW m \in Messages, Carries(c, m)'
      PROVE  /\ <<peer'[c], m>> \in addressed'
             /\ \A d \in Conns \ {c} : peer'[d] = peer'[c] => ~Carries(d, m)'
  <2>1. Carries(c, m) /\ peer'[c] = peer[c]
    BY <1>1, <1>2
  <2>2. <<peer[c], m>> \in addressed
    BY <2>1 DEF LinesInOrder
  <2>3. ASSUME NEW d \in Conns \ {c}, peer'[d] = peer'[c], Carries(d, m)' PROVE FALSE
    <3>1. Carries(d, m) /\ peer'[d] = peer[d]
      BY <1>1, <2>3
    <3> QED
      BY <2>1, <2>3, <3>1 DEF LinesInOrder
  <2> QED
    BY <2>1, <2>2, <2>3
<1>3. \A c \in Conns : LineInOrder(wire'[c], writing'[c], cmds'[c])
  BY DEF LineShrinks
<1>4. \A c \in Conns : phase'[c] \in Unbound =>
          wire'[c] = <<>> /\ writing'[c] = <<>> /\ peer'[c] = NoPeer
  BY DEF LineShrinks, LinesInOrder
<1> QED
  BY <1>2, <1>3, <1>4 DEF LinesInOrder, Unbound

(* A step of a task that sends nothing.                                    *)
LEMMA OutKept ==
    ASSUME ReachInv, OutInv, UNCHANGED <<pc, nodes, payload, issued, addressed>>,
           \A c \in Conns : LineShrinks(c)
    PROVE  OutInv'
<1>1. LinesInOrder'
  BY LinesKept DEF OutInv
<1>2. SendsInOrder'
  BY DEF OutInv, SendsInOrder, Fresh
<1>3. ASSUME pc = "sending", NEW k \in 1..Len(payload)
      PROVE  /\ <<Head(nodes'), payload'[k]>> \in addressed'
             /\ \A c \in Conns : peer'[c] = Head(nodes') =>
                 \A m \in Messages : Carries(c, m)' => m < payload'[k]
  <2>1. <<Head(nodes), payload[k]>> \in addressed
    BY <1>3 DEF OutInv, SendIsNewest
  <2>2. ASSUME NEW c \in Conns, peer'[c] = Head(nodes), NEW m \in Messages, Carries(c, m)'
        PROVE  m < payload[k]
    <3>1. Carries(c, m) /\ peer[c] = Head(nodes)
      BY <2>2, UnboundCarryNothing DEF LineShrinks, OutInv
    <3> QED
      BY <1>3, <3>1 DEF OutInv, SendIsNewest
  <2> QED
    BY <2>1, <2>2
<1>4. SendIsNewest'
  BY <1>3 DEF SendIsNewest
<1> QED
  BY <1>1, <1>2, <1>4 DEF OutInv

(* A line a step does not touch.                                           *)
LEMMA LineUntouched ==
    ASSUME LinesInOrder, NEW c \in Conns, cmds'[c] = cmds[c], wire'[c] = wire[c],
           writing'[c] = writing[c], peer'[c] = peer[c] \/ phase[c] \in Unbound,
           phase'[c] \in Unbound => phase[c] \in Unbound /\ peer'[c] = peer[c]
    PROVE  LineShrinks(c)
BY DEF LineShrinks, LinesInOrder, Carries

(* A line whose task drops its receiver.                                   *)
LEMMA LineClosed ==
    ASSUME LinesInOrder, NEW c \in Conns, cmds'[c] = <<>>, wire'[c] = wire[c],
           writing'[c] = writing[c], peer'[c] = peer[c], phase'[c] \notin Unbound
    PROVE  LineShrinks(c)
<1>1. LineInOrder(wire'[c], writing'[c], cmds'[c])
  BY LineDropped DEF LinesInOrder
<1>2. \A m : Carries(c, m)' => Carries(c, m)
  BY LineDropped DEF Carries, LinesInOrder
<1> QED
  BY <1>1, <1>2 DEF LineShrinks

(* The beginning of a send: its messages are new, its nodes distinct.      *)
LEMMA StartSendingIsNew ==
    ASSUME ConnectionsInv, OutInv, NEW view \in Seq(Peers), NEW n \in 1..2,
           StartSending(view, n), addressed' = addressed,
           \A i, j \in 1..Len(view) : view[i] = view[j] => i = j
    PROVE  SendsInOrder' /\ pc' = "nodes"
<1>1. /\ issued' = issued + n /\ nodes' = view /\ pc' = "nodes"
      /\ Len(payload') = n
      /\ \A k \in 1..n : payload'[k] = issued + k
  BY OutTypes DEF StartSending
<1>2. issued \in Nat /\ \A p \in Peers, m \in Messages : <<p, m>> \in addressed => m <= issued
  BY OutTypes DEF OutInv, SendsInOrder
<1>3. Increasing(payload') /\ \A k \in 1..Len(payload') : payload'[k] <= issued'
  BY <1>1, <1>2 DEF Increasing
<1>4. \A p \in Peers, m \in Messages : <<p, m>> \in addressed' => m <= issued'
  BY <1>1, <1>2, OutTypes
<1>5. \A p \in Peers : Fresh(p)'
  BY <1>1, <1>2, OutTypes DEF Fresh
<1>6. \A i \in 1..Len(nodes') : Fresh(nodes[i])'
  <2>1. \A i \in 1..Len(view) : view[i] \in Peers
    BY ElementOfSeq
  <2> QED
    BY <1>1, <1>5, <2>1 DEF Fresh
<1> QED
  BY <1>1, <1>3, <1>4, <1>6 DEF SendsInOrder

(* A node of the view is given a line: nothing its peer was meant to have  *)
(* is newer, and the nodes that follow are other peers.                    *)
LEMMA NodeIsAddressed ==
    ASSUME ConnectionsInv, ReachInv, OutInv, pc = "nodes",
           UNCHANGED <<nodes, payload, issued, cmds, writing, wire>>, pc' = "sending",
           addressed' = addressed \cup {<<Head(nodes), payload[i]>> : i \in DOMAIN payload},
           \A c \in Conns : LineShrinks(c)
    PROVE  OutInv'
<1>1. LinesInOrder'
  BY LinesKept DEF OutInv
<1>2. /\ nodes # <<>> /\ nodes \in Seq(Peers) /\ payload \in Seq(Messages)
      /\ Head(nodes) \in Peers /\ Head(nodes) = nodes[1] /\ 1 \in 1..Len(nodes)
      /\ DOMAIN payload = 1..Len(payload)
  BY OutTypes
<1>3. \A p \in Peers, m \in Messages :
          <<p, m>> \in addressed' => \/ <<p, m>> \in addressed
                                     \/ p = Head(nodes) /\ \E k \in 1..Len(payload) : m = payload[k]
  BY <1>2
<1>4. SendsInOrder'
  <2>1. \A p \in Peers, m \in Messages : <<p, m>> \in addressed' => m <= issued
    BY <1>3 DEF OutInv, SendsInOrder
  <2>2. \A i, j \in 1..Len(nodes) : nodes[i] = nodes[j] => i = j
    BY DEF OutInv, SendsInOrder
  <2>3. ASSUME NEW i \in 2..Len(nodes) PROVE Fresh(nodes[i])'
    <3>1. i \in 1..Len(nodes) /\ nodes[i] \in Peers /\ nodes[i] # Head(nodes)
      BY <1>2, <2>2, ElementOfSeq
    <3>2. \A m \in Messages : <<nodes[i], m>> \in addressed' => <<nodes[i], m>> \in addressed
      BY <1>3, <3>1
    <3>3. Fresh(nodes[i])
      BY <3>1 DEF OutInv, SendsInOrder
    <3> QED
      BY <3>2, <3>3 DEF Fresh
  <2>4. Increasing(payload') /\ \A k \in 1..Len(payload') : payload'[k] <= issued'
    BY DEF OutInv, SendsInOrder
  <2> QED
    BY <2>1, <2>2, <2>3, <2>4 DEF SendsInOrder, Fresh
<1>5. ASSUME NEW k \in 1..Len(payload)
      PROVE  /\ <<Head(nodes'), payload'[k]>> \in addressed'
             /\ \A c \in Conns : peer'[c] = Head(nodes') =>
                 \A m \in Messages : Carries(c, m)' => m < payload'[k]
  <2>1. <<Head(nodes), payload[k]>> \in addressed'
    BY <1>2
  <2>2. ASSUME NEW c \in Conns, peer'[c] = Head(nodes), NEW m \in Messages, Carries(c, m)'
        PROVE  m < payload[k]
    <3>1. Carries(c, m) /\ peer[c] = Head(nodes)
      BY <2>2, UnboundCarryNothing DEF LineShrinks, OutInv
    <3>2. <<nodes[1], m>> \in addressed
      BY <1>2, <2>2, <3>1 DEF OutInv, LinesInOrder
    <3>3. Fresh(nodes[1])
      BY <1>2 DEF OutInv, SendsInOrder
    <3> QED
      BY <3>2, <3>3 DEF Fresh
  <2> QED
    BY <2>1, <2>2
<1>6. SendIsNewest'
  BY <1>5 DEF SendIsNewest
<1> QED
  BY <1>1, <1>4, <1>6 DEF OutInv

(* The command under way enters the channel of the target.                 *)
LEMMA CommandEntersLine ==
    ASSUME ConnectionsInv, ReachInv, OutInv, pc = "sending",
           UNCHANGED <<phase, peer, writing, wire, addressed>>,
           cmds' = [cmds EXCEPT ![target] =
                        Append(cmds[target], [to |-> Head(nodes), msgs |-> payload])]
    PROVE  LinesInOrder'
<1> DEFINE cmd == [to |-> Head(nodes), msgs |-> payload]
<1>0. PICK t \in Conns : t = target
  BY OutTypes
<1>1. /\ wire[t] \in Seq(Messages) /\ writing[t] \in Seq(Messages) /\ cmds[t] \in Seq(Commands)
      /\ cmds'[t] = Append(cmds[t], cmd) /\ peer[t] = Head(nodes)
      /\ \A c \in Conns : c # t => cmds'[c] = cmds[c]
      /\ phase[t] \notin Unbound
  BY <1>0, OutTypes DEF ReachInv, CommandsReachTheirPeer
<1>2. cmd \in Commands /\ cmd.msgs = payload
  BY OutTypes DEF Commands
<1> HIDE DEF cmd
<1>3. \A k \in 1..Len(payload) :
          /\ <<peer[t], payload[k]>> \in addressed
          /\ \A c \in Conns : peer[c] = peer[t] =>
              \A m \in Messages : Carries(c, m) => m < payload[k]
  BY <1>1 DEF OutInv, SendIsNewest
<1>4. \A m : Carries(t, m) => m \in Messages
  <2>1. ASSUME NEW i \in 1..Len(wire[t]) PROVE wire[t][i] \in Messages
    BY <1>1, ElementOfSeq
  <2>3. ASSUME NEW i \in 1..Len(writing[t]) PROVE writing[t][i] \in Messages
    BY <1>1, ElementOfSeq
  <2>2. ASSUME NEW i \in 1..Len(cmds[t]), NEW k \in 1..Len(cmds[t][i].msgs)
        PROVE  cmds[t][i].msgs[k] \in Messages
    <3>1. cmds[t][i] \in Commands
      BY <1>1, ElementOfSeq
    <3>2. cmds[t][i].msgs \in Seq(Messages)
      BY <3>1 DEF Commands
    <3> QED
      BY <2>2, <3>2, ElementOfSeq
  <2> QED
    BY <2>1, <2>2, <2>3 DEF Carries, LineCarries
<1>5. /\ LineInOrder(wire[t], writing[t], cmds[t]) /\ Increasing(cmd.msgs)
      /\ \A m : LineCarries(wire[t], writing[t], cmds[t], m) => \A k \in 1..Len(cmd.msgs) : m < cmd.msgs[k]
  BY <1>2, <1>3, <1>4 DEF OutInv, LinesInOrder, SendsInOrder, Carries
<1>6. /\ LineInOrder(wire'[t], writing'[t], cmds'[t])
      /\ \A m : Carries(t, m)' => Carries(t, m) \/ \E k \in 1..Len(payload) : payload[k] = m
  <2> DEFINE w == wire[t]
             h == writing[t]
             q == cmds[t]
  <2>1. w \in Seq(Messages) /\ h \in Seq(Messages) /\ q \in Seq(Commands) /\ cmd \in Commands
    BY <1>1, <1>2
  <2>2. LineInOrder(w, h, q) /\ Increasing(cmd.msgs) /\ Newer(cmd, w, h, q)
    BY <1>5 DEF Newer
  <2>3. /\ wire'[t] = w /\ writing'[t] = h /\ cmds'[t] = Append(q, cmd)
        /\ \A m : Carries(t, m) <=> LineCarries(w, h, q, m)
        /\ \A m : Carries(t, m)' <=> LineCarries(w, h, Append(q, cmd), m)
    BY <1>1 DEF Carries
  <2> HIDE DEF w, h, q
  <2>4. /\ LineInOrder(w, h, Append(q, cmd))
        /\ \A m : LineCarries(w, h, Append(q, cmd), m)
                  => LineCarries(w, h, q, m) \/ \E k \in 1..Len(cmd.msgs) : cmd.msgs[k] = m
    BY <2>1, <2>2, LineExtended
  <2> QED
    BY <1>2, <2>3, <2>4
<1>7. \A c \in Conns : c # t => /\ LineInOrder(wire'[c], writing'[c], cmds'[c])
                               /\ \A m : Carries(c, m)' <=> Carries(c, m)
  BY <1>1 DEF OutInv, LinesInOrder, Carries
<1>8. ASSUME NEW c \in Conns, NEW m \in Messages, Carries(c, m)'
      PROVE  <<peer[c], m>> \in addressed
  BY <1>3, <1>6, <1>7, <1>8 DEF OutInv, LinesInOrder
<1>9. ASSUME NEW c \in Conns, NEW m \in Messages, Carries(c, m)',
             NEW d \in Conns \ {c}, peer[d] = peer[c], Carries(d, m)'
      PROVE  FALSE
  <2>1. \A k \in 1..Len(payload) : payload[k] \in Nat /\ m \in Nat
    BY OutTypes
  <2>2. \A e \in Conns : peer[e] = peer[t] /\ Carries(e, m) =>
            \A k \in 1..Len(payload) : payload[k] # m
    <3> SUFFICES ASSUME NEW e \in Conns, peer[e] = peer[t], Carries(e, m),
                        NEW k \in 1..Len(payload), payload[k] = m
                 PROVE  FALSE
      OBVIOUS
    <3>1. m < payload[k]
      BY <1>3
    <3> QED
      BY <2>1, <3>1
  <2>3. CASE Carries(c, m) /\ Carries(d, m)
    BY <1>9, <2>3 DEF OutInv, LinesInOrder
  <2>4. CASE c = t /\ Carries(d, m) /\ \E k \in 1..Len(payload) : payload[k] = m
    BY <1>9, <2>2, <2>4
  <2>5. CASE d = t /\ Carries(c, m) /\ \E k \in 1..Len(payload) : payload[k] = m
    BY <1>9, <2>2, <2>5
  <2> QED
    BY <1>6, <1>7, <1>9, <2>3, <2>4, <2>5
<1>10. \A c \in Conns : phase'[c] \in Unbound =>
           wire'[c] = <<>> /\ writing'[c] = <<>> /\ peer'[c] = NoPeer
  BY DEF OutInv, LinesInOrder
<1> QED
  BY <1>6, <1>7, <1>8, <1>9, <1>10 DEF LinesInOrder, Unbound

(* The send to the current node ends: the nodes left are still due what    *)
(* the runner is sending.                                                  *)
LEMMA NextNodeInOrder ==
    ASSUME ConnectionsInv, OutInv, pc = "sending", NextNode
    PROVE  SendsInOrder' /\ pc' # "sending"
<1>1. /\ nodes # <<>> /\ nodes \in Seq(Peers)
      /\ nodes' = Tail(nodes) /\ UNCHANGED <<payload, issued, addressed>>
      /\ pc' # "sending"
  BY OutTypes DEF NextNode
<1>2. \A i \in 1..Len(nodes') : i + 1 \in 2..Len(nodes) /\ nodes'[i] = nodes[i + 1]
  BY <1>1
<1>3. \A i \in 1..Len(nodes') : Fresh(nodes[i])'
  BY <1>1, <1>2 DEF OutInv, SendsInOrder, Fresh
<1>4. \A i, j \in 1..Len(nodes') : nodes'[i] = nodes'[j] => i = j
  <2>1. \A i, j \in 1..Len(nodes) : nodes[i] = nodes[j] => i = j
    BY DEF OutInv, SendsInOrder
  <2>2. \A i \in 1..Len(nodes') : i + 1 \in 1..Len(nodes)
    BY <1>1
  <2> TAKE i, j \in 1..Len(nodes')
  <2>3. nodes'[i] = nodes'[j] => i + 1 = j + 1
    BY <1>2, <2>1, <2>2
  <2> QED
    BY <2>3
<1> QED
  BY <1>1, <1>3, <1>4 DEF OutInv, SendsInOrder

LEMMA OutStep == ConnectionsInv /\ ReachInv /\ OutInv /\ [Next]_vars => OutInv'
<1> SUFFICES ASSUME ConnectionsInv, ReachInv, OutInv, [Next]_vars PROVE OutInv'
  OBVIOUS
<1> USE DEF registry, tasks, inbound, runner, outbound
<1>0. /\ phase \in [Conns -> Phases]
      /\ peer \in [Conns -> Peers \cup {NoPeer}]
      /\ cmds \in [Conns -> Seq(Commands)]
      /\ writing \in [Conns -> Seq(Messages)]
      /\ wire \in [Conns -> Seq(Messages)]
      /\ LinesInOrder
  BY OutTypes DEF OutInv
<1>1. ASSUME UNCHANGED <<phase, peer, cmds, writing, wire>> PROVE \A c \in Conns : LineShrinks(c)
  BY <1>0, <1>1, LineUntouched
<1>2. ASSUME UNCHANGED <<phase, peer, cmds, writing, wire, addressed>>, SendsInOrder', pc' # "sending"
      PROVE  OutInv'
  BY <1>0, <1>1, <1>2, LinesKept DEF OutInv, SendIsNewest
<1>3. ASSUME UNCHANGED <<phase, peer, cmds, writing, wire, nodes, payload, issued, addressed>>,
             pc' \in {"select", "replying", "locked", "stopped"}
      PROVE  OutInv'
  <2>1. SendsInOrder'
    BY <1>3 DEF OutInv, SendsInOrder
  <2> QED
    BY <1>2, <1>3, <2>1
<1>4. ASSUME UNCHANGED <<phase, peer, cmds, writing, wire, pc, nodes, payload, issued, addressed>>
      PROVE  OutInv'
  BY <1>1, <1>4, OutKept
<1>5. ASSUME NEW p \in Peers, SendGossips(p) PROVE OutInv'
  <2>1. PICK n \in 1..2 : StartSending(<<p>>, n)
    BY <1>5 DEF SendGossips
  <2>2. <<p>> \in Seq(Peers) /\ \A i, j \in 1..Len(<<p>>) : i = j
    OBVIOUS
  <2>3. UNCHANGED <<phase, peer, cmds, writing, wire, addressed>>
    BY <1>5 DEF SendGossips
  <2>4. SendsInOrder' /\ pc' = "nodes"
    BY <2>1, <2>2, <2>3, StartSendingIsNew
  <2> QED
    BY <1>2, <2>3, <2>4
<1>6. ASSUME NEW p \in Peers, ReceiveGossip(p) PROVE OutInv'
  BY <1>4, <1>6 DEF ReceiveGossip
<1>7. ASSUME ReceiveTopic PROVE OutInv'
  <2>1. UNCHANGED <<phase, peer, cmds, writing, wire, addressed>> /\ pc = "select"
    BY <1>7 DEF ReceiveTopic, TakeMessage
  <2>2. CASE UNCHANGED <<pc, nodes, payload, issued>>
    BY <1>4, <2>1, <2>2
  <2>3. ASSUME NEW view \in Views, StartSending(view, 1) PROVE OutInv'
    <3>1. view \in Seq(Peers)
      BY ViewsAreSequences DEF ConnectionsInv, TypeOK
    <3>2. \A i, j \in 1..Len(view) : view[i] = view[j] => i = j
      BY <3>1 DEF Views
    <3>3. SendsInOrder' /\ pc' = "nodes"
      BY <2>1, <2>3, <3>1, <3>2, StartSendingIsNew
    <3> QED
      BY <1>2, <2>1, <3>3
  <2> QED
    BY <1>7, <2>2, <2>3 DEF ReceiveTopic
<1>8. ASSUME ReceiveQuery \/ EndReplies \/ Stop PROVE OutInv'
  BY <1>3, <1>8 DEF ReceiveQuery, EndReplies, Stop
<1>9. ASSUME GetOrConnect PROVE OutInv'
  <2>1. pc = "nodes" /\ UNCHANGED <<nodes, payload, issued, cmds, writing, wire>>
    BY <1>9 DEF GetOrConnect
  <2>2. CASE UseEntry(Head(nodes), payload) /\ UNCHANGED tasks
    <3>1. \A c \in Conns : LineShrinks(c)
      BY <1>1, <2>1, <2>2
    <3> QED
      BY <2>1, <2>2, <3>1, NodeIsAddressed DEF UseEntry
  <2>3. CASE Relock(Head(nodes)) /\ UNCHANGED tasks
    BY <1>3, <2>1, <2>3 DEF Relock
  <2>4. CASE Dial(Head(nodes)) /\ UNCHANGED to
    <3>1. PICK c \in Conns : /\ phase[c] = "unused"
                             /\ phase' = [phase EXCEPT ![c] = "connecting"]
                             /\ peer' = [peer EXCEPT ![c] = Head(nodes)]
      BY <2>4 DEF Dial
    <3>2. \A d \in Conns : /\ d # c => phase'[d] = phase[d] /\ peer'[d] = peer[d]
                           /\ d = c => phase'[d] \notin Unbound /\ phase[d] \in Unbound
      BY <1>0, <3>1 DEF Unbound
    <3>3. \A d \in Conns : LineShrinks(d)
      BY <1>0, <2>1, <3>2, LineUntouched
    <3> QED
      BY <2>1, <2>4, <3>3, NodeIsAddressed DEF Dial
  <2> QED
    BY <1>9, <2>2, <2>3, <2>4 DEF GetOrConnect
<1>10. ASSUME PushCommand PROVE OutInv'
  <2>1. /\ pc = "sending" /\ NextNode
        /\ UNCHANGED <<phase, peer, writing, wire, addressed>>
    BY <1>10 DEF PushCommand, NextNode
  <2>2. SendsInOrder' /\ pc' # "sending"
    BY <2>1, NextNodeInOrder
  <2>3. CASE UNCHANGED cmds
    BY <1>2, <2>1, <2>2, <2>3
  <2>4. CASE cmds' = [cmds EXCEPT ![target] =
                          Append(cmds[target], [to |-> Head(nodes), msgs |-> payload])]
    <3>1. LinesInOrder'
      BY <2>1, <2>4, CommandEntersLine
    <3> QED
      BY <2>2, <3>1 DEF OutInv, SendIsNewest
  <2> QED
    BY <1>10, <2>3, <2>4 DEF PushCommand
<1>11. ASSUME Reply PROVE OutInv'
  <2>1. /\ UNCHANGED <<phase, peer, cmds, writing, wire>> /\ pc = "replying"
        /\ issued' = issued + 1 /\ payload' = <<issued + 1>>
        /\ from \in Peers /\ issued \in Nat /\ issued + 1 \in Messages
    <3>1. issued + 1 \in Messages
      <4>1. issued \in Nat
        BY OutTypes
      <4>2. issued < MaxIssued
        BY <1>11 DEF Reply
      <4> QED
        BY <4>1, <4>2 DEF Messages
    <3> QED
      BY <1>11, <3>1, OutTypes DEF Reply
  <2>2. Len(payload') = 1 /\ payload'[1] = issued + 1 /\ Increasing(payload')
    BY <2>1 DEF Increasing
  <2>3. \A p \in Peers, m \in Messages : <<p, m>> \in addressed => m <= issued /\ m < issued + 1
    BY <2>1, OutTypes DEF OutInv, SendsInOrder
  <2>4. CASE UseEntry(from, payload') /\ nodes' = <<from>>
    <3>1. /\ pc' = "sending" /\ Head(nodes') = from /\ Len(nodes') = 1
          /\ addressed' = addressed \cup {<<from, issued + 1>>}
      BY <2>1, <2>2, <2>4 DEF UseEntry
    <3>2. LinesInOrder'
      BY <1>0, <1>1, <2>1, <3>1, LinesKept
    <3>3. ASSUME NEW p \in Peers, NEW m \in Messages, <<p, m>> \in addressed'
          PROVE  m <= issued'
      <4>1. <<p, m>> \in addressed \/ m = issued + 1
        BY <3>1, <3>3
      <4>2. m \in Nat
        BY OutTypes
      <4> QED
        BY <2>1, <2>3, <4>1, <4>2
    <3>4. SendsInOrder'
      BY <2>1, <2>2, <3>1, <3>3 DEF SendsInOrder
    <3>5. ASSUME NEW c \in Conns, peer'[c] = from, NEW m \in Messages, Carries(c, m)'
          PROVE  m < issued + 1
      <4>1. Carries(c, m) /\ peer[c] = from
        BY <2>1, <3>5 DEF Carries
      <4> QED
        BY <1>0, <2>1, <2>3, <4>1 DEF LinesInOrder
    <3>6. SendIsNewest'
      BY <2>1, <2>2, <3>1, <3>5 DEF SendIsNewest
    <3> QED
      BY <3>2, <3>4, <3>6 DEF OutInv
  <2>5. CASE pc' # "sending" /\ pc' # "nodes" /\ UNCHANGED addressed
    <3>1. \A p \in Peers, m \in Messages : <<p, m>> \in addressed' => m <= issued'
      <4>1. \A p \in Peers, m \in Messages : <<p, m>> \in addressed => m \in Nat /\ m <= issued
        BY <2>3, OutTypes
      <4> QED
        BY <2>1, <2>5, <4>1
    <3>2. SendsInOrder'
      BY <2>1, <2>2, <2>5, <3>1 DEF SendsInOrder
    <3> QED
      BY <1>2, <2>1, <2>5, <3>2
  <2> QED
    BY <1>11, <2>1, <2>4, <2>5 DEF Reply, Relock
<1>12. ASSUME NEW c \in Conns,
              \/ Accept(c) \/ Register(c) \/ AcceptFails(c) \/ Unregister(c)
              \/ \E p \in Peers : CheckId(c, p)
       PROVE  OutInv'
  <2>1. UNCHANGED <<cmds, writing, wire, pc, nodes, payload, issued, addressed>>
    BY <1>12 DEF Accept, CheckId, Register, AcceptFails, Unregister
  <2>2. \A d \in Conns : /\ peer'[d] = peer[d] \/ phase[d] \in Unbound
                         /\ phase'[d] \in Unbound => phase[d] \in Unbound /\ peer'[d] = peer[d]
    BY <1>0, <1>12 DEF Accept, CheckId, Register, AcceptFails, Unregister, Unbound
  <2>3. \A d \in Conns : LineShrinks(d)
    BY <1>0, <2>1, <2>2, LineUntouched
  <2> QED
    BY <2>1, <2>3, OutKept
<1>13. ASSUME NEW c \in Conns,
              ConnectFails(c) \/ EnqueueFails(c) \/ Disconnected(c) \/ NoMoreCommands(c)
       PROVE  OutInv'
  <2>1. UNCHANGED <<peer, writing, wire, pc, nodes, payload, issued, addressed>>
    BY <1>13 DEF ConnectFails, EnqueueFails, Disconnected, NoMoreCommands
  <2>2. DropReceiver(c, "done") \/ DropReceiver(c, "closing")
    BY <1>13 DEF ConnectFails, EnqueueFails, Disconnected, NoMoreCommands
  <2>3. /\ cmds'[c] = <<>> /\ phase'[c] \notin Unbound
        /\ \A d \in Conns : d # c => cmds'[d] = cmds[d] /\ phase'[d] = phase[d]
    BY <1>0, <2>2 DEF DropReceiver, Unbound
  <2>4. LineShrinks(c)
    BY <1>0, <2>1, <2>3, LineClosed
  <2>5. \A d \in Conns : d # c => LineShrinks(d)
    BY <1>0, <2>1, <2>3, LineUntouched
  <2>6. \A d \in Conns : LineShrinks(d)
    BY <2>4, <2>5
  <2> QED
    BY <2>1, <2>6, OutKept
<1>14. ASSUME NEW c \in Conns, Read(c) \/ Enqueue(c) PROVE OutInv'
  BY <1>4, <1>14 DEF Read, Enqueue
<1>15. ASSUME NEW c \in Conns, TakeCommand(c) PROVE OutInv'
  <2>1. /\ cmds[c] # <<>> /\ cmds[c] \in Seq(Commands) /\ writing[c] = <<>>
        /\ cmds'[c] = Tail(cmds[c]) /\ writing'[c] = Head(cmds[c]).msgs
        /\ \A d \in Conns : d # c => cmds'[d] = cmds[d] /\ writing'[d] = writing[d]
        /\ phase[c] \notin Unbound
        /\ UNCHANGED <<phase, peer, wire, pc, nodes, payload, issued, addressed>>
    BY <1>0, <1>15 DEF TakeCommand, Selecting, Unbound
  <2>2. LineInOrder(wire[c], <<>>, cmds[c])
    BY <1>0, <2>1 DEF LinesInOrder
  <2>3. /\ LineInOrder(wire[c], Head(cmds[c]).msgs, Tail(cmds[c]))
        /\ \A m : LineCarries(wire[c], Head(cmds[c]).msgs, Tail(cmds[c]), m)
                  => LineCarries(wire[c], <<>>, cmds[c], m)
    BY <2>1, <2>2, LineTaken
  <2>4. LineShrinks(c)
    BY <2>1, <2>3 DEF LineShrinks, Carries
  <2>5. \A d \in Conns : d # c => LineShrinks(d)
    BY <1>0, <2>1, LineUntouched
  <2>6. \A d \in Conns : LineShrinks(d)
    BY <2>4, <2>5
  <2> QED
    BY <2>1, <2>6, OutKept
<1>16. ASSUME NEW c \in Conns, WriteMessage(c) PROVE OutInv'
  <2>1. /\ writing[c] # <<>> /\ writing[c] \in Seq(Messages) /\ wire[c] \in Seq(Messages)
        /\ wire'[c] = Append(wire[c], Head(writing[c])) /\ writing'[c] = Tail(writing[c])
        /\ \A d \in Conns : d # c => wire'[d] = wire[d] /\ writing'[d] = writing[d]
        /\ UNCHANGED <<phase, peer, cmds, pc, nodes, payload, issued, addressed>>
    BY <1>0, <1>16 DEF WriteMessage
  <2>2. LineInOrder(wire[c], writing[c], cmds[c]) /\ phase[c] \notin Unbound
    BY <1>0, <2>1 DEF LinesInOrder
  <2>3. /\ LineInOrder(wire'[c], writing'[c], cmds[c])
        /\ \A m : LineCarries(wire'[c], writing'[c], cmds[c], m)
                  => LineCarries(wire[c], writing[c], cmds[c], m)
    BY <2>1, <2>2, LineWritten
  <2>4. LineShrinks(c)
    BY <2>1, <2>2, <2>3 DEF LineShrinks, Carries
  <2>5. \A d \in Conns : d # c => LineShrinks(d)
    BY <1>0, <2>1, LineUntouched
  <2>6. \A d \in Conns : LineShrinks(d)
    BY <2>4, <2>5
  <2> QED
    BY <2>1, <2>6, OutKept
<1>17. ASSUME NEW c \in Conns, WriteFails(c) PROVE OutInv'
  <2>1. /\ writing[c] # <<>> /\ writing'[c] = <<>>
        /\ \A d \in Conns : d # c => writing'[d] = writing[d]
        /\ UNCHANGED <<phase, peer, cmds, wire, pc, nodes, payload, issued, addressed>>
    BY <1>0, <1>17 DEF WriteFails
  <2>2. LineInOrder(wire[c], writing[c], cmds[c]) /\ phase[c] \notin Unbound
    BY <1>0, <2>1 DEF LinesInOrder
  <2>3. /\ LineInOrder(wire[c], <<>>, cmds[c])
        /\ \A m : LineCarries(wire[c], <<>>, cmds[c], m)
                  => LineCarries(wire[c], writing[c], cmds[c], m)
    BY <2>2, LineDropped
  <2>4. LineShrinks(c)
    BY <2>1, <2>2, <2>3 DEF LineShrinks, Carries
  <2>5. \A d \in Conns : d # c => LineShrinks(d)
    BY <1>0, <2>1, LineUntouched
  <2>6. \A d \in Conns : LineShrinks(d)
    BY <2>4, <2>5
  <2> QED
    BY <2>1, <2>6, OutKept
<1>18. ASSUME UNCHANGED vars PROVE OutInv'
  BY <1>4, <1>18 DEF vars
<1> QED
  BY <1>5, <1>6, <1>7, <1>8, <1>9, <1>10, <1>11, <1>12, <1>13, <1>14, <1>15, <1>16, <1>17,
     <1>18
  DEF Next, RunnerNext, TaskNext

(* What a connection carries, as the property names it.                    *)
LEMMA CarriedMessages ==
    ASSUME ConnectionsInv, NEW c \in Conns
    PROVE  \A m : /\ m \in Written(c) <=> \E i \in 1..Len(wire[c]) : wire[c][i] = m
                  /\ m \in InHand(c) <=> \E i \in 1..Len(writing[c]) : writing[c][i] = m
                  /\ m \in InChannel(c) <=> \E j \in 1..Len(cmds[c]) :
                         \E k \in 1..Len(cmds[c][j].msgs) : cmds[c][j].msgs[k] = m
                  /\ m \in Written(c) \cup Waiting(c) => m \in Messages
                  /\ m \in Written(c) \cup Waiting(c) <=> Carries(c, m)
<1>1. wire[c] \in Seq(Messages) /\ writing[c] \in Seq(Messages) /\ cmds[c] \in Seq(Commands)
  BY OutTypes
<1>2. /\ \A i \in 1..Len(wire[c]) : wire[c][i] \in Messages
      /\ \A i \in 1..Len(writing[c]) : writing[c][i] \in Messages
  BY <1>1, ElementOfSeq
<1>3. \A j \in 1..Len(cmds[c]) : cmds[c][j].msgs \in Seq(Messages)
  <2>1. \A j \in 1..Len(cmds[c]) : cmds[c][j] \in Commands
    BY <1>1, ElementOfSeq
  <2> QED
    BY <2>1 DEF Commands
<1>4. \A j \in 1..Len(cmds[c]) : /\ DOMAIN cmds[c][j].msgs = 1..Len(cmds[c][j].msgs)
                                 /\ \A k \in 1..Len(cmds[c][j].msgs) : cmds[c][j].msgs[k] \in Messages
  BY <1>3, ElementOfSeq
<1>5. /\ DOMAIN wire[c] = 1..Len(wire[c]) /\ DOMAIN writing[c] = 1..Len(writing[c])
      /\ DOMAIN cmds[c] = 1..Len(cmds[c])
  BY <1>1
<1>6. /\ \A m : m \in Written(c) <=> \E i \in 1..Len(wire[c]) : wire[c][i] = m
      /\ \A m : m \in InHand(c) <=> \E i \in 1..Len(writing[c]) : writing[c][i] = m
  BY <1>5 DEF Written, InHand
<1>7. \A m : m \in InChannel(c) <=> \E j \in 1..Len(cmds[c]) :
                  \E k \in 1..Len(cmds[c][j].msgs) : cmds[c][j].msgs[k] = m
  <2>1. \A m : m \in InChannel(c) <=> \E j \in DOMAIN cmds[c] :
                    \E k \in DOMAIN cmds[c][j].msgs : m = cmds[c][j].msgs[k]
    BY DEF InChannel
  <2> QED
    BY <1>4, <1>5, <2>1
<1>8. \A m : m \in Written(c) \cup Waiting(c) => m \in Messages
  BY <1>2, <1>4, <1>6, <1>7 DEF Waiting
<1>9. \A m : m \in Written(c) \cup Waiting(c) <=> Carries(c, m)
  BY <1>6, <1>7 DEF Waiting, Carries, LineCarries
<1> QED
  BY <1>6, <1>7, <1>8, <1>9

LEMMA LinesImplyOrder == ConnectionsInv /\ OutInv => OutboundInOrder
<1> SUFFICES ASSUME ConnectionsInv, OutInv, NEW c \in Conns
             PROVE  /\ \A i, j \in DOMAIN wire[c] : i < j => wire[c][i] < wire[c][j]
                    /\ \A i, j \in DOMAIN writing[c] : i < j => writing[c][i] < writing[c][j]
                    /\ \A m \in Written(c), n \in Waiting(c) : m < n
                    /\ \A m \in InHand(c), n \in InChannel(c) : m < n
                    /\ \A i, j \in DOMAIN cmds[c] : i < j =>
                        \A k \in DOMAIN cmds[c][i].msgs, l \in DOMAIN cmds[c][j].msgs :
                            cmds[c][i].msgs[k] < cmds[c][j].msgs[l]
                    /\ \A m \in Written(c) \cup Waiting(c) :
                        /\ <<peer[c], m>> \in addressed
                        /\ \A d \in Conns \ {c} :
                            peer[d] = peer[c] => m \notin Written(d) \cup Waiting(d)
  BY DEF OutboundInOrder
<1>1. /\ wire[c] \in Seq(Messages) /\ writing[c] \in Seq(Messages)
      /\ cmds[c] \in Seq(Commands)
      /\ LineInOrder(wire[c], writing[c], cmds[c])
  BY OutTypes DEF OutInv, LinesInOrder
<1>2. /\ \A i, j \in DOMAIN wire[c] : i < j => wire[c][i] < wire[c][j]
      /\ \A i, j \in DOMAIN writing[c] : i < j => writing[c][i] < writing[c][j]
  <2>1. DOMAIN wire[c] = 1..Len(wire[c]) /\ DOMAIN writing[c] = 1..Len(writing[c])
    BY <1>1
  <2>2. Increasing(wire[c]) /\ Increasing(writing[c])
    BY <1>1 DEF LineInOrder
  <2> QED
    BY <2>1, <2>2 DEF Increasing
<1>3. /\ \A m \in Written(c), n \in InHand(c) : m < n
      /\ \A m \in Written(c), n \in InChannel(c) : m < n
      /\ \A m \in InHand(c), n \in InChannel(c) : m < n
  <2>1. \A m : /\ m \in Written(c) <=> \E i \in 1..Len(wire[c]) : wire[c][i] = m
               /\ m \in InHand(c) <=> \E i \in 1..Len(writing[c]) : writing[c][i] = m
               /\ m \in InChannel(c) <=> \E j \in 1..Len(cmds[c]) :
                      \E k \in 1..Len(cmds[c][j].msgs) : cmds[c][j].msgs[k] = m
    BY CarriedMessages
  <2>2. \A m \in Written(c), n \in InHand(c) : m < n
    BY <1>1, <2>1 DEF LineInOrder
  <2>3. \A m \in Written(c), n \in InChannel(c) : m < n
    BY <1>1, <2>1 DEF LineInOrder
  <2>4. \A m \in InHand(c), n \in InChannel(c) : m < n
    BY <1>1, <2>1 DEF LineInOrder
  <2> QED
    BY <2>2, <2>3, <2>4
<1>4. \A i, j \in DOMAIN cmds[c] : i < j =>
          \A k \in DOMAIN cmds[c][i].msgs, l \in DOMAIN cmds[c][j].msgs :
              cmds[c][i].msgs[k] < cmds[c][j].msgs[l]
  <2>1. \A j \in 1..Len(cmds[c]) : cmds[c][j].msgs \in Seq(Messages)
    <3>1. \A j \in 1..Len(cmds[c]) : cmds[c][j] \in Commands
      BY <1>1, ElementOfSeq
    <3> QED
      BY <3>1 DEF Commands
  <2>2. \A j \in 1..Len(cmds[c]) : DOMAIN cmds[c][j].msgs = 1..Len(cmds[c][j].msgs)
    BY <2>1
  <2>3. DOMAIN cmds[c] = 1..Len(cmds[c])
    BY <1>1
  <2> QED
    BY <1>1, <2>2, <2>3 DEF LineInOrder
<1>5. \A m \in Written(c) \cup Waiting(c) :
          /\ <<peer[c], m>> \in addressed
          /\ \A d \in Conns \ {c} : peer[d] = peer[c] => m \notin Written(d) \cup Waiting(d)
  BY CarriedMessages DEF OutInv, LinesInOrder
<1> QED
  BY <1>2, <1>3, <1>4, <1>5 DEF Waiting

LEMMA OutInit == Init => OutInv
BY DEF Init, OutInv, SendsInOrder, SendIsNewest, LinesInOrder, LineInOrder, LineCarries,
       Carries, Increasing, Unbound

(* In every reachable state a connection carries its messages in the order *)
(* they were sent, only those meant for its peer, and no two connections   *)
(* the same one.                                                           *)
THEOREM OutboundKeepsOrder == Spec => []OutboundInOrder
<1>1. Init => ReachInv
  BY DEF Init, ReachInv, CommandsReachTheirPeer
<1> QED
  BY <1>1, InitInv, StepInv, ReachStep, OutInit, OutStep, LinesImplyOrder, PTL DEF Spec

----------------------------------------------------------------------------
(* The promise to the runner.                                              *)

MessagingInv == ConnectionsInv /\ ReachInv /\ InInv /\ OutInv

LEMMA DeliveredPairs ==
    /\ \A c \in Conns : \A m : <<c, m>> \in Delivered <=> m \in Written(c)
    /\ \A x \in Delivered : \E c \in Conns : \E m \in Written(c) : x = <<c, m>>
BY DEF Delivered

LEMMA DeliveredKept ==
    ASSUME UNCHANGED wire
    PROVE  Delivered' = Delivered
BY DEF Delivered, Written

LEMMA MessagingInit == Init => Messaging!Init
<1> SUFFICES ASSUME Init PROVE Messaging!Init
  OBVIOUS
<1>1. \A c \in Conns : Written(c) = {}
  BY DEF Init, Written
<1>2. Delivered = {}
  BY <1>1, DeliveredPairs
<1> QED
  BY <1>2 DEF Init, Messaging!Init

(* What touches none of the messages is no step of the promise.            *)
LEMMA MessagingStutters ==
    ASSUME UNCHANGED <<peer, nread, handled, addressed, wire>>
    PROVE  UNCHANGED Messaging!vars
BY DeliveredKept DEF Messaging!vars

(* A node is sent what is newer than all it was meant to have.             *)
LEMMA SendStep ==
    ASSUME ConnectionsInv, NEW p \in Peers, NEW s \in Seq(Messages),
           \A m \in Messages : <<p, m>> \in addressed => \A k \in 1..Len(s) : m < s[k],
           addressed' = addressed \cup {<<p, s[i]>> : i \in DOMAIN s},
           UNCHANGED peer \/ \E c \in Conns : peer[c] = NoPeer /\ peer' = [peer EXCEPT ![c] = p],
           UNCHANGED <<nread, handled, wire>>
    PROVE  Messaging!Next
<1> DEFINE msgs == {s[i] : i \in DOMAIN s}
<1>1. DOMAIN s = 1..Len(s) /\ \A i \in 1..Len(s) : s[i] \in Messages
  BY ElementOfSeq
<1>2. msgs \in SUBSET Messages
  BY <1>1
<1>3. \A m \in msgs, n \in Messages : <<p, n>> \in addressed => n < m
  BY <1>1
<1>4. addressed' = addressed \cup {<<p, m>> : m \in msgs}
  <2>1. {<<p, s[i]>> : i \in DOMAIN s} = {<<p, m>> : m \in msgs}
    OBVIOUS
  <2> QED
    BY <2>1
<1> HIDE DEF msgs
<1>5. Delivered' = Delivered
  BY DeliveredKept
<1>6. Messaging!Send(p, msgs)
  BY <1>3, <1>4, <1>5 DEF Messaging!Send, Messaging!Bind
<1> QED
  BY <1>2, <1>6 DEF Messaging!Next

(* The message taken is the next of its connection.                        *)
LEMMA HandleStep ==
    ASSUME ConnectionsInv, InInv, TakeMessage, UNCHANGED <<peer, addressed, wire>>
    PROVE  Messaging!Next
<1>1. PICK c \in Conns : c = Head(queue).conn
  BY TakenIsNext DEF TakeMessage
<1>2. Head(queue).num = Len(handled[c]) + 1 /\ Len(handled[c]) < Enqueued(c)
  BY <1>1, TakenIsNext DEF TakeMessage
<1>3. Len(handled[c]) < nread[c]
  <2>1. Len(handled[c]) \in Nat /\ nread[c] \in Nat /\ hand[c] \in Nat
    BY InTypes
  <2> QED
    BY <1>2, <2>1 DEF Enqueued
<1>4. handled' = [handled EXCEPT ![c] = Append(handled[c], Len(handled[c]) + 1)]
  BY <1>1, <1>2 DEF TakeMessage
<1>5. Messaging!Handle(c)
  BY <1>3, <1>4, DeliveredKept DEF Messaging!Handle, TakeMessage
<1> QED
  BY <1>5 DEF Messaging!Next

(* The message written was not written before, on this line or another.    *)
LEMMA DeliverStep ==
    ASSUME ConnectionsInv, OutInv, NEW c \in Conns, WriteMessage(c)
    PROVE  Messaging!Next
<1> DEFINE m == Head(writing[c])
<1>1. /\ writing[c] # <<>> /\ writing[c] \in Seq(Messages)
      /\ wire \in [Conns -> Seq(Messages)] /\ wire[c] \in Seq(Messages)
      /\ UNCHANGED <<peer, nread, handled, addressed>>
  BY OutTypes DEF WriteMessage, tasks, inbound, runner
<1>2. wire'[c] = Append(wire[c], m) /\ \A d \in Conns : d # c => wire'[d] = wire[d]
  BY <1>1 DEF WriteMessage
<1>3. m = writing[c][1] /\ 1 \in 1..Len(writing[c]) /\ m \in Messages
  BY <1>1
<1> HIDE DEF m
<1>4. Carries(c, m) /\ \A i \in 1..Len(wire[c]) : wire[c][i] < m
  BY <1>3 DEF Carries, LineCarries, OutInv, LinesInOrder, LineInOrder
<1>5. Written(c)' = Written(c) \cup {m}
  <2>1. /\ DOMAIN wire[c] = 1..Len(wire[c]) /\ DOMAIN wire'[c] = 1..Len(wire[c]) + 1
        /\ wire'[c][Len(wire[c]) + 1] = m /\ Len(wire[c]) \in Nat
        /\ \A i \in 1..Len(wire[c]) : wire'[c][i] = wire[c][i]
    BY <1>1, <1>2, <1>3
  <2>2. \A i \in 1..Len(wire[c]) + 1 : i \in 1..Len(wire[c]) \/ i = Len(wire[c]) + 1
    BY <2>1
  <2>3. /\ \A i \in 1..Len(wire[c]) : i \in 1..Len(wire[c]) + 1
        /\ Len(wire[c]) + 1 \in 1..Len(wire[c]) + 1
    BY <2>1
  <2>4. Written(c)' = {wire'[c][i] : i \in 1..Len(wire[c]) + 1}
    BY <2>1 DEF Written
  <2>5. Written(c) = {wire[c][i] : i \in 1..Len(wire[c])}
    BY <2>1 DEF Written
  <2> QED
    BY <2>1, <2>2, <2>3, <2>4, <2>5
<1>6. \A d \in Conns : d # c => Written(d)' = Written(d)
  BY <1>2 DEF Written
<1>7. Delivered' = Delivered \cup {<<c, m>>}
  <2>1. \A d \in Conns : \A n : <<d, n>> \in Delivered' <=> n \in Written(d)'
    BY DEF Delivered
  <2>2. \A x \in Delivered' : \E d \in Conns : \E n : x = <<d, n>>
    BY DEF Delivered
  <2>3. ASSUME NEW d \in Conns, NEW n
        PROVE  n \in Written(d)' <=> n \in Written(d) \/ (d = c /\ n = m)
    <3>1. CASE d = c
      <4>1. Written(d)' = Written(c)' /\ Written(d) = Written(c)
        BY <3>1 DEF Written
      <4> QED
        BY <1>5, <3>1, <4>1
    <3>2. CASE d # c
      BY <1>6, <3>2
    <3> QED
      BY <3>1, <3>2
  <2>4. \A d \in Conns : \A n :
            <<d, n>> \in Delivered' <=> <<d, n>> \in Delivered \/ <<d, n>> = <<c, m>>
    BY <2>1, <2>3, DeliveredPairs
  <2>5. \A x \in Delivered \cup {<<c, m>>} : \E d \in Conns : \E n : x = <<d, n>>
    BY DeliveredPairs
  <2>6. \A x : x \in Delivered' <=> x \in Delivered \cup {<<c, m>>}
    BY <2>2, <2>4, <2>5
  <2> QED
    BY <2>6
<1>8. m \in Messaging!Deliverable(c)
  <2>1. m \in Messages /\ Carries(c, m) /\ <<peer[c], m>> \in addressed
    BY <1>3, <1>4 DEF OutInv, LinesInOrder
  <2>2. \A x \in Messages : <<c, x>> \in Delivered => x < m
    BY <1>4, CarriedMessages, DeliveredPairs
  <2>3. ASSUME NEW d \in Conns, peer[d] = peer[c] PROVE <<d, m>> \notin Delivered
    <3>1. CASE d = c
      <4>1. ~(m < m)
        BY <2>1, OutTypes
      <4> QED
        BY <2>1, <2>2, <3>1, <4>1
    <3>2. CASE d # c
      <4>1. ~Carries(d, m)
        BY <2>1, <2>3, <3>2 DEF OutInv, LinesInOrder
      <4>2. m \notin Written(d)
        BY <4>1, CarriedMessages
      <4> QED
        BY <4>2, DeliveredPairs
    <3> QED
      BY <3>1, <3>2
  <2> QED
    BY <2>1, <2>2, <2>3 DEF Messaging!Deliverable
<1>9. {m} \in SUBSET Messages /\ {m} \subseteq Messaging!Deliverable(c)
  BY <1>3, <1>8
<1>10. Delivered' = Delivered \cup {<<c, n>> : n \in {m}}
  BY <1>7
<1>11. Messaging!Deliver(c, {m})
  BY <1>1, <1>9, <1>10 DEF Messaging!Deliver
<1> QED
  BY <1>9, <1>11 DEF Messaging!Next

LEMMA MessagingStep == MessagingInv /\ [Next]_vars => [Messaging!Next]_Messaging!vars
<1> SUFFICES ASSUME MessagingInv, [Next]_vars
             PROVE  Messaging!Next \/ UNCHANGED Messaging!vars
  OBVIOUS
<1> USE DEF registry, tasks, inbound, runner, outbound, MessagingInv
<1>0. /\ ConnectionsInv /\ ReachInv /\ InInv /\ OutInv
      /\ \A c \in Conns : phase[c] \in Unbound => peer[c] = NoPeer
  BY DEF OutInv, LinesInOrder
<1>1. ASSUME UNCHANGED <<peer, nread, handled, addressed, wire>> PROVE UNCHANGED Messaging!vars
  BY <1>1, MessagingStutters
<1>2. ASSUME NEW p \in Peers, SendGossips(p) PROVE UNCHANGED Messaging!vars
  BY <1>1, <1>2 DEF SendGossips
<1>3. ASSUME (\E p \in Peers : ReceiveGossip(p)) \/ ReceiveTopic \/ ReceiveQuery
      PROVE  Messaging!Next
  BY <1>0, <1>3, HandleStep DEF ReceiveGossip, ReceiveTopic, ReceiveQuery
<1>4. ASSUME GetOrConnect PROVE Messaging!Next \/ UNCHANGED Messaging!vars
  <2> DEFINE p == Head(nodes)
  <2>1. /\ p \in Peers /\ payload \in Seq(Messages) /\ pc = "nodes" /\ nodes # <<>>
        /\ UNCHANGED <<nread, handled, wire>>
    BY <1>0, <1>4, OutTypes DEF GetOrConnect
  <2>2. \A m \in Messages : <<p, m>> \in addressed => \A k \in 1..Len(payload) : m < payload[k]
    <3>1. Fresh(nodes[1])
      BY <1>0, <2>1, OutTypes DEF OutInv, SendsInOrder
    <3>2. p = nodes[1]
      BY <1>0, <2>1, OutTypes
    <3> QED
      BY <3>1, <3>2 DEF Fresh
  <2> HIDE DEF p
  <2>3. CASE UseEntry(p, payload) /\ UNCHANGED tasks
    BY <1>0, <2>1, <2>2, <2>3, SendStep DEF UseEntry
  <2>4. CASE Relock(p) /\ UNCHANGED tasks
    BY <1>1, <2>1, <2>4 DEF Relock
  <2>5. CASE Dial(p) /\ UNCHANGED to
    <3>1. PICK c \in Conns : phase[c] = "unused" /\ peer' = [peer EXCEPT ![c] = p]
      BY <2>5 DEF Dial
    <3>2. peer[c] = NoPeer
      BY <1>0, <3>1 DEF Unbound
    <3>3. addressed' = addressed \cup {<<p, payload[i]>> : i \in DOMAIN payload}
      BY <2>5 DEF Dial
    <3> QED
      BY <1>0, <2>1, <2>2, <3>1, <3>2, <3>3, SendStep
  <2> QED
    BY <1>4, <2>3, <2>4, <2>5 DEF GetOrConnect, p
<1>5. ASSUME PushCommand \/ EndReplies \/ Stop PROVE UNCHANGED Messaging!vars
  BY <1>1, <1>5 DEF PushCommand, NextNode, EndReplies, Stop
<1>6. ASSUME Reply PROVE Messaging!Next \/ UNCHANGED Messaging!vars
  <2>1. /\ from \in Peers /\ UNCHANGED <<peer, nread, handled, wire>>
        /\ payload' = <<issued + 1>> /\ issued \in Nat /\ issued + 1 \in Messages
    <3>1. from \in Peers /\ issued \in Nat
      BY <1>0, <1>6, OutTypes DEF Reply
    <3>2. issued < MaxIssued
      BY <1>6 DEF Reply
    <3>3. issued + 1 \in Messages
      BY <3>1, <3>2 DEF Messages
    <3> QED
      BY <1>6, <3>1, <3>3 DEF Reply
  <2>2. CASE UseEntry(from, payload')
    <3> DEFINE s == <<issued + 1>>
    <3>1. s \in Seq(Messages) /\ Len(s) = 1 /\ s[1] = issued + 1
      BY <2>1
    <3>2. \A m \in Messages : <<from, m>> \in addressed => m < issued + 1
      <4>1. \A m \in Messages : <<from, m>> \in addressed => m <= issued /\ m \in Nat
        BY <1>0, <2>1, OutTypes DEF OutInv, SendsInOrder
      <4> QED
        BY <2>1, <4>1
    <3>3. addressed' = addressed \cup {<<from, s[i]>> : i \in DOMAIN s}
      BY <2>1, <2>2 DEF UseEntry
    <3> HIDE DEF s
    <3>4. \A m \in Messages : <<from, m>> \in addressed => \A k \in 1..Len(s) : m < s[k]
      BY <3>1, <3>2
    <3> QED
      BY <1>0, <2>1, <3>1, <3>3, <3>4, SendStep
  <2>3. CASE UNCHANGED addressed
    BY <1>1, <2>1, <2>3
  <2> QED
    BY <1>6, <2>2, <2>3 DEF Reply, Relock
<1>7. ASSUME NEW c \in Conns,
             \/ Accept(c) \/ Register(c) \/ AcceptFails(c) \/ Unregister(c)
             \/ ConnectFails(c) \/ Disconnected(c) \/ NoMoreCommands(c)
             \/ Enqueue(c) \/ EnqueueFails(c) \/ TakeCommand(c) \/ WriteFails(c)
      PROVE  UNCHANGED Messaging!vars
  BY <1>1, <1>7 DEF Accept, Register, AcceptFails, Unregister, ConnectFails, Disconnected,
     NoMoreCommands, Enqueue, EnqueueFails, TakeCommand, WriteFails
<1>8. ASSUME NEW c \in Conns, NEW p \in Peers, CheckId(c, p) PROVE Messaging!Next
  <2>1. phase[c] = "accepting" /\ peer' = [peer EXCEPT ![c] = p]
        /\ UNCHANGED <<nread, handled, addressed, wire>>
    BY <1>8 DEF CheckId
  <2>2. peer[c] = NoPeer
    BY <1>0, <2>1 DEF Unbound
  <2>3. Messaging!Meet(c, p)
    BY <2>1, <2>2, DeliveredKept DEF Messaging!Meet, Messaging!Bind
  <2> QED
    BY <2>3 DEF Messaging!Next
<1>9. ASSUME NEW c \in Conns, Read(c) PROVE Messaging!Next
  <2>1. peer[c] # NoPeer
    BY <1>0, <1>9 DEF Read, Selecting, ConnectionsInv, ControlOK
  <2>2. Messaging!Read(c)
    BY <1>9, <2>1, DeliveredKept DEF Read, Messaging!Read
  <2> QED
    BY <2>2 DEF Messaging!Next
<1>10. ASSUME NEW c \in Conns, WriteMessage(c) PROVE Messaging!Next
  BY <1>0, <1>10, DeliverStep
<1>11. ASSUME UNCHANGED vars PROVE UNCHANGED Messaging!vars
  BY <1>1, <1>11 DEF vars
<1> QED
  BY <1>2, <1>3, <1>4, <1>5, <1>6, <1>7, <1>8, <1>9, <1>10, <1>11
  DEF Next, RunnerNext, TaskNext

(* The connections of a node keep what PeerMessaging promises its runner:  *)
(* each step of cache, tasks and channels is one of its steps or none.     *)
THEOREM ConnectionsImplementMessaging == Spec => ImplementsMessaging
<1>1. Init => ReachInv /\ InInv
  BY DEF Init, ReachInv, CommandsReachTheirPeer, InInv, InboundInOrder, Queued, Enqueued
<1> QED
  BY <1>1, InitInv, StepInv, ReachStep, InStep, OutInit, OutStep, MessagingInit,
     MessagingStep, PTL
  DEF Spec, ImplementsMessaging, Messaging!Spec, MessagingInv

============================================================================
