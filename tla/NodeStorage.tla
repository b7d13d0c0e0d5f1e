---------------------------- MODULE NodeStorage ----------------------------
(***************************************************************************)
(* What a node keeps (asmtpd, storage/mod.rs and storage/gossips.rs), as   *)
(* the messages its Runner receives change it (network/mod.rs), through    *)
(* failing statements, crashes and restarts.  The database survives them;  *)
(* the cache of known messages is in memory and sled is opened as          *)
(* temporary, so that neither does.                                        *)
(*                                                                         *)
(* The topic of a passport is its hash after zeroes, here the hash itself; *)
(* a content that parses as a block is that block.  Where messages are     *)
(* relayed to is left to Connections and Dissemination.                    *)
(***************************************************************************)
EXTENDS PassportImporter

CONSTANTS
    Peers,
    Users,            \* who may publish passports and register topics
    Blocks,
    Topics,           \* a block is a topic, that of the passport it heads
    Contents,         \* of messages, among them blocks
    Chains,           \* the passports put by peers
    Gossips,
    Times,            \* when messages come and what queries ask for
    MaxKnown,         \* config.known_message_cache_size
    MaxMessages,      \* bound: the row numbers of messages
    MaxStarts         \* bound: how often the node is started

ASSUME NodeAssumption ==
    /\ Users \subseteq Peers
    /\ Parent \in [Blocks -> Blocks \cup {NoParent}]
    /\ Chains \subseteq Seq(Blocks) \ {<<>>}
    /\ IsFiniteSet(Contents)               \* of at most 65535 bytes each
    /\ Times \subseteq [day : Nat, time : Nat]
    /\ MaxKnown \in Nat \ {0}
    /\ MaxMessages \in Nat /\ MaxStarts \in Nat \ {0}

VARIABLES
    db,
    known,            \* the message cache, an IndexSet: the newest last
    saved,            \* the gossips in the sled tree
    answer,           \* what was sent back in the last step
    starts,           \* how often the node was started
    running,
    now,
    seen              \* history: the contents that came since the start

vars == <<db, known, saved, answer, starts, running, now, seen>>

Earlier(s, t) == s.day < t.day \/ (s.day = t.day /\ s.time < t.time)

Init ==
    /\ db = Empty
    /\ known = <<>> /\ seen = {} /\ saved = {} /\ answer = {}
    /\ starts = 1 /\ running = TRUE
    /\ now \in Times /\ \A t \in Times : ~Earlier(t, now)

(* A statement is run as a whole, or fails: it breaks a constraint, or the *)
(* database is out of order.  The Runner logs the error and goes on.       *)
ExecuteBlindly(d) == db' = d
Execute(d) == db' \in {db, IF d = Fault THEN db ELSE d}

-----------------------------------------------------------------------------
(* Topic messages                                                          *)

(* A full cache loses its newest entries until it has room for one more,   *)
(* before the message is looked up.                                        *)
Cut == SubSeq(known, 1, IF Len(known) < MaxKnown THEN Len(known) ELSE MaxKnown - 1)

IsNew(content) == content \notin Range(Cut)

(* The passport branch: the block is pushed to the passport imported from  *)
(* what is stored.                                                         *)
PassportWith(blocks, content) ==
    LET passport == FromBlocks(blocks)
    IN  IF /\ passport # <<>>
           /\ content \in Blocks
           /\ Accepts(passport, content)
        THEN UpdatePassport(db, Append(passport, content))
        ELSE Fault

PassportOf(topic) ==
    IF topic \in Blocks THEN GetPassport(db, topic) ELSE <<>>

HandleIncomingMessage(topic, content) ==
    IF PassportOf(topic) # <<>> THEN PassportWith(PassportOf(topic), content)
    ELSE IF topic \in db.thread THEN NewMessage(db, topic, content, now)
    ELSE db

(* Mutant of HandleTopic: only a message that is stored becomes known.     *)
HandleTopicStored(topic, content) ==
    /\ running /\ IsNew(content)
    /\ NextId(db.message) <= MaxMessages
    /\ Execute(HandleIncomingMessage(topic, content))
    /\ known' = IF db' = db THEN Cut ELSE Append(Cut, content)
    /\ seen' = seen \cup {content}
    /\ answer' = {}
    /\ UNCHANGED <<saved, starts, running, now>>
HandleTopic(topic, content) ==
    /\ running /\ IsNew(content)
    /\ NextId(db.message) <= MaxMessages
    /\ known' = Append(Cut, content) /\ seen' = seen \cup {content}
    /\ Execute(HandleIncomingMessage(topic, content))
    /\ answer' = {}
    /\ UNCHANGED <<saved, starts, running, now>>

HandleKnown(content) ==
    /\ running /\ ~IsNew(content)
    /\ known' = Cut
    /\ answer' = {}
    /\ UNCHANGED <<db, saved, starts, running, now, seen>>

-----------------------------------------------------------------------------
(* Requests                                                                *)

HandleQuery(topic, since) ==
    /\ running
    /\ answer' = {[id |-> topic, row |-> db.message[m], since |-> since] :
                    m \in MessagesOfThreadSince(db, topic, since)}
    /\ UNCHANGED <<db, known, saved, starts, running, now, seen>>

HandleGetPassport(id) ==
    /\ running
    /\ answer' = IF GetPassport(db, id) = <<>> THEN {}
                 ELSE {[id |-> id, blocks |-> GetPassport(db, id)]}
    /\ UNCHANGED <<db, known, saved, starts, running, now, seen>>

(* The passport is stored before its hash is compared with the one that    *)
(* was announced; the error that follows undoes nothing.                   *)
HandlePutPassportAs(id, blocks) ==
    [db EXCEPT !.passport = Insert(@, id, blocks)]
HandlePutPassport(id, blocks) == NewPassport(db, blocks)

ReceivePutPassport(peer, id, blocks) ==
    /\ running /\ peer \in Users
    /\ Execute(HandlePutPassport(id, blocks))
    /\ answer' = {}
    /\ UNCHANGED <<known, saved, starts, running, now, seen>>

PutTopic(peer, topic) ==
    /\ running /\ peer \in Users
    /\ Execute(NewThread(db, topic))
    /\ answer' = {}
    /\ UNCHANGED <<known, saved, starts, running, now, seen>>

(* Any user removes any thread, whoever registered it.                     *)
RemoveTopicOnly(peer, topic) ==
    /\ running /\ peer \in Users
    /\ Execute(DeleteThreadKeeps(db, topic))
    /\ answer' = {}
    /\ UNCHANGED <<known, saved, starts, running, now, seen>>
RemoveTopic(peer, topic) ==
    /\ running /\ peer \in Users
    /\ Execute(DeleteThread(db, topic))
    /\ answer' = {}
    /\ UNCHANGED <<known, saved, starts, running, now, seen>>

-----------------------------------------------------------------------------
(* The gossips in the view of the topology replace the saved ones when     *)
(* these are too old: cleared, then written, and an error of either ends   *)
(* the loop of the Runner.                                                 *)
UpdateKnownGossips(view) ==
    /\ running
    /\ \/ saved' = view /\ UNCHANGED running
       \/ saved' \in {saved, {}} /\ running' = FALSE
    /\ answer' = {}
    /\ UNCHANGED <<db, known, starts, now, seen>>

Stop ==
    /\ running /\ running' = FALSE
    /\ answer' = {}
    /\ UNCHANGED <<db, known, saved, starts, now, seen>>

Start ==
    /\ ~running /\ starts < MaxStarts
    /\ running' = TRUE /\ starts' = starts + 1
    /\ known' = <<>> /\ seen' = {} /\ saved' = {} /\ answer' = {}
    /\ UNCHANGED <<db, now>>

TimePasses ==
    /\ \E t \in Times : Earlier(now, t) /\ now' = t
    /\ answer' = {}
    /\ UNCHANGED <<db, known, saved, starts, running, seen>>

Next ==
    \/ \E topic \in Topics :
        \/ \E content \in Contents : HandleTopic(topic, content)
        \/ \E since \in Times : HandleQuery(topic, since)
        \/ \E peer \in Peers :
            \/ PutTopic(peer, topic)
            \/ RemoveTopic(peer, topic)
    \/ \E content \in Contents : HandleKnown(content)
    \/ \E id \in Blocks :
        \/ HandleGetPassport(id)
        \/ \E peer \in Peers, blocks \in Chains :
            ReceivePutPassport(peer, id, blocks)
    \/ \E view \in SUBSET Gossips : UpdateKnownGossips(view)
    \/ Stop \/ Start \/ TimePasses

Spec == Init /\ [][Next]_vars

-----------------------------------------------------------------------------
TypeOK ==
    /\ DOMAIN db = DOMAIN Empty
    /\ IsTable(db.passport, Blocks, Seq(Blocks))
    /\ db.thread \subseteq Topics
    /\ IsTable(db.message, Nat,
               [thread : Topics, content : Contents, created_at : Times,
                read : BOOLEAN])
    /\ known \in Seq(Contents) /\ Len(known) <= MaxKnown
    /\ seen \subseteq Contents
    /\ saved \subseteq Gossips
    /\ starts \in 1..MaxStarts /\ running \in BOOLEAN
    /\ now \in Times

(* Whatever the Runner does to its database is one call of a method of     *)
(* Storage, done or not, at a time: no step leaves the half of one.  So    *)
(* what holds of a Database (its References) holds of that of a node.  A   *)
(* passport that can be added to has one block (see StoredPassportsLoad).  *)
Abstract == INSTANCE Database WITH
    Ids <- 1..MaxMessages,
    Names <- {}, PublicKeys <- {},
    Chains <- Chains \cup [1..2 -> Blocks]

ImplementsDatabase == Abstract!Spec

(* A passport is found under the hash of its first block and answered with *)
(* it, although put_passport stores what comes before it looks at the hash *)
(* the sender announced, and although blocks are added to it later.        *)
PassportsFiled ==
    /\ \A id \in DOMAIN db.passport : db.passport[id][1] = id
    /\ \A a \in answer : "blocks" \in DOMAIN a => a.blocks[1] = a.id

(* No message of a peer takes a block away from a stored passport: putting *)
(* it again, shorter or different, fails, and topics only add to it.       *)
PassportsOnlyGrow ==
    [][\A id \in DOMAIN db.passport :
        /\ id \in DOMAIN db'.passport
        /\ IsPrefix(db.passport[id], db'.passport[id])]_vars

(* A stored message stays as it is, through registrations of its topic by  *)
(* other users, failures and restarts, until the topic is deregistered.    *)
MessagesKept ==
    [][\A m \in DOMAIN db.message :
        \/ m \in DOMAIN db'.message /\ db'.message[m] = db.message[m]
        \/ db.message[m].thread \notin db'.thread]_vars

(* A message that came once since the node started is not stored when it   *)
(* comes again, whatever topic it is sent to then and whether storing it   *)
(* had succeeded, unless the cache may have been full: as many different   *)
(* messages came as it holds.                                              *)
StoredOnceUnlessFull ==
    [][\A m \in DOMAIN db'.message \ DOMAIN db.message :
        \/ db'.message[m].content \notin seen
        \/ Cardinality(seen) >= MaxKnown]_vars

(* A query is answered with messages of the topic that came after the time *)
(* asked for.  The comparison as texts leaves out those of the same day,   *)
(* and never lets an older one in.                                         *)
AnswersAreLater ==
    \A a \in answer : "row" \in DOMAIN a =>
        /\ a.row.thread = a.id
        /\ Earlier(a.since, a.row.created_at)

(* A passport whose blocks were stored in order, or in any order after the *)
(* first, can be loaded again.                                             *)
StoredPassportsLoad ==
    \A id \in DOMAIN db.passport :
        LET blocks == db.passport[id]
        IN  (/\ Parent[id] = NoParent
             /\ \A i \in 2..Len(blocks) : Parent[blocks[i]] \in Range(blocks))
            => FromBlocks(blocks) # <<>> \/ LoadBlocks(blocks) # <<>>

=============================================================================
