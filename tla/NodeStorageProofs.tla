------------------------- MODULE NodeStorageProofs -------------------------
(***************************************************************************)
(* What a node keeps of messages and passports, for any peers, topics,     *)
(* contents, blocks and times and any number of messages.  Every step      *)
(* leaves the messages and threads alone (but for new threads), adds one   *)
(* message to a thread, or removes a thread with its messages; while fewer *)
(* messages came than the cache holds, it remembers all of them.  Of the   *)
(* passports every step leaves all, adds one, or adds a block to one.      *)
(***************************************************************************)
EXTENDS NodeStorage, DataProofs

Fields == {"contact", "public_key", "passport", "passport_key",
           "contact_passport", "thread", "message"}

Rows == [thread : Topics, content : Contents, created_at : Times, read : BOOLEAN]

MessagesOK ==
    /\ DOMAIN db = Fields
    /\ db.thread \subseteq Topics
    /\ IsTable(db.message, Nat, Rows)
    /\ \E n \in Nat : DOMAIN db.message \subseteq 1..n

(* A message of the database belongs to a thread that is there.            *)
References ==
    \A m \in DOMAIN db.message : db.message[m].thread \in db.thread

Sound ==
    /\ MessagesOK /\ References /\ AnswersAreLater
    /\ now \in Times

-----------------------------------------------------------------------------
(* What a step may do to threads and messages.                             *)

Kept ==
    /\ DOMAIN db' = Fields
    /\ db'.message = db.message
    /\ db.thread \subseteq db'.thread /\ db'.thread \subseteq Topics

Added(topic, content) ==
    /\ DOMAIN db' = Fields
    /\ topic \in db.thread /\ db'.thread = db.thread
    /\ db'.message = Insert(db.message, NextId(db.message),
                            [thread |-> topic, content |-> content,
                             created_at |-> now, read |-> FALSE])

Removed(topic) ==
    /\ DOMAIN db' = Fields
    /\ db'.thread = db.thread \ {topic}
    /\ db'.message = Delete(db.message, MessagesOfThread(db, topic))

LEMMA UnchangedKeeps == ASSUME MessagesOK, db' = db PROVE Kept
BY DEF MessagesOK, Kept

LEMMA HandleTopicDoes ==
    ASSUME MessagesOK, NEW topic \in Topics, NEW content \in Contents,
           HandleTopic(topic, content)
    PROVE  Kept \/ Added(topic, content)
<1> DEFINE d == HandleIncomingMessage(topic, content)
<1>1. db' \in {db, IF d = Fault THEN db ELSE d}
  BY DEF HandleTopic, Execute
<1>2. CASE db' = db
  BY <1>2, UnchangedKeeps
<1>3. CASE db' = PassportWith(PassportOf(topic), content) /\ db' # Fault
  <2>1. PICK blocks : db' = UpdatePassport(db, blocks)
    BY <1>3 DEF PassportWith
  <2>2. db' = db \/ db' = [db EXCEPT !.passport[blocks[1]] = blocks]
    BY <1>3, <2>1 DEF UpdatePassport
  <2> QED
    BY <2>2 DEF MessagesOK, Kept, Fields
<1>4. CASE db' = NewMessage(db, topic, content, now) /\ db' # Fault
  <2>1. /\ topic \in db.thread
        /\ db' = [db EXCEPT !.message = Insert(@, NextId(@),
                    [thread |-> topic, content |-> content,
                     created_at |-> now, read |-> FALSE])]
    BY <1>4 DEF NewMessage
  <2> QED
    BY <2>1 DEF MessagesOK, Added, Fields
<1> QED
  BY <1>1, <1>2, <1>3, <1>4 DEF HandleIncomingMessage

LEMMA PutPassportKeeps ==
    ASSUME MessagesOK, NEW peer, NEW id, NEW blocks,
           ReceivePutPassport(peer, id, blocks)
    PROVE  Kept
<1>1. db' = db \/ db' = [db EXCEPT !.passport = Insert(@, blocks[1], blocks)]
  BY DEF ReceivePutPassport, Execute, HandlePutPassport, NewPassport
<1> QED
  BY <1>1 DEF MessagesOK, Kept, Fields

LEMMA PutTopicKeeps ==
    ASSUME MessagesOK, NEW peer, NEW topic \in Topics, PutTopic(peer, topic)
    PROVE  Kept
<1>1. db' = db \/ db' = [db EXCEPT !.thread = @ \cup {topic}]
  BY DEF PutTopic, Execute, NewThread
<1> QED
  BY <1>1 DEF MessagesOK, Kept, Fields

LEMMA RemoveTopicDoes ==
    ASSUME MessagesOK, NEW peer, NEW topic, RemoveTopic(peer, topic)
    PROVE  Kept \/ Removed(topic)
<1>1. \/ db' = db
      \/ db' = [db EXCEPT !.thread = @ \ {topic},
                          !.message = Delete(@, MessagesOfThread(db, topic))]
  BY DEF RemoveTopic, Execute, DeleteThread
<1> QED
  BY <1>1 DEF MessagesOK, Kept, Removed, Fields

-----------------------------------------------------------------------------
(* What follows from it.                                                   *)

Keeps ==
    \A m \in DOMAIN db.message :
        \/ m \in DOMAIN db'.message /\ db'.message[m] = db.message[m]
        \/ db.message[m].thread \notin db'.thread

LEMMA KeptKeeps ==
    ASSUME MessagesOK, References, Kept
    PROVE  MessagesOK' /\ References' /\ Keeps
<1>1. MessagesOK'
  BY DEF MessagesOK, Kept
<1>2. References' /\ Keeps
  BY DEF References, Kept, Keeps
<1> QED
  BY <1>1, <1>2

LEMMA AddedKeeps ==
    ASSUME MessagesOK, References, now \in Times,
           NEW topic \in Topics, NEW content \in Contents, Added(topic, content)
    PROVE  MessagesOK' /\ References' /\ Keeps
<1> DEFINE id == NextId(db.message)
           row == [thread |-> topic, content |-> content, created_at |-> now,
                   read |-> FALSE]
<1>1. PICK n \in Nat : DOMAIN db.message \subseteq 1..n
  BY DEF MessagesOK
<1>2. id \in 1..(n + 1) /\ id \notin DOMAIN db.message
  BY <1>1, NextIdIsFresh
<1>3. row \in Rows /\ row.thread = topic
  BY DEF Rows
<1> HIDE DEF row, id
<1>4. db'.message = Insert(db.message, id, row)
  BY DEF Added, id, row
<1>5. /\ DOMAIN db'.message = DOMAIN db.message \cup {id}
      /\ db'.message[id] = row
      /\ \A x \in DOMAIN db.message : db'.message[x] = db.message[x]
  BY <1>2, <1>4 DEF Insert
<1>6. IsTable(db'.message, Nat, Rows)
  <2>1. id \in Nat /\ IsTable(db.message, Nat, Rows)
    BY <1>2 DEF MessagesOK
  <2> QED
    BY <1>3, <1>4, <2>1, InsertTable
<1>7. n + 1 \in Nat /\ DOMAIN db'.message \subseteq 1..(n + 1)
  BY <1>1, <1>2, <1>5
<1>8. MessagesOK'
  BY <1>6, <1>7 DEF MessagesOK, Added
<1>9. References' /\ Keeps
  BY <1>3, <1>5 DEF References, Keeps, Added
<1> QED
  BY <1>8, <1>9

LEMMA RemovedKeeps ==
    ASSUME MessagesOK, References, NEW topic, Removed(topic)
    PROVE  MessagesOK' /\ References' /\ Keeps
<1> DEFINE gone == MessagesOfThread(db, topic)
<1>1. /\ DOMAIN db'.message = DOMAIN db.message \ gone
      /\ \A m \in DOMAIN db.message \ gone : db'.message[m] = db.message[m]
  BY DEF Removed, Delete, Restrict
<1>2. \A m \in DOMAIN db.message :
        m \in gone <=> db.message[m].thread = topic
  BY DEF MessagesOfThread
<1>3. IsTable(db'.message, Nat, Rows)
  BY DeleteTable DEF Removed, MessagesOK
<1> HIDE DEF gone
<1>4. MessagesOK'
  BY <1>1, <1>3 DEF MessagesOK, Removed
<1>5. References' /\ Keeps
  BY <1>1, <1>2 DEF References, Keeps, Removed
<1> QED
  BY <1>4, <1>5

-----------------------------------------------------------------------------
LEMMA SilentStep == ASSUME answer' = {} PROVE AnswersAreLater'
BY DEF AnswersAreLater

LEMMA QueryAnswers ==
    ASSUME MessagesOK, NEW topic, NEW since \in Times, HandleQuery(topic, since)
    PROVE  AnswersAreLater'
<1>1. \A m \in MessagesOfThreadSince(db, topic, since) :
        /\ db.message[m].thread = topic
        /\ Earlier(since, db.message[m].created_at)
  <2> TAKE m \in MessagesOfThreadSince(db, topic, since)
  <2>1. /\ m \in DOMAIN db.message /\ db.message[m].thread = topic
        /\ db.message[m].created_at.day > since.day
    BY DEF MessagesOfThreadSince, MessagesOfThread, Since
  <2>2. db.message[m].created_at \in Times
    BY <2>1 DEF MessagesOK, IsTable, Rows
  <2>3. since.day \in Nat /\ db.message[m].created_at.day \in Nat
    BY <2>2, NodeAssumption
  <2> QED
    BY <2>1, <2>3 DEF Earlier
<1>2. answer' = {[id |-> topic, row |-> db.message[m], since |-> since] :
                    m \in MessagesOfThreadSince(db, topic, since)}
  BY DEF HandleQuery
<1> QED
  BY <1>1, <1>2 DEF AnswersAreLater, Earlier

LEMMA PassportAnswers ==
    ASSUME NEW id, HandleGetPassport(id) PROVE AnswersAreLater'
<1>1. \A a \in answer' : a = [id |-> id, blocks |-> GetPassport(db, id)]
  BY DEF HandleGetPassport
<1> QED
  BY <1>1 DEF AnswersAreLater

LEMMA FirstSound == Init => Sound
<1> SUFFICES ASSUME Init PROVE Sound
  OBVIOUS
<1>1. DOMAIN db = Fields /\ db.thread = {} /\ db.message = <<>>
  BY DEF Init, Empty, Fields
<1>2. MessagesOK
  <2>1. DOMAIN db.message = {} /\ IsTable(db.message, Nat, Rows)
    BY <1>1 DEF IsTable
  <2> QED
    BY <1>1, <2>1 DEF MessagesOK
<1>3. References /\ AnswersAreLater
  BY <1>1 DEF Init, References, AnswersAreLater
<1> QED
  BY <1>2, <1>3 DEF Sound, Init

-----------------------------------------------------------------------------
(* The stored passports: each is under the hash of its first block.  A     *)
(* step leaves them alone, adds one under a new hash, or a block at the    *)
(* end of one, since what is imported from stored blocks is these blocks   *)
(* (FromBlocksIsFirst) whenever it is anything.                            *)

PassportsOK ==
    /\ IsTable(db.passport, Blocks, Seq(Blocks) \ {<<>>})
    /\ PassportsFiled

PassportsGrow ==
    \A id \in DOMAIN db.passport :
        /\ id \in DOMAIN db'.passport
        /\ IsPrefix(db.passport[id], db'.passport[id])

LEMMA SamePassports ==
    ASSUME PassportsOK, db'.passport = db.passport,
           \A a \in answer' : "blocks" \in DOMAIN a => a.blocks[1] = a.id
    PROVE  PassportsOK' /\ PassportsGrow
<1>1. \A id \in DOMAIN db.passport : IsPrefix(db.passport[id], db.passport[id])
  BY DEF PassportsOK, IsTable, IsPrefix
<1> QED
  BY <1>1 DEF PassportsOK, PassportsFiled, PassportsGrow

LEMMA AddedPassport ==
    ASSUME PassportsOK, NEW blocks \in Seq(Blocks) \ {<<>>},
           blocks[1] \notin DOMAIN db.passport,
           db'.passport = Insert(db.passport, blocks[1], blocks), answer' = {}
    PROVE  PassportsOK' /\ PassportsGrow
<1>1. blocks[1] \in Blocks
  OBVIOUS
<1>2. IsTable(db.passport, Blocks, Seq(Blocks) \ {<<>>})'
  BY <1>1, InsertTable DEF PassportsOK
<1>3. /\ DOMAIN db'.passport = DOMAIN db.passport \cup {blocks[1]}
      /\ db'.passport[blocks[1]] = blocks
      /\ \A id \in DOMAIN db.passport : db'.passport[id] = db.passport[id]
  BY DEF Insert
<1>4. PassportsFiled'
  BY <1>3 DEF PassportsOK, PassportsFiled
<1>5. \A id \in DOMAIN db.passport : IsPrefix(db.passport[id], db.passport[id])
  BY DEF PassportsOK, IsTable, IsPrefix
<1> QED
  BY <1>2, <1>3, <1>4, <1>5 DEF PassportsOK, PassportsGrow

LEMMA GrownPassport ==
    ASSUME PassportsOK, NEW id \in DOMAIN db.passport, NEW content \in Blocks,
           db'.passport = [db.passport EXCEPT ![id] = Append(@, content)],
           answer' = {}
    PROVE  PassportsOK' /\ PassportsGrow
<1> DEFINE blocks == db.passport[id]
           more == Append(blocks, content)
<1>1. blocks \in Seq(Blocks) /\ blocks # <<>> /\ blocks[1] = id
  BY DEF PassportsOK, PassportsFiled, IsTable
<1>2. more \in Seq(Blocks) \ {<<>>} /\ more[1] = id /\ IsPrefix(blocks, more)
  <2>1. Len(blocks) \in Nat \ {0}
    BY <1>1
  <2>2. /\ more \in Seq(Blocks) /\ Len(more) = Len(blocks) + 1
        /\ \A i \in 1..Len(blocks) : more[i] = blocks[i]
    BY <1>1
  <2>3. SubSeq(blocks, 1, Len(blocks)) = SubSeq(more, 1, Len(blocks))
    BY <1>1, <2>1, <2>2
  <2> QED
    BY <1>1, <2>1, <2>2, <2>3 DEF IsPrefix
<1>3. IsTable(db.passport, Blocks, Seq(Blocks) \ {<<>>})'
  BY <1>2, UpdateTable DEF PassportsOK
<1>4. /\ DOMAIN db'.passport = DOMAIN db.passport /\ db'.passport[id] = more
      /\ \A other \in DOMAIN db.passport :
            other # id => db'.passport[other] = db.passport[other]
  BY DEF PassportsOK, IsTable
<1>5. \A other \in DOMAIN db.passport :
        IsPrefix(db.passport[other], db.passport[other])
  BY DEF PassportsOK, IsTable, IsPrefix
<1>6. PassportsFiled'
  BY <1>2, <1>4 DEF PassportsOK, PassportsFiled
<1> QED
  BY <1>2, <1>3, <1>4, <1>5, <1>6 DEF PassportsOK, PassportsGrow

(* What a message of a topic does to the database: nothing, a block more   *)
(* for a passport that has one, or a message more for a thread.            *)
LEMMA TopicWrites ==
    ASSUME PassportsOK, NEW topic, NEW content, HandleTopic(topic, content)
    PROVE  \/ db' = db
           \/ /\ topic \in DOMAIN db.passport /\ content \in Blocks
              /\ Len(db.passport[topic]) = 1
              /\ db' = [db EXCEPT !.passport[topic] = Append(@, content)]
              /\ db' = UpdatePassport(db, Append(db.passport[topic], content))
           \/ /\ topic \in db.thread
              /\ db' = [db EXCEPT !.message = Insert(@, NextId(@),
                          [thread |-> topic, content |-> content,
                           created_at |-> now, read |-> FALSE])]
<1> DEFINE d == HandleIncomingMessage(topic, content)
           blocks == PassportOf(topic)
<1>1. db' \in {db, IF d = Fault THEN db ELSE d}
  BY DEF HandleTopic, Execute
<1>2. CASE db' = PassportWith(blocks, content) /\ db' # Fault /\ blocks # <<>>
  <2>1. /\ topic \in DOMAIN db.passport /\ blocks = db.passport[topic]
        /\ blocks \in Seq(Blocks) /\ blocks[1] = topic
    BY <1>2 DEF PassportOf, GetPassport, PassportsOK, PassportsFiled, IsTable
  <2>2. /\ FromBlocks(blocks) # <<>> /\ content \in Blocks
        /\ db' = UpdatePassport(db, Append(FromBlocks(blocks), content))
    BY <1>2, Zenon DEF PassportWith
  <2>3. FromBlocks(blocks) = blocks /\ Len(blocks) = 1
    BY <2>1, <2>2, FromBlocksIsFirst
  <2>4. /\ Append(blocks, content) # <<>>
        /\ Append(blocks, content)[1] = topic
    BY <1>2, <2>1, <2>2
  <2> HIDE DEF blocks
  <2>5. db' = [db EXCEPT !.passport[topic] = Append(blocks, content)]
    BY <2>1, <2>2, <2>3, <2>4 DEF UpdatePassport
  <2>6. [db EXCEPT !.passport[topic] = Append(blocks, content)]
            = [db EXCEPT !.passport[topic] = Append(@, content)]
    BY <2>1
  <2>7. db' = UpdatePassport(db, Append(blocks, content))
    BY <2>2, <2>3
  <2> QED
    BY <2>1, <2>2, <2>3, <2>5, <2>6, <2>7
<1>3. CASE db' = NewMessage(db, topic, content, now) /\ db' # Fault
  BY <1>3 DEF NewMessage
<1> QED
  BY <1>1, <1>2, <1>3, Zenon DEF HandleIncomingMessage

LEMMA TopicPassports ==
    ASSUME PassportsOK, MessagesOK, NEW topic, NEW content,
           HandleTopic(topic, content)
    PROVE  PassportsOK' /\ PassportsGrow
<1>1. answer' = {}
  BY DEF HandleTopic
<1>2. CASE db'.passport = db.passport
  BY <1>1, <1>2, SamePassports
<1>3. CASE /\ topic \in DOMAIN db.passport /\ content \in Blocks
           /\ db' = [db EXCEPT !.passport[topic] = Append(@, content)]
  <2>1. db'.passport = [db.passport EXCEPT ![topic] = Append(@, content)]
    BY <1>3 DEF MessagesOK, Fields
  <2> QED
    BY <1>1, <1>3, <2>1, GrownPassport
<1>4. ASSUME NEW new, db' = [db EXCEPT !.message = new]
      PROVE  db'.passport = db.passport
  BY <1>4 DEF MessagesOK, Fields
<1> QED
  BY <1>2, <1>3, <1>4, TopicWrites

LEMMA PutPassports ==
    ASSUME PassportsOK, MessagesOK, NEW peer, NEW id, NEW blocks \in Chains,
           ReceivePutPassport(peer, id, blocks)
    PROVE  PassportsOK' /\ PassportsGrow
<1>1. answer' = {}
  BY DEF ReceivePutPassport
<1>2. CASE db' = db
  BY <1>1, <1>2, SamePassports
<1>3. CASE db' = NewPassport(db, blocks) /\ db' # Fault
  <2>1. /\ blocks \in Seq(Blocks) \ {<<>>} /\ blocks[1] \notin DOMAIN db.passport
        /\ db' = [db EXCEPT !.passport = Insert(@, blocks[1], blocks)]
    BY <1>3, NodeAssumption DEF NewPassport
  <2>2. db'.passport = Insert(db.passport, blocks[1], blocks)
    BY <2>1 DEF MessagesOK, Fields
  <2> QED
    BY <1>1, <2>1, <2>2, AddedPassport
<1> QED
  BY <1>2, <1>3 DEF ReceivePutPassport, Execute, HandlePutPassport

LEMMA ThreadsKeepPassports ==
    ASSUME PassportsOK, MessagesOK, NEW peer, NEW topic,
           PutTopic(peer, topic) \/ RemoveTopic(peer, topic)
    PROVE  PassportsOK' /\ PassportsGrow
<1>1. answer' = {}
  BY DEF PutTopic, RemoveTopic
<1>2. \/ db' = db
      \/ db' = [db EXCEPT !.thread = @ \cup {topic}]
      \/ db' = [db EXCEPT !.thread = @ \ {topic},
                          !.message = Delete(@, MessagesOfThread(db, topic))]
  BY DEF PutTopic, RemoveTopic, Execute, NewThread, DeleteThread
<1>3. db'.passport = db.passport
  BY <1>2 DEF MessagesOK, Fields
<1> QED
  BY <1>1, <1>3, SamePassports

-----------------------------------------------------------------------------
(* A step that leaves the messages.                                        *)
LEMMA KeptStep ==
    ASSUME Sound, Kept, now' \in Times, AnswersAreLater'
    PROVE  Sound' /\ Keeps
<1>1. MessagesOK' /\ References' /\ Keeps
  BY KeptKeeps DEF Sound
<1> QED
  BY <1>1 DEF Sound

LEMMA HandleTopicStep ==
    ASSUME Sound, NEW topic \in Topics, NEW content \in Contents,
           HandleTopic(topic, content)
    PROVE  Sound' /\ Keeps
<1>1. answer' = {} /\ now' = now
  BY DEF HandleTopic
<1>2. AnswersAreLater' /\ now' \in Times
  BY <1>1, SilentStep DEF Sound
<1>3. CASE Kept
  BY <1>2, <1>3, KeptStep
<1>4. CASE Added(topic, content)
  <2>1. MessagesOK' /\ References' /\ Keeps
    BY <1>4, AddedKeeps DEF Sound
  <2> QED
    BY <1>2, <2>1 DEF Sound
<1> QED
  BY <1>3, <1>4, HandleTopicDoes DEF Sound

LEMMA RemoveTopicStep ==
    ASSUME Sound, NEW peer, NEW topic, RemoveTopic(peer, topic)
    PROVE  Sound' /\ Keeps
<1>1. answer' = {} /\ now' = now
  BY DEF RemoveTopic
<1>2. AnswersAreLater' /\ now' \in Times
  BY <1>1, SilentStep DEF Sound
<1>3. CASE Kept
  BY <1>2, <1>3, KeptStep
<1>4. CASE Removed(topic)
  <2>1. MessagesOK' /\ References' /\ Keeps
    BY <1>4, RemovedKeeps DEF Sound
  <2> QED
    BY <1>2, <2>1 DEF Sound
<1> QED
  BY <1>3, <1>4, RemoveTopicDoes DEF Sound

LEMMA StepKeeps == Sound /\ [Next]_vars => Sound' /\ Keeps
<1> SUFFICES ASSUME Sound, [Next]_vars PROVE Sound' /\ Keeps
  OBVIOUS
<1> USE DEF Sound
<1>1. ASSUME NEW topic \in Topics, NEW content \in Contents,
             HandleTopic(topic, content)
      PROVE  Sound' /\ Keeps
  BY <1>1, HandleTopicStep
<1>2. ASSUME NEW topic \in Topics, NEW since \in Times, HandleQuery(topic, since)
      PROVE  Sound' /\ Keeps
  <2>1. db' = db /\ now' = now
    BY <1>2 DEF HandleQuery
  <2>2. AnswersAreLater'
    BY <1>2, QueryAnswers
  <2> QED
    BY <2>1, <2>2, UnchangedKeeps, KeptStep
<1>3. ASSUME NEW topic \in Topics, NEW peer, PutTopic(peer, topic)
      PROVE  Sound' /\ Keeps
  <2>1. answer' = {} /\ now' = now
    BY <1>3 DEF PutTopic
  <2> QED
    BY <1>3, <2>1, SilentStep, PutTopicKeeps, KeptStep
<1>4. ASSUME NEW peer, NEW topic, RemoveTopic(peer, topic) PROVE Sound' /\ Keeps
  BY <1>4, RemoveTopicStep
<1>5. ASSUME NEW id, HandleGetPassport(id) PROVE Sound' /\ Keeps
  <2>1. db' = db /\ now' = now
    BY <1>5 DEF HandleGetPassport
  <2>2. AnswersAreLater'
    BY <1>5, PassportAnswers
  <2> QED
    BY <2>1, <2>2, UnchangedKeeps, KeptStep
<1>6. ASSUME NEW peer, NEW id, NEW blocks, ReceivePutPassport(peer, id, blocks)
      PROVE  Sound' /\ Keeps
  <2>1. answer' = {} /\ now' = now
    BY <1>6 DEF ReceivePutPassport
  <2> QED
    BY <1>6, <2>1, SilentStep, PutPassportKeeps, KeptStep
<1>7. ASSUME \/ \E view \in SUBSET Gossips : UpdateKnownGossips(view)
             \/ \E content \in Contents : HandleKnown(content)
             \/ Stop \/ Start
      PROVE  Sound' /\ Keeps
  <2>1. db' = db /\ answer' = {} /\ now' = now
    BY <1>7 DEF UpdateKnownGossips, HandleKnown, Stop, Start
  <2> QED
    BY <2>1, SilentStep, UnchangedKeeps, KeptStep
<1>8. CASE TimePasses
  <2>1. db' = db /\ answer' = {} /\ now' \in Times
    BY <1>8 DEF TimePasses
  <2> QED
    BY <2>1, SilentStep, UnchangedKeeps, KeptStep
<1>9. CASE UNCHANGED vars
  <2>1. db' = db /\ now' = now /\ answer' = answer
    BY <1>9 DEF vars
  <2>2. AnswersAreLater'
    BY <2>1 DEF AnswersAreLater
  <2> QED
    BY <2>1, <2>2, UnchangedKeeps, KeptStep
<1> QED
  BY <1>1, <1>2, <1>3, <1>4, <1>5, <1>6, <1>7, <1>8, <1>9 DEF Next

LEMMA StepKeepsPassports ==
    Sound /\ PassportsOK /\ [Next]_vars => PassportsOK' /\ PassportsGrow
<1> SUFFICES ASSUME Sound, PassportsOK, [Next]_vars
             PROVE  PassportsOK' /\ PassportsGrow
  OBVIOUS
<1>0. MessagesOK
  BY DEF Sound
<1>1. ASSUME NEW topic \in Topics, NEW content \in Contents,
             HandleTopic(topic, content)
      PROVE  PassportsOK' /\ PassportsGrow
  BY <1>0, <1>1, TopicPassports
<1>2. ASSUME NEW topic \in Topics, NEW since \in Times, HandleQuery(topic, since)
      PROVE  PassportsOK' /\ PassportsGrow
  <2>1. \A a \in answer' : "blocks" \notin DOMAIN a
    BY <1>2 DEF HandleQuery
  <2> QED
    BY <1>2, <2>1, SamePassports DEF HandleQuery
<1>3. ASSUME NEW topic \in Topics, NEW peer,
             PutTopic(peer, topic) \/ RemoveTopic(peer, topic)
      PROVE  PassportsOK' /\ PassportsGrow
  BY <1>0, <1>3, ThreadsKeepPassports
<1>4. ASSUME NEW id \in Blocks, HandleGetPassport(id)
      PROVE  PassportsOK' /\ PassportsGrow
  <2>1. \A a \in answer' : a.blocks[1] = a.id
    BY <1>4 DEF HandleGetPassport, GetPassport, PassportsOK, PassportsFiled
  <2> QED
    BY <1>4, <2>1, SamePassports DEF HandleGetPassport
<1>5. ASSUME NEW peer, NEW id, NEW blocks \in Chains,
             ReceivePutPassport(peer, id, blocks)
      PROVE  PassportsOK' /\ PassportsGrow
  BY <1>0, <1>5, PutPassports
<1>6. ASSUME \/ \E view \in SUBSET Gossips : UpdateKnownGossips(view)
             \/ \E content \in Contents : HandleKnown(content)
             \/ Stop \/ Start \/ TimePasses
      PROVE  PassportsOK' /\ PassportsGrow
  <2>1. db' = db /\ answer' = {}
    BY <1>6 DEF UpdateKnownGossips, HandleKnown, Stop, Start, TimePasses
  <2> QED
    BY <2>1, SamePassports
<1>7. CASE UNCHANGED vars
  <2>1. db' = db /\ answer' = answer
    BY <1>7 DEF vars
  <2> QED
    BY <2>1, SamePassports DEF PassportsOK, PassportsFiled
<1> QED
  BY <1>1, <1>2, <1>3, <1>4, <1>5, <1>6, <1>7 DEF Next

LEMMA FirstPassportsOK == Init => PassportsOK
<1> SUFFICES ASSUME Init PROVE PassportsOK
  OBVIOUS
<1>1. db.passport = <<>> /\ answer = {}
  BY DEF Init, Empty
<1> QED
  BY <1>1 DEF PassportsOK, PassportsFiled, IsTable

LEMMA AllStepsKeep ==
    Sound /\ PassportsOK /\ [Next]_vars
        => Sound' /\ PassportsOK' /\ [PassportsGrow]_vars
BY StepKeeps, StepKeepsPassports

(* Everything but what Sound and PassportsOK say of the database.          *)
Memory ==
    /\ known \in Seq(Contents) /\ Len(known) <= MaxKnown
    /\ seen \subseteq Contents /\ saved \subseteq Gossips
    /\ starts \in 1..MaxStarts /\ running \in BOOLEAN /\ now \in Times

(* What the cut leaves: all, where the cache is not full.                  *)
LEMMA CutLeaves ==
    ASSUME Memory
    PROVE  /\ Cut \in Seq(Contents) /\ Len(Cut) + 1 <= MaxKnown
           /\ Len(known) < MaxKnown => Cut = known
<1>1. /\ known \in Seq(Contents) /\ Len(known) \in Nat
      /\ Len(known) <= MaxKnown /\ MaxKnown \in Nat \ {0}
  BY NodeAssumption DEF Memory
<1>2. CASE Len(known) < MaxKnown
  <2>1. Cut = SubSeq(known, 1, Len(known))
    BY <1>2 DEF Cut
  <2>2. Cut = known
    BY <1>1, <2>1
  <2> QED
    BY <1>1, <1>2, <2>2
<1>3. CASE ~(Len(known) < MaxKnown)
  <2>1. Cut = SubSeq(known, 1, MaxKnown - 1) /\ MaxKnown - 1 \in 0..Len(known)
    BY <1>1, <1>3 DEF Cut
  <2>2. Cut \in Seq(Contents) /\ Len(Cut) = MaxKnown - 1
    BY <1>1, <2>1
  <2> QED
    BY <1>1, <1>3, <2>2
<1> QED
  BY <1>2, <1>3

LEMMA MemoryTyped ==
    /\ Init => Memory
    /\ Memory /\ [Next]_vars => Memory'
<1>1. Init => Memory
  BY NodeAssumption DEF Init, Memory
<1>2. ASSUME Memory, UNCHANGED vars PROVE Memory'
  BY <1>2 DEF vars, Memory
<1>3. ASSUME Memory, Next PROVE Memory'
  <2>0. Cut \in Seq(Contents) /\ Len(Cut) + 1 <= MaxKnown /\ MaxKnown \in Nat
    BY <1>3, CutLeaves, NodeAssumption
  <2>1. ASSUME NEW topic \in Topics, NEW content \in Contents,
               HandleTopic(topic, content)
        PROVE  Memory'
    <3>1. /\ Append(Cut, content) \in Seq(Contents)
          /\ Len(Append(Cut, content)) <= MaxKnown
      BY <2>0
    <3> QED
      BY <1>3, <2>1, <3>1 DEF HandleTopic, Memory
  <2>2. ASSUME NEW content \in Contents, HandleKnown(content)
        PROVE  Memory'
    <3>1. Len(Cut) <= MaxKnown
      BY <2>0
    <3> QED
      BY <1>3, <2>0, <2>2, <3>1 DEF HandleKnown, Memory
  <2>3. ASSUME NEW view \in SUBSET Gossips, UpdateKnownGossips(view)
        PROVE  Memory'
    BY <1>3, <2>3 DEF UpdateKnownGossips, Memory
  <2>4. CASE Start
    BY <1>3, <2>4, NodeAssumption DEF Start, Memory
  <2>5. CASE TimePasses
    BY <1>3, <2>5 DEF TimePasses, Memory
  <2>6. ASSUME /\ UNCHANGED <<known, saved, starts, now, seen>>
               /\ running' = running \/ running' = FALSE
        PROVE  Memory'
    BY <1>3, <2>6 DEF Memory
  <2> QED
    BY <1>3, <2>1, <2>2, <2>3, <2>4, <2>5, <2>6
    DEF Next, HandleQuery, PutTopic, RemoveTopic, HandleGetPassport,
        ReceivePutPassport, Stop
<1> QED
  BY <1>1, <1>2, <1>3

-----------------------------------------------------------------------------
(* While fewer different messages came than the cache holds, it was never  *)
(* cut: it holds each of them once.                                        *)
Remembered ==
    Cardinality(seen) < MaxKnown =>
        Range(known) = seen /\ Len(known) = Cardinality(seen)

LEMMA NothingCame ==
    ASSUME known = <<>>, seen = {} PROVE Remembered
<1>1. Range(known) = {} /\ Len(known) = 0
  BY DEF Range
<1> QED
  BY <1>1, FS_EmptySet DEF Remembered

LEMMA RememberedCuts ==
    ASSUME Memory, Remembered, Cardinality(seen) < MaxKnown
    PROVE  Cut = known /\ Range(Cut) = seen
BY CutLeaves DEF Remembered

LEMMA TopicIsRemembered ==
    ASSUME Memory, Remembered, NEW topic, NEW content \in Contents,
           HandleTopic(topic, content)
    PROVE  Remembered'
<1>1. /\ known' = Append(Cut, content) /\ seen' = seen \cup {content}
      /\ content \notin Range(Cut)
  BY DEF HandleTopic, IsNew
<1>2. /\ IsFiniteSet(seen) /\ Cardinality(seen) \in Nat
      /\ MaxKnown \in Nat
  BY NodeAssumption, FS_Subset, FS_CardinalityType DEF Memory
<1>3. Cardinality(seen') = IF content \in seen THEN Cardinality(seen)
                           ELSE Cardinality(seen) + 1
  BY <1>1, <1>2, FS_AddElement
<1> SUFFICES ASSUME Cardinality(seen') < MaxKnown
             PROVE  Range(known') = seen' /\ Len(known') = Cardinality(seen')
  BY DEF Remembered
<1>4. Cardinality(seen) < MaxKnown
  BY <1>2, <1>3
<1>5. /\ Cut = known /\ Range(known) = seen /\ content \notin seen
      /\ Len(known) = Cardinality(seen)
  BY <1>1, <1>4, RememberedCuts DEF Remembered
<1>6. /\ known \in Seq(Contents) /\ known' = Append(known, content)
      /\ Len(known') = Len(known) + 1
  BY <1>1, <1>5 DEF Memory
<1>7. Range(known') = Range(known) \cup {content}
  BY <1>6 DEF Range
<1> QED
  BY <1>1, <1>3, <1>5, <1>6, <1>7

LEMMA StepRemembers ==
    /\ Init => Remembered
    /\ Memory /\ Remembered /\ [Next]_vars => Remembered'
<1>1. Init => Remembered
  BY NothingCame DEF Init
<1>2. ASSUME Memory, Remembered, [Next]_vars PROVE Remembered'
  <2>1. ASSUME NEW topic \in Topics, NEW content \in Contents,
               HandleTopic(topic, content)
        PROVE  Remembered'
    BY <1>2, <2>1, TopicIsRemembered
  <2>2. ASSUME NEW content \in Contents, HandleKnown(content)
        PROVE  Remembered'
    BY <1>2, <2>2, RememberedCuts DEF HandleKnown, Remembered
  <2>3. CASE Start
    <3>1. known' = <<>> /\ seen' = {}
      BY <2>3 DEF Start
    <3> QED
      BY <3>1, FS_EmptySet DEF Remembered, Range
  <2>4. CASE UNCHANGED <<known, seen>>
    BY <1>2, <2>4 DEF Remembered
  <2> QED
    BY <1>2, <2>1, <2>2, <2>3, <2>4
    DEF Next, vars, HandleQuery, PutTopic, RemoveTopic, HandleGetPassport,
        ReceivePutPassport, UpdateKnownGossips, Stop, TimePasses
<1> QED
  BY <1>1, <1>2

(* Only a message that is new adds to those that are stored.               *)
StoresNew ==
    \A m \in DOMAIN db'.message \ DOMAIN db.message :
        db'.message[m].content \notin Range(Cut)

LEMMA StepStoresNew ==
    ASSUME Sound, [Next]_vars PROVE StoresNew
<1>1. MessagesOK
  BY DEF Sound
<1>2. ASSUME NEW topic \in Topics, NEW content \in Contents,
             HandleTopic(topic, content)
      PROVE  StoresNew
  <2>1. CASE Kept
    BY <2>1 DEF Kept, StoresNew
  <2>2. CASE Added(topic, content)
    <3> DEFINE row == [thread |-> topic, content |-> content,
                       created_at |-> now, read |-> FALSE]
               id == NextId(db.message)
    <3>1. row.content = content /\ content \notin Range(Cut)
      BY <1>2 DEF HandleTopic, IsNew
    <3>2. db'.message = Insert(db.message, id, row)
      BY <2>2 DEF Added
    <3> HIDE DEF row, id
    <3>3. \A m \in DOMAIN db'.message \ DOMAIN db.message :
            db'.message[m] = row
      BY <3>2 DEF Insert
    <3> QED
      BY <3>1, <3>3 DEF StoresNew
  <2> QED
    BY <1>1, <1>2, <2>1, <2>2, HandleTopicDoes
<1>3. ASSUME NEW topic \in Topics, NEW peer, PutTopic(peer, topic)
      PROVE  StoresNew
  BY <1>1, <1>3, PutTopicKeeps DEF Kept, StoresNew
<1>4. ASSUME NEW topic, NEW peer, RemoveTopic(peer, topic)
      PROVE  StoresNew
  <2>1. Kept \/ Removed(topic)
    BY <1>1, <1>4, RemoveTopicDoes
  <2>2. DOMAIN db'.message \subseteq DOMAIN db.message
    BY <2>1 DEF Kept, Removed, Delete, Restrict
  <2> QED
    BY <2>2 DEF StoresNew
<1>5. ASSUME NEW peer, NEW id, NEW blocks, ReceivePutPassport(peer, id, blocks)
      PROVE  StoresNew
  BY <1>1, <1>5, PutPassportKeeps DEF Kept, StoresNew
<1>6. CASE db' = db
  BY <1>6 DEF StoresNew
<1> QED
  BY <1>2, <1>3, <1>4, <1>5, <1>6
  DEF Next, vars, HandleQuery, HandleGetPassport, HandleKnown,
      UpdateKnownGossips, Stop, Start, TimePasses

-----------------------------------------------------------------------------
(* The node implements a Database: each step is one call of a method.      *)

(* The tables of the Database are those of the node.                       *)
LEMMA SameTables ==
    /\ Abstract!Fault = Fault
    /\ \A d : Abstract!Done(d) = IF d = Fault THEN db ELSE d
    /\ \A f : Abstract!NextId(f) = NextId(f)
    /\ \A d, blocks : Abstract!NewPassport(d, blocks) = NewPassport(d, blocks)
    /\ \A d, blocks : Abstract!UpdatePassport(d, blocks) = UpdatePassport(d, blocks)
    /\ \A d, topic : Abstract!NewThread(d, topic) = NewThread(d, topic)
    /\ \A d, topic : Abstract!DeleteThread(d, topic) = DeleteThread(d, topic)
    /\ \A d, topic, content, at :
        Abstract!NewMessage(d, topic, content, at) = NewMessage(d, topic, content, at)
<1>1. Abstract!Fault = Fault
  BY DEF Abstract!Fault, Fault
<1>2. \A f, k, row : Abstract!Insert(f, k, row) = Insert(f, k, row)
  BY DEF Abstract!Insert, Insert
<1>3. \A f : Abstract!NextId(f) = NextId(f)
  BY Zenon DEF Abstract!NextId, NextId, Abstract!Max, Max
<1>4. \A f, gone : Abstract!Delete(f, gone) = Delete(f, gone)
  BY DEF Abstract!Delete, Delete, Abstract!Restrict, Restrict
<1>5. \A d, topic : Abstract!MessagesOfThread(d, topic) = MessagesOfThread(d, topic)
  BY DEF Abstract!MessagesOfThread, MessagesOfThread
<1> QED
  BY <1>1, <1>2, <1>3, <1>4, <1>5
  DEF Abstract!Done, Abstract!NewPassport, NewPassport,
      Abstract!UpdatePassport, UpdatePassport, Abstract!NewThread, NewThread,
      Abstract!DeleteThread, DeleteThread, Abstract!NewMessage, NewMessage

LEMMA TwoBlocks ==
    ASSUME NEW S, NEW s \in Seq(S), Len(s) = 1, NEW b \in S
    PROVE  Append(s, b) \in [1..2 -> S]
<1>1. Append(s, b) \in Seq(S) /\ Len(Append(s, b)) = 2
  OBVIOUS
<1> QED
  BY <1>1, LenProperties

LEMMA TopicIsACall ==
    ASSUME MessagesOK, PassportsOK, Memory,
           NEW topic \in Topics, NEW content \in Contents,
           HandleTopic(topic, content)
    PROVE  [Abstract!Next]_db
<1>1. now \in Times /\ NextId(db.message) <= MaxMessages
  BY DEF HandleTopic, Memory
<1>2. CASE db' = db
  BY <1>2
<1>3. CASE /\ topic \in DOMAIN db.passport /\ content \in Blocks
           /\ Len(db.passport[topic]) = 1
           /\ db' = [db EXCEPT !.passport[topic] = Append(@, content)]
           /\ db' = UpdatePassport(db, Append(db.passport[topic], content))
  <2> DEFINE blocks == Append(db.passport[topic], content)
  <2>1. db.passport[topic] \in Seq(Blocks)
    BY <1>3 DEF PassportsOK, IsTable
  <2>2. blocks \in [1..2 -> Blocks]
    <3>1. content \in Blocks /\ Len(db.passport[topic]) = 1
      BY <1>3
    <3> QED
      BY <2>1, <3>1, TwoBlocks
  <2>3. db' # Fault
    BY <1>3 DEF MessagesOK, Fields, Fault
  <2> HIDE DEF blocks
  <2>4. db' = Abstract!Done(Abstract!UpdatePassport(db, blocks))
    BY <1>3, <2>3, SameTables DEF blocks
  <2>5. Abstract!Passports
    BY <2>2, <2>4 DEF Abstract!Passports
  <2> QED
    BY <2>5 DEF Abstract!Next
<1>4. CASE /\ topic \in db.thread
           /\ db' = [db EXCEPT !.message = Insert(@, NextId(@),
                      [thread |-> topic, content |-> content,
                       created_at |-> now, read |-> FALSE])]
  <2>1. NextId(db.message) \in 1..MaxMessages
    <3>1. PICK n \in Nat : DOMAIN db.message \subseteq 1..n
      BY DEF MessagesOK
    <3>2. NextId(db.message) \in 1..(n + 1)
      BY <3>1, NextIdIsFresh
    <3>3. MaxMessages \in Nat
      BY NodeAssumption
    <3> QED
      BY <1>1, <3>1, <3>2, <3>3
  <2>2. db' = NewMessage(db, topic, content, now)
    BY <1>4 DEF NewMessage
  <2>3. db' # Fault
    BY <1>4 DEF MessagesOK, Fields, Fault
  <2>4. db' = Abstract!Done(Abstract!NewMessage(db, topic, content, now))
    BY <2>2, <2>3, SameTables
  <2>5. Abstract!NextId(db.message) \in 1..MaxMessages
    BY <2>1, SameTables
  <2>6. Abstract!Messages
    BY <1>1, <2>4, <2>5 DEF Abstract!Messages
  <2> QED
    BY <2>6 DEF Abstract!Next
<1> QED
  BY <1>2, <1>3, <1>4, TopicWrites

LEMMA StepIsACall ==
    ASSUME MessagesOK, PassportsOK, Memory, [Next]_vars
    PROVE  [Abstract!Next]_db
<1>1. ASSUME NEW topic \in Topics, NEW content \in Contents,
             HandleTopic(topic, content)
      PROVE  [Abstract!Next]_db
  BY <1>1, TopicIsACall
<1>2. ASSUME NEW topic \in Topics, NEW peer, PutTopic(peer, topic)
      PROVE  [Abstract!Next]_db
  <2>1. db' = Abstract!Done(Abstract!NewThread(db, topic)) \/ db' = db
    BY <1>2, SameTables DEF PutTopic, Execute
  <2> QED
    BY <2>1 DEF Abstract!Next, Abstract!Messages
<1>3. ASSUME NEW topic \in Topics, NEW peer, RemoveTopic(peer, topic)
      PROVE  [Abstract!Next]_db
  <2>1. db' = DeleteThread(db, topic) \/ db' = db
    BY <1>3 DEF RemoveTopic, Execute
  <2>2. db' = Abstract!DeleteThread(db, topic) \/ db' = db
    BY <2>1, SameTables
  <2> QED
    BY <2>2 DEF Abstract!Next, Abstract!Messages
<1>4. ASSUME NEW peer, NEW id, NEW blocks \in Chains,
             ReceivePutPassport(peer, id, blocks)
      PROVE  [Abstract!Next]_db
  <2>1. db' = Abstract!Done(Abstract!NewPassport(db, blocks)) \/ db' = db
    BY <1>4, SameTables DEF ReceivePutPassport, Execute, HandlePutPassport
  <2>2. db' # db => Abstract!Passports
    BY <2>1 DEF Abstract!Passports
  <2> QED
    BY <2>2 DEF Abstract!Next
<1>5. CASE db' = db
  BY <1>5
<1> QED
  BY <1>1, <1>2, <1>3, <1>4, <1>5
  DEF Next, vars, HandleQuery, HandleGetPassport, HandleKnown,
      UpdateKnownGossips, Stop, Start, TimePasses

-----------------------------------------------------------------------------
(* Every variable has its type; what is stored are passports of blocks and *)
(* messages of topics.                                                     *)
THEOREM NodeTypeCorrect == Spec => []TypeOK
<1>1. Sound /\ PassportsOK /\ Memory => TypeOK
  <2> SUFFICES ASSUME Sound, PassportsOK, Memory PROVE TypeOK
    OBVIOUS
  <2>1. DOMAIN db = DOMAIN Empty /\ db.thread \subseteq Topics
    BY DEF Sound, MessagesOK, Fields, Empty
  <2>2. IsTable(db.passport, Blocks, Seq(Blocks))
    BY DEF PassportsOK, IsTable
  <2>3. IsTable(db.message, Nat, Rows)
    BY DEF Sound, MessagesOK
  <2> QED
    BY <2>1, <2>2, <2>3 DEF TypeOK, Memory, Rows
<1> QED
  BY <1>1, FirstSound, FirstPassportsOK, AllStepsKeep, MemoryTyped, PTL DEF Spec

(* A passport is found under the hash of its first block, and answered     *)
(* with it.                                                                *)
THEOREM NodePassportsFiled == Spec => []PassportsFiled
<1>1. PassportsOK => PassportsFiled
  BY DEF PassportsOK
<1> QED
  BY <1>1, FirstSound, FirstPassportsOK, AllStepsKeep, PTL DEF Spec

(* No message takes a block away from a stored passport.                   *)
THEOREM NodePassportsOnlyGrow == Spec => PassportsOnlyGrow
<1>1. Spec => [][PassportsGrow]_vars
  BY FirstSound, FirstPassportsOK, AllStepsKeep, PTL DEF Spec
<1> QED
  BY <1>1 DEF PassportsOnlyGrow, PassportsGrow

(* A message belongs to a thread that is there, whoever registers and      *)
(* removes topics.                                                         *)
THEOREM NodeReferences == Spec => []References
<1>1. Sound => References
  BY DEF Sound
<1> QED
  BY <1>1, FirstSound, StepKeeps, PTL DEF Spec

(* A stored message stays as it is until its topic is deregistered,        *)
(* through failures and restarts, for any number of messages.              *)
THEOREM NodeMessagesKept == Spec => MessagesKept
<1>1. Sound /\ [Next]_vars => [Keeps]_vars
  BY StepKeeps
<1> QED
  BY <1>1, FirstSound, StepKeeps, PTL DEF Spec, MessagesKept, Keeps

(* No query is answered with a message of another topic, or with one that  *)
(* is not later than the time asked for.                                   *)
THEOREM NodeAnswersAreLater == Spec => []AnswersAreLater
<1>1. Sound => AnswersAreLater
  BY DEF Sound
<1> QED
  BY <1>1, FirstSound, StepKeeps, PTL DEF Spec

(* While fewer different messages came than the cache holds, none of them  *)
(* is stored when it comes again, whatever else happened to it.            *)
THEOREM NodeStoredOnceUnlessFull == Spec => StoredOnceUnlessFull
<1> DEFINE Once == \A m \in DOMAIN db'.message \ DOMAIN db.message :
                    \/ db'.message[m].content \notin seen
                    \/ Cardinality(seen) >= MaxKnown
<1>1. ASSUME Sound, Memory, Remembered, [Next]_vars PROVE [Once]_vars
  <2>1. Cardinality(seen) \in Nat /\ MaxKnown \in Nat
    BY <1>1, NodeAssumption, FS_Subset, FS_CardinalityType DEF Memory
  <2>2. CASE Cardinality(seen) < MaxKnown
    <3>1. StoresNew /\ Range(Cut) = seen
      BY <1>1, <2>2, StepStoresNew, RememberedCuts
    <3> QED
      BY <3>1 DEF StoresNew
  <2> QED
    BY <2>1, <2>2
<1>2. Spec => [][Once]_vars
  <2> HIDE DEF Once
  <2> QED
    BY <1>1, FirstSound, StepKeeps, MemoryTyped, StepRemembers, PTL DEF Spec
<1> QED
  BY <1>2 DEF StoredOnceUnlessFull

(* Whatever the Runner does to its database is one call of a method of     *)
(* Storage at a time, done or not.                                         *)
THEOREM NodeImplementsDatabase == Spec => ImplementsDatabase
<1>1. Init => Abstract!Init
  BY DEF Init, Empty, Abstract!Init, Abstract!Empty
<1>2. Sound /\ PassportsOK /\ Memory /\ [Next]_vars => [Abstract!Next]_db
  BY StepIsACall DEF Sound
<1> QED
  BY <1>1, <1>2, FirstSound, FirstPassportsOK, AllStepsKeep, MemoryTyped, PTL
  DEF Spec, ImplementsDatabase, Abstract!Spec

=============================================================================
