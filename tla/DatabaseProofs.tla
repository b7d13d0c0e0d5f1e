--------------------------- MODULE DatabaseProofs ---------------------------
(***************************************************************************)
(* What every method of Storage keeps, whatever is in the tables and       *)
(* however many rows there are: no row refers to one that is gone, and     *)
(* nothing is linked to a row that has just been made.                     *)
(***************************************************************************)
EXTENDS Database, DataProofs

Shape == DOMAIN db = DOMAIN Empty
Sound == Shape /\ References

Fields == {"contact", "public_key", "passport", "passport_key",
           "contact_passport", "thread", "message"}

(* The body of FreshIsBare.                                                *)
Fresh ==
    /\ \A c \in DOMAIN db'.contact \ DOMAIN db.contact :
        PassportsOfContact(db', c) = {}
    /\ \A k \in DOMAIN db'.public_key \ DOMAIN db.public_key :
        PassportsOfKey(db', k) = {}
    /\ \A p \in DOMAIN db'.passport \ DOMAIN db.passport :
        KeysOfPassport(db', p) = {}
    /\ \A t \in db'.thread \ db.thread : MessagesOfThread(db', t) = {}

LEMMA ShapeFields == ASSUME Shape PROVE DOMAIN db = Fields
BY DEF Shape, Empty, Fields

(* The tables of links keep pointing at rows, and the new rows have no     *)
(* link, when the tables they point at only grow and the links stay.       *)
LEMMA GrowingKeeps ==
    ASSUME Sound, Shape',
           DOMAIN db.contact \subseteq DOMAIN db'.contact,
           DOMAIN db.public_key \subseteq DOMAIN db'.public_key,
           DOMAIN db.passport \subseteq DOMAIN db'.passport,
           db.thread \subseteq db'.thread,
           db'.passport_key = db.passport_key,
           db'.contact_passport = db.contact_passport,
           db'.message = db.message
    PROVE  Sound' /\ Fresh
<1>1. References'
  BY DEF Sound, References
<1>2. \A c \in DOMAIN db'.contact \ DOMAIN db.contact :
        PassportsOfContact(db', c) = {}
  BY DEF Sound, References, PassportsOfContact
<1>3. \A k \in DOMAIN db'.public_key \ DOMAIN db.public_key :
        PassportsOfKey(db', k) = {}
  BY DEF Sound, References, PassportsOfKey
<1>4. \A p \in DOMAIN db'.passport \ DOMAIN db.passport :
        KeysOfPassport(db', p) = {}
  BY DEF Sound, References, KeysOfPassport
<1>5. \A t \in db'.thread \ db.thread : MessagesOfThread(db', t) = {}
  BY DEF Sound, References, MessagesOfThread
<1> QED
  BY <1>1, <1>2, <1>3, <1>4, <1>5 DEF Sound, Fresh

(* Where no row is made that links may point at, new rows are out of       *)
(* question.                                                               *)
LEMMA NothingFresh ==
    ASSUME DOMAIN db'.contact \subseteq DOMAIN db.contact,
           DOMAIN db'.public_key \subseteq DOMAIN db.public_key,
           DOMAIN db'.passport \subseteq DOMAIN db.passport,
           db'.thread \subseteq db.thread
    PROVE  Fresh
BY DEF Fresh

LEMMA NothingDone ==
    ASSUME Sound, UNCHANGED db PROVE Sound' /\ Fresh
BY NothingFresh DEF Sound, Shape, References

-----------------------------------------------------------------------------
(* Methods that make a row: it has a number, hash or topic not in use, and *)
(* what refers to rows is left alone.                                      *)

LEMMA NewContactKeeps ==
    ASSUME Sound, NEW name, db' = NewContact(db, name) PROVE Sound' /\ Fresh
<1>1. db' = [db EXCEPT !.contact = Insert(@, NextId(@), name)]
  BY DEF NewContact
<1>2. DOMAIN Insert(db.contact, NextId(db.contact), name)
        = DOMAIN db.contact \cup {NextId(db.contact)}
  BY InsertAdds
<1> QED
  BY <1>1, <1>2, ShapeFields, GrowingKeeps DEF Sound, Shape, Fields

LEMMA NewPassportKeeps ==
    ASSUME Sound, NEW blocks, db' = Done(NewPassport(db, blocks))
    PROVE  Sound' /\ Fresh
<1>1. CASE UNCHANGED db
  BY <1>1, NothingDone
<1>2. CASE db' = [db EXCEPT !.passport = Insert(@, blocks[1], blocks)]
  <2>1. DOMAIN Insert(db.passport, blocks[1], blocks)
          = DOMAIN db.passport \cup {blocks[1]}
    BY DEF Insert
  <2> QED
    BY <1>2, <2>1, ShapeFields, GrowingKeeps DEF Sound, Shape, Fields
<1> QED
  BY <1>1, <1>2 DEF Done, NewPassport

LEMMA NewKeyKeeps ==
    ASSUME Sound, NEW key, db' = Done(NewKey(db, key)) PROVE Sound' /\ Fresh
<1>1. CASE UNCHANGED db
  BY <1>1, NothingDone
<1>2. CASE db' = [db EXCEPT !.public_key = Insert(@, key, NoName)]
  <2>1. DOMAIN Insert(db.public_key, key, NoName) = DOMAIN db.public_key \cup {key}
    BY InsertAdds
  <2> QED
    BY <1>2, <2>1, ShapeFields, GrowingKeeps DEF Sound, Shape, Fields
<1> QED
  BY <1>1, <1>2 DEF Done, NewKey

LEMMA NewThreadKeeps ==
    ASSUME Sound, NEW topic, db' = Done(NewThread(db, topic))
    PROVE  Sound' /\ Fresh
<1>1. CASE UNCHANGED db
  BY <1>1, NothingDone
<1>2. CASE db' = [db EXCEPT !.thread = @ \cup {topic}]
  BY <1>2, ShapeFields, GrowingKeeps DEF Sound, Shape, Fields
<1> QED
  BY <1>1, <1>2 DEF Done, NewThread

-----------------------------------------------------------------------------
(* Methods that change a row that is there.                                *)

LEMMA UpdateContactKeeps ==
    ASSUME Sound, NEW id, NEW name, db' = UpdateContact(db, id, name)
    PROVE  Sound' /\ Fresh
<1>1. CASE UNCHANGED db
  BY <1>1, NothingDone
<1>2. CASE db' = [db EXCEPT !.contact[id] = name]
  BY <1>2, ShapeFields, GrowingKeeps DEF Sound, Shape, Fields
<1> QED
  BY <1>1, <1>2 DEF UpdateContact

LEMMA UpdatePassportKeeps ==
    ASSUME Sound, NEW blocks, db' = Done(UpdatePassport(db, blocks))
    PROVE  Sound' /\ Fresh
<1>1. CASE UNCHANGED db
  BY <1>1, NothingDone
<1>2. CASE db' = [db EXCEPT !.passport[blocks[1]] = blocks]
  BY <1>2, ShapeFields, GrowingKeeps DEF Sound, Shape, Fields
<1> QED
  BY <1>1, <1>2 DEF Done, UpdatePassport

LEMMA NewKeyAliasKeeps ==
    ASSUME Sound, NEW key, NEW alias, db' = NewKeyAlias(db, key, alias)
    PROVE  Sound' /\ Fresh
<1>1. CASE UNCHANGED db
  BY <1>1, NothingDone
<1>2. CASE db' = [db EXCEPT !.public_key[key] = alias]
  BY <1>2, ShapeFields, GrowingKeeps DEF Sound, Shape, Fields
<1> QED
  BY <1>1, <1>2 DEF NewKeyAlias

LEMMA MarkMessageKeeps ==
    ASSUME Sound, NEW id, NEW read, db' = MarkMessage(db, id, read)
    PROVE  Sound' /\ Fresh
<1>1. CASE UNCHANGED db
  BY <1>1, NothingDone
<1>2. CASE id \in DOMAIN db.message /\ db' = [db EXCEPT !.message[id].read = read]
  <2>1. /\ db'.contact = db.contact /\ db'.public_key = db.public_key
        /\ db'.passport = db.passport /\ db'.passport_key = db.passport_key
        /\ db'.contact_passport = db.contact_passport
        /\ db'.thread = db.thread /\ Shape'
    BY <1>2, ShapeFields DEF Sound, Shape, Fields
  <2>2. db'.message = [db.message EXCEPT ![id].read = read]
    BY <1>2, ShapeFields DEF Sound, Fields
  <2>3. /\ DOMAIN db'.message = DOMAIN db.message
        /\ \A m \in DOMAIN db.message :
             db'.message[m].thread = db.message[m].thread
    BY <2>2
  <2>4. References'
    BY <2>1, <2>3 DEF Sound, References
  <2> QED
    BY <2>1, <2>4, NothingFresh DEF Sound
<1> QED
  BY <1>1, <1>2 DEF MarkMessage

-----------------------------------------------------------------------------
(* Methods that link rows, or make one that refers to another: only to one *)
(* that is there.                                                          *)

LEMMA LinkContactKeeps ==
    ASSUME Sound, NEW id, NEW passport, NEW verified,
           db' = Done(VerifyContactPassportLink(db, id, passport, verified))
    PROVE  Sound' /\ Fresh
<1>1. CASE UNCHANGED db
  BY <1>1, NothingDone
<1> DEFINE row == [contact |-> id, verified |-> verified]
<1>2. CASE /\ id \in DOMAIN db.contact /\ passport \in DOMAIN db.passport
           /\ db' = [db EXCEPT !.contact_passport = Insert(@, passport, row)]
  <2>1. /\ DOMAIN Insert(db.contact_passport, passport, row)
             = DOMAIN db.contact_passport \cup {passport}
        /\ Insert(db.contact_passport, passport, row)[passport].contact = id
        /\ \A p \in DOMAIN db.contact_passport : p # passport =>
             Insert(db.contact_passport, passport, row)[p] = db.contact_passport[p]
    BY DEF Insert
  <2>2. /\ db'.contact_passport = Insert(db.contact_passport, passport, row)
        /\ db'.contact = db.contact /\ db'.public_key = db.public_key
        /\ db'.passport = db.passport /\ db'.passport_key = db.passport_key
        /\ db'.thread = db.thread /\ db'.message = db.message /\ Shape'
    BY <1>2, ShapeFields DEF Sound, Shape, Fields
  <2> HIDE DEF row
  <2>3. References'
    BY <1>2, <2>1, <2>2 DEF Sound, References
  <2> QED
    BY <2>2, <2>3, NothingFresh DEF Sound
<1> QED
  BY <1>1, <1>2 DEF Done, VerifyContactPassportLink

LEMMA LinkKeyKeeps ==
    ASSUME Sound, NEW key, NEW passport,
           db' = Done(LinkKeyToPassport(db, key, passport))
    PROVE  Sound' /\ Fresh
<1>1. CASE UNCHANGED db
  BY <1>1, NothingDone
<1>2. CASE /\ key \in DOMAIN db.public_key /\ passport \in DOMAIN db.passport
           /\ db' = [db EXCEPT !.passport_key = @ \cup {<<key, passport>>}]
  <2>1. /\ db'.passport_key = db.passport_key \cup {<<key, passport>>}
        /\ db'.contact_passport = db.contact_passport
        /\ db'.contact = db.contact /\ db'.public_key = db.public_key
        /\ db'.passport = db.passport
        /\ db'.thread = db.thread /\ db'.message = db.message /\ Shape'
    BY <1>2, ShapeFields DEF Sound, Shape, Fields
  <2>2. References'
    BY <1>2, <2>1 DEF Sound, References
  <2> QED
    BY <2>1, <2>2, NothingFresh DEF Sound
<1> QED
  BY <1>1, <1>2 DEF Done, LinkKeyToPassport

LEMMA NewMessageKeeps ==
    ASSUME Sound, NEW topic, NEW content, NEW now,
           db' = Done(NewMessage(db, topic, content, now))
    PROVE  Sound' /\ Fresh
<1>1. CASE UNCHANGED db
  BY <1>1, NothingDone
<1> DEFINE row == [thread |-> topic, content |-> content, created_at |-> now,
                   read |-> FALSE]
           id == NextId(db.message)
<1>2. CASE /\ topic \in db.thread
           /\ db' = [db EXCEPT !.message = Insert(@, id, row)]
  <2>1. /\ DOMAIN Insert(db.message, id, row) = DOMAIN db.message \cup {id}
        /\ Insert(db.message, id, row)[id].thread = topic
        /\ \A m \in DOMAIN db.message : m # id =>
             Insert(db.message, id, row)[m] = db.message[m]
    BY DEF Insert
  <2>2. /\ db'.message = Insert(db.message, id, row)
        /\ db'.contact_passport = db.contact_passport
        /\ db'.contact = db.contact /\ db'.public_key = db.public_key
        /\ db'.passport = db.passport /\ db'.passport_key = db.passport_key
        /\ db'.thread = db.thread /\ Shape'
    BY <1>2, ShapeFields DEF Sound, Shape, Fields
  <2> HIDE DEF row, id
  <2>3. References'
    BY <1>2, <2>1, <2>2 DEF Sound, References
  <2> QED
    BY <2>2, <2>3, NothingFresh DEF Sound
<1> QED
  BY <1>1, <1>2 DEF Done, NewMessage

-----------------------------------------------------------------------------
(* Methods that delete rows, and with them what refers to these.           *)

LEMMA DeleteContactKeeps ==
    ASSUME Sound, NEW id, db' = DeleteContact(db, id) PROVE Sound' /\ Fresh
<1> DEFINE linked == PassportsOfContact(db, id)
<1>1. /\ db'.contact = Delete(db.contact, {id})
      /\ db'.contact_passport = Delete(db.contact_passport, linked)
      /\ db'.public_key = db.public_key /\ db'.passport = db.passport
      /\ db'.passport_key = db.passport_key
      /\ db'.thread = db.thread /\ db'.message = db.message /\ Shape'
  BY ShapeFields DEF Sound, Shape, Fields, DeleteContact
<1>2. DOMAIN db'.contact = DOMAIN db.contact \ {id}
  BY <1>1 DEF Delete, Restrict
<1>3. /\ DOMAIN db'.contact_passport = DOMAIN db.contact_passport \ linked
      /\ \A p \in DOMAIN db.contact_passport \ linked :
           db'.contact_passport[p] = db.contact_passport[p]
  BY <1>1 DEF Delete, Restrict
<1>4. \A p \in DOMAIN db.contact_passport \ linked :
        db.contact_passport[p].contact # id
  BY DEF PassportsOfContact
<1> HIDE DEF linked
<1>5. References'
  BY <1>1, <1>2, <1>3, <1>4 DEF Sound, References
<1> QED
  BY <1>1, <1>2, <1>5, NothingFresh DEF Sound

LEMMA DeletePassportKeeps ==
    ASSUME Sound, NEW id, db' = DeletePassport(db, id) PROVE Sound' /\ Fresh
<1>1. /\ db'.passport = Delete(db.passport, {id})
      /\ db'.passport_key = {link \in db.passport_key : link[2] # id}
      /\ db'.contact_passport = Delete(db.contact_passport, {id})
      /\ db'.contact = db.contact /\ db'.public_key = db.public_key
      /\ db'.thread = db.thread /\ db'.message = db.message /\ Shape'
  BY ShapeFields DEF Sound, Shape, Fields, DeletePassport
<1>2. DOMAIN db'.passport = DOMAIN db.passport \ {id}
  BY <1>1 DEF Delete, Restrict
<1>3. /\ DOMAIN db'.contact_passport = DOMAIN db.contact_passport \ {id}
      /\ \A p \in DOMAIN db.contact_passport \ {id} :
           db'.contact_passport[p] = db.contact_passport[p]
  BY <1>1 DEF Delete, Restrict
<1>4. References'
  BY <1>1, <1>2, <1>3 DEF Sound, References
<1> QED
  BY <1>1, <1>2, <1>4, NothingFresh DEF Sound

LEMMA DeleteThreadKeepsThem ==
    ASSUME Sound, NEW topic, db' = DeleteThread(db, topic) PROVE Sound' /\ Fresh
<1> DEFINE gone == MessagesOfThread(db, topic)
<1>1. /\ db'.thread = db.thread \ {topic}
      /\ db'.message = Delete(db.message, gone)
      /\ db'.contact = db.contact /\ db'.public_key = db.public_key
      /\ db'.passport = db.passport /\ db'.passport_key = db.passport_key
      /\ db'.contact_passport = db.contact_passport /\ Shape'
  BY ShapeFields DEF Sound, Shape, Fields, DeleteThread
<1>2. /\ DOMAIN db'.message = DOMAIN db.message \ gone
      /\ \A m \in DOMAIN db.message \ gone : db'.message[m] = db.message[m]
  BY <1>1 DEF Delete, Restrict
<1>3. \A m \in DOMAIN db.message \ gone : db.message[m].thread # topic
  BY DEF MessagesOfThread
<1> HIDE DEF gone
<1>4. References'
  BY <1>1, <1>2, <1>3 DEF Sound, References
<1> QED
  BY <1>1, <1>4, NothingFresh DEF Sound

LEMMA DeleteMessageKeeps ==
    ASSUME Sound, NEW id, db' = DeleteMessage(db, id) PROVE Sound' /\ Fresh
<1>1. /\ db'.message = Delete(db.message, {id})
      /\ db'.contact = db.contact /\ db'.public_key = db.public_key
      /\ db'.passport = db.passport /\ db'.passport_key = db.passport_key
      /\ db'.contact_passport = db.contact_passport
      /\ db'.thread = db.thread /\ Shape'
  BY ShapeFields DEF Sound, Shape, Fields, DeleteMessage
<1>2. /\ DOMAIN db'.message = DOMAIN db.message \ {id}
      /\ \A m \in DOMAIN db.message \ {id} : db'.message[m] = db.message[m]
  BY <1>1 DEF Delete, Restrict
<1>3. References'
  BY <1>1, <1>2 DEF Sound, References
<1> QED
  BY <1>1, <1>3, NothingFresh DEF Sound

-----------------------------------------------------------------------------
LEMMA StepKeeps == Sound /\ [Next]_db => Sound' /\ Fresh
<1> SUFFICES ASSUME Sound, [Next]_db PROVE Sound' /\ Fresh
  OBVIOUS
<1>1. CASE Contacts
  <2> PICK id \in Ids, name \in Names, passport \in Blocks, verified \in BOOLEAN :
        \/ NextId(db.contact) \in Ids /\ db' = NewContact(db, name)
        \/ db' = UpdateContact(db, id, name)
        \/ db' = DeleteContact(db, id)
        \/ db' = Done(LinkPassportToContact(db, id, passport))
        \/ db' = Done(VerifyContactPassportLink(db, id, passport, verified))
    BY <1>1 DEF Contacts
  <2>1. CASE db' = NewContact(db, name)
    BY <2>1, NewContactKeeps
  <2>2. CASE db' = UpdateContact(db, id, name)
    BY <2>2, UpdateContactKeeps
  <2>3. CASE db' = DeleteContact(db, id)
    BY <2>3, DeleteContactKeeps
  <2>4. CASE db' = Done(LinkPassportToContact(db, id, passport))
    BY <2>4, LinkContactKeeps DEF LinkPassportToContact
  <2>5. CASE db' = Done(VerifyContactPassportLink(db, id, passport, verified))
    BY <2>5, LinkContactKeeps
  <2> QED
    BY <2>1, <2>2, <2>3, <2>4, <2>5
<1>2. CASE Passports
  BY <1>2, NewPassportKeeps, UpdatePassportKeeps, DeletePassportKeeps DEF Passports
<1>3. CASE PublicKeysAndLinks
  BY <1>3, NewKeyKeeps, NewKeyAliasKeeps, LinkKeyKeeps DEF PublicKeysAndLinks
<1>4. CASE Messages
  <2>1. ASSUME NEW topic \in Topics,
               \/ db' = Done(NewThread(db, topic))
               \/ db' = DeleteThread(db, topic)
        PROVE  Sound' /\ Fresh
    BY <2>1, NewThreadKeeps, DeleteThreadKeepsThem
  <2>2. ASSUME NEW topic, NEW content, NEW now,
               db' = Done(NewMessage(db, topic, content, now))
        PROVE  Sound' /\ Fresh
    BY <2>2, NewMessageKeeps
  <2>3. ASSUME NEW id, NEW read, db' = MarkMessage(db, id, read)
        PROVE  Sound' /\ Fresh
    BY <2>3, MarkMessageKeeps
  <2>4. ASSUME NEW id, db' = DeleteMessage(db, id) PROVE Sound' /\ Fresh
    BY <2>4, DeleteMessageKeeps
  <2> QED
    BY <1>4, <2>1, <2>2, <2>3, <2>4 DEF Messages
<1>5. CASE UNCHANGED db
  BY <1>5, NothingDone
<1> QED
  BY <1>1, <1>2, <1>3, <1>4, <1>5 DEF Next

LEMMA FirstSound == Init => Sound
BY DEF Init, Sound, Shape, Empty, References

(* No row of a database refers to one that is gone, after any calls of its *)
(* methods: the deletions cascade to all that refers to what they delete,  *)
(* and a link is made only to what is there.                               *)
THEOREM DatabaseReferences == Spec => []References
<1>1. Sound => References
  BY DEF Sound
<1> QED
  BY <1>1, FirstSound, StepKeeps, PTL DEF Spec

(* A row that has just been made has nothing linked to it, although it may *)
(* take the number, the hash or the topic of one that was deleted.         *)
THEOREM DatabaseFreshIsBare == Spec => FreshIsBare
<1>1. Sound /\ [Next]_db => [Fresh]_db
  BY StepKeeps
<1> QED
  BY <1>1, FirstSound, StepKeeps, PTL DEF Spec, FreshIsBare, Fresh

=============================================================================
