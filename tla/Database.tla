------------------------------ MODULE Database ------------------------------
(***************************************************************************)
(* What a database promises whoever uses it: any method may be called at   *)
(* any time, from any of the clones of Storage, each is one statement, and *)
(* a statement that fails leaves the tables as they are.                   *)
(***************************************************************************)
EXTENDS Tables

CONSTANTS
    Ids,              \* the row numbers, 1 .. 2^63 - 1
    Names, PublicKeys, Topics, Contents, Times,
    Blocks,
    Chains            \* the sequences of blocks that a caller may pass

VARIABLE db

Init == db = Empty

Done(d) == IF d = Fault THEN db ELSE d

Contacts ==
    \E id \in Ids, name \in Names, passport \in Blocks, verified \in BOOLEAN :
        \/ NextId(db.contact) \in Ids /\ db' = NewContact(db, name)
        \/ db' = UpdateContact(db, id, name)
        \/ db' = DeleteContact(db, id)
        \/ db' = Done(LinkPassportToContact(db, id, passport))
        \/ db' = Done(VerifyContactPassportLink(db, id, passport, verified))

Passports ==
    \/ \E blocks \in Chains :
        \/ db' = Done(NewPassport(db, blocks))
        \/ db' = Done(UpdatePassport(db, blocks))
    \/ \E passport \in Blocks : db' = DeletePassport(db, passport)

PublicKeysAndLinks ==
    \E key \in PublicKeys, passport \in Blocks, alias \in Names :
        \/ db' = Done(NewKey(db, key))
        \/ db' = NewKeyAlias(db, key, alias)
        \/ db' = Done(LinkKeyToPassport(db, key, passport))

Messages ==
    \/ \E topic \in Topics :
        \/ db' = Done(NewThread(db, topic))
        \/ db' = DeleteThread(db, topic)
        \/ \E content \in Contents, now \in Times :
            /\ NextId(db.message) \in Ids
            /\ db' = Done(NewMessage(db, topic, content, now))
    \/ \E id \in Ids :
        \/ \E read \in BOOLEAN : db' = MarkMessage(db, id, read)
        \/ db' = DeleteMessage(db, id)

Next == Contacts \/ Passports \/ PublicKeysAndLinks \/ Messages

Spec == Init /\ [][Next]_db

-----------------------------------------------------------------------------
TypeOK ==
    /\ DOMAIN db = DOMAIN Empty
    /\ IsTable(db.contact, Ids, Names)
    /\ IsTable(db.public_key, PublicKeys, Names \cup {NoName})
    /\ IsTable(db.passport, Blocks, Chains)
    /\ db.passport_key \subseteq PublicKeys \X Blocks
    /\ IsTable(db.contact_passport, Blocks,
               [contact : Ids, verified : BOOLEAN])
    /\ db.thread \subseteq Topics
    /\ IsTable(db.message, Ids,
               [thread : Topics, content : Contents, created_at : Times,
                read : BOOLEAN])

(* No row refers to one that is gone: whatever is linked to a passport, a  *)
(* key, a contact or a thread goes away with it, in the same statement.    *)
References ==
    /\ \A link \in db.passport_key :
        link[1] \in DOMAIN db.public_key /\ link[2] \in DOMAIN db.passport
    /\ \A p \in DOMAIN db.contact_passport :
        /\ p \in DOMAIN db.passport
        /\ db.contact_passport[p].contact \in DOMAIN db.contact
    /\ \A m \in DOMAIN db.message : db.message[m].thread \in db.thread

(* A contact, passport, key or thread begins with nothing linked to it,    *)
(* also when it takes the number or the name of one that was deleted.      *)
FreshIsBare ==
    [][/\ \A c \in DOMAIN db'.contact \ DOMAIN db.contact :
            PassportsOfContact(db', c) = {}
       /\ \A k \in DOMAIN db'.public_key \ DOMAIN db.public_key :
            PassportsOfKey(db', k) = {}
       /\ \A p \in DOMAIN db'.passport \ DOMAIN db.passport :
            KeysOfPassport(db', p) = {}
       /\ \A t \in db'.thread \ db.thread : MessagesOfThread(db', t) = {}]_db

=============================================================================
