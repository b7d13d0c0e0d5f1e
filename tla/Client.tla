------------------------------- MODULE Client -------------------------------
(***************************************************************************)
(* The application state of the client (asmtp-client, app/) with its       *)
(* sessions (app/network.rs): keys in files and in the database, passports *)
(* in the database and in memory, one connection in use, made under the    *)
(* key that was selected, and the task that serves each.  ClientUi calls   *)
(* its operations.  What a message of the peer or an answer of the user    *)
(* makes fail ends the client; it can be started again.                    *)
(***************************************************************************)
EXTENDS PassportImporter

CONSTANTS
    PublicKeys,
    LockedKeys,       \* those kept as EntropyWithPassword; the rest are seeds
    OldKeys,          \* the keys whose files may be there at first
    Blocks,           \* the first blocks of passports
    Author,           \* the key each was made with
    Names,
    Incoming,         \* what the node may send
    OutCap,           \* the channel to the session, 12
    MaxIncoming,      \* bound: the messages waiting to be processed
    MaxStarts         \* bound: how often the client is started

(* Keys and blocks are known by 32 bytes; no key is named as the lack of   *)
(* one.                                                                    *)
ASSUME ClientAssumption ==
    /\ IsFiniteSet(PublicKeys) /\ IsFiniteSet(Blocks)
    /\ {"none", "locked"} \cap PublicKeys = {}
    /\ OldKeys \subseteq PublicKeys /\ LockedKeys \subseteq PublicKeys
    /\ Blocks = {b \in DOMAIN Parent : Parent[b] = NoParent}
    /\ Author \in [Blocks -> PublicKeys]
    /\ \A m \in Incoming :
        m.type = "PutPassport" => m.blocks \in Seq(DOMAIN Parent)
    /\ OutCap \in Nat \ {0}
    /\ MaxIncoming \in Nat /\ MaxStarts \in Nat \ {0}

VARIABLES
    db, files,        \* what is on the disk
    keys,             \* App.keys
    currentKey,       \* its position in keys, 0 for none
    passports,        \* App.passports
    currentPassport,
    session,          \* Network.inner and the Runtime it leads to
    refused,          \* Network.connection_failure
    outcome,          \* whether the client runs, or why it ended
    starts

disk == <<db, files>>
network == <<session, refused>>
appvars == <<disk, keys, currentKey, passports, currentPassport, network,
             outcome, starts>>

NoPassport == "none"
Outcomes == {"running", "left", "panicked", "storage", "noSuchKey",
             "noSigningKey", "badPassport"}
Ends(why) == outcome' = why

Locked(k) == k.key \in LockedKeys
PassportsByKey(key) == {id \in DOMAIN passports : Author[id] = key}

-----------------------------------------------------------------------------
(* Network                                                                 *)

Session(key) == [key |-> key, out |-> <<>>, in |-> <<>>, alive |-> TRUE]
NoSession == [key |-> "none", out |-> <<>>, in |-> <<>>, alive |-> FALSE]

(* connect waits a second for the session.  When it fails the former one   *)
(* stays in use, and only the failure tells.  When it succeeds the former  *)
(* one is dropped: its task ends, and nothing here sees it again.          *)
ConnectForgets(key) == refused' = FALSE /\ UNCHANGED session
Connect(key) ==
    \/ session' = Session(key) /\ refused' = FALSE
    \/ refused' = TRUE /\ UNCHANGED session

(* try_send: without a session, or with its channel full or closed, the    *)
(* message is handed back, and every caller drops it.                      *)
CanSendBeyond == session.alive
CanSend == session.alive /\ Len(session.out) < OutCap

Sent(s, m) == IF CanSend THEN [s EXCEPT !.out = Append(@, m)] ELSE s

NewPutPassport(id) == [type |-> "PutPassport", id |-> id]
NewGetPassport(id) == [type |-> "GetPassport", id |-> id]

(* The select! of Runtime::run.  Errors of the stream only count.          *)
Outbound ==
    /\ session.alive /\ session.out # <<>>
    /\ session' = [session EXCEPT !.out = Tail(@)]

Inbound(m) ==
    /\ session.alive /\ Len(session.in) < MaxIncoming
    /\ session' = [session EXCEPT !.in = Append(@, m)]

(* The peer is gone; what it sent before can still be received.            *)
Shutdown ==
    /\ session.alive
    /\ session' = [session EXCEPT !.alive = FALSE, !.out = <<>>]

-----------------------------------------------------------------------------
(* App                                                                     *)

(* The key is saved in its file, then in the database, then its alias.     *)
CreateNewKey(key, alias) ==
    /\ key \notin files /\ key \notin LockedKeys
    /\ \/ /\ NewKey(db, key) # Fault
          /\ db' = NewKeyAlias(NewKey(db, key), key, alias)
          /\ files' = files \cup {key}
          /\ keys' = Append(keys, [key |-> key, alias |-> alias])
          /\ UNCHANGED outcome
       \/ /\ files' \in {files, files \cup {key}}
          /\ db' \in {db} \cup
                (IF files' = files \/ NewKey(db, key) = Fault THEN {}
                 ELSE {NewKey(db, key)})
          /\ Ends("storage")
          /\ UNCHANGED keys

SetCurrentKey(index) ==
    IF index >= Len(keys)
    THEN Ends("noSuchKey") /\ UNCHANGED <<currentKey, network>>
    ELSE /\ currentKey' = index + 1
         /\ IF currentKey = index + 1 \/ Locked(keys[index + 1])
            THEN UNCHANGED network
            ELSE Connect(keys[index + 1].key)
         /\ UNCHANGED outcome

(* A new passport is asked for, to learn what the node has of it.          *)
SetCurrentPassport(id) ==
    /\ currentPassport' = id
    /\ IF id # currentPassport /\ id \in DOMAIN passports
       THEN session' = Sent(session, NewGetPassport(id))
       ELSE UNCHANGED session

CannotSign ==
    currentKey > 0 =>
        Locked(keys[currentKey]) \/ keys[currentKey].alias = NoName

(* The first block of the passport is new, and of the current key.         *)
CreateNewPassportUnsaved(id) ==
    /\ passports' = Insert(passports, id, <<id>>)
    /\ session' = Sent(session, NewPutPassport(id))
    /\ UNCHANGED <<db, outcome>>
CreateNewPassport(id) ==
    LET stored == NewPassport(db, <<id>>)
        linked == LinkKeyToPassport(stored, keys[currentKey].key, id)
    IN  \/ /\ stored # Fault /\ linked # Fault
           /\ db' = linked
           /\ passports' = Insert(passports, id, <<id>>)
           /\ session' = Sent(session, NewPutPassport(id))
           /\ UNCHANGED outcome
        \/ /\ db' \in {db, IF stored = Fault THEN db ELSE stored}
           /\ Ends("storage")
           /\ UNCHANGED <<passports, session>>

(* A passport that is known is compared by length; any other goes to the   *)
(* database, and not to memory.                                            *)
ProcessPutPassport(rest, id, blocks) ==
    \/ /\ FromBlocks(blocks) = <<>> \/ blocks[1] # id
       /\ Ends("badPassport")
       /\ session' = rest
       /\ UNCHANGED db
    \/ /\ FromBlocks(blocks) # <<>> /\ blocks[1] = id
       /\ id \in DOMAIN passports
       /\ session' = IF Len(passports[id]) < Len(blocks)
                      THEN Sent(rest, NewPutPassport(id)) ELSE rest
       /\ UNCHANGED <<db, outcome>>
    \/ /\ FromBlocks(blocks) # <<>> /\ blocks[1] = id
       /\ id \notin DOMAIN passports
       /\ \/ /\ NewPassport(db, blocks) # Fault
             /\ db' = NewPassport(db, blocks)
             /\ UNCHANGED outcome
          \/ Ends("storage") /\ UNCHANGED db
       /\ session' = rest

ProcessGetPassport(rest, id) ==
    /\ session' = IF id \in DOMAIN passports
                   THEN Sent(rest, NewPutPassport(id)) ELSE rest
    /\ UNCHANGED <<db, outcome>>

(* The client never makes a thread: a message of any topic breaks the      *)
(* foreign key of the table.                                               *)
ProcessTopic(rest, topic, content) ==
    /\ NewMessage(db, topic, content, 0) = Fault
    /\ Ends("storage")
    /\ session' = rest
    /\ UNCHANGED db

(* One message at a time; those a client does not handle are ignored.      *)
ProcessNetworkInput ==
    IF session.in = <<>>
    THEN UNCHANGED <<db, session, outcome>>
    ELSE LET m == Head(session.in)
             rest == [session EXCEPT !.in = Tail(@)]
         IN  \/ m.type = "PutPassport" /\ ProcessPutPassport(rest, m.id, m.blocks)
             \/ m.type = "GetPassport" /\ ProcessGetPassport(rest, m.id)
             \/ m.type = "Topic" /\ ProcessTopic(rest, m.topic, m.content)
             \/ /\ m.type \notin {"PutPassport", "GetPassport", "Topic"}
                /\ session' = rest
                /\ UNCHANGED <<db, outcome>>

-----------------------------------------------------------------------------
(* App::with_seed: the keys in the order the directory lists them, each    *)
(* with the alias the database has for it, and every stored passport.      *)
Alias(key) ==
    IF key \in DOMAIN db.public_key /\ key \notin LockedKeys
    THEN db.public_key[key] ELSE NoName

Loaded ==
    /\ \E listing \in SetToSeqs(files) :
        keys' = [i \in DOMAIN listing |->
                    [key |-> listing[i], alias |-> Alias(listing[i])]]
    /\ passports' = [id \in DOMAIN db.passport |-> FromBlocks(db.passport[id])]
    /\ outcome' = IF \E id \in DOMAIN db.passport :
                        FromBlocks(db.passport[id]) = <<>>
                  THEN "badPassport" ELSE "running"
    /\ currentKey' = 0 /\ currentPassport' = NoPassport
    /\ session' = NoSession /\ refused' = FALSE
    /\ UNCHANGED disk

AppInit ==
    /\ db = Empty /\ files \in {{}, OldKeys}
    /\ keys \in {[i \in DOMAIN listing |->
                    [key |-> listing[i], alias |-> NoName]] :
                        listing \in SetToSeqs(files)}
    /\ passports = <<>>
    /\ currentKey = 0 /\ currentPassport = NoPassport
    /\ session = NoSession /\ refused = FALSE
    /\ outcome = "running" /\ starts = 1

=============================================================================
