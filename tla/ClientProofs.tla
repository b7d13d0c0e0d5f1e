---------------------------- MODULE ClientProofs ----------------------------
(***************************************************************************)
(* What the client keeps, for any number of keys, passports and messages   *)
(* and whatever its user presses: KeysInv and StoreInv are about what it   *)
(* stores, UiInv types the rest, FocusInv and OneKeyInv follow the turns   *)
(* of its loop.  At the end, the links of its database.                    *)
(***************************************************************************)
EXTENDS ClientUi, DataProofs

Fields == {"contact", "public_key", "passport", "passport_key",
           "contact_passport", "thread", "message"}

Aliases == Names \cup {NoName}

AliasIn(table, key) ==
    IF key \in DOMAIN table /\ key \notin LockedKeys THEN table[key] ELSE NoName

(* The keys in memory have files, as many at least, and the alias that the *)
(* database has for them.                                                  *)
KeysInv ==
    /\ DOMAIN db = Fields
    /\ IsTable(db.public_key, PublicKeys, Aliases)
    /\ files \subseteq PublicKeys
    /\ keys \in Seq([key : PublicKeys, alias : Aliases])
    /\ Len(keys) <= Cardinality(files)
    /\ \A i \in 1..Len(keys) :
        /\ keys[i].key \in files
        /\ keys[i].alias = AliasIn(db.public_key, keys[i].key)
    /\ currentKey \in 0..Len(keys)

(* A stored passport has one block, as no other can be imported; those in  *)
(* memory and those in messages to the node are stored.                    *)
Requests == [type : {"PutPassport", "GetPassport"}, id : Blocks]
SessionOK(s, stored) ==
    /\ s \in [key : PublicKeys \cup {"none"}, out : Seq(Requests),
              in : Seq(Incoming), alive : BOOLEAN]
    /\ Len(s.out) <= OutCap /\ Len(s.in) <= MaxIncoming
    /\ \A i \in 1..Len(s.out) : s.out[i].id \in stored
StoreInv ==
    /\ DOMAIN db.passport \subseteq Blocks
    /\ \A id \in DOMAIN db.passport : db.passport[id] = <<id>>
    /\ \A id \in DOMAIN passports :
        id \in DOMAIN db.passport /\ passports[id] = <<id>>
    /\ SessionOK(session, DOMAIN db.passport)

Turns == {"newKey", "selectKey", "newPassport", "listPassports", "process",
          "input"}
Widgets == {"Keys", "Passports", "Messages", "Settings", "widget::NewKey",
            "widget::NewPassword"}
Popups == [step : PassportSteps \cup {"none"}, matches : BOOLEAN]
UiInv ==
    /\ turn \in Turns /\ page \in 1..4 /\ focus \in Seq(Widgets)
    /\ currentPassport \in Blocks \cup {NoPassport}
    /\ refused \in BOOLEAN /\ outcome \in Outcomes /\ starts \in 1..MaxStarts
    /\ keyList \in [selected : 0..Beyond, cursor : 0..Beyond]
    /\ passportList \in [selected : 0..Beyond, cursor : 0..Beyond,
                         ids : Seq(Blocks),
                         key : PublicKeys \cup {"none", "locked"}]
    /\ Len(passportList.ids) <= Cardinality(Blocks)
    /\ newKey \in KeySteps \cup {"none"}
    /\ newPassport \in Popups

(* The key that is current is the one selected in the list.                *)
Settled == keys # <<>> => currentKey = keyList.selected + 1

(* The popups the focus may be on.  That of a passport stays open while    *)
(* the current key is the one it was opened for: nothing else is selected, *)
(* and the first key is created only in the other popup.                   *)
OnNewKey == focus[2] = "widget::NewKey" /\ page = 1 /\ newKey # "none"
OnNewPassport ==
    /\ focus[2] = "widget::NewPassword" /\ page = 2 /\ newPassport.step # "none"
    /\ Settled /\ passportList.key = AtKey
FocusInv ==
    outcome = "running" =>
        /\ focus # <<>> =>
            /\ focus[1] = Titles[page] /\ Len(focus) <= 2
            /\ Len(focus) = 2 => OnNewKey \/ OnNewPassport
        /\ newKey = "Create" => turn = "newKey" /\ Len(focus) = 2 /\ OnNewKey
        /\ turn \notin {"newKey", "selectKey"} => Settled
        /\ turn \in {"listPassports", "process", "input"} =>
            passportList.key = AtKey

(* The session follows the current key at once, the passports when they    *)
(* have been listed.                                                       *)
OneKeyInv ==
    /\ AtKey \in PublicKeys /\ ~refused => session.key = AtKey
    /\ outcome = "running" /\ turn \in {"process", "input"} =>
        /\ currentPassport # NoPassport => Author[currentPassport] = AtKey
        /\ \A i \in 1..Len(passportList.ids) : Author[passportList.ids[i]] = AtKey

-----------------------------------------------------------------------------
(* Keys                                                                    *)

LEMMA KeysKept ==
    ASSUME KeysInv, DOMAIN db' = Fields, db'.public_key = db.public_key,
           UNCHANGED <<files, keys>>, currentKey' \in 0..Len(keys)
    PROVE  KeysInv'
BY DEF KeysInv

(* A key that is created was unknown; whatever fails, the aliases of the   *)
(* others stay.                                                            *)
LEMMA CreateNewKeyWrites ==
    ASSUME KeysInv, NEW key \in PublicKeys, NEW alias \in Names,
           CreateNewKey(key, alias)
    PROVE  /\ DOMAIN db' = Fields /\ db'.passport = db.passport
           /\ IsTable(db.public_key, PublicKeys, Aliases)'
           /\ \A k \in files :
                AliasIn(db'.public_key, k) = AliasIn(db.public_key, k)
           /\ \/ /\ keys' = Append(keys, [key |-> key, alias |-> alias])
                 /\ files' = files \cup {key} /\ key \notin files
                 /\ AliasIn(db'.public_key, key) = alias /\ UNCHANGED outcome
              \/ /\ keys' = keys /\ files' \in {files, files \cup {key}}
                 /\ outcome' = "storage"
<1> DEFINE pk == db.public_key
           new == Insert(pk, key, NoName)
           named == [new EXCEPT ![key] = alias]
<1>1. key \notin files /\ key \notin LockedKeys
  BY DEF CreateNewKey
<1>2. /\ DOMAIN db = Fields /\ IsTable(pk, PublicKeys, Aliases)
      /\ alias \in Aliases /\ NoName \in Aliases
  BY DEF KeysInv, Aliases
<1>3. /\ IsTable(new, PublicKeys, Aliases) /\ key \in DOMAIN new
      /\ DOMAIN new = DOMAIN pk \cup {key}
      /\ \A k \in DOMAIN pk : k # key => new[k] = pk[k]
  BY <1>2, InsertTable DEF Insert
<1>4. /\ IsTable(named, PublicKeys, Aliases) /\ named[key] = alias
      /\ DOMAIN named = DOMAIN new /\ \A k \in DOMAIN pk : k # key => named[k] = pk[k]
  <2> HIDE DEF new
  <2>1. IsTable(named, PublicKeys, Aliases)
    BY <1>2, <1>3, UpdateTable
  <2> QED
    BY <1>3, <2>1
<1> HIDE DEF new
<1>5. ASSUME NewKey(db, key) # Fault
      PROVE  NewKey(db, key) = [db EXCEPT !.public_key = new]
  BY <1>5, Zenon DEF NewKey, new
<1>6. CASE /\ db' = db /\ files' \in {files, files \cup {key}}
           /\ keys' = keys /\ outcome' = "storage"
  BY <1>2, <1>6
<1>7. ASSUME db' = [db EXCEPT !.public_key = new]
      PROVE  /\ DOMAIN db' = Fields /\ db'.passport = db.passport
             /\ db'.public_key = new
  BY <1>2, <1>7 DEF Fields
<1>8. ASSUME db' = NewKeyAlias(NewKey(db, key), key, alias), NewKey(db, key) # Fault
      PROVE  /\ DOMAIN db' = Fields /\ db'.passport = db.passport
             /\ db'.public_key = named
  BY <1>2, <1>3, <1>5, <1>8 DEF NewKeyAlias, Fields
<1>9. \/ /\ NewKey(db, key) # Fault
         /\ db' = NewKeyAlias(NewKey(db, key), key, alias)
         /\ files' = files \cup {key}
         /\ keys' = Append(keys, [key |-> key, alias |-> alias])
         /\ UNCHANGED outcome
      \/ /\ files' \in {files, files \cup {key}} /\ keys' = keys
         /\ \/ db' = db
            \/ NewKey(db, key) # Fault /\ db' = NewKey(db, key)
         /\ outcome' = "storage"
  BY DEF CreateNewKey, Ends
<1>10. ASSUME db'.public_key \in {new, named}
       PROVE  \A k \in files :
                AliasIn(db'.public_key, k) = AliasIn(db.public_key, k)
  BY <1>1, <1>3, <1>4, <1>10 DEF AliasIn
<1>11. CASE /\ NewKey(db, key) # Fault
            /\ db' = NewKeyAlias(NewKey(db, key), key, alias)
            /\ files' = files \cup {key}
            /\ keys' = Append(keys, [key |-> key, alias |-> alias])
            /\ UNCHANGED outcome
  <2>1. /\ DOMAIN db' = Fields /\ db'.passport = db.passport
        /\ db'.public_key = named
    BY <1>8, <1>11
  <2>2. AliasIn(db'.public_key, key) = alias
    BY <1>1, <1>3, <1>4, <2>1 DEF AliasIn
  <2> QED
    BY <1>1, <1>4, <1>10, <1>11, <2>1, <2>2
<1>12. CASE /\ NewKey(db, key) # Fault /\ db' = NewKey(db, key)
            /\ files' \in {files, files \cup {key}} /\ keys' = keys
            /\ outcome' = "storage"
  BY <1>3, <1>5, <1>7, <1>10, <1>12
<1> QED
  BY <1>6, <1>9, <1>11, <1>12

LEMMA UpdateNewKeyKeeps ==
    ASSUME KeysInv, UpdateNewKey
    PROVE  /\ KeysInv' /\ db'.passport = db.passport
           /\ keys' = keys \/ newKey = "Create"
           /\ currentKey' = currentKey
           /\ \A i \in 1..Len(keys) : i \in 1..Len(keys') /\ keys'[i] = keys[i]
           /\ outcome' = outcome \/ outcome' = "storage"
<1>1. currentKey' = currentKey /\ Len(keys) \in Nat
  <2>1. keys \in Seq([key : PublicKeys, alias : Aliases])
    BY DEF KeysInv
  <2>2. Len(keys) \in Nat
    BY <2>1
  <2>3. currentKey' = currentKey
    BY Zenon DEF UpdateNewKey
  <2> QED
    BY <2>2, <2>3
<1>2. CASE newKey # "Create"
  <2>1. UNCHANGED <<db, files, keys, outcome>>
    BY <1>2 DEF UpdateNewKey, disk
  <2> QED
    BY <1>1, <1>2, <2>1, KeysKept DEF KeysInv
<1>3. CASE newKey = "Create"
  <2>1. PICK key \in PublicKeys, alias \in Names : CreateNewKey(key, alias)
    BY <1>3 DEF UpdateNewKey
  <2> DEFINE entry == [key |-> key, alias |-> alias]
  <2>2. /\ DOMAIN db' = Fields /\ db'.passport = db.passport
        /\ IsTable(db.public_key, PublicKeys, Aliases)'
        /\ \A k \in files :
            AliasIn(db'.public_key, k) = AliasIn(db.public_key, k)
        /\ \/ /\ keys' = Append(keys, entry)
              /\ files' = files \cup {key} /\ key \notin files
              /\ AliasIn(db'.public_key, key) = alias /\ UNCHANGED outcome
           \/ /\ keys' = keys /\ files' \in {files, files \cup {key}}
              /\ outcome' = "storage"
    BY <2>1, CreateNewKeyWrites
  <2>3. entry \in [key : PublicKeys, alias : Aliases]
    BY DEF Aliases
  <2>4. /\ keys \in Seq([key : PublicKeys, alias : Aliases])
        /\ Len(keys) <= Cardinality(files)
        /\ \A i \in 1..Len(keys) :
            /\ keys[i].key \in files
            /\ keys[i].alias = AliasIn(db.public_key, keys[i].key)
        /\ currentKey \in 0..Len(keys) /\ files \subseteq PublicKeys
    BY DEF KeysInv
  <2>5. /\ IsFiniteSet(files) /\ Cardinality(files) \in Nat
        /\ Cardinality(files \cup {key}) =
            IF key \in files THEN Cardinality(files) ELSE Cardinality(files) + 1
    BY <2>4, ClientAssumption, FS_Subset, FS_CardinalityType, FS_AddElement
  <2>6. files' \subseteq PublicKeys
    BY <2>2, <2>4
  <2>7. CASE /\ keys' = Append(keys, entry) /\ files' = files \cup {key}
             /\ key \notin files /\ AliasIn(db'.public_key, key) = alias
    <3> HIDE DEF entry
    <3>1. /\ keys' \in Seq([key : PublicKeys, alias : Aliases])
          /\ Len(keys') = Len(keys) + 1 /\ keys'[Len(keys) + 1] = entry
          /\ \A i \in 1..Len(keys) : keys'[i] = keys[i]
      BY <2>3, <2>4, <2>7, AppendProperties
    <3>2. Len(keys') <= Cardinality(files')
      BY <1>1, <2>4, <2>5, <2>7, <3>1
    <3>3. entry.key = key /\ entry.alias = alias
      BY DEF entry
    <3>4. ASSUME NEW i \in 1..Len(keys')
          PROVE  /\ keys'[i].key \in files'
                 /\ keys'[i].alias = AliasIn(db'.public_key, keys'[i].key)
      <4>1. CASE i = Len(keys) + 1
        BY <2>7, <3>1, <3>3, <4>1
      <4>2. CASE i \in 1..Len(keys)
        BY <2>2, <2>4, <2>7, <3>1, <4>2
      <4> QED
        BY <1>1, <3>1, <4>1, <4>2
    <3>5. currentKey' \in 0..Len(keys')
      BY <1>1, <2>4, <3>1
    <3>6. KeysInv'
      BY <2>2, <2>6, <3>1, <3>2, <3>4, <3>5 DEF KeysInv
    <3> QED
      BY <1>1, <1>3, <2>2, <3>1, <3>6
  <2>8. CASE keys' = keys /\ files' \in {files, files \cup {key}}
    <3>1. Len(keys') <= Cardinality(files') /\ files \subseteq files'
      <4>1. CASE files' = files
        BY <1>1, <2>4, <2>8, <4>1
      <4>2. CASE files' = files \cup {key}
        BY <1>1, <2>4, <2>5, <2>8, <4>2
      <4> QED
        BY <2>8, <4>1, <4>2
    <3>2. \A i \in 1..Len(keys') :
            /\ keys'[i].key \in files'
            /\ keys'[i].alias = AliasIn(db'.public_key, keys'[i].key)
      BY <2>2, <2>4, <2>8, <3>1
    <3>3. KeysInv'
      BY <1>1, <2>2, <2>4, <2>6, <2>8, <3>1, <3>2 DEF KeysInv
    <3> QED
      BY <1>1, <2>2, <2>8, <3>3
  <2> QED
    BY <2>2, <2>7, <2>8
<1> QED
  BY <1>2, <1>3

-----------------------------------------------------------------------------
(* Sessions and passports                                                  *)

LEMMA SessionGrows ==
    ASSUME NEW s, NEW stored, SessionOK(s, stored), NEW more, stored \subseteq more
    PROVE  SessionOK(s, more)
BY DEF SessionOK

LEMMA NewSession ==
    ASSUME NEW key \in PublicKeys, NEW stored
    PROVE  SessionOK(Session(key), stored) /\ SessionOK(NoSession, stored)
BY ClientAssumption DEF SessionOK, Session, NoSession

LEMMA SentOK ==
    ASSUME NEW s, NEW stored, SessionOK(s, stored), s.out = session.out,
           NEW m \in Requests, m.id \in stored
    PROVE  SessionOK(Sent(s, m), stored) /\ Sent(s, m).key = s.key
<1>1. CASE CanSend
  <2> DEFINE out == Append(s.out, m)
  <2>1. s.out \in Seq(Requests) /\ Len(s.out) < OutCap
    BY <1>1 DEF CanSend, SessionOK
  <2>2. /\ out \in Seq(Requests) /\ Len(out) = Len(s.out) + 1
        /\ \A i \in 1..Len(s.out) : out[i] = s.out[i]
        /\ out[Len(s.out) + 1] = m
    BY <2>1, AppendProperties
  <2>3. Sent(s, m) = [s EXCEPT !.out = out]
    BY <1>1 DEF Sent
  <2> HIDE DEF out
  <2>4. Len(out) <= OutCap
    BY <2>1, <2>2, ClientAssumption
  <2>5. \A i \in 1..Len(out) : out[i].id \in stored
    <3> TAKE i \in 1..Len(out)
    <3>1. CASE i = Len(s.out) + 1
      BY <2>2, <3>1
    <3>2. CASE i \in 1..Len(s.out)
      BY <2>2, <3>2 DEF SessionOK
    <3> QED
      BY <2>1, <2>2, <3>1, <3>2
  <2> QED
    BY <2>2, <2>3, <2>4, <2>5 DEF SessionOK
<1>2. CASE ~CanSend
  BY <1>2 DEF Sent
<1> QED
  BY <1>1, <1>2

LEMMA RequestsTyped ==
    ASSUME NEW id \in Blocks
    PROVE  /\ NewPutPassport(id) \in Requests /\ NewPutPassport(id).id = id
           /\ NewGetPassport(id) \in Requests /\ NewGetPassport(id).id = id
BY DEF NewPutPassport, NewGetPassport, Requests

LEMMA StoreKept ==
    ASSUME StoreInv, db'.passport = db.passport, passports' = passports,
           SessionOK(session', DOMAIN db.passport)
    PROVE  StoreInv'
BY DEF StoreInv

LEMMA StoreGrows ==
    ASSUME StoreInv, NEW id \in Blocks,
           db'.passport \in {db.passport, Insert(db.passport, id, <<id>>)},
           \/ passports' = passports
           \/ /\ passports' = Insert(passports, id, <<id>>)
              /\ db'.passport = Insert(db.passport, id, <<id>>),
           SessionOK(session', DOMAIN db'.passport)
    PROVE  StoreInv'
<1> DEFINE stored == Insert(db.passport, id, <<id>>)
           known == Insert(passports, id, <<id>>)
<1>1. /\ DOMAIN stored = DOMAIN db.passport \cup {id} /\ stored[id] = <<id>>
      /\ \A x \in DOMAIN db.passport : x # id => stored[x] = db.passport[x]
  BY DEF Insert
<1>2. /\ DOMAIN known = DOMAIN passports \cup {id} /\ known[id] = <<id>>
      /\ \A x \in DOMAIN passports : x # id => known[x] = passports[x]
  BY DEF Insert
<1> HIDE DEF stored, known
<1>3. db'.passport = db.passport \/ db'.passport = stored
  BY DEF stored
<1>4. passports' = passports \/ (passports' = known /\ db'.passport = stored)
  BY DEF stored, known
<1>5. /\ DOMAIN db.passport \subseteq Blocks
      /\ \A x \in DOMAIN db.passport : db.passport[x] = <<x>>
      /\ \A x \in DOMAIN passports : x \in DOMAIN db.passport /\ passports[x] = <<x>>
  BY DEF StoreInv
<1>6. /\ DOMAIN db'.passport \subseteq Blocks
      /\ DOMAIN db.passport \subseteq DOMAIN db'.passport
      /\ \A x \in DOMAIN db'.passport : db'.passport[x] = <<x>>
  BY <1>1, <1>3, <1>5
<1>7. \A x \in DOMAIN passports' :
        x \in DOMAIN db'.passport /\ passports'[x] = <<x>>
  BY <1>1, <1>2, <1>4, <1>5, <1>6
<1> QED
  BY <1>6, <1>7 DEF StoreInv

LEMMA CreateNewPassportWrites ==
    ASSUME DOMAIN db = Fields, NEW id \in Blocks, CreateNewPassport(id)
    PROVE  /\ DOMAIN db' = Fields /\ db'.public_key = db.public_key
           /\ \/ /\ db'.passport = Insert(db.passport, id, <<id>>)
                 /\ passports' = Insert(passports, id, <<id>>)
                 /\ session' = Sent(session, NewPutPassport(id))
                 /\ UNCHANGED outcome
              \/ /\ db'.passport \in {db.passport, Insert(db.passport, id, <<id>>)}
                 /\ UNCHANGED <<passports, session>>
                 /\ outcome' = "storage"
<1> DEFINE new == Insert(db.passport, id, <<id>>)
           stored == NewPassport(db, <<id>>)
           linked == LinkKeyToPassport(stored, keys[currentKey].key, id)
<1>1. <<id>>[1] = id /\ <<id>> # <<>>
  OBVIOUS
<1>2. ASSUME stored # Fault
      PROVE  /\ DOMAIN stored = Fields /\ stored.passport = new
             /\ stored.public_key = db.public_key
  <2>1. stored = [db EXCEPT !.passport = Insert(@, id, <<id>>)]
    BY <1>1, <1>2 DEF NewPassport
  <2> HIDE DEF stored
  <2> QED
    BY <2>1 DEF Fields
<1>3. ASSUME stored # Fault, linked # Fault
      PROVE  /\ DOMAIN linked = Fields /\ linked.passport = new
             /\ linked.public_key = db.public_key
  <2>1. linked = [stored EXCEPT !.passport_key =
                    @ \cup {<<keys[currentKey].key, id>>}]
    BY <1>3, Zenon DEF LinkKeyToPassport
  <2> HIDE DEF stored, linked, new
  <2> QED
    BY <1>2, <1>3, <2>1 DEF Fields
<1>4. \/ /\ stored # Fault /\ linked # Fault /\ db' = linked
         /\ passports' = Insert(passports, id, <<id>>)
         /\ session' = Sent(session, NewPutPassport(id))
         /\ UNCHANGED outcome
      \/ /\ db' \in {db, IF stored = Fault THEN db ELSE stored}
         /\ outcome' = "storage"
         /\ UNCHANGED <<passports, session>>
  BY Zenon DEF CreateNewPassport, Ends
<1> HIDE DEF stored, linked
<1> QED
  BY <1>2, <1>3, <1>4

LEMMA ProcessPutWrites ==
    ASSUME DOMAIN db = Fields, StoreInv, NEW rest,
           SessionOK(rest, DOMAIN db.passport), rest.out = session.out,
           NEW id, NEW blocks \in Seq(DOMAIN Parent),
           ProcessPutPassport(rest, id, blocks)
    PROVE  /\ DOMAIN db' = Fields /\ db'.public_key = db.public_key
           /\ \/ db'.passport = db.passport
              \/ \E new \in Blocks :
                    db'.passport = Insert(db.passport, new, <<new>>)
           /\ SessionOK(session', DOMAIN db.passport) /\ session'.key = rest.key
           /\ outcome' \in {outcome, "badPassport", "storage"}
<1>1. CASE /\ Ends("badPassport") /\ session' = rest /\ UNCHANGED db
  BY <1>1 DEF Ends
<1>2. CASE /\ id \in DOMAIN passports
           /\ session' \in {rest, Sent(rest, NewPutPassport(id))}
           /\ UNCHANGED <<db, outcome>>
  <2>1. id \in DOMAIN db.passport /\ id \in Blocks
    BY <1>2 DEF StoreInv
  <2>2. /\ SessionOK(Sent(rest, NewPutPassport(id)), DOMAIN db.passport)
        /\ Sent(rest, NewPutPassport(id)).key = rest.key
    BY <2>1, SentOK, RequestsTyped
  <2> QED
    BY <1>2, <2>2
<1>3. CASE /\ FromBlocks(blocks) # <<>> /\ blocks[1] = id
           /\ NewPassport(db, blocks) # Fault /\ db' = NewPassport(db, blocks)
           /\ session' = rest /\ UNCHANGED outcome
  <2>1. Len(blocks) = 1 /\ Parent[blocks[1]] = NoParent
    BY <1>3, FromBlocksIsFirst
  <2>2. blocks[1] \in DOMAIN Parent /\ blocks = <<blocks[1]>>
    BY <2>1
  <2>3. blocks[1] \in Blocks
    BY <2>1, <2>2, ClientAssumption
  <2>4. db' = [db EXCEPT !.passport = Insert(@, blocks[1], blocks)]
    BY <1>3, Zenon DEF NewPassport
  <2>5. /\ DOMAIN db' = Fields /\ db'.public_key = db.public_key
        /\ db'.passport = Insert(db.passport, blocks[1], blocks)
    BY <2>4 DEF Fields
  <2>6. \E new \in Blocks : db'.passport = Insert(db.passport, new, <<new>>)
    BY <2>2, <2>3, <2>5, Zenon
  <2> QED
    BY <1>3, <2>5, <2>6
<1>4. CASE Ends("storage") /\ UNCHANGED db /\ session' = rest
  BY <1>4 DEF Ends
<1> QED
  BY <1>1, <1>2, <1>3, <1>4 DEF ProcessPutPassport

LEMMA ProcessWrites ==
    ASSUME DOMAIN db = Fields, StoreInv, ProcessNetworkInput
    PROVE  /\ DOMAIN db' = Fields /\ db'.public_key = db.public_key
           /\ \/ db'.passport = db.passport
              \/ \E new \in Blocks :
                    db'.passport = Insert(db.passport, new, <<new>>)
           /\ SessionOK(session', DOMAIN db.passport) /\ session'.key = session.key
           /\ outcome' \in {outcome, "badPassport", "storage"}
<1>1. CASE session.in = <<>>
  BY <1>1 DEF ProcessNetworkInput, StoreInv
<1>2. CASE session.in # <<>>
  <2> DEFINE m == Head(session.in)
             rest == [session EXCEPT !.in = Tail(@)]
  <2>0. SessionOK(session, DOMAIN db.passport) /\ session.in \in Seq(Incoming)
    BY DEF StoreInv, SessionOK
  <2>1. /\ m \in Incoming /\ Tail(session.in) \in Seq(Incoming)
        /\ Len(Tail(session.in)) = Len(session.in) - 1
    BY <1>2, <2>0, HeadTailProperties
  <2>2. /\ SessionOK(rest, DOMAIN db.passport) /\ rest.out = session.out
        /\ rest.key = session.key
    <3> DEFINE left == Tail(session.in)
    <3>1. Len(left) <= MaxIncoming
      BY <2>0, <2>1, ClientAssumption DEF SessionOK
    <3>2. left \in Seq(Incoming)
      BY <2>1
    <3>3. rest = [session EXCEPT !.in = left]
      OBVIOUS
    <3> HIDE DEF left, rest
    <3> QED
      BY <2>0, <3>1, <3>2, <3>3 DEF SessionOK
  <2>3. \/ m.type = "PutPassport" /\ ProcessPutPassport(rest, m.id, m.blocks)
        \/ m.type = "GetPassport" /\ ProcessGetPassport(rest, m.id)
        \/ m.type = "Topic" /\ ProcessTopic(rest, m.topic, m.content)
        \/ /\ m.type \notin {"PutPassport", "GetPassport", "Topic"}
           /\ session' = rest
           /\ UNCHANGED <<db, outcome>>
    BY <1>2, Zenon DEF ProcessNetworkInput
  <2> HIDE DEF m, rest
  <2>4. CASE m.type = "PutPassport" /\ ProcessPutPassport(rest, m.id, m.blocks)
    <3>1. m.blocks \in Seq(DOMAIN Parent)
      BY <2>1, <2>4, ClientAssumption
    <3> QED
      BY <2>2, <2>4, <3>1, ProcessPutWrites
  <2>5. CASE ProcessGetPassport(rest, m.id)
    <3>1. ASSUME m.id \in DOMAIN passports
          PROVE  /\ SessionOK(Sent(rest, NewPutPassport(m.id)), DOMAIN db.passport)
                 /\ Sent(rest, NewPutPassport(m.id)).key = rest.key
      <4>1. m.id \in DOMAIN db.passport /\ m.id \in Blocks
        BY <3>1 DEF StoreInv
      <4> QED
        BY <2>2, <4>1, SentOK, RequestsTyped
    <3> QED
      BY <2>2, <2>5, <3>1 DEF ProcessGetPassport
  <2>6. CASE ProcessTopic(rest, m.topic, m.content)
    BY <2>2, <2>6 DEF ProcessTopic, Ends
  <2>7. CASE session' = rest /\ UNCHANGED <<db, outcome>>
    BY <2>2, <2>7
  <2> QED
    BY <2>3, <2>4, <2>5, <2>6, <2>7
<1> QED
  BY <1>1, <1>2

LEMMA TaskKeeps ==
    ASSUME StoreInv, Outbound \/ Shutdown \/ \E m \in Incoming : Inbound(m)
    PROVE  SessionOK(session', DOMAIN db.passport) /\ session'.key = session.key
<1>0. /\ SessionOK(session, DOMAIN db.passport) /\ session.in \in Seq(Incoming)
      /\ session.out \in Seq(Requests)
      /\ Len(session.in) \in Nat /\ Len(session.out) \in Nat
  BY DEF StoreInv, SessionOK
<1>1. CASE Outbound
  <2> DEFINE out == Tail(session.out)
  <2>1. session.out # <<>> /\ session' = [session EXCEPT !.out = out]
    BY <1>1 DEF Outbound
  <2>2. /\ out \in Seq(Requests) /\ Len(out) = Len(session.out) - 1
        /\ \A i \in 1..Len(out) : out[i] = session.out[i + 1]
    BY <1>0, <2>1, HeadTailProperties
  <2> HIDE DEF out
  <2>3. \A i \in 1..Len(out) : out[i].id \in DOMAIN db.passport
    <3> TAKE i \in 1..Len(out)
    <3>1. i + 1 \in 1..Len(session.out)
      BY <1>0, <2>2
    <3> QED
      BY <1>0, <2>2, <3>1 DEF SessionOK
  <2>4. Len(out) <= OutCap
    BY <1>0, <2>2, ClientAssumption DEF SessionOK
  <2> QED
    BY <1>0, <2>1, <2>2, <2>3, <2>4 DEF SessionOK
<1>2. CASE Shutdown
  <2>1. session' = [session EXCEPT !.alive = FALSE, !.out = <<>>]
    BY <1>2 DEF Shutdown
  <2> DEFINE out == <<>>
  <2>2. /\ out \in Seq(Requests) /\ Len(out) = 0 /\ 0 <= OutCap
        /\ \A i \in 1..Len(out) : out[i].id \in DOMAIN db.passport
    BY ClientAssumption
  <2>3. session' = [session EXCEPT !.alive = FALSE, !.out = out]
    BY <2>1
  <2> HIDE DEF out
  <2> QED
    BY <1>0, <2>2, <2>3 DEF SessionOK
<1>3. ASSUME NEW m \in Incoming, Inbound(m)
      PROVE  SessionOK(session', DOMAIN db.passport) /\ session'.key = session.key
  <2> DEFINE in == Append(session.in, m)
  <2>1. Len(session.in) < MaxIncoming /\ session' = [session EXCEPT !.in = in]
    BY <1>3 DEF Inbound
  <2>2. in \in Seq(Incoming) /\ Len(in) = Len(session.in) + 1
    BY <1>0, AppendProperties
  <2> HIDE DEF in
  <2>3. Len(in) <= MaxIncoming
    BY <1>0, <2>1, <2>2, ClientAssumption
  <2> QED
    BY <1>0, <2>1, <2>2, <2>3 DEF SessionOK
<1> QED
  BY <1>1, <1>2, <1>3

-----------------------------------------------------------------------------
(* The first states, and those of another start                            *)

Inv == KeysInv /\ StoreInv /\ UiInv /\ FocusInv /\ OneKeyInv

LEMMA Bounds ==
    /\ Beyond \in Nat /\ MaxStarts \in Nat /\ 1 \in 1..MaxStarts
    /\ Cardinality(Blocks) \in Nat
<1>1. Beyond \in Nat
  BY UiAssumption
<1>2. MaxStarts \in Nat /\ 1 \in 1..MaxStarts
  BY ClientAssumption
<1>3. Cardinality(Blocks) \in Nat
  BY ClientAssumption, FS_CardinalityType
<1> QED
  BY <1>1, <1>2, <1>3

LEMMA BeyondBounds ==
    /\ Cardinality(PublicKeys) \in Nat /\ Cardinality(PublicKeys) < Beyond
    /\ Cardinality(Blocks) \in Nat /\ Cardinality(Blocks) < Beyond
<1>1. Cardinality(PublicKeys) \in Nat /\ Cardinality(Blocks) \in Nat
  BY ClientAssumption, FS_CardinalityType
<1> QED
  BY <1>1, UiAssumption

Entry(key, table) == [key |-> key, alias |-> AliasIn(table, key)]
EntriesOf(listing, table) == [i \in DOMAIN listing |-> Entry(listing[i], table)]
KeysOf(ks, S, table) ==
    /\ ks \in Seq([key : PublicKeys, alias : Aliases])
    /\ Len(ks) = Cardinality(S)
    /\ \A i \in 1..Len(ks) :
        ks[i].key \in S /\ ks[i].alias = AliasIn(table, ks[i].key)

LEMMA ListingKeys ==
    ASSUME NEW S, S \subseteq PublicKeys, NEW listing, listing \in SetToSeqs(S),
           NEW table, IsTable(table, PublicKeys, Aliases),
           NEW ks, ks = EntriesOf(listing, table)
    PROVE  KeysOf(ks, S, table)
<1>1. Cardinality(S) \in Nat
  BY ClientAssumption, FS_Subset, FS_CardinalityType
<1> DEFINE n == Cardinality(S)
           E == [key : PublicKeys, alias : Aliases]
<1>2. listing \in [1..n -> S] /\ n \in Nat
  BY <1>1, Zenon DEF SetToSeqs
<1>3. \A k : AliasIn(table, k) \in Aliases
  BY DEF AliasIn, IsTable, Aliases
<1> HIDE DEF n
<1>4. DOMAIN ks = 1..n /\ \A i \in 1..n : ks[i] = Entry(listing[i], table)
  <2>1. DOMAIN listing = 1..n
    BY <1>2
  <2> QED
    BY <2>1, Zenon DEF EntriesOf
<1>5. \A i \in 1..n : listing[i] \in S /\ listing[i] \in PublicKeys
  BY <1>2
<1>6. \A i \in 1..n : ks[i] \in E
  BY <1>3, <1>4, <1>5 DEF Entry
<1>7. ks = [i \in 1..n |-> ks[i]]
  BY <1>4, Zenon DEF EntriesOf
<1> HIDE DEF E
<1>8. ks \in [1..n -> E]
  BY <1>6, <1>7, Zenon
<1>9. ks \in Seq(E) /\ Len(ks) = n
  BY <1>1, <1>8 DEF n
<1> QED
  BY <1>4, <1>5, <1>9 DEF E, n, Entry, KeysOf

LEMMA AtNoKey ==
    currentKey = 0 => AtKey = "none" /\ AtKey \notin PublicKeys
BY ClientAssumption DEF AtKey

LEMMA PopupsTyped ==
    /\ \A step \in PassportSteps, matches \in BOOLEAN :
        /\ Popup(step, matches) \in Popups
        /\ Popup(step, matches).step = step
    /\ Closed \in Popups /\ Closed.step = "none"
    /\ FirstPopup \in Popups /\ FirstPopup.step = "CreateOrBind"
BY DEF Popup, Popups, Closed, FirstPopup, PassportSteps

LEMMA FirstUi ==
    ASSUME turn = "newKey", page = 1, focus = <<>>, keyList = FirstKeyList,
           newKey = FirstNewKey(files), passportList = FirstPassportList,
           newPassport = FirstPopup, currentPassport = NoPassport,
           refused \in BOOLEAN, outcome \in Outcomes, starts \in 1..MaxStarts,
           currentKey = 0
    PROVE  UiInv /\ FocusInv /\ OneKeyInv
<1> USE Bounds
<1>1. newKey \in {"EnteringName", "none"}
  BY DEF FirstNewKey
<1>2. Cardinality(Blocks) \in Nat /\ Len(passportList.ids) = 0
  BY ClientAssumption, FS_CardinalityType DEF FirstPassportList
<1>3. passportList \in [selected : 0..Beyond, cursor : 0..Beyond,
                        ids : Seq(Blocks), key : PublicKeys \cup {"none", "locked"}]
  BY DEF FirstPassportList
<1>4. keyList \in [selected : 0..Beyond, cursor : 0..Beyond]
  BY DEF FirstKeyList
<1>5. newPassport \in Popups
  BY PopupsTyped
<1>6. UiInv
  <2>1. 0 <= Cardinality(Blocks)
    BY <1>2
  <2>2. /\ turn \in Turns /\ page \in 1..4 /\ focus \in Seq(Widgets)
        /\ newKey \in KeySteps \cup {"none"} /\ refused \in BOOLEAN
    BY <1>1 DEF Turns, KeySteps
  <2> QED
    BY <1>2, <1>3, <1>4, <1>5, <2>1, <2>2 DEF UiInv
<1>7. FocusInv
  BY <1>1 DEF FocusInv
<1>8. OneKeyInv
  BY AtNoKey DEF OneKeyInv
<1> QED
  BY <1>6, <1>7, <1>8

LEMMA FirstStates == Init => Inv
<1> SUFFICES ASSUME Init PROVE Inv
  OBVIOUS
<1>1. /\ db = Empty /\ files \subseteq PublicKeys
      /\ passports = <<>> /\ currentKey = 0 /\ session = NoSession
  BY ClientAssumption DEF Init, AppInit
<1>2. /\ DOMAIN db = Fields /\ IsTable(db.public_key, PublicKeys, Aliases)
      /\ DOMAIN db.public_key = {} /\ DOMAIN db.passport = {}
  BY <1>1 DEF Empty, Fields, IsTable
<1>3. PICK listing \in SetToSeqs(files) :
        keys = [i \in DOMAIN listing |-> [key |-> listing[i], alias |-> NoName]]
  BY DEF Init, AppInit
<1>4. \A k : AliasIn(db.public_key, k) = NoName
  BY <1>2 DEF AliasIn
<1>5. keys = EntriesOf(listing, db.public_key)
  BY <1>3, <1>4, Zenon DEF EntriesOf, Entry
<1>7. KeysInv
  <2>1. Cardinality(files) \in Nat
    BY <1>1, ClientAssumption, FS_Subset, FS_CardinalityType
  <2>2. KeysOf(keys, files, db.public_key)
    BY <1>1, <1>2, <1>5, ListingKeys
  <2> QED
    BY <1>1, <1>2, <2>1, <2>2 DEF KeysInv, KeysOf
<1>8. StoreInv
  <2>1. SessionOK(session, DOMAIN db.passport)
    BY <1>1, ClientAssumption DEF SessionOK, NoSession
  <2> QED
    BY <1>1, <1>2, <2>1 DEF StoreInv
<1>9. UiInv /\ FocusInv /\ OneKeyInv
  <2>1. outcome = "running" /\ starts = 1 /\ refused \in BOOLEAN
    BY Zenon DEF Init, AppInit
  <2>2. outcome \in Outcomes /\ starts \in 1..MaxStarts
    BY <2>1, ClientAssumption DEF Outcomes
  <2> QED
    BY <2>1, <2>2, FirstUi, Zenon DEF Init, AppInit
<1> QED
  BY <1>7, <1>8, <1>9 DEF Inv

LEMMA RestartKeeps == Inv /\ Restart => Inv'
<1> SUFFICES ASSUME Inv, Restart PROVE Inv'
  OBVIOUS
<1>1. /\ UNCHANGED <<db, files>> /\ currentKey' = 0
      /\ session' = NoSession /\ refused' \in BOOLEAN /\ outcome' \in Outcomes
      /\ currentPassport' = NoPassport
      /\ passports' = [id \in DOMAIN db.passport |-> FromBlocks(db.passport[id])]
  BY Zenon DEF Restart, Loaded, disk, Outcomes
<1>2. PICK listing \in SetToSeqs(files) :
        keys' = [i \in DOMAIN listing |->
                    [key |-> listing[i], alias |-> Alias(listing[i])]]
  BY DEF Restart, Loaded
<1>3. \A k : Alias(k) = AliasIn(db.public_key, k)
  BY DEF Alias, AliasIn
<1>4. keys' = EntriesOf(listing, db.public_key)
  BY <1>2, <1>3, Zenon DEF EntriesOf, Entry
<1>5. KeysInv'
  <2>1. /\ Cardinality(files) \in Nat /\ DOMAIN db = Fields
        /\ files \subseteq PublicKeys /\ IsTable(db.public_key, PublicKeys, Aliases)
    BY ClientAssumption, FS_Subset, FS_CardinalityType DEF Inv, KeysInv
  <2>2. KeysOf(keys', files, db.public_key)
    BY <1>4, <2>1, ListingKeys
  <2> QED
    BY <1>1, <2>1, <2>2 DEF KeysInv, KeysOf
<1>6. StoreInv'
  <2>1. /\ DOMAIN db.passport \subseteq Blocks
        /\ \A id \in DOMAIN db.passport : db.passport[id] = <<id>>
    BY DEF Inv, StoreInv
  <2>2. \A id \in DOMAIN db.passport : FromBlocks(<<id>>) = <<id>>
    BY <2>1, FromFirst, ClientAssumption
  <2>3. \A id \in DOMAIN passports' : id \in DOMAIN db.passport /\ passports'[id] = <<id>>
    BY <1>1, <2>1, <2>2
  <2>4. SessionOK(session', DOMAIN db.passport)
    BY <1>1, ClientAssumption DEF SessionOK, NoSession
  <2> QED
    BY <1>1, <2>1, <2>3, <2>4 DEF StoreInv
<1>7. starts' \in 1..MaxStarts
  <2>1. starts \in 1..MaxStarts
    BY DEF Inv, UiInv
  <2>2. starts' = starts + 1 /\ starts < MaxStarts
    BY DEF Restart
  <2> QED
    BY <2>1, <2>2, ClientAssumption
<1>8. UiInv' /\ FocusInv' /\ OneKeyInv'
  <2> USE Bounds
  <2>1. /\ (turn = "newKey")' /\ (page = 1)' /\ (focus = <<>>)'
        /\ (keyList = FirstKeyList)' /\ (newKey = FirstNewKey(files))'
        /\ (passportList = FirstPassportList)' /\ newPassport' = FirstPopup
    BY <1>1 DEF Restart, FirstKeyList, FirstNewKey, FirstPassportList
  <2>2. newKey' \in {"EnteringName", "none"}
    BY <2>1 DEF FirstNewKey
  <2>3. /\ AtKey' = "none" /\ AtKey' \notin PublicKeys
    BY <1>1, ClientAssumption DEF AtKey
  <2>4. Cardinality(Blocks) \in Nat
    BY ClientAssumption, FS_CardinalityType
  <2>5. UiInv'
    <3>1. /\ Len(passportList'.ids) = 0 /\ 0 <= Cardinality(Blocks)
          /\ passportList' \in [selected : 0..Beyond, cursor : 0..Beyond,
                  ids : Seq(Blocks), key : PublicKeys \cup {"none", "locked"}]
      BY <2>1, <2>4 DEF FirstPassportList
    <3>2. keyList' \in [selected : 0..Beyond, cursor : 0..Beyond]
      BY <2>1 DEF FirstKeyList
    <3>3. newPassport' \in Popups
      BY <2>1, PopupsTyped
    <3>4. /\ turn' \in Turns /\ page' \in 1..4 /\ focus' \in Seq(Widgets)
          /\ newKey' \in KeySteps \cup {"none"} /\ refused' \in BOOLEAN
      BY <1>1, <2>1, <2>2 DEF Turns, KeySteps
    <3> QED
      BY <1>1, <1>7, <3>1, <3>2, <3>3, <3>4 DEF UiInv
  <2>6. FocusInv'
    BY <2>1, <2>2 DEF FocusInv
  <2>7. OneKeyInv'
    BY <2>1, <2>3 DEF OneKeyInv
  <2> QED
    BY <2>5, <2>6, <2>7
<1> QED
  BY <1>5, <1>6, <1>8 DEF Inv

-----------------------------------------------------------------------------
(* The turns of the loop                                                   *)

LEMMA KeysTyped ==
    ASSUME KeysInv
    PROVE  /\ keys \in Seq([key : PublicKeys, alias : Aliases])
           /\ Len(keys) \in Nat /\ Len(keys) < Beyond
           /\ AtKey \in PublicKeys \cup {"none", "locked"}
<1>1. /\ keys \in Seq([key : PublicKeys, alias : Aliases]) /\ Len(keys) \in Nat
      /\ currentKey \in 0..Len(keys) /\ files \subseteq PublicKeys
      /\ Len(keys) <= Cardinality(files)
  BY DEF KeysInv
<1>2. Cardinality(files) \in Nat /\ Cardinality(files) <= Cardinality(PublicKeys)
  BY <1>1, ClientAssumption, FS_Subset, FS_CardinalityType
<1>3. Len(keys) < Beyond
  BY <1>1, <1>2, Bounds, BeyondBounds
<1>4. CASE currentKey = 0
  BY <1>1, <1>3, <1>4, AtNoKey
<1>5. CASE currentKey # 0
  <2>1. currentKey \in 1..Len(keys)
    BY <1>1, <1>5
  <2>2. keys[currentKey] \in [key : PublicKeys, alias : Aliases]
    BY <1>1, <2>1, ElementOfSeq
  <2>3. AtKey \in {"locked", keys[currentKey].key}
    BY <1>5 DEF AtKey
  <2> QED
    BY <1>1, <1>3, <2>2, <2>3
<1> QED
  BY <1>4, <1>5

LEMMA SameKey ==
    ASSUME KeysInv, currentKey' = currentKey,
           \A i \in 1..Len(keys) : keys'[i] = keys[i]
    PROVE  AtKey' = AtKey
<1>1. currentKey = 0 \/ currentKey \in 1..Len(keys)
  <2>1. Len(keys) \in Nat
    BY KeysTyped
  <2> QED
    BY <2>1 DEF KeysInv
<1>2. currentKey # 0 => keys'[currentKey] = keys[currentKey]
  BY <1>1
<1> QED
  BY <1>2 DEF AtKey, Locked

LEMMA UpdateNewKeyStep == Inv /\ UpdateNewKey => Inv'
<1> SUFFICES ASSUME Inv, UpdateNewKey PROVE Inv'
  OBVIOUS
<1> USE Bounds
<1>1. KeysInv /\ StoreInv /\ UiInv /\ FocusInv /\ OneKeyInv
  BY DEF Inv
<1>2. /\ KeysInv' /\ db'.passport = db.passport
      /\ keys' = keys \/ newKey = "Create"
      /\ currentKey' = currentKey
      /\ \A i \in 1..Len(keys) : i \in 1..Len(keys') /\ keys'[i] = keys[i]
      /\ outcome' = outcome \/ outcome' = "storage"
  BY <1>1, UpdateNewKeyKeeps
<1>3. /\ UNCHANGED <<passports, currentPassport, session, refused, starts,
                     page, focus, keyList, passportList, newPassport>>
      /\ turn = "newKey" /\ turn' = "selectKey" /\ outcome = "running"
      /\ newKey' = IF newKey # "Create" THEN newKey
                   ELSE IF outcome' = "running" THEN "Created" ELSE "Create"
  BY Zenon DEF UpdateNewKey, At, TurnTo, network
<1>4. AtKey' = AtKey
  BY <1>1, <1>2, SameKey
<1>5. StoreInv'
  <2>1. SessionOK(session', DOMAIN db.passport)
    BY <1>1, <1>3 DEF StoreInv
  <2> QED
    BY <1>1, <1>2, <1>3, <2>1, StoreKept
<1>6. UiInv'
  <2>1. newKey' \in KeySteps \cup {"none"} /\ outcome' \in Outcomes /\ turn' \in Turns
    BY <1>1, <1>2, <1>3 DEF UiInv, KeySteps, Outcomes, Turns
  <2> QED
    BY <1>1, <1>3, <2>1 DEF UiInv
<1>7. FocusInv'
  <2> SUFFICES ASSUME outcome' = "running" PROVE FocusInv'
    BY DEF FocusInv
  <2>1. newKey' # "Create"
    BY <1>3
  <2>2. OnNewKey => OnNewKey'
    BY <1>3 DEF OnNewKey
  <2>3. OnNewPassport => keys' = keys
    BY <1>1, <1>2, <1>3 DEF FocusInv, OnNewPassport, OnNewKey
  <2>4. OnNewPassport => OnNewPassport'
    BY <1>2, <1>3, <1>4, <2>3 DEF OnNewPassport, Settled
  <2> QED
    BY <1>1, <1>3, <2>1, <2>2, <2>4 DEF FocusInv
<1>8. OneKeyInv'
  BY <1>1, <1>3, <1>4 DEF OneKeyInv
<1> QED
  BY <1>2, <1>5, <1>6, <1>7, <1>8 DEF Inv

LEMMA SelectKeyStep == Inv /\ SelectKey => Inv'
<1> SUFFICES ASSUME Inv, SelectKey PROVE Inv'
  OBVIOUS
<1> USE Bounds
<1>1. KeysInv /\ StoreInv /\ UiInv /\ FocusInv /\ OneKeyInv
  BY DEF Inv
<1>2. /\ UNCHANGED <<db, files, keys, passports, currentPassport, starts,
                     page, focus, keyList, newKey, passportList, newPassport>>
      /\ turn = "selectKey" /\ turn' = "newPassport" /\ outcome = "running"
  BY Zenon DEF SelectKey, At, TurnTo, disk, ui
<1>3. /\ keys \in Seq([key : PublicKeys, alias : Aliases]) /\ Len(keys) \in Nat
      /\ currentKey \in 0..Len(keys)
      /\ keyList.selected \in 0..Beyond
  BY <1>1, KeysTyped DEF KeysInv, UiInv
<1> DEFINE index == keyList.selected
           k == keys[index + 1]
<1>4. \/ /\ keys = <<>> /\ UNCHANGED <<currentKey, session, refused, outcome>>
      \/ /\ keys # <<>> /\ index >= Len(keys) /\ outcome' = "noSuchKey"
         /\ UNCHANGED <<currentKey, session, refused>>
      \/ /\ keys # <<>> /\ ~(index >= Len(keys)) /\ currentKey' = index + 1
         /\ IF currentKey = index + 1 \/ Locked(k)
            THEN UNCHANGED <<session, refused>> ELSE Connect(k.key)
         /\ UNCHANGED outcome
  BY Zenon DEF SelectKey, SetCurrentKey, network, Ends
<1>5. ASSUME keys # <<>>, ~(index >= Len(keys)), currentKey' = index + 1
      PROVE  /\ currentKey' \in 1..Len(keys) /\ k.key \in PublicKeys
             /\ AtKey' = IF Locked(k) THEN "locked" ELSE k.key
  <2>1. index + 1 \in 1..Len(keys)
    BY <1>3, <1>5
  <2>2. k \in [key : PublicKeys, alias : Aliases]
    BY <1>3, <2>1, ElementOfSeq
  <2>3. index + 1 # 0
    BY <1>3
  <2>4. currentKey' # 0 /\ keys'[currentKey'] = k
    BY <1>2, <1>5, <2>3
  <2>5. AtKey' = IF Locked(k) THEN "locked" ELSE k.key
    <3> HIDE DEF k
    <3> QED
      BY <2>4, Zenon DEF AtKey, Locked
  <2> QED
    BY <1>5, <2>1, <2>2, <2>5
<1>6. /\ currentKey' \in 0..Len(keys)
      /\ session' = session \/ \E key \in PublicKeys : session' = Session(key)
      /\ refused' \in BOOLEAN
      /\ outcome' \in {outcome, "noSuchKey"}
  <2>1. refused \in BOOLEAN
    BY <1>1 DEF UiInv
  <2>2. CASE UNCHANGED <<currentKey, session, refused>>
    BY <1>3, <1>4, <2>1, <2>2
  <2>3. CASE /\ keys # <<>> /\ ~(index >= Len(keys)) /\ currentKey' = index + 1
             /\ IF currentKey = index + 1 \/ Locked(k)
                THEN UNCHANGED <<session, refused>> ELSE Connect(k.key)
             /\ UNCHANGED outcome
    <3>1. currentKey' \in 1..Len(keys) /\ k.key \in PublicKeys
      BY <1>5, <2>3
    <3> HIDE DEF k, index
    <3>2. UNCHANGED <<session, refused>> \/ Connect(k.key)
      BY <2>3, Zenon
    <3>3. /\ session' = session \/ \E key \in PublicKeys : session' = Session(key)
          /\ refused' \in BOOLEAN
      BY <2>1, <3>1, <3>2, Zenon DEF Connect
    <3> QED
      BY <1>3, <2>3, <3>1, <3>3
  <2> QED
    BY <1>4, <2>2, <2>3, Zenon
<1>7. KeysInv'
  BY <1>1, <1>2, <1>6, KeysKept DEF KeysInv
<1>8. StoreInv'
  <2>1. SessionOK(session', DOMAIN db.passport)
    BY <1>1, <1>6, NewSession DEF StoreInv
  <2> QED
    BY <1>1, <1>2, <2>1, StoreKept
<1>9. UiInv'
  <2>1. outcome' \in Outcomes /\ turn' \in Turns
    BY <1>1, <1>2, <1>6 DEF UiInv, Outcomes, Turns
  <2> QED
    BY <1>1, <1>2, <1>6, <2>1 DEF UiInv
<1>10. FocusInv'
  <2> SUFFICES ASSUME outcome' = "running" PROVE FocusInv'
    BY DEF FocusInv
  <2>1. Settled'
    BY <1>2, <1>4 DEF Settled
  <2>2. newKey' # "Create"
    BY <1>1, <1>2 DEF FocusInv
  <2>3. OnNewKey => OnNewKey'
    BY <1>2 DEF OnNewKey
  <2>4. ASSUME OnNewPassport PROVE OnNewPassport'
    <3>1. currentKey' = currentKey
      BY <1>2, <1>4, <2>4 DEF OnNewPassport, Settled
    <3>2. AtKey' = AtKey
      BY <1>1, <1>2, <3>1, SameKey
    <3> QED
      BY <1>2, <2>1, <2>4, <3>2 DEF OnNewPassport
  <2> QED
    BY <1>1, <1>2, <2>1, <2>2, <2>3, <2>4 DEF FocusInv
<1>11. OneKeyInv'
  <2> SUFFICES ASSUME AtKey' \in PublicKeys, ~refused' PROVE session'.key = AtKey'
    BY <1>2 DEF OneKeyInv
  <2>1. CASE UNCHANGED <<currentKey, session, refused>>
    <3>1. AtKey' = AtKey
      BY <1>1, <1>2, <2>1, SameKey
    <3> QED
      BY <1>1, <2>1, <3>1 DEF OneKeyInv
  <2>2. CASE /\ keys # <<>> /\ ~(index >= Len(keys)) /\ currentKey' = index + 1
             /\ IF currentKey = index + 1 \/ Locked(k)
                THEN UNCHANGED <<session, refused>> ELSE Connect(k.key)
    <3>1. AtKey' = IF Locked(k) THEN "locked" ELSE k.key
      BY <1>5, <2>2
    <3>2. ~Locked(k) /\ AtKey' = k.key
      BY <3>1, ClientAssumption
    <3>3. CASE currentKey = index + 1
      BY <2>1, <2>2, <3>3
    <3>4. CASE currentKey # index + 1
      <4>1. session' = Session(k.key)
        BY <2>2, <3>2, <3>4 DEF Connect
      <4> QED
        BY <3>2, <4>1 DEF Session
    <3> QED
      BY <3>3, <3>4
  <2> QED
    BY <1>4, <2>1, <2>2, Zenon
<1> QED
  BY <1>7, <1>8, <1>9, <1>10, <1>11 DEF Inv

LEMMA UpdateNewPassportStep == Inv /\ UpdateNewPassport => Inv'
<1> SUFFICES ASSUME Inv, UpdateNewPassport PROVE Inv'
  OBVIOUS
<1> USE Bounds
<1>1. KeysInv /\ StoreInv /\ UiInv /\ FocusInv /\ OneKeyInv
  BY DEF Inv
<1>2. /\ UNCHANGED <<files, keys, currentKey, currentPassport, refused,
                     starts, page, focus, keyList, newKey>>
      /\ turn = "newPassport" /\ turn' = "listPassports" /\ outcome = "running"
      /\ passportList' = [passportList EXCEPT !.key = AtKey]
  BY Zenon DEF UpdateNewPassport, At, TurnTo
<1>3. \/ /\ UNCHANGED <<db, passports, session>> /\ newPassport' = KeptPopup
         /\ outcome' \in {outcome, "noSigningKey"}
      \/ /\ newPassport' = Popup("Created", FALSE)
         /\ \E id \in Blocks \ DOMAIN db.passport : CreateNewPassport(id)
  BY Zenon DEF UpdateNewPassport, Ends
<1>4. DOMAIN db = Fields
  BY <1>1 DEF KeysInv
<1>5. ASSUME NEW id \in Blocks, CreateNewPassport(id)
      PROVE  /\ DOMAIN db' = Fields /\ db'.public_key = db.public_key
             /\ StoreInv' /\ session'.key = session.key
             /\ outcome' \in {outcome, "storage"}
  <2>1. /\ DOMAIN db' = Fields /\ db'.public_key = db.public_key
        /\ \/ /\ db'.passport = Insert(db.passport, id, <<id>>)
              /\ passports' = Insert(passports, id, <<id>>)
              /\ session' = Sent(session, NewPutPassport(id))
              /\ UNCHANGED outcome
           \/ /\ db'.passport \in {db.passport, Insert(db.passport, id, <<id>>)}
              /\ UNCHANGED <<passports, session>>
              /\ outcome' = "storage"
    BY <1>4, <1>5, CreateNewPassportWrites
  <2> DEFINE new == Insert(db.passport, id, <<id>>)
  <2>2. DOMAIN new = DOMAIN db.passport \cup {id}
    BY DEF Insert
  <2> HIDE DEF new
  <2>3. SessionOK(session, DOMAIN db.passport) /\ SessionOK(session, DOMAIN new)
    BY <1>1, <2>2, SessionGrows DEF StoreInv
  <2>4. /\ SessionOK(Sent(session, NewPutPassport(id)), DOMAIN new)
        /\ Sent(session, NewPutPassport(id)).key = session.key
    BY <2>2, <2>3, SentOK, RequestsTyped
  <2>5. CASE /\ db'.passport = new
             /\ passports' = Insert(passports, id, <<id>>)
             /\ session' = Sent(session, NewPutPassport(id))
             /\ UNCHANGED outcome
    <3>1. StoreInv'
      BY <1>1, <2>4, <2>5, StoreGrows DEF new
    <3> QED
      BY <2>1, <2>4, <2>5, <3>1
  <2>6. CASE /\ db'.passport \in {db.passport, new}
             /\ UNCHANGED <<passports, session>>
             /\ outcome' = "storage"
    <3>1. SessionOK(session', DOMAIN db'.passport)
      BY <2>3, <2>6
    <3>2. StoreInv'
      BY <1>1, <2>6, <3>1, StoreGrows DEF new
    <3> QED
      BY <2>1, <2>6, <3>2
  <2> QED
    BY <2>1, <2>5, <2>6 DEF new
<1>6. /\ DOMAIN db' = Fields /\ db'.public_key = db.public_key
      /\ StoreInv' /\ session'.key = session.key
      /\ outcome' \in {outcome, "noSigningKey", "storage"}
  <2>1. CASE /\ UNCHANGED <<db, passports, session>>
             /\ outcome' \in {outcome, "noSigningKey"}
    <3>1. SessionOK(session', DOMAIN db.passport)
      BY <1>1, <2>1 DEF StoreInv
    <3>2. StoreInv'
      BY <1>1, <2>1, <3>1, StoreKept
    <3> QED
      BY <1>4, <2>1, <3>2
  <2> QED
    BY <1>3, <1>5, <2>1
<1>7. AtKey' = AtKey
  BY <1>1, <1>2, SameKey
<1>8. KeysInv'
  BY <1>1, <1>2, <1>6, KeysKept DEF KeysInv
<1>9. /\ newPassport' \in Popups
      /\ passportList.key = AtKey /\ newPassport.step # "none"
            => newPassport'.step # "none"
  <2>1. newPassport \in Popups
    BY <1>1 DEF UiInv
  <2>2. \/ newPassport' = newPassport
        \/ newPassport' = Closed /\ passportList.key # AtKey
        \/ newPassport' = Popup("Created", FALSE)
    BY <1>3, Zenon DEF KeptPopup
  <2>3. "Created" \in PassportSteps /\ "Created" # "none" /\ FALSE \in BOOLEAN
    BY DEF PassportSteps
  <2> QED
    BY <2>1, <2>2, <2>3, PopupsTyped
<1>10. UiInv'
  <2>1. /\ passportList' \in [selected : 0..Beyond, cursor : 0..Beyond,
                              ids : Seq(Blocks),
                              key : PublicKeys \cup {"none", "locked"}]
        /\ passportList'.ids = passportList.ids
    <3> DEFINE k == AtKey
    <3>1. k \in PublicKeys \cup {"none", "locked"}
      BY <1>1, KeysTyped
    <3>2. passportList' = [passportList EXCEPT !.key = k]
      BY <1>2
    <3> HIDE DEF k
    <3> QED
      BY <1>1, <3>1, <3>2 DEF UiInv
  <2>2. turn' \in Turns /\ outcome' \in Outcomes
    BY <1>1, <1>2, <1>6 DEF UiInv, Turns, Outcomes
  <2> QED
    BY <1>1, <1>2, <1>9, <2>1, <2>2 DEF UiInv
<1>11. passportList'.key = AtKey'
  BY <1>1, <1>2, <1>7 DEF UiInv
<1>12. FocusInv'
  <2> SUFFICES ASSUME outcome' = "running" PROVE FocusInv'
    BY DEF FocusInv
  <2>1. Settled'
    BY <1>1, <1>2 DEF FocusInv, Settled
  <2>2. newKey' # "Create"
    BY <1>1, <1>2 DEF FocusInv
  <2>3. OnNewKey => OnNewKey'
    BY <1>2 DEF OnNewKey
  <2>4. OnNewPassport => OnNewPassport'
    BY <1>2, <1>9, <1>11, <2>1 DEF OnNewPassport
  <2> QED
    BY <1>1, <1>2, <1>11, <2>1, <2>2, <2>3, <2>4 DEF FocusInv
<1>13. OneKeyInv'
  BY <1>1, <1>2, <1>6, <1>7 DEF OneKeyInv
<1> QED
  BY <1>6, <1>8, <1>10, <1>12, <1>13 DEF Inv

(* What is listed are passports of the current key, if any.                *)
LEMMA ListingsAreOfKey ==
    ASSUME Inv, NEW ids \in Listings
    PROVE  /\ ids \in Seq(Blocks) /\ Len(ids) <= Cardinality(Blocks)
           /\ \A i \in 1..Len(ids) : Author[ids[i]] = AtKey
<1> DEFINE mine == IF AtKey \in PublicKeys THEN PassportsByKey(AtKey) ELSE {}
<1>1. mine \subseteq Blocks /\ \A id \in mine : Author[id] = AtKey
  BY DEF mine, PassportsByKey, Inv, StoreInv
<1>2. \/ ids = passportList.ids /\ Range(ids) = mine
      \/ ids \in SetToSeqs(mine)
  BY Zenon DEF Listings
<1> HIDE DEF mine
<1>3. CASE ids = passportList.ids /\ Range(ids) = mine
  <2>1. /\ ids \in Seq(Blocks) /\ Len(ids) <= Cardinality(Blocks)
        /\ DOMAIN ids = 1..Len(ids)
    BY <1>3, Bounds DEF Inv, UiInv
  <2>2. \A i \in 1..Len(ids) : ids[i] \in mine
    BY <1>3, <2>1 DEF Range
  <2> QED
    BY <1>1, <2>1, <2>2
<1>4. CASE ids \in SetToSeqs(mine)
  <2> DEFINE n == Cardinality(mine)
  <2>1. n \in Nat /\ n <= Cardinality(Blocks) /\ Cardinality(Blocks) \in Nat
    BY <1>1, ClientAssumption, FS_Subset, FS_CardinalityType
  <2>2. ids \in [1..n -> mine]
    BY <1>4, Zenon DEF SetToSeqs
  <2> HIDE DEF n
  <2>3. ids \in Seq(mine) /\ Len(ids) = n
    BY <2>1, <2>2
  <2>4. ids \in Seq(Blocks)
    BY <1>1, <2>3, SeqMonotonic
  <2>5. \A i \in 1..Len(ids) : ids[i] \in mine
    BY <2>2, <2>3
  <2> QED
    BY <1>1, <2>1, <2>3, <2>4, <2>5
<1> QED
  BY <1>2, <1>3, <1>4

LEMMA ListPassportsStep == Inv /\ ListPassports => Inv'
<1> SUFFICES ASSUME Inv, ListPassports PROVE Inv'
  OBVIOUS
<1> USE Bounds
<1>1. KeysInv /\ StoreInv /\ UiInv /\ FocusInv /\ OneKeyInv
  BY DEF Inv
<1>2. /\ UNCHANGED <<db, files, keys, currentKey, passports, refused, outcome,
                     starts, page, focus, keyList, newKey>>
      /\ turn = "listPassports" /\ turn' = "process" /\ outcome = "running"
  BY Zenon DEF ListPassports, At, TurnTo, disk
<1>3. PICK ids \in Listings :
        /\ passportList' = [passportList EXCEPT !.ids = ids]
        /\ newPassport' \in {FirstPopup, newPassport}
        /\ newPassport' = newPassport \/ newPassport = Closed
        /\ SetCurrentPassport(SelectedIn(ids))
  BY Zenon DEF ListPassports
<1>4. /\ ids \in Seq(Blocks) /\ Len(ids) <= Cardinality(Blocks)
      /\ \A i \in 1..Len(ids) : Author[ids[i]] = AtKey
  BY ListingsAreOfKey
<1>5. /\ SelectedIn(ids) \in Blocks \cup {NoPassport}
      /\ SelectedIn(ids) # NoPassport => Author[SelectedIn(ids)] = AtKey
  <2> DEFINE i == passportList.selected + 1
  <2>1. passportList.selected \in Nat /\ Len(ids) \in Nat
    BY <1>1, <1>4 DEF UiInv
  <2>2. CASE passportList.selected < Len(ids)
    <3>1. i \in 1..Len(ids)
      BY <2>1, <2>2
    <3>2. ids[i] \in Blocks /\ Author[ids[i]] = AtKey
      BY <1>4, <3>1, ElementOfSeq
    <3> QED
      BY <2>2, <3>2 DEF SelectedIn
  <2>3. CASE ~(passportList.selected < Len(ids))
    BY <2>3 DEF SelectedIn
  <2> QED
    BY <2>2, <2>3
<1> DEFINE id == SelectedIn(ids)
<1>6. /\ currentPassport' = id
      /\ SessionOK(session', DOMAIN db.passport) /\ session'.key = session.key
  <2>1. SessionOK(session, DOMAIN db.passport)
    BY <1>1 DEF StoreInv
  <2>2. ASSUME id \in DOMAIN passports
        PROVE  /\ SessionOK(Sent(session, NewGetPassport(id)), DOMAIN db.passport)
               /\ Sent(session, NewGetPassport(id)).key = session.key
    <3> HIDE DEF id
    <3>1. id \in DOMAIN db.passport /\ id \in Blocks
      BY <1>1, <2>2 DEF StoreInv
    <3> QED
      BY <2>1, <3>1, SentOK, RequestsTyped
  <2>3. /\ currentPassport' = id
        /\ \/ id \in DOMAIN passports /\ session' = Sent(session, NewGetPassport(id))
           \/ session' = session
    BY <1>3, Zenon DEF SetCurrentPassport
  <2> HIDE DEF id
  <2> QED
    BY <2>1, <2>2, <2>3
<1> HIDE DEF id
<1>7. KeysInv'
  BY <1>1, <1>2, KeysKept DEF KeysInv
<1>8. StoreInv'
  BY <1>1, <1>2, <1>6, StoreKept
<1>9. /\ passportList' \in [selected : 0..Beyond, cursor : 0..Beyond,
                            ids : Seq(Blocks),
                            key : PublicKeys \cup {"none", "locked"}]
      /\ passportList'.ids = ids /\ passportList'.key = passportList.key
  BY <1>1, <1>3, <1>4 DEF UiInv
<1>10. /\ newPassport' \in Popups
       /\ newPassport.step # "none" => newPassport'.step # "none"
  BY <1>1, <1>3, PopupsTyped DEF UiInv
<1>11. UiInv'
  <2>1. turn' \in Turns /\ currentPassport' \in Blocks \cup {NoPassport}
    BY <1>2, <1>5, <1>6 DEF Turns, id
  <2>2. Len(passportList'.ids) <= Cardinality(Blocks)
    BY <1>4, <1>9
  <2> QED
    BY <1>1, <1>2, <1>9, <1>10, <2>1, <2>2 DEF UiInv
<1>12. AtKey' = AtKey
  BY <1>1, <1>2, SameKey
<1>13. FocusInv'
  <2> SUFFICES ASSUME outcome' = "running" PROVE FocusInv'
    BY DEF FocusInv
  <2>1. Settled' /\ passportList'.key = AtKey'
    BY <1>1, <1>2, <1>9, <1>12 DEF FocusInv, Settled
  <2>2. newKey' # "Create"
    BY <1>1, <1>2 DEF FocusInv
  <2>3. OnNewKey => OnNewKey'
    BY <1>2 DEF OnNewKey
  <2>4. OnNewPassport => OnNewPassport'
    BY <1>2, <1>10, <2>1 DEF OnNewPassport
  <2> QED
    BY <1>1, <1>2, <2>1, <2>2, <2>3, <2>4 DEF FocusInv
<1>14. OneKeyInv'
  <2>1. currentPassport' # NoPassport => Author[currentPassport'] = AtKey'
    BY <1>5, <1>6, <1>12 DEF id
  <2>2. \A i \in 1..Len(passportList'.ids) : Author[passportList'.ids[i]] = AtKey'
    BY <1>4, <1>9, <1>12
  <2> QED
    BY <1>1, <1>2, <1>6, <1>12, <2>1, <2>2 DEF OneKeyInv
<1> QED
  BY <1>7, <1>8, <1>11, <1>13, <1>14 DEF Inv

LEMMA ProcessStep == Inv /\ Process => Inv'
<1> SUFFICES ASSUME Inv, Process PROVE Inv'
  OBVIOUS
<1> USE Bounds
<1>1. KeysInv /\ StoreInv /\ UiInv /\ FocusInv /\ OneKeyInv
  BY DEF Inv
<1>2. /\ UNCHANGED <<files, keys, currentKey, passports, currentPassport,
                     refused, starts, page, focus, keyList, newKey,
                     passportList, newPassport>>
      /\ turn = "process" /\ turn' = "input" /\ outcome = "running"
      /\ ProcessNetworkInput
  BY Zenon DEF Process, At, TurnTo, ui
<1>3. /\ DOMAIN db' = Fields /\ db'.public_key = db.public_key
      /\ \/ db'.passport = db.passport
         \/ \E new \in Blocks : db'.passport = Insert(db.passport, new, <<new>>)
      /\ SessionOK(session', DOMAIN db.passport) /\ session'.key = session.key
      /\ outcome' \in {outcome, "badPassport", "storage"}
  <2>1. DOMAIN db = Fields
    BY <1>1 DEF KeysInv
  <2> QED
    BY <1>1, <1>2, <2>1, ProcessWrites
<1>4. KeysInv'
  BY <1>1, <1>2, <1>3, KeysKept DEF KeysInv
<1>5. StoreInv'
  <2>1. CASE db'.passport = db.passport
    BY <1>1, <1>2, <1>3, <2>1, StoreKept
  <2>2. ASSUME NEW new \in Blocks, db'.passport = Insert(db.passport, new, <<new>>)
        PROVE  StoreInv'
    <3>1. DOMAIN db.passport \subseteq DOMAIN db'.passport
      <4>1. DOMAIN db'.passport = DOMAIN db.passport \cup {new}
        BY <2>2 DEF Insert
      <4> QED
        BY <4>1
    <3>2. SessionOK(session', DOMAIN db'.passport)
      BY <1>3, <3>1, SessionGrows
    <3> QED
      BY <1>1, <1>2, <2>2, <3>2, StoreGrows
  <2> QED
    BY <1>3, <2>1, <2>2
<1>6. AtKey' = AtKey
  BY <1>1, <1>2, SameKey
<1>7. UiInv'
  <2>1. turn' \in Turns /\ outcome' \in Outcomes
    BY <1>1, <1>2, <1>3 DEF UiInv, Turns, Outcomes
  <2> QED
    BY <1>1, <1>2, <2>1 DEF UiInv
<1>8. FocusInv'
  <2> SUFFICES ASSUME outcome' = "running" PROVE FocusInv'
    BY DEF FocusInv
  <2>1. Settled' /\ passportList'.key = AtKey' /\ newKey' # "Create"
    BY <1>1, <1>2, <1>6 DEF FocusInv, Settled
  <2>2. (OnNewKey => OnNewKey') /\ (OnNewPassport => OnNewPassport')
    BY <1>2, <2>1 DEF OnNewKey, OnNewPassport
  <2> QED
    BY <1>1, <1>2, <2>1, <2>2 DEF FocusInv
<1>9. OneKeyInv'
  BY <1>1, <1>2, <1>3, <1>6 DEF OneKeyInv
<1> QED
  BY <1>4, <1>5, <1>7, <1>8, <1>9 DEF Inv

LEMMA TaskStep == Inv /\ Task => Inv'
<1> SUFFICES ASSUME Inv, Task PROVE Inv'
  OBVIOUS
<1> USE Bounds
<1>1. KeysInv /\ StoreInv /\ UiInv /\ FocusInv /\ OneKeyInv
  BY DEF Inv
<1>2. /\ UNCHANGED <<db, files, keys, currentKey, passports, currentPassport,
                     refused, outcome, starts, turn, page, focus, keyList,
                     newKey, passportList, newPassport>>
      /\ Outbound \/ Shutdown \/ \E m \in Incoming : Inbound(m)
  BY Zenon DEF Task, disk, ui
<1>3. SessionOK(session', DOMAIN db.passport) /\ session'.key = session.key
  BY <1>1, <1>2, TaskKeeps
<1>4. KeysInv' /\ StoreInv'
  BY <1>1, <1>2, <1>3, KeysKept, StoreKept DEF KeysInv
<1>5. AtKey' = AtKey /\ Settled' = Settled
  BY <1>1, <1>2, SameKey DEF Settled
<1>6. UiInv'
  BY <1>1, <1>2 DEF UiInv
<1>7. FocusInv'
  <2>1. OnNewKey' = OnNewKey /\ OnNewPassport' = OnNewPassport
    BY <1>2, <1>5 DEF OnNewKey, OnNewPassport
  <2> QED
    BY <1>1, <1>2, <1>5, <2>1 DEF FocusInv
<1>8. OneKeyInv'
  BY <1>1, <1>2, <1>3, <1>5 DEF OneKeyInv
<1> QED
  BY <1>4, <1>6, <1>7, <1>8 DEF Inv

-----------------------------------------------------------------------------
(* Key presses                                                             *)

(* A press, a tick and ctrl-c leave the app as it is, unless they end it.  *)
LEMMA PressKeeps ==
    ASSUME Inv, At("input"), turn' \in {"input", "newKey"},
           UNCHANGED <<db, files, keys, currentKey, passports, currentPassport,
                       session, refused, starts>>,
           outcome' \in {outcome, "panicked", "left"},
           turn' = "input" => outcome' = "left",
           page' \in 1..4, focus' \in Seq(Widgets),
           keyList' \in [selected : 0..Beyond, cursor : 0..Beyond],
           passportList' \in [selected : 0..Beyond, cursor : 0..Beyond,
                              ids : Seq(Blocks),
                              key : PublicKeys \cup {"none", "locked"}],
           passportList'.ids = passportList.ids,
           newKey' \in KeySteps \cup {"none"}, newPassport' \in Popups,
           outcome' = "running" =>
            /\ focus' # <<>> =>
                /\ focus'[1] = Titles[page'] /\ Len(focus') <= 2
                /\ Len(focus') = 2 => OnNewKey' \/ OnNewPassport'
            /\ newKey' = "Create" => Len(focus') = 2 /\ OnNewKey'
    PROVE  Inv'
<1> USE Bounds
<1>1. KeysInv /\ StoreInv /\ UiInv /\ FocusInv /\ OneKeyInv
  BY DEF Inv
<1>2. SessionOK(session', DOMAIN db.passport) /\ outcome = "running"
  BY <1>1 DEF StoreInv, At
<1>3. KeysInv' /\ StoreInv'
  BY <1>1, <1>2, KeysKept, StoreKept DEF KeysInv
<1>4. AtKey' = AtKey
  BY <1>1, SameKey
<1>5. UiInv'
  <2>1. turn' \in Turns /\ outcome' \in Outcomes
    BY <1>1 DEF UiInv, Turns, Outcomes
  <2>2. Len(passportList'.ids) <= Cardinality(Blocks)
    BY <1>1 DEF UiInv
  <2> QED
    BY <1>1, <2>1, <2>2 DEF UiInv
<1>6. FocusInv'
  BY DEF FocusInv
<1>7. OneKeyInv'
  BY <1>1, <1>4 DEF OneKeyInv
<1> QED
  BY <1>3, <1>5, <1>6, <1>7 DEF Inv

LEMMA TickStep == Inv /\ (Tick \/ CtrlC) => Inv'
<1> SUFFICES ASSUME Inv, Tick \/ CtrlC PROVE Inv'
  OBVIOUS
<1> USE Bounds
<1>1. /\ UNCHANGED <<db, files, keys, currentKey, passports, currentPassport,
                     session, refused, starts, page, focus, keyList, newKey,
                     passportList, newPassport>>
      /\ At("input")
      /\ \/ turn' = "newKey" /\ outcome' = outcome
         \/ outcome' = "left" /\ turn' = turn
  BY Zenon DEF Tick, CtrlC, TurnTo, appvars, disk, network, ui, Ends
<1>2. turn = "input" /\ outcome = "running" /\ UiInv /\ FocusInv
  BY <1>1 DEF At, Inv
<1>3. newKey # "Create"
  BY <1>2 DEF FocusInv
<1>4. /\ (OnNewKey => OnNewKey')
      /\ (OnNewPassport => OnNewPassport')
  <2>1. AtKey' = AtKey /\ Settled' = Settled
    BY <1>1, SameKey DEF Settled, Inv
  <2> QED
    BY <1>1, <2>1 DEF OnNewKey, OnNewPassport
<1>5. /\ page \in 1..4 /\ focus \in Seq(Widgets)
      /\ keyList \in [selected : 0..Beyond, cursor : 0..Beyond]
      /\ passportList \in [selected : 0..Beyond, cursor : 0..Beyond,
                           ids : Seq(Blocks),
                           key : PublicKeys \cup {"none", "locked"}]
      /\ newKey \in KeySteps \cup {"none"} /\ newPassport \in Popups
  BY <1>2 DEF UiInv
<1>6. focus # <<>> =>
        /\ focus[1] = Titles[page] /\ Len(focus) <= 2
        /\ Len(focus) = 2 => OnNewKey \/ OnNewPassport
  BY <1>2 DEF FocusInv
<1> QED
  BY <1>1, <1>2, <1>3, <1>4, <1>5, <1>6, PressKeeps

LEMMA PageTitles ==
    \A p \in 1..4 :
        /\ Titles[p] \in {"Keys", "Passports", "Messages", "Settings"}
        /\ Titles[p] = "Keys" => p = 1
        /\ Titles[p] = "Passports" => p = 2
        /\ Titles[p] \in Widgets
<1>1. /\ Titles[1] = "Keys" /\ Titles[2] = "Passports"
      /\ Titles[3] = "Messages" /\ Titles[4] = "Settings"
  BY DEF Titles
<1> SUFFICES ASSUME NEW p \in 1..4
             PROVE  /\ Titles[p] \in {"Keys", "Passports", "Messages", "Settings"}
                    /\ Titles[p] = "Keys" => p = 1
                    /\ Titles[p] = "Passports" => p = 2
                    /\ Titles[p] \in Widgets
  OBVIOUS
<1>2. p = 1 \/ p = 2 \/ p = 3 \/ p = 4
  OBVIOUS
<1>3. CASE p = 1
  BY <1>1, <1>3 DEF Widgets
<1>4. CASE p = 2
  BY <1>1, <1>4 DEF Widgets
<1>5. CASE p = 3
  BY <1>1, <1>5 DEF Widgets
<1>6. CASE p = 4
  BY <1>1, <1>6 DEF Widgets
<1> QED
  BY <1>2, <1>3, <1>4, <1>5, <1>6

LEMMA OneOrTwo ==
    ASSUME NEW n \in Nat, n # 0, n <= 2
    PROVE  n \in {1, 2}
OBVIOUS

(* What a press of the given title finds the focus on.                     *)
LEMMA Pressed ==
    ASSUME Inv, NEW title, Press(title)
    PROVE  /\ UNCHANGED <<db, files, keys, currentKey, passports,
                          currentPassport, session, refused, starts>>
           /\ At("input") /\ turn' = "newKey" /\ outcome = "running"
           /\ focus \in Seq(Widgets) /\ Len(focus) <= 2
           /\ newKey # "Create"
           /\ \/ focus = <<>> /\ title = "root"
              \/ /\ Len(focus) = 1 /\ focus[1] = Titles[page] /\ title = Titles[page]
              \/ /\ Len(focus) = 2 /\ focus[1] = Titles[page] /\ focus[2] = title
                 /\ OnNewKey \/ OnNewPassport
<1>1. /\ UNCHANGED <<db, files, keys, currentKey, passports,
                     currentPassport, session, refused, starts>>
      /\ At("input") /\ turn' = "newKey"
      /\ IF focus = <<>> THEN title = "root" ELSE Last(focus) = title
  BY Zenon DEF Press, TurnTo, disk, network
<1>2. turn = "input" /\ outcome = "running" /\ FocusInv /\ focus \in Seq(Widgets)
  BY <1>1 DEF At, Inv, UiInv
<1>3. newKey # "Create"
  BY <1>2 DEF FocusInv
<1>4. focus # <<>> =>
        /\ focus[1] = Titles[page] /\ Len(focus) <= 2
        /\ Len(focus) = 2 => OnNewKey \/ OnNewPassport
  BY <1>2 DEF FocusInv
<1>5. CASE focus = <<>>
  <2>1. Len(focus) <= 2
    BY <1>5
  <2> QED
    BY <1>1, <1>2, <1>3, <1>5, <2>1, Zenon
<1>6. CASE focus # <<>>
  <2>1. Len(focus) \in {1, 2}
    <3>1. Len(focus) \in Nat /\ Len(focus) # 0
      BY <1>2, <1>6, EmptySeq
    <3>2. Len(focus) <= 2
      BY <1>4, <1>6, Zenon
    <3> QED
      BY <3>1, <3>2, OneOrTwo
  <2>2. focus[Len(focus)] = title
    BY <1>1, <1>6 DEF Last
  <2> QED
    BY <1>1, <1>2, <1>3, <1>4, <1>6, <2>1, <2>2
<1> QED
  BY <1>5, <1>6

LEMMA FrontOfFocus ==
    ASSUME NEW S, NEW s \in Seq(S), Len(s) \in {1, 2}
    PROVE  /\ Front(s) \in Seq(S) /\ Len(Front(s)) = Len(s) - 1
           /\ Len(s) = 2 => Front(s)[1] = s[1]
BY DEF Front

LEMMA OpenedFocus ==
    ASSUME NEW S, NEW s \in Seq(S), NEW e \in S
    PROVE  /\ Append(s, e) \in Seq(S) /\ Len(Append(s, e)) = Len(s) + 1
           /\ Append(s, e)[Len(s) + 1] = e
           /\ \A i \in 1..Len(s) : Append(s, e)[i] = s[i]
BY AppendProperties

(* Up and Down stay on the list, or lead where nothing is.                 *)
LEMMA AboveTyped ==
    ASSUME NEW c \in 0..Beyond, NEW n \in Nat, n < Beyond
    PROVE  Above(c, n) \in 0..Beyond /\ (c < n => Above(c, n) < n)
BY Bounds DEF Above

LEMMA BelowTyped ==
    ASSUME NEW c \in 0..Beyond, NEW n \in Nat, n > 0, n < Beyond
    PROVE  \A b \in Below(c, n) : b \in 0..Beyond /\ b < n
<1>1. \A x \in Nat : x % n \in 0..(n - 1)
  OBVIOUS
<1>2. \A b \in Below(c, n) : b \in 0..(n - 1)
  BY <1>1, Bounds DEF Below
<1> QED
  BY <1>2, Bounds

LEMMA MovedInKeys ==
    ASSUME Inv, keys' = keys, MoveIn(keyList, keyList, Len(keys))
    PROVE  /\ keyList' \in [selected : 0..Beyond, cursor : 0..Beyond]
           /\ KeySelected => KeySelected'
           /\ focus' = focus \/ Leave
           /\ outcome' = outcome \/ (outcome' = "panicked" /\ Len(keys) = 0)
<1> DEFINE len == Len(keys)
<1>1. /\ keyList \in [selected : 0..Beyond, cursor : 0..Beyond]
      /\ len \in Nat /\ len < Beyond /\ Beyond \in Nat
  BY KeysTyped, Bounds DEF Inv, UiInv
<1>2. /\ \/ keyList' = keyList
         \/ keyList' = [keyList EXCEPT !.cursor = Above(keyList.cursor, len)]
         \/ /\ len > 0
            /\ \E c \in Below(keyList.cursor, len) :
                keyList' = [keyList EXCEPT !.cursor = c]
         \/ keyList' = [keyList EXCEPT !.cursor = keyList.selected]
      /\ focus' = focus \/ Leave
      /\ outcome' = outcome \/ (outcome' = "panicked" /\ len = 0)
  BY Zenon DEF MoveIn, Ends, Runs
<1> HIDE DEF len
<1>3. /\ keyList' \in [selected : 0..Beyond, cursor : 0..Beyond]
      /\ keyList.selected < len /\ keyList.cursor < len =>
            keyList'.selected < len /\ keyList'.cursor < len
  <2>1. CASE keyList' = keyList
    BY <1>1, <2>1
  <2>2. CASE keyList' = [keyList EXCEPT !.cursor = Above(keyList.cursor, len)]
    <3> DEFINE c == Above(keyList.cursor, len)
    <3>1. c \in 0..Beyond /\ (keyList.cursor < len => c < len)
      BY <1>1, AboveTyped
    <3> HIDE DEF c
    <3> QED
      BY <1>1, <2>2, <3>1 DEF c
  <2>3. ASSUME len > 0, NEW c \in Below(keyList.cursor, len),
               keyList' = [keyList EXCEPT !.cursor = c]
        PROVE  /\ keyList' \in [selected : 0..Beyond, cursor : 0..Beyond]
               /\ keyList.selected < len /\ keyList.cursor < len =>
                    keyList'.selected < len /\ keyList'.cursor < len
    <3>1. c \in 0..Beyond /\ c < len
      BY <1>1, <2>3, BelowTyped
    <3> QED
      BY <1>1, <2>3, <3>1
  <2>4. CASE keyList' = [keyList EXCEPT !.cursor = keyList.selected]
    BY <1>1, <2>4
  <2> QED
    BY <1>2, <2>1, <2>2, <2>3, <2>4, Zenon
<1> QED
  BY <1>2, <1>3 DEF KeySelected, len

LEMMA MovedInPassports ==
    ASSUME Inv, MoveIn(passportList, passportList, Len(passportList.ids))
    PROVE  /\ passportList' \in [selected : 0..Beyond, cursor : 0..Beyond,
                                 ids : Seq(Blocks),
                                 key : PublicKeys \cup {"none", "locked"}]
           /\ passportList'.ids = passportList.ids
           /\ focus' = focus \/ Leave
           /\ \/ outcome' = outcome
              \/ outcome' = "panicked" /\ Len(passportList.ids) = 0
<1> DEFINE len == Len(passportList.ids)
           L == [selected : 0..Beyond, cursor : 0..Beyond, ids : Seq(Blocks),
                 key : PublicKeys \cup {"none", "locked"}]
<1>1. /\ passportList \in L /\ len \in Nat /\ len < Beyond /\ Beyond \in Nat
  <2>1. passportList \in L /\ len <= Cardinality(Blocks)
    BY Bounds DEF Inv, UiInv
  <2>2. len \in Nat
    BY <2>1
  <2> QED
    BY <2>1, <2>2, Bounds, BeyondBounds
<1>2. /\ \/ passportList' = passportList
         \/ passportList' = [passportList EXCEPT !.cursor = Above(passportList.cursor, len)]
         \/ /\ len > 0
            /\ \E c \in Below(passportList.cursor, len) :
                passportList' = [passportList EXCEPT !.cursor = c]
         \/ passportList' = [passportList EXCEPT !.cursor = passportList.selected]
      /\ focus' = focus \/ Leave
      /\ outcome' = outcome \/ (outcome' = "panicked" /\ len = 0)
  BY Zenon DEF MoveIn, Ends, Runs
<1>3. ASSUME NEW c \in 0..Beyond, passportList' = [passportList EXCEPT !.cursor = c]
      PROVE  passportList' \in L /\ passportList'.ids = passportList.ids
  BY <1>1, <1>3
<1>4. passportList.cursor \in 0..Beyond /\ passportList.selected \in 0..Beyond
  BY <1>1
<1> HIDE DEF len, L
<1>5. passportList' \in L /\ passportList'.ids = passportList.ids
  <2>1. CASE passportList' = passportList
    BY <1>1, <2>1
  <2>2. CASE passportList' =
                [passportList EXCEPT !.cursor = Above(passportList.cursor, len)]
    <3>1. Above(passportList.cursor, len) \in 0..Beyond
      BY <1>1, <1>4, AboveTyped
    <3> QED
      BY <1>3, <2>2, <3>1
  <2>3. ASSUME len > 0, NEW c \in Below(passportList.cursor, len),
               passportList' = [passportList EXCEPT !.cursor = c]
        PROVE  passportList' \in L /\ passportList'.ids = passportList.ids
    <3>1. c \in 0..Beyond
      BY <1>1, <1>4, <2>3, BelowTyped
    <3> QED
      BY <1>3, <2>3, <3>1
  <2>4. CASE passportList' = [passportList EXCEPT !.cursor = passportList.selected]
    BY <1>3, <1>4, <2>4
  <2> QED
    BY <1>2, <2>1, <2>2, <2>3, <2>4, Zenon
<1> QED
  BY <1>2, <1>5 DEF len, L

LEMMA PressTabStep == Inv /\ PressTab => Inv'
<1> SUFFICES ASSUME Inv, PressTab PROVE Inv'
  OBVIOUS
<1>1. UiInv
  BY DEF Inv
<1>2. Press("root") /\ outcome' = outcome
      /\ UNCHANGED <<keyList, newKey, passportList, newPassport>>
  BY Zenon DEF PressTab, Runs
<1>3. /\ UNCHANGED <<db, files, keys, currentKey, passports,
                     currentPassport, session, refused, starts>>
      /\ At("input") /\ turn' = "newKey" /\ focus \in Seq(Widgets)
      /\ newKey # "Create"
  BY <1>2, Pressed
<1>4. focus = <<>>
  <2>1. page \in 1..4 /\ "root" \notin {"Keys", "Passports", "Messages", "Settings"}
    BY <1>1 DEF UiInv
  <2>2. Titles[page] # "root"
    BY <2>1, PageTitles
  <2>3. OnNewKey \/ OnNewPassport => focus[2] # "root"
    BY DEF OnNewKey, OnNewPassport
  <2> QED
    BY <1>2, <2>2, <2>3, Pressed
<1>5. \/ /\ \E step \in {1, 3} : page' = ((page - 1 + step) % 4) + 1
         /\ focus' = focus
      \/ focus' = Append(focus, Titles[page]) /\ page' = page
  BY Zenon DEF PressTab, Open
<1>6. /\ page' \in 1..4 /\ focus' \in Seq(Widgets)
      /\ focus' # <<>> => focus'[1] = Titles[page']
                         /\ Len(focus') <= 2 /\ Len(focus') # 2
  <2>1. page \in 1..4
    BY <1>1 DEF UiInv
  <2>2. CASE /\ \E step \in {1, 3} : page' = ((page - 1 + step) % 4) + 1
             /\ focus' = focus
    BY <1>3, <1>4, <2>1, <2>2
  <2>3. CASE focus' = Append(focus, Titles[page]) /\ page' = page
    <3>1. Titles[page] \in Widgets /\ Len(focus) = 0
      BY <1>4, <2>1, PageTitles
    <3>2. /\ focus' \in Seq(Widgets) /\ Len(focus') = Len(focus) + 1
          /\ focus'[Len(focus) + 1] = Titles[page]
      BY <1>3, <2>3, <3>1, OpenedFocus
    <3> QED
      BY <2>1, <2>3, <3>1, <3>2
  <2> QED
    BY <1>5, <2>2, <2>3
<1>7. /\ keyList' \in [selected : 0..Beyond, cursor : 0..Beyond]
      /\ passportList' \in [selected : 0..Beyond, cursor : 0..Beyond,
                            ids : Seq(Blocks),
                            key : PublicKeys \cup {"none", "locked"}]
      /\ newKey' \in KeySteps \cup {"none"} /\ newPassport' \in Popups
      /\ passportList'.ids = passportList.ids
  BY <1>1, <1>2, Bounds DEF UiInv
<1> QED
  BY <1>2, <1>3, <1>6, <1>7, PressKeeps

LEMMA PressInKeysStep == Inv /\ PressInKeys => Inv'
<1> SUFFICES ASSUME Inv, PressInKeys PROVE Inv'
  OBVIOUS
<1>1. UiInv
  BY DEF Inv
<1>2. /\ Press("Keys") /\ UNCHANGED <<page, passportList, newPassport>>
      /\ \/ /\ \/ MoveIn(keyList, keyList, Len(keys))
               \/ EnterKey /\ UNCHANGED focus
            /\ newKey' = "none"
         \/ /\ newKey' = "EnteringName" /\ Open("widget::NewKey")
            /\ Runs /\ UNCHANGED keyList
  BY Zenon DEF PressInKeys
<1>3. /\ UNCHANGED <<db, files, keys, currentKey, passports,
                     currentPassport, session, refused, starts>>
      /\ At("input") /\ turn' = "newKey" /\ focus \in Seq(Widgets)
      /\ outcome = "running" /\ Len(focus) <= 2
  BY <1>2, Pressed
<1>4. Len(focus) = 1 /\ focus[1] = Titles[page] /\ page = 1
  <2>1. OnNewKey \/ OnNewPassport => focus[2] # "Keys"
    BY DEF OnNewKey, OnNewPassport
  <2>2. Len(focus) = 1 /\ focus[1] = Titles[page] /\ Titles[page] = "Keys"
    BY <1>2, <2>1, Pressed
  <2>3. page \in 1..4
    BY <1>1 DEF UiInv
  <2> QED
    BY <2>2, <2>3, PageTitles
<1>5. /\ keyList' \in [selected : 0..Beyond, cursor : 0..Beyond]
      /\ newKey' \in {"none", "EnteringName"}
      /\ outcome' \in {outcome, "panicked"}
      /\ \/ focus' = focus \/ Leave
         \/ newKey' = "EnteringName" /\ Open("widget::NewKey")
  <2>1. keyList \in [selected : 0..Beyond, cursor : 0..Beyond]
    BY <1>1, Bounds DEF UiInv
  <2>2. CASE MoveIn(keyList, keyList, Len(keys)) /\ newKey' = "none"
    BY <1>3, <2>2, MovedInKeys
  <2>3. CASE EnterKey /\ UNCHANGED focus /\ newKey' = "none"
    <3>1. \/ keyList' = keyList /\ outcome' = "panicked"
          \/ /\ keyList' = [keyList EXCEPT !.selected = keyList.cursor]
             /\ outcome' = outcome
      BY <2>3, Zenon DEF EnterKey, Ends, Runs
    <3>2. keyList' \in [selected : 0..Beyond, cursor : 0..Beyond]
      BY <2>1, <3>1, Bounds
    <3> QED
      BY <2>3, <3>1, <3>2
  <2>4. CASE /\ newKey' = "EnteringName" /\ Open("widget::NewKey")
             /\ Runs /\ UNCHANGED keyList
    BY <2>1, <2>4 DEF Runs
  <2> QED
    BY <1>2, <2>2, <2>3, <2>4, Zenon
<1>6. /\ focus' \in Seq(Widgets)
      /\ focus' # <<>> =>
            /\ focus'[1] = Titles[page'] /\ Len(focus') <= 2
            /\ Len(focus') = 2 => OnNewKey'
  <2>1. CASE focus' = focus
    <3>1. Len(focus') # 2
      BY <1>4, <2>1
    <3> QED
      BY <1>2, <1>3, <1>4, <2>1, <3>1, Zenon
  <2>2. CASE Leave
    <3>1. focus' \in Seq(Widgets) /\ Len(focus') = 0
      BY <1>3, <1>4, <2>2, FrontOfFocus DEF Leave
    <3> QED
      BY <3>1, EmptySeq
  <2>3. CASE newKey' = "EnteringName" /\ Open("widget::NewKey")
    <3>1. /\ focus' \in Seq(Widgets) /\ Len(focus') = Len(focus) + 1
          /\ focus'[Len(focus) + 1] = "widget::NewKey"
          /\ \A i \in 1..Len(focus) : focus'[i] = focus[i]
      <4>1. "widget::NewKey" \in Widgets
        BY DEF Widgets
      <4> QED
        BY <1>3, <2>3, <4>1, OpenedFocus DEF Open
    <3>2. /\ focus'[2] = "widget::NewKey" /\ focus'[1] = Titles[page']
          /\ Len(focus') <= 2
      BY <1>2, <1>4, <3>1
    <3>3. OnNewKey'
      BY <1>2, <1>4, <2>3, <3>2 DEF OnNewKey
    <3> QED
      BY <3>1, <3>2, <3>3
  <2> QED
    BY <1>5, <2>1, <2>2, <2>3
<1>7. /\ passportList' \in [selected : 0..Beyond, cursor : 0..Beyond,
                            ids : Seq(Blocks),
                            key : PublicKeys \cup {"none", "locked"}]
      /\ newKey' \in KeySteps \cup {"none"} /\ newPassport' \in Popups
      /\ passportList'.ids = passportList.ids /\ page' \in 1..4
      /\ newKey' # "Create"
  BY <1>1, <1>2, <1>5, Bounds DEF UiInv, KeySteps
<1> QED
  BY <1>3, <1>5, <1>6, <1>7, PressKeeps

LEMMA PressInNewKeyStep == Inv /\ PressInNewKey => Inv'
<1> SUFFICES ASSUME Inv, PressInNewKey PROVE Inv'
  OBVIOUS
<1>1. UiInv
  BY DEF Inv
<1>2. /\ Press("widget::NewKey") /\ newKey # "none" /\ outcome' = outcome
      /\ UNCHANGED <<page, keyList, passportList, newPassport>>
      /\ \/ newKey' \in {"Confirm", "Create", "EnteringName"} /\ focus' = focus
         \/ newKey' = "none" /\ Leave
  BY DEF PressInNewKey, Runs
<1>3. /\ UNCHANGED <<db, files, keys, currentKey, passports,
                     currentPassport, session, refused, starts>>
      /\ At("input") /\ turn' = "newKey" /\ focus \in Seq(Widgets)
      /\ Len(focus) <= 2
  BY <1>2, Pressed
<1>4. Len(focus) = 2 /\ focus[1] = Titles[page] /\ OnNewKey
  <2>1. page \in 1..4
    BY <1>1 DEF UiInv
  <2>2. Titles[page] # "widget::NewKey"
    BY <2>1, PageTitles
  <2>3. OnNewPassport => focus[2] # "widget::NewKey"
    BY DEF OnNewPassport
  <2> QED
    BY <1>2, <2>2, <2>3, Pressed
<1>5. /\ focus' \in Seq(Widgets)
      /\ focus' # <<>> =>
            /\ focus'[1] = Titles[page'] /\ Len(focus') <= 2
            /\ Len(focus') = 2 => OnNewKey'
      /\ newKey' = "Create" => Len(focus') = 2 /\ OnNewKey'
  <2>1. CASE newKey' \in {"Confirm", "Create", "EnteringName"} /\ focus' = focus
    <3>1. OnNewKey'
      BY <1>2, <1>4, <2>1 DEF OnNewKey
    <3> QED
      BY <1>2, <1>3, <1>4, <2>1, <3>1, Zenon
  <2>2. CASE newKey' = "none" /\ Leave
    BY <1>2, <1>3, <1>4, <2>2, FrontOfFocus DEF Leave
  <2> QED
    BY <1>2, <2>1, <2>2
<1>6. /\ keyList' \in [selected : 0..Beyond, cursor : 0..Beyond]
      /\ passportList' \in [selected : 0..Beyond, cursor : 0..Beyond,
                            ids : Seq(Blocks),
                            key : PublicKeys \cup {"none", "locked"}]
      /\ newKey' \in KeySteps \cup {"none"} /\ newPassport' \in Popups
      /\ passportList'.ids = passportList.ids /\ page' \in 1..4
  BY <1>1, <1>2, Bounds DEF UiInv, KeySteps
<1> QED
  BY <1>2, <1>3, <1>5, <1>6, PressKeeps

LEMMA PressInPassportsStep == Inv /\ PressInPassports => Inv'
<1> SUFFICES ASSUME Inv, PressInPassports PROVE Inv'
  OBVIOUS
<1> DEFINE L == [selected : 0..Beyond, cursor : 0..Beyond, ids : Seq(Blocks),
                 key : PublicKeys \cup {"none", "locked"}]
<1>1. UiInv /\ FocusInv
  BY DEF Inv
<1>2. /\ Press("Passports") /\ UNCHANGED <<page, keyList, newKey>>
      /\ \/ /\ \/ MoveIn(passportList, passportList, Len(passportList.ids))
               \/ /\ passportList' = [passportList EXCEPT
                                        !.selected = passportList.cursor]
                  /\ outcome' = outcome /\ focus' = focus
            /\ newPassport' = Closed
         \/ /\ newPassport' = FirstPopup /\ Open("widget::NewPassword")
            /\ outcome' = outcome /\ passportList' = passportList
  BY Zenon DEF PressInPassports, Runs
<1>3. /\ UNCHANGED <<db, files, keys, currentKey, passports,
                     currentPassport, session, refused, starts>>
      /\ At("input") /\ turn' = "newKey" /\ focus \in Seq(Widgets)
      /\ outcome = "running" /\ turn = "input" /\ Len(focus) <= 2
      /\ newKey # "Create"
  BY <1>2, Pressed DEF At
<1>4. Len(focus) = 1 /\ focus[1] = Titles[page] /\ page = 2
  <2>1. OnNewKey \/ OnNewPassport => focus[2] # "Passports"
    BY DEF OnNewKey, OnNewPassport
  <2>2. Len(focus) = 1 /\ focus[1] = Titles[page] /\ Titles[page] = "Passports"
    BY <1>2, <2>1, Pressed
  <2>3. page \in 1..4
    BY <1>1 DEF UiInv
  <2> QED
    BY <2>2, <2>3, PageTitles
<1>5. passportList \in L
  BY <1>1, Bounds DEF UiInv
<1>6. /\ passportList' \in L /\ passportList'.ids = passportList.ids
      /\ newPassport' \in Popups
      /\ outcome' \in {outcome, "panicked"}
      /\ \/ focus' = focus \/ Leave
         \/ /\ newPassport' = FirstPopup /\ Open("widget::NewPassword")
            /\ passportList' = passportList
  <2>1. CASE /\ MoveIn(passportList, passportList, Len(passportList.ids))
             /\ newPassport' = Closed
    BY <1>3, <2>1, MovedInPassports, PopupsTyped
  <2>2. CASE /\ passportList' = [passportList EXCEPT
                                    !.selected = passportList.cursor]
             /\ outcome' = outcome /\ focus' = focus
             /\ newPassport' = Closed
    BY <1>5, <2>2, PopupsTyped, Bounds
  <2>3. CASE /\ newPassport' = FirstPopup /\ Open("widget::NewPassword")
             /\ outcome' = outcome /\ passportList' = passportList
    BY <1>5, <2>3, PopupsTyped
  <2> QED
    BY <1>2, <2>1, <2>2, <2>3, Zenon
<1>7. /\ focus' \in Seq(Widgets)
      /\ focus' # <<>> =>
            /\ focus'[1] = Titles[page'] /\ Len(focus') <= 2
            /\ Len(focus') = 2 => OnNewPassport'
  <2>1. CASE focus' = focus
    <3>1. Len(focus') # 2
      BY <1>4, <2>1
    <3> QED
      BY <1>2, <1>3, <1>4, <2>1, <3>1, Zenon
  <2>2. CASE Leave
    <3>1. focus' \in Seq(Widgets) /\ Len(focus') = 0
      BY <1>3, <1>4, <2>2, FrontOfFocus DEF Leave
    <3> QED
      BY <3>1, EmptySeq
  <2>3. CASE /\ newPassport' = FirstPopup /\ Open("widget::NewPassword")
             /\ passportList' = passportList
    <3>1. /\ focus' \in Seq(Widgets) /\ Len(focus') = Len(focus) + 1
          /\ focus'[Len(focus) + 1] = "widget::NewPassword"
          /\ \A i \in 1..Len(focus) : focus'[i] = focus[i]
      <4>1. "widget::NewPassword" \in Widgets
        BY DEF Widgets
      <4> QED
        BY <1>3, <2>3, <4>1, OpenedFocus DEF Open
    <3>2. /\ focus'[2] = "widget::NewPassword" /\ focus'[1] = Titles[page']
          /\ Len(focus') <= 2
      BY <1>2, <1>4, <3>1
    <3>3. Settled /\ passportList.key = AtKey
      BY <1>1, <1>3 DEF FocusInv
    <3>4. Settled' /\ AtKey' = AtKey
      BY <1>2, <1>3, <3>3, SameKey DEF Settled, Inv
    <3>5. OnNewPassport'
      BY <1>2, <1>4, <2>3, <3>2, <3>3, <3>4, PopupsTyped DEF OnNewPassport
    <3> QED
      BY <3>1, <3>2, <3>5
  <2> QED
    BY <1>6, <2>1, <2>2, <2>3
<1>8. /\ keyList' \in [selected : 0..Beyond, cursor : 0..Beyond]
      /\ newKey' \in KeySteps \cup {"none"} /\ page' \in 1..4
      /\ newKey' # "Create"
  BY <1>1, <1>2, <1>3, Bounds DEF UiInv
<1> QED
  BY <1>3, <1>6, <1>7, <1>8, PressKeeps

LEMMA PressInNewPassportStep == Inv /\ PressInNewPassport => Inv'
<1> SUFFICES ASSUME Inv, PressInNewPassport PROVE Inv'
  OBVIOUS
<1>1. UiInv
  BY DEF Inv
<1>2. /\ Press("widget::NewPassword") /\ outcome' = outcome
      /\ UNCHANGED <<page, keyList, newKey, passportList>>
      /\ \/ newPassport' = Closed /\ Leave
         \/ /\ focus' = focus
            /\ \/ newPassport' = FirstPopup
               \/ \E step \in PassportSteps, matches \in BOOLEAN :
                    newPassport' = Popup(step, matches)
  <2>1. /\ Press("widget::NewPassword") /\ outcome' = outcome
        /\ UNCHANGED <<page, keyList, newKey, passportList>>
    BY Zenon DEF PressInNewPassport, Runs
  <2>2. \/ newPassport' = Closed /\ Leave
        \/ /\ focus' = focus
           /\ \/ newPassport' = Popup("CreateNewPassphrase", FALSE)
              \/ newPassport' = FirstPopup
              \/ \E matches \in BOOLEAN :
                    newPassport' = Popup("CreateConfirmPassphrase", matches)
              \/ newPassport' = Popup("Create", FALSE)
    BY Zenon DEF PressInNewPassport
  <2>3. /\ {"CreateNewPassphrase", "CreateConfirmPassphrase", "Create"}
            \subseteq PassportSteps
        /\ FALSE \in BOOLEAN
    BY DEF PassportSteps
  <2> QED
    BY <2>1, <2>2, <2>3
<1>3. /\ UNCHANGED <<db, files, keys, currentKey, passports,
                     currentPassport, session, refused, starts>>
      /\ At("input") /\ turn' = "newKey" /\ focus \in Seq(Widgets)
      /\ Len(focus) <= 2 /\ newKey # "Create"
  BY <1>2, Pressed
<1>4. Len(focus) = 2 /\ focus[1] = Titles[page] /\ OnNewPassport
  <2>1. page \in 1..4
    BY <1>1 DEF UiInv
  <2>2. Titles[page] # "widget::NewPassword"
    BY <2>1, PageTitles
  <2>3. OnNewKey => focus[2] # "widget::NewPassword"
    BY DEF OnNewKey
  <2> QED
    BY <1>2, <2>2, <2>3, Pressed
<1>5. /\ newPassport' \in Popups
      /\ Leave \/ (focus' = focus /\ newPassport'.step # "none")
  <2>1. "none" \notin PassportSteps
    BY DEF PassportSteps
  <2> QED
    BY <1>2, <2>1, PopupsTyped
<1>6. /\ focus' \in Seq(Widgets)
      /\ focus' # <<>> =>
            /\ focus'[1] = Titles[page'] /\ Len(focus') <= 2
            /\ Len(focus') = 2 => OnNewPassport'
  <2>1. CASE focus' = focus /\ newPassport'.step # "none"
    <3>1. AtKey' = AtKey /\ Settled' = Settled
      BY <1>2, <1>3, SameKey DEF Settled, Inv
    <3>2. OnNewPassport'
      BY <1>2, <1>4, <2>1, <3>1 DEF OnNewPassport
    <3> QED
      BY <1>2, <1>3, <1>4, <2>1, <3>2, Zenon
  <2>2. CASE Leave
    BY <1>2, <1>3, <1>4, <2>2, FrontOfFocus DEF Leave
  <2> QED
    BY <1>5, <2>1, <2>2
<1>7. /\ keyList' \in [selected : 0..Beyond, cursor : 0..Beyond]
      /\ passportList' \in [selected : 0..Beyond, cursor : 0..Beyond,
                            ids : Seq(Blocks),
                            key : PublicKeys \cup {"none", "locked"}]
      /\ newKey' \in KeySteps \cup {"none"} /\ newKey' # "Create"
      /\ passportList'.ids = passportList.ids /\ page' \in 1..4
  BY <1>1, <1>2, <1>3, Bounds DEF UiInv
<1> QED
  BY <1>2, <1>3, <1>5, <1>6, <1>7, PressKeeps

LEMMA PressInOthersStep == Inv /\ PressInOthers => Inv'
<1> SUFFICES ASSUME Inv, PressInOthers PROVE Inv'
  OBVIOUS
<1>1. UiInv
  BY DEF Inv
<1>2. /\ outcome' = outcome
      /\ UNCHANGED <<page, keyList, newKey, passportList, newPassport>>
      /\ \E title \in {"Messages", "Settings"} : Press(title)
      /\ focus' = focus \/ Leave
  BY Zenon DEF PressInOthers, Runs
<1>3. PICK title \in {"Messages", "Settings"} : Press(title)
  BY <1>2
<1>4. /\ UNCHANGED <<db, files, keys, currentKey, passports,
                     currentPassport, session, refused, starts>>
      /\ At("input") /\ turn' = "newKey" /\ focus \in Seq(Widgets)
      /\ Len(focus) <= 2 /\ newKey # "Create"
  BY <1>3, Pressed
<1>5. Len(focus) = 1 /\ focus[1] = Titles[page]
  <2>1. OnNewKey \/ OnNewPassport => focus[2] # title
    BY <1>3 DEF OnNewKey, OnNewPassport
  <2>2. title # "root"
    BY <1>3
  <2> QED
    BY <1>3, <2>1, <2>2, Pressed
<1>6. /\ focus' \in Seq(Widgets)
      /\ focus' # <<>> =>
            focus'[1] = Titles[page'] /\ Len(focus') <= 2 /\ Len(focus') # 2
  <2>1. CASE focus' = focus
    <3>1. Len(focus') # 2
      BY <1>5, <2>1
    <3> QED
      BY <1>2, <1>4, <1>5, <2>1, <3>1, Zenon
  <2>2. CASE Leave
    <3>1. focus' \in Seq(Widgets) /\ Len(focus') = 0
      BY <1>4, <1>5, <2>2, FrontOfFocus DEF Leave
    <3> QED
      BY <3>1, EmptySeq
  <2> QED
    BY <1>2, <2>1, <2>2
<1>7. /\ keyList' \in [selected : 0..Beyond, cursor : 0..Beyond]
      /\ passportList' \in [selected : 0..Beyond, cursor : 0..Beyond,
                            ids : Seq(Blocks),
                            key : PublicKeys \cup {"none", "locked"}]
      /\ newKey' \in KeySteps \cup {"none"} /\ newPassport' \in Popups
      /\ newKey' # "Create"
      /\ passportList'.ids = passportList.ids /\ page' \in 1..4
  BY <1>1, <1>2, <1>4, Bounds DEF UiInv
<1> QED
  BY <1>2, <1>4, <1>6, <1>7, PressKeeps

-----------------------------------------------------------------------------
(* The theorems                                                            *)

LEMMA Stays == Inv /\ UNCHANGED vars => Inv'
<1> SUFFICES ASSUME Inv, UNCHANGED vars PROVE Inv'
  OBVIOUS
<1>1. /\ UNCHANGED <<db, files, keys, currentKey, passports, currentPassport>>
      /\ UNCHANGED <<session, refused, outcome, starts, turn, page, focus>>
      /\ UNCHANGED <<keyList, newKey, passportList, newPassport>>
  BY Zenon DEF vars, appvars, disk, network, ui
<1>2. AtKey' = AtKey /\ Settled' = Settled
  BY <1>1 DEF AtKey, Settled, Locked
<1>3. OnNewKey' = OnNewKey /\ OnNewPassport' = OnNewPassport
  BY <1>1, <1>2 DEF OnNewKey, OnNewPassport
<1>4. KeysInv' /\ StoreInv'
  BY <1>1, Zenon DEF Inv, KeysInv, StoreInv
<1>5. UiInv'
  BY <1>1, Zenon DEF Inv, UiInv
<1>6. FocusInv' /\ OneKeyInv'
  BY <1>1, <1>2, <1>3, Zenon DEF Inv, FocusInv, OneKeyInv
<1> QED
  BY <1>4, <1>5, <1>6 DEF Inv

(* The conjunction is inductive: each action keeps all five.               *)
LEMMA InvHolds == Spec => []Inv
<1>1. Init => Inv
  BY FirstStates
<1>2. Inv /\ [Next]_vars => Inv'
  BY UpdateNewKeyStep, SelectKeyStep, UpdateNewPassportStep, ListPassportsStep,
     ProcessStep, TickStep, PressTabStep, PressInKeysStep, PressInNewKeyStep,
     PressInPassportsStep, PressInNewPassportStep, PressInOthersStep, TaskStep,
     RestartKeeps, Stays, Zenon DEF Next
<1> QED
  BY <1>1, <1>2, PTL DEF Spec

(* Every variable has its type, and the app, its network and the pages     *)
(* point at keys and sessions they hold.                                   *)
THEOREM ClientTypeCorrect == Spec => []TypeOK
<1>1. Inv => TypeOK
  <2> SUFFICES ASSUME Inv PROVE TypeOK
    OBVIOUS
  <2>1. /\ IsTable(db.public_key, PublicKeys, Names \cup {NoName})
        /\ files \subseteq PublicKeys
        /\ keys \in Seq([key : PublicKeys, alias : Names \cup {NoName}])
        /\ currentKey \in 0..Len(keys)
    BY DEF Inv, KeysInv, Aliases
  <2>2. /\ session.key \in PublicKeys \cup {"none"}
        /\ Len(session.out) <= OutCap /\ Len(session.in) <= MaxIncoming
    BY Zenon DEF Inv, StoreInv, SessionOK
  <2>3. /\ currentPassport \in Blocks \cup {NoPassport}
        /\ refused \in BOOLEAN /\ outcome \in Outcomes /\ starts \in 1..MaxStarts
        /\ page \in 1..4 /\ newKey \in KeySteps \cup {"none"}
        /\ newPassport \in Popups
    BY Zenon DEF Inv, UiInv
  <2>4. newPassport.step \in PassportSteps \cup {"none"}
    BY <2>3 DEF Popups
  <2>5. \A l \in {keyList, passportList} : {l.selected, l.cursor} \subseteq 0..Beyond
    BY Bounds DEF Inv, UiInv
  <2> QED
    BY <2>1, <2>2, <2>3, <2>4, <2>5, Zenon DEF TypeOK
<1> QED
  BY <1>1, InvHolds, PTL

(* What a key press goes to is there, however the popups, the keys and the *)
(* passports changed while the user looked.                                *)
THEOREM ClientFocusHasTarget == Spec => []FocusHasTarget
<1>1. Inv => FocusHasTarget
  BY DEF Inv, FocusInv, FocusHasTarget, At, OnNewKey, OnNewPassport
<1> QED
  BY <1>1, InvHolds, PTL

(* When the user sees the screen, the session, the passports listed and    *)
(* the current one are of the current key.                                 *)
THEOREM ClientActsForOneKey == Spec => []ActsForOneKey
<1>1. Inv => ActsForOneKey
  <2> SUFFICES ASSUME Inv, At("input") PROVE ActsForOneKey
    BY DEF ActsForOneKey
  <2>1. OneKeyInv /\ outcome = "running" /\ turn = "input" /\ UiInv
    BY DEF Inv, At
  <2>2. DOMAIN passportList.ids = 1..Len(passportList.ids)
    <3>1. passportList.ids \in Seq(Blocks)
      BY <2>1, Bounds DEF UiInv
    <3> QED
      BY <3>1
  <2>3. \A id \in Range(passportList.ids) : Author[id] = AtKey
    BY <2>1, <2>2 DEF OneKeyInv, Range
  <2> QED
    BY <2>1, <2>3 DEF OneKeyInv, ActsForOneKey
<1> QED
  BY <1>1, InvHolds, PTL

(* What is in memory, and what goes to the node, was stored before; and    *)
(* everything stored can be loaded by the next start.                      *)
THEOREM ClientStoresFirst == Spec => []StoredFirst
<1>1. Inv => StoredFirst
  <2> SUFFICES ASSUME Inv PROVE StoredFirst
    OBVIOUS
  <2>1. /\ DOMAIN db.passport \subseteq Blocks
        /\ \A id \in DOMAIN db.passport : db.passport[id] = <<id>>
        /\ \A id \in DOMAIN passports :
            id \in DOMAIN db.passport /\ passports[id] = <<id>>
    BY DEF Inv, StoreInv
  <2>2. \A i \in DOMAIN session.out : session.out[i].id \in DOMAIN db.passport
    <3>1. /\ session.out \in Seq(Requests)
          /\ \A i \in 1..Len(session.out) : session.out[i].id \in DOMAIN db.passport
      BY DEF Inv, StoreInv, SessionOK
    <3>2. DOMAIN session.out = 1..Len(session.out)
      BY <3>1
    <3> QED
      BY <3>1, <3>2
  <2>3. \A id \in DOMAIN db.passport : FromBlocks(db.passport[id]) # <<>>
    <3> TAKE id \in DOMAIN db.passport
    <3>1. FromBlocks(<<id>>) = <<id>>
      BY <2>1, FromFirst, ClientAssumption
    <3> QED
      BY <2>1, <3>1
  <2> QED
    BY <2>1, <2>2, <2>3 DEF StoredFirst
<1> QED
  BY <1>1, InvHolds, PTL

Reasons ==
    /\ KeySelected' /\ outcome' # "noSuchKey"
    /\ outcome' = "panicked" =>
        \/ Last(focus) = "Passports" /\ passportList.ids = <<>>
        \/ Last(focus) = "Keys" /\ CopiesKey
    /\ outcome' = "noSigningKey" => AtKey = "locked" \/ Alias(AtKey) = NoName

LEMMA StaysSelected ==
    ASSUME KeySelected, keys' = keys, keyList' = keyList,
           outcome' \notin {"noSuchKey", "panicked", "noSigningKey"}
    PROVE  Reasons
BY DEF Reasons, KeySelected

(* No key of the client signs: there is none, it is locked, or its alias   *)
(* is not in the database.                                                 *)
LEMMA CannotSignWhy ==
    ASSUME Inv, CannotSign
    PROVE  AtKey = "locked" \/ Alias(AtKey) = NoName
<1>1. /\ IsTable(db.public_key, PublicKeys, Aliases)
      /\ currentKey \in 0..Len(keys) /\ Len(keys) \in Nat
      /\ \A i \in 1..Len(keys) : keys[i].alias = AliasIn(db.public_key, keys[i].key)
  BY KeysTyped DEF Inv, KeysInv
<1>2. CASE currentKey = 0
  <2>1. AtKey \notin DOMAIN db.public_key
    BY <1>1, <1>2, AtNoKey DEF IsTable
  <2> QED
    BY <2>1 DEF Alias
<1>3. CASE currentKey # 0
  <2>1. currentKey \in 1..Len(keys)
    BY <1>1, <1>3
  <2>2. Locked(keys[currentKey]) \/ keys[currentKey].alias = NoName
    BY <1>1, <1>3 DEF CannotSign
  <2>3. CASE Locked(keys[currentKey])
    BY <1>3, <2>3 DEF AtKey
  <2>4. CASE ~Locked(keys[currentKey])
    <3>1. AtKey = keys[currentKey].key
      BY <1>3, <2>4, Zenon DEF AtKey
    <3>2. AliasIn(db.public_key, AtKey) = NoName
      BY <1>1, <2>1, <2>2, <2>4, <3>1
    <3> QED
      BY <3>2 DEF Alias, AliasIn
  <2> QED
    BY <2>3, <2>4
<1> QED
  BY <1>2, <1>3

LEMMA EndsWithReason ==
    ASSUME Inv, Next, KeySelected, outcome = "running"
    PROVE  Reasons
<1> USE Bounds
<1>1. /\ KeysInv /\ UiInv /\ Len(keys) \in Nat /\ Len(keys) < Beyond
      /\ keyList \in [selected : 0..Beyond, cursor : 0..Beyond]
  BY KeysTyped DEF Inv, UiInv
<1>2. CASE UpdateNewKey
  <2>1. /\ \A i \in 1..Len(keys) : i \in 1..Len(keys') /\ keys'[i] = keys[i]
        /\ outcome' = outcome \/ outcome' = "storage"
        /\ KeysInv'
    BY <1>1, <1>2, UpdateNewKeyKeeps
  <2>2. keyList' = keyList
    BY <1>2, Zenon DEF UpdateNewKey
  <2>3. keys # <<>> /\ keyList.selected < Len(keys) /\ keyList.cursor < Len(keys)
    BY DEF KeySelected
  <2>4. Len(keys') \in Nat /\ Len(keys) <= Len(keys')
    <3>1. keys' \in Seq([key : PublicKeys, alias : Aliases])
      BY <2>1 DEF KeysInv
    <3>2. Len(keys') \in Nat
      BY <3>1
    <3>3. Len(keys) # 0 => Len(keys) \in 1..Len(keys')
      BY <1>1, <2>1
    <3> QED
      BY <1>1, <3>2, <3>3
  <2>5. keyList.selected < Len(keys') /\ keyList.cursor < Len(keys') /\ Len(keys') # 0
    BY <1>1, <2>3, <2>4
  <2>6. KeySelected'
    BY <2>2, <2>5 DEF KeySelected
  <2> QED
    BY <2>1, <2>6 DEF Reasons
<1>3. CASE SelectKey
  <2>1. ~(keyList.selected >= Len(keys)) /\ keys # <<>>
    BY <1>1 DEF KeySelected
  <2>2. UNCHANGED <<keys, keyList, outcome>>
    BY <1>3, <2>1, Zenon DEF SelectKey, SetCurrentKey, ui
  <2> QED
    BY <2>2, StaysSelected
<1>4. CASE UpdateNewPassport
  <2>1. UNCHANGED <<keys, keyList>>
    BY <1>4, Zenon DEF UpdateNewPassport
  <2>2. KeySelected'
    BY <2>1 DEF KeySelected
  <2>3. \/ outcome' = "noSigningKey" /\ CannotSign
        \/ \E id \in Blocks : CreateNewPassport(id)
        \/ outcome' = outcome
    BY <1>4, Zenon DEF UpdateNewPassport, Ends
  <2>4. CASE outcome' = "noSigningKey" /\ CannotSign
    BY <2>2, <2>4, CannotSignWhy DEF Reasons
  <2>5. ASSUME NEW id \in Blocks, CreateNewPassport(id)
        PROVE  outcome' \in {outcome, "storage"}
    BY <1>1, <2>5, CreateNewPassportWrites DEF KeysInv
  <2> QED
    BY <2>1, <2>3, <2>4, <2>5, StaysSelected
<1>5. CASE ListPassports
  BY <1>5, StaysSelected, Zenon DEF ListPassports
<1>6. CASE Process
  <2>1. DOMAIN db = Fields /\ StoreInv
    BY <1>1 DEF KeysInv, Inv
  <2>2. UNCHANGED <<keys, keyList>> /\ ProcessNetworkInput
    BY <1>6, Zenon DEF Process, ui
  <2>3. outcome' \in {outcome, "badPassport", "storage"}
    BY <2>1, <2>2, ProcessWrites
  <2> QED
    BY <2>2, <2>3, StaysSelected
<1>7. CASE Tick \/ CtrlC \/ Task
  <2>1. UNCHANGED <<keys, keyList>> /\ outcome' \in {outcome, "left"}
    BY <1>7 DEF Tick, CtrlC, Task, appvars, ui, Ends
  <2> QED
    BY <2>1, StaysSelected
<1>8. CASE PressTab \/ PressInNewKey \/ PressInNewPassport \/ PressInOthers
  <2>1. UNCHANGED <<keyList, outcome>> /\ \E title \in Widgets \cup {"root"} : Press(title)
    BY <1>8 DEF PressTab, PressInNewKey, PressInNewPassport, PressInOthers, Runs,
                Widgets
  <2>2. keys' = keys
    BY <2>1, Pressed
  <2> QED
    BY <2>1, <2>2, StaysSelected
<1>9. CASE PressInKeys
  <2>1. Press("Keys")
    BY <1>9 DEF PressInKeys
  <2>2. keys' = keys
    BY <2>1, Pressed
  <2>3. \/ MoveIn(keyList, keyList, Len(keys)) \/ EnterKey
        \/ Runs /\ UNCHANGED keyList
    BY <1>9, Zenon DEF PressInKeys
  <2>4. CASE MoveIn(keyList, keyList, Len(keys))
    <3>1. /\ KeySelected'
          /\ outcome' = outcome \/ (outcome' = "panicked" /\ Len(keys) = 0)
      BY <2>2, <2>4, MovedInKeys
    <3>2. Len(keys) # 0
      BY <1>1 DEF KeySelected
    <3> QED
      BY <3>1, <3>2 DEF Reasons
  <2>5. CASE EnterKey
    <3>1. \/ CopiesKey /\ outcome' = "panicked" /\ keyList' = keyList
          \/ /\ keyList' = [keyList EXCEPT !.selected = keyList.cursor]
             /\ outcome' = outcome
      BY <2>5, Zenon DEF EnterKey, Ends, Runs
    <3>2. KeySelected'
      BY <1>1, <2>2, <3>1 DEF KeySelected
    <3>3. Last(focus) = "Keys"
      BY <2>1 DEF Press
    <3> QED
      BY <3>1, <3>2, <3>3 DEF Reasons
  <2>6. CASE Runs /\ UNCHANGED keyList
    BY <2>2, <2>6, StaysSelected DEF Runs
  <2> QED
    BY <2>3, <2>4, <2>5, <2>6
<1>10. CASE PressInPassports
  <2>1. Press("Passports") /\ keyList' = keyList
    BY <1>10, Zenon DEF PressInPassports
  <2>2. keys' = keys /\ Last(focus) = "Passports"
    <3>1. keys' = keys
      BY <2>1, Pressed
    <3>2. Last(focus) = "Passports"
      BY <2>1 DEF Press
    <3> QED
      BY <3>1, <3>2
  <2>3. \/ MoveIn(passportList, passportList, Len(passportList.ids)) \/ Runs
    BY <1>10, Zenon DEF PressInPassports
  <2>4. \/ outcome' = outcome
        \/ outcome' = "panicked" /\ Len(passportList.ids) = 0
    BY <2>3, MovedInPassports, Zenon DEF Runs
  <2>5. Len(passportList.ids) = 0 => passportList.ids = <<>>
    <3>1. passportList.ids \in Seq(Blocks)
      BY <1>1 DEF UiInv
    <3> QED
      BY <3>1, EmptySeq
  <2>6. KeySelected'
    BY <2>1, <2>2 DEF KeySelected
  <2> QED
    BY <2>2, <2>4, <2>5, <2>6 DEF Reasons
<1>11. CASE Restart
  BY <1>11 DEF Restart
<1> QED
  BY <1>2, <1>3, <1>4, <1>5, <1>6, <1>7, <1>8, <1>9, <1>10, <1>11 DEF Next

(* A client with a key in its selection keeps one there.  It ends over an  *)
(* empty list of passports, over the clipboard when that key is entered    *)
(* again, or for want of a key that can sign, only when those are so.      *)
THEOREM ClientEndsForAReason == Spec => EndsForAReason
<1>1. Inv /\ [Next]_vars => [KeySelected /\ outcome = "running" => Reasons]_vars
  BY EndsWithReason
<1> QED
  BY <1>1, InvHolds, PTL DEF Spec, EndsForAReason, Reasons

-----------------------------------------------------------------------------
(* The links of the database                                               *)

(* Whatever was created or came from the node, and wherever the client     *)
(* stopped between two statements.                                         *)
LinksAreOfAuthor ==
    /\ \A link \in db.passport_key :
        /\ link[1] \in DOMAIN db.public_key /\ link[2] \in DOMAIN db.passport
        /\ link[1] = Author[link[2]]
    /\ db.contact = <<>> /\ db.contact_passport = <<>>
    /\ db.thread = {} /\ db.message = <<>>

(* Keys and passports may be added.                                        *)
RowsGrow ==
    /\ DOMAIN db.public_key \subseteq DOMAIN db'.public_key
    /\ DOMAIN db.passport \subseteq DOMAIN db'.passport
    /\ db'.contact = db.contact /\ db'.contact_passport = db.contact_passport
    /\ db'.thread = db.thread /\ db'.message = db.message

LEMMA LinksKept ==
    ASSUME LinksAreOfAuthor, RowsGrow, db'.passport_key = db.passport_key
    PROVE  LinksAreOfAuthor'
BY DEF LinksAreOfAuthor, RowsGrow

LEMMA LinkAdded ==
    ASSUME LinksAreOfAuthor, RowsGrow, NEW id,
           Author[id] \in DOMAIN db'.public_key, id \in DOMAIN db'.passport,
           db'.passport_key = db.passport_key \cup {<<Author[id], id>>}
    PROVE  LinksAreOfAuthor'
BY DEF LinksAreOfAuthor, RowsGrow

LEMMA CreateNewKeyLinks ==
    ASSUME Inv, NEW key \in PublicKeys, NEW alias \in Names, CreateNewKey(key, alias)
    PROVE  RowsGrow /\ db'.passport_key = db.passport_key
<1> DEFINE new == NewKey(db, key)
           all == Insert(db.public_key, key, NoName)
<1>1. DOMAIN db = Fields
  BY DEF Inv, KeysInv
<1>2. DOMAIN all = DOMAIN db.public_key \cup {key}
  BY DEF Insert
<1> HIDE DEF all
<1>3. ASSUME new # Fault
      PROVE  /\ DOMAIN new = Fields /\ new.public_key = all
             /\ new.passport = db.passport /\ new.passport_key = db.passport_key
             /\ new.contact = db.contact /\ new.contact_passport = db.contact_passport
             /\ new.thread = db.thread /\ new.message = db.message
  <2>1. new = [db EXCEPT !.public_key = all]
    BY <1>3, Zenon DEF NewKey, all
  <2> HIDE DEF new
  <2> QED
    BY <1>1, <2>1 DEF Fields
<1>4. \/ db' = db
      \/ new # Fault /\ db' = new
      \/ new # Fault /\ db' = NewKeyAlias(new, key, alias)
  BY DEF CreateNewKey
<1> HIDE DEF new
<1>5. CASE db' = db
  BY <1>5 DEF RowsGrow
<1>6. CASE new # Fault /\ db' = new
  BY <1>2, <1>3, <1>6 DEF RowsGrow
<1>7. CASE new # Fault /\ db' = NewKeyAlias(new, key, alias)
  <2>1. db' = [new EXCEPT !.public_key[key] = alias]
    BY <1>2, <1>3, <1>7 DEF NewKeyAlias
  <2>2. DOMAIN db'.public_key = DOMAIN all
    BY <1>3, <1>7, <2>1 DEF Fields
  <2>3. /\ db'.passport = db.passport /\ db'.passport_key = db.passport_key
        /\ db'.contact = db.contact /\ db'.contact_passport = db.contact_passport
        /\ db'.thread = db.thread /\ db'.message = db.message
    BY <1>3, <1>7, <2>1 DEF Fields
  <2> QED
    BY <1>2, <2>2, <2>3 DEF RowsGrow
<1> QED
  BY <1>4, <1>5, <1>6, <1>7

(* A passport that is stored, in one statement.                            *)
LEMMA NewPassportRows ==
    ASSUME DOMAIN db = Fields, NEW blocks, NewPassport(db, blocks) # Fault
    PROVE  LET stored == NewPassport(db, blocks)
           IN  /\ DOMAIN stored = Fields
               /\ DOMAIN stored.passport = DOMAIN db.passport \cup {blocks[1]}
               /\ stored.public_key = db.public_key
               /\ stored.passport_key = db.passport_key
               /\ stored.contact = db.contact
               /\ stored.contact_passport = db.contact_passport
               /\ stored.thread = db.thread /\ stored.message = db.message
<1> DEFINE stored == NewPassport(db, blocks)
           all == Insert(db.passport, blocks[1], blocks)
<1>1. stored = [db EXCEPT !.passport = all]
  BY Zenon DEF NewPassport
<1>2. DOMAIN all = DOMAIN db.passport \cup {blocks[1]}
  BY DEF Insert
<1> HIDE DEF stored, all
<1>3. /\ DOMAIN stored = Fields /\ stored.passport = all
      /\ stored.public_key = db.public_key
      /\ stored.passport_key = db.passport_key
      /\ stored.contact = db.contact
      /\ stored.contact_passport = db.contact_passport
      /\ stored.thread = db.thread /\ stored.message = db.message
  BY <1>1 DEF Fields
<1> QED
  BY <1>2, <1>3 DEF stored

LEMMA CreateNewPassportLinks ==
    ASSUME Inv, LinksAreOfAuthor, NEW id \in Blocks, CreateNewPassport(id),
           Author[id] = keys[currentKey].key
    PROVE  LinksAreOfAuthor'
<1> DEFINE stored == NewPassport(db, <<id>>)
           linked == LinkKeyToPassport(stored, Author[id], id)
<1>1. DOMAIN db = Fields /\ <<id>>[1] = id
  BY DEF Inv, KeysInv
<1>2. \/ stored # Fault /\ linked # Fault /\ db' = linked
      \/ db' = db
      \/ stored # Fault /\ db' = stored
  BY DEF CreateNewPassport
<1>3. ASSUME stored # Fault
      PROVE  /\ DOMAIN stored = Fields
             /\ DOMAIN stored.passport = DOMAIN db.passport \cup {id}
             /\ stored.public_key = db.public_key
             /\ stored.passport_key = db.passport_key
             /\ stored.contact = db.contact
             /\ stored.contact_passport = db.contact_passport
             /\ stored.thread = db.thread /\ stored.message = db.message
  BY <1>1, <1>3, NewPassportRows
<1> HIDE DEF stored
<1>4. CASE db' = db
  BY <1>4, LinksKept DEF RowsGrow
<1>5. CASE stored # Fault /\ db' = stored
  BY <1>3, <1>5, LinksKept DEF RowsGrow
<1>6. CASE stored # Fault /\ linked # Fault /\ db' = linked
  <2>1. /\ Author[id] \in DOMAIN stored.public_key
        /\ db' = [stored EXCEPT !.passport_key = @ \cup {<<Author[id], id>>}]
    BY <1>6 DEF LinkKeyToPassport
  <2>2. /\ db'.passport = stored.passport /\ db'.public_key = stored.public_key
        /\ db'.passport_key = stored.passport_key \cup {<<Author[id], id>>}
        /\ db'.contact = stored.contact
        /\ db'.contact_passport = stored.contact_passport
        /\ db'.thread = stored.thread /\ db'.message = stored.message
    BY <1>3, <1>6, <2>1 DEF Fields
  <2>3. RowsGrow
    BY <1>3, <1>6, <2>2 DEF RowsGrow
  <2> QED
    BY <1>3, <1>6, <2>1, <2>2, <2>3, LinkAdded
<1> QED
  BY <1>2, <1>4, <1>5, <1>6

LEMMA ProcessLinks ==
    ASSUME Inv, LinksAreOfAuthor, ProcessNetworkInput
    PROVE  LinksAreOfAuthor'
<1>1. \/ db' = db
      \/ \E blocks : NewPassport(db, blocks) # Fault /\ db' = NewPassport(db, blocks)
  BY DEF ProcessNetworkInput, ProcessPutPassport, ProcessGetPassport, ProcessTopic
<1>2. CASE db' = db
  BY <1>2, LinksKept DEF RowsGrow
<1>3. ASSUME NEW blocks, NewPassport(db, blocks) # Fault, db' = NewPassport(db, blocks)
      PROVE  LinksAreOfAuthor'
  <2>1. DOMAIN db = Fields
    BY DEF Inv, KeysInv
  <2>2. /\ DOMAIN db'.passport = DOMAIN db.passport \cup {blocks[1]}
        /\ db'.public_key = db.public_key /\ db'.passport_key = db.passport_key
        /\ db'.contact = db.contact /\ db'.contact_passport = db.contact_passport
        /\ db'.thread = db.thread /\ db'.message = db.message
    BY <1>3, <2>1, NewPassportRows
  <2> QED
    BY <2>2, LinksKept DEF RowsGrow
<1> QED
  BY <1>1, <1>2, <1>3

LEMMA LinksStep == Inv /\ LinksAreOfAuthor /\ [Next]_vars => LinksAreOfAuthor'
<1> SUFFICES ASSUME Inv, LinksAreOfAuthor, [Next]_vars PROVE LinksAreOfAuthor'
  OBVIOUS
<1>1. CASE UNCHANGED db
  BY <1>1, LinksKept DEF RowsGrow
<1>2. CASE UpdateNewKey
  <2>1. CASE \E key \in PublicKeys, alias \in Names : CreateNewKey(key, alias)
    BY <2>1, CreateNewKeyLinks, LinksKept
  <2>2. CASE UNCHANGED disk
    BY <1>1, <2>2 DEF disk
  <2> QED
    BY <1>2, <2>1, <2>2 DEF UpdateNewKey
<1>3. CASE UpdateNewPassport
  <2>1. ASSUME NEW id \in Blocks, Author[id] = keys[currentKey].key, CreateNewPassport(id)
        PROVE  LinksAreOfAuthor'
    BY <2>1, CreateNewPassportLinks
  <2> QED
    BY <1>1, <1>3, <2>1 DEF UpdateNewPassport
<1>4. CASE Process
  BY <1>4, ProcessLinks DEF Process
<1>5. CASE UNCHANGED vars
  BY <1>1, <1>5 DEF vars, appvars, disk
<1>6. CASE \/ SelectKey \/ ListPassports \/ Tick \/ PressTab \/ PressInKeys
           \/ PressInNewKey \/ PressInPassports \/ PressInNewPassport
           \/ PressInOthers \/ CtrlC \/ Task \/ Restart
  BY <1>1, <1>6 DEF SelectKey, ListPassports, Tick, PressTab, PressInKeys,
     PressInNewKey, PressInPassports, PressInNewPassport, PressInOthers, CtrlC,
     Task, Restart, Loaded, Press, disk, appvars
<1> QED
  BY <1>2, <1>3, <1>4, <1>5, <1>6 DEF Next

(* A passport is linked only to the key that made its first block, both    *)
(* are there, and there is nothing else in the database but keys and       *)
(* passports, wherever a creation was interrupted and whatever the node    *)
(* sent (create_new_passport and process_network_input of app/mod.rs).     *)
THEOREM ClientLinksAreOfAuthor == Spec => []LinksAreOfAuthor
<1>1. Init => LinksAreOfAuthor
  BY DEF Init, AppInit, Empty, LinksAreOfAuthor
<1> QED
  BY <1>1, InvHolds, LinksStep, PTL DEF Spec

=============================================================================
