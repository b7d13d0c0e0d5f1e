------------------------------- MODULE Tables -------------------------------
(***************************************************************************)
(* The database of asmtp-storage (lib.rs and its migrations): its tables   *)
(* as functions from their primary keys, each method as the tables it      *)
(* leaves, or Fault when its statement breaks a constraint; a statement    *)
(* that fails changes nothing.  Foreign keys are on and deletions cascade. *)
(*                                                                         *)
(* A block is known by its hash, and a passport by that of its first.  The *)
(* dates are left out but for those of messages, whose day and time of day *)
(* messages_of_thread_since compares as texts; so is thread_key, a table   *)
(* that no method writes.                                                  *)
(***************************************************************************)
EXTENDS Integers, SequencesExt, FiniteSetsExt

Fault == [fault |-> TRUE]
NoName == "NULL"                                  \* an alias not given yet

(* A table whose primary keys are in K, of rows in V.                      *)
IsTable(f, K, V) ==
    /\ f = [k \in DOMAIN f |-> f[k]]
    /\ DOMAIN f \subseteq K
    /\ \A k \in DOMAIN f : f[k] \in V

Insert(f, k, row) == [x \in DOMAIN f \cup {k} |-> IF x = k THEN row ELSE f[x]]
Delete(f, gone) == Restrict(f, DOMAIN f \ gone)

(* INTEGER PRIMARY KEY: one more than the largest in use, so that the      *)
(* number of a deleted row may be given again.                             *)
NextId(f) == Max(DOMAIN f \cup {0}) + 1

Empty ==
    [contact |-> <<>>, public_key |-> <<>>, passport |-> <<>>,
     passport_key |-> {}, contact_passport |-> <<>>, thread |-> {},
     message |-> <<>>]

-----------------------------------------------------------------------------
(* Contacts                                                                *)

NewContact(d, name) ==
    [d EXCEPT !.contact = Insert(@, NextId(@), name)]

UpdateContact(d, id, name) ==
    IF id \in DOMAIN d.contact THEN [d EXCEPT !.contact[id] = name] ELSE d

PassportsOfContact(d, id) ==
    {p \in DOMAIN d.contact_passport : d.contact_passport[p].contact = id}

DeleteContact(d, id) ==
    [d EXCEPT
        !.contact = Delete(@, {id}),
        !.contact_passport = Delete(@, PassportsOfContact(d, id))]

(* INSERT OR REPLACE: passport is UNIQUE, so that it leaves the contact it *)
(* was linked to, and what was verified of it is forgotten.                *)
VerifyContactPassportLink(d, id, passport, verified) ==
    IF id \in DOMAIN d.contact /\ passport \in DOMAIN d.passport
    THEN [d EXCEPT !.contact_passport =
             Insert(@, passport, [contact |-> id, verified |-> verified])]
    ELSE Fault

LinkPassportToContact(d, id, passport) ==
    VerifyContactPassportLink(d, id, passport, FALSE)

-----------------------------------------------------------------------------
(* Passports and keys                                                      *)

NewPassportReplaces(d, blocks) ==
    IF blocks = <<>> THEN Fault
    ELSE [d EXCEPT !.passport = Insert(@, blocks[1], blocks)]
NewPassport(d, blocks) ==
    IF blocks = <<>> \/ blocks[1] \in DOMAIN d.passport THEN Fault
    ELSE [d EXCEPT !.passport = Insert(@, blocks[1], blocks)]

UpdatePassport(d, blocks) ==
    IF blocks = <<>> THEN Fault
    ELSE IF blocks[1] \in DOMAIN d.passport
    THEN [d EXCEPT !.passport[blocks[1]] = blocks]
    ELSE d

GetPassport(d, id) ==
    IF id \in DOMAIN d.passport THEN d.passport[id] ELSE <<>>

DeletePassport(d, id) ==
    [d EXCEPT
        !.passport = Delete(@, {id}),
        !.passport_key = {link \in @ : link[2] # id},
        !.contact_passport = Delete(@, {id})]

NewKey(d, key) ==
    IF key \in DOMAIN d.public_key THEN Fault
    ELSE [d EXCEPT !.public_key = Insert(@, key, NoName)]

NewKeyAlias(d, key, alias) ==
    IF key \in DOMAIN d.public_key
    THEN [d EXCEPT !.public_key[key] = alias] ELSE d

LinkKeyToPassport(d, key, passport) ==
    IF /\ key \in DOMAIN d.public_key /\ passport \in DOMAIN d.passport
       /\ <<key, passport>> \notin d.passport_key
    THEN [d EXCEPT !.passport_key = @ \cup {<<key, passport>>}]
    ELSE Fault

PassportsOfKey(d, key) ==
    {p \in DOMAIN d.passport : <<key, p>> \in d.passport_key}
KeysOfPassport(d, passport) ==
    {k \in DOMAIN d.public_key : <<k, passport>> \in d.passport_key}

-----------------------------------------------------------------------------
(* Threads and messages                                                    *)

MessagesOfThread(d, topic) ==
    {m \in DOMAIN d.message : d.message[m].thread = topic}

NewThreadReplaces(d, topic) ==
    [d EXCEPT !.thread = @ \cup {topic},
              !.message = Delete(@, MessagesOfThread(d, topic))]
NewThread(d, topic) ==
    IF topic \in d.thread THEN Fault
    ELSE [d EXCEPT !.thread = @ \cup {topic}]

DeleteThreadKeeps(d, topic) == [d EXCEPT !.thread = @ \ {topic}]
DeleteThread(d, topic) ==
    [d EXCEPT !.thread = @ \ {topic},
              !.message = Delete(@, MessagesOfThread(d, topic))]

NewMessage(d, topic, content, now) ==
    IF topic \notin d.thread THEN Fault
    ELSE [d EXCEPT !.message = Insert(@, NextId(@),
            [thread |-> topic, content |-> content, created_at |-> now,
             read |-> FALSE])]

MarkMessage(d, id, read) ==
    IF id \in DOMAIN d.message THEN [d EXCEPT !.message[id].read = read] ELSE d

DeleteMessage(d, id) ==
    [d EXCEPT !.message = Delete(@, {id})]

(* created_at is "2021-05-01 10:00:00", since is bound as                  *)
(* "2021-05-01T10:00:00+00:00".  They are texts: on the same day the blank *)
(* comes before the T, whatever the time.                                  *)
SinceOrSame(at, since) == at.day >= since.day
Since(at, since) == at.day > since.day

MessagesOfThreadSince(d, topic, since) ==
    {m \in MessagesOfThread(d, topic) : Since(d.message[m].created_at, since)}

=============================================================================
