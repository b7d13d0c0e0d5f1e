------------------------------ MODULE ClientUi ------------------------------
(***************************************************************************)
(* The client as its user drives it (bin/asmtp-client.rs and ui/): one     *)
(* loop that updates the pages, processes a message of the network, draws, *)
(* and waits for a key press or a tick, while the tasks of the sessions    *)
(* run beside it.  `turn` is where the loop is.                            *)
(*                                                                         *)
(* A widget takes its next_step at the next update, before anything reads  *)
(* it: here at once.  Drawing, the text that is typed, what the clipboard  *)
(* holds and the cursor of Settings are left out.                          *)
(***************************************************************************)
EXTENDS Client

CONSTANTS
    Beyond            \* the positions Up leads to from 0 in an empty list,
                      \* usize::MAX and, with more presses, those under it

ASSUME UiAssumption ==
    /\ Beyond \in Nat
    /\ Beyond > Cardinality(PublicKeys) /\ Beyond > Cardinality(Blocks)

VARIABLES
    turn, page,
    focus,            \* the stack of titles, <<>> at the tabs
    keyList,          \* what is selected, and where the cursor is
    newKey,           \* the popup of the page of keys
    passportList,     \* also the passports shown, and for which key
    newPassport       \* the popup of the page of passports

ui == <<page, focus, keyList, newKey, passportList, newPassport>>
vars == <<appvars, turn, ui>>

Titles == <<"Keys", "Passports", "Messages", "Settings">>
KeySteps == {"EnteringName", "Confirm", "Create", "Created"}
PassportSteps == {"CreateOrBind", "CreateNewPassphrase",
                  "CreateConfirmPassphrase", "Create", "Created"}
Popup(step, matches) == [step |-> step, matches |-> matches]
Closed == Popup("none", FALSE)
FirstPopup == Popup("CreateOrBind", FALSE)

AtKey ==
    IF currentKey = 0 THEN "none"
    ELSE IF Locked(keys[currentKey]) THEN "locked"
    ELSE keys[currentKey].key

FirstKeyList == [selected |-> 0, cursor |-> 0]
FirstPassportList == [selected |-> 0, cursor |-> 0, ids |-> <<>>, key |-> "none"]
FirstNewKey(listed) == IF listed = {} THEN "EnteringName" ELSE "none"

Init ==
    /\ AppInit
    /\ turn = "newKey" /\ page = 1 /\ focus = <<>>
    /\ keyList = FirstKeyList /\ newKey = FirstNewKey(files)
    /\ passportList = FirstPassportList /\ newPassport = FirstPopup

At(t) == outcome = "running" /\ turn = t
TurnTo(t) == turn' = t

-----------------------------------------------------------------------------
(* Pages::update                                                           *)

UpdateNewKey ==
    /\ At("newKey") /\ TurnTo("selectKey")
    /\ \/ /\ newKey = "Create"
          /\ \E key \in PublicKeys, alias \in Names : CreateNewKey(key, alias)
          /\ newKey' = IF outcome' = "running" THEN "Created" ELSE "Create"
       \/ newKey # "Create" /\ UNCHANGED <<disk, keys, outcome, newKey>>
    /\ UNCHANGED <<currentKey, passports, currentPassport, network, starts,
                   page, focus, keyList, passportList, newPassport>>

SelectKey ==
    /\ At("selectKey") /\ TurnTo("newPassport")
    /\ \/ keys # <<>> /\ SetCurrentKey(keyList.selected)
       \/ keys = <<>> /\ UNCHANGED <<currentKey, network, outcome>>
    /\ UNCHANGED <<disk, keys, passports, currentPassport, starts, ui>>

(* A popup that was open for another key goes away.                        *)
KeptPopup == IF passportList.key = AtKey THEN newPassport ELSE Closed

UpdateNewPassport ==
    /\ At("newPassport") /\ TurnTo("listPassports")
    /\ passportList' = [passportList EXCEPT !.key = AtKey]
    /\ \/ /\ KeptPopup.step = "Create" /\ CannotSign
          /\ Ends("noSigningKey")
          /\ newPassport' = KeptPopup
          /\ UNCHANGED <<db, passports, session>>
       \/ /\ KeptPopup.step = "Create" /\ ~CannotSign
          /\ \E id \in Blocks \ DOMAIN db.passport :
                Author[id] = keys[currentKey].key /\ CreateNewPassport(id)
          /\ newPassport' = Popup("Created", FALSE)
       \/ /\ KeptPopup.step # "Create"
          /\ newPassport' = KeptPopup
          /\ UNCHANGED <<db, passports, session, outcome>>
    /\ UNCHANGED <<files, keys, currentKey, currentPassport, refused,
                   starts, page, focus, keyList, newKey>>

(* The passports of the key, in the order their HashSet has them, which    *)
(* an insertion may change; the selection is an index all the same.        *)
Listings ==
    LET mine == IF AtKey \in PublicKeys THEN PassportsByKey(AtKey) ELSE {}
    IN  IF Range(passportList.ids) = mine THEN {passportList.ids}
        ELSE SetToSeqs(mine)

SelectedIn(ids) ==
    IF passportList.selected < Len(ids)
    THEN ids[passportList.selected + 1] ELSE NoPassport

ListPassports ==
    /\ At("listPassports") /\ TurnTo("process")
    /\ \E ids \in Listings :
        /\ passportList' = [passportList EXCEPT !.ids = ids]
        /\ newPassport' = IF ids = <<>> /\ newPassport = Closed
                          THEN FirstPopup ELSE newPassport
        /\ SetCurrentPassport(SelectedIn(ids))
    /\ UNCHANGED <<disk, keys, currentKey, passports, refused,
                   outcome, starts, page, focus, keyList, newKey>>

Process ==
    /\ At("process") /\ TurnTo("input")
    /\ ProcessNetworkInput
    /\ UNCHANGED <<files, keys, currentKey, passports, currentPassport,
                   refused, starts, ui>>

-----------------------------------------------------------------------------
(* Key presses                                                             *)

Tick == At("input") /\ TurnTo("newKey") /\ UNCHANGED <<appvars, ui>>

(* A key press is for what has the focus.                                  *)
Press(title) ==
    /\ At("input") /\ TurnTo("newKey")
    /\ IF focus = <<>> THEN title = "root" ELSE Last(focus) = title
    /\ UNCHANGED <<disk, keys, currentKey, passports, currentPassport,
                   network, starts>>

Runs == UNCHANGED outcome
Leave == focus' = Front(focus)
Open(title) == focus' = Append(focus, title)

PressTab ==
    /\ Press("root") /\ Runs
    /\ \/ \E step \in {1, 3} :                   \* Right, Left
            page' = ((page - 1 + step) % 4) + 1 /\ UNCHANGED focus
       \/ Open(Titles[page]) /\ UNCHANGED page
    /\ UNCHANGED <<keyList, newKey, passportList, newPassport>>

(* Wrapping arithmetic on usize; the remainder by an empty list panics.    *)
Above(cursor, len) ==
    CASE cursor = 0 /\ len = 0 -> Beyond
      [] cursor = 0 /\ len > 0 -> len - 1
      [] cursor = Beyond -> Beyond
      [] OTHER -> cursor - 1
BelowUnwrapped(cursor, len) == {IF cursor < len THEN cursor + 1 ELSE 0}
Below(cursor, len) ==
    IF cursor = Beyond THEN 0..(len - 1) ELSE {(cursor + 1) % len}

(* What the two lists have in common: Up, Down, Esc, and that other keys   *)
(* do nothing to them.                                                     *)
MoveIn(l, list, len) ==
    \/ Runs /\ UNCHANGED <<focus, list>>
    \/ list' = [l EXCEPT !.cursor = Above(l.cursor, len)] /\ Runs /\ UNCHANGED focus
    \/ /\ len > 0 /\ Runs /\ UNCHANGED focus
       /\ \E c \in Below(l.cursor, len) : list' = [l EXCEPT !.cursor = c]
    \/ len = 0 /\ Ends("panicked") /\ UNCHANGED <<focus, list>>
    \/ list' = [l EXCEPT !.cursor = l.selected] /\ Leave /\ Runs

(* Enter on the key that is selected copies it to the clipboard: a panic   *)
(* where there is none, it refuses the text, or no key is at this place.   *)
CopiesKey == keyList.selected = keyList.cursor
EnterKey ==
    \/ CopiesKey /\ Ends("panicked") /\ UNCHANGED keyList
    \/ /\ CopiesKey => keyList.selected < Len(keys)
       /\ keyList' = [keyList EXCEPT !.selected = keyList.cursor] /\ Runs

PressInKeys ==
    /\ Press("Keys")
    /\ \/ /\ \/ MoveIn(keyList, keyList, Len(keys))
             \/ EnterKey /\ UNCHANGED focus
          /\ newKey' = "none"
       \/ /\ newKey' = "EnteringName" /\ Open("widget::NewKey")      \* +
          /\ Runs /\ UNCHANGED keyList
    /\ UNCHANGED <<page, passportList, newPassport>>

PressInNewKeyStays ==
    /\ Press("widget::NewKey") /\ newKey # "none" /\ Runs
    /\ \/ newKey = "EnteringName" /\ newKey' = "Confirm" /\ UNCHANGED focus
       \/ newKey = "Confirm" /\ UNCHANGED focus
          /\ newKey' \in {"Create", "EnteringName"}
       \/ newKey = "EnteringName" /\ newKey' = "none" /\ Leave
       \/ newKey = "Created" /\ newKey' = "none" /\ UNCHANGED focus
    /\ UNCHANGED <<page, keyList, passportList, newPassport>>
PressInNewKey ==
    /\ Press("widget::NewKey") /\ newKey # "none" /\ Runs
    /\ \/ newKey = "EnteringName" /\ newKey' = "Confirm" /\ UNCHANGED focus
       \/ newKey = "Confirm" /\ UNCHANGED focus          \* Enter or Esc
          /\ newKey' \in {"Create", "EnteringName"}
       \/ newKey \in {"EnteringName", "Created"} /\ newKey' = "none" /\ Leave
    /\ UNCHANGED <<page, keyList, passportList, newPassport>>

PressInPassports ==
    /\ Press("Passports")
    /\ \/ /\ \/ MoveIn(passportList, passportList, Len(passportList.ids))
             \/ /\ passportList' = [passportList EXCEPT
                                      !.selected = passportList.cursor]
                /\ Runs /\ UNCHANGED focus                           \* Enter
          /\ newPassport' = Closed
       \/ /\ newPassport' = FirstPopup /\ Open("widget::NewPassword") \* +
          /\ Runs /\ UNCHANGED passportList
    /\ UNCHANGED <<page, keyList, newKey>>

(* Of the passphrase and its confirmation only whether they are equal is   *)
(* kept: it may be when the confirmation is asked for, with nothing typed  *)
(* for either, and with each character typed.                              *)
PressInNewPassport ==
    /\ Press("widget::NewPassword") /\ newPassport.step # "none" /\ Runs
    /\ LET step == newPassport.step
       IN  \/ /\ step \in {"CreateOrBind", "Created"}
              /\ newPassport' = Closed /\ Leave
           \/ /\ UNCHANGED focus
              /\ \/ /\ step \in {"CreateOrBind", "CreateConfirmPassphrase"}
                    /\ newPassport' = Popup("CreateNewPassphrase", FALSE)
                 \/ step = "CreateNewPassphrase" /\ newPassport' = FirstPopup
                 \/ /\ step \in {"CreateNewPassphrase", "CreateConfirmPassphrase"}
                    /\ \E matches \in BOOLEAN :
                        newPassport' = Popup("CreateConfirmPassphrase", matches)
                 \/ /\ step = "CreateConfirmPassphrase" /\ newPassport.matches
                    /\ newPassport' = Popup("Create", FALSE)
    /\ UNCHANGED <<page, keyList, newKey, passportList>>

(* Esc leaves the settings; the page of messages looks at no key.          *)
PressInOthers ==
    /\ \/ Press("Messages") /\ UNCHANGED focus
       \/ Press("Settings") /\ Leave
    /\ Runs /\ UNCHANGED <<page, keyList, newKey, passportList, newPassport>>

-----------------------------------------------------------------------------
(* Ctrl-c, the sessions' tasks, and another start.                         *)

CtrlC ==
    /\ At("input") /\ Ends("left")
    /\ UNCHANGED <<disk, keys, currentKey, passports, currentPassport,
                   network, starts, turn, ui>>

Task ==
    /\ outcome = "running"
    /\ Outbound \/ Shutdown \/ \E m \in Incoming : Inbound(m)
    /\ UNCHANGED <<disk, keys, currentKey, passports, currentPassport,
                   refused, outcome, starts, turn, ui>>

Restart ==
    /\ outcome # "running" /\ starts < MaxStarts
    /\ starts' = starts + 1
    /\ Loaded
    /\ turn' = "newKey" /\ page' = 1 /\ focus' = <<>>
    /\ keyList' = FirstKeyList /\ newKey' = FirstNewKey(files)
    /\ passportList' = FirstPassportList /\ newPassport' = FirstPopup

Next ==
    \/ UpdateNewKey \/ SelectKey \/ UpdateNewPassport \/ ListPassports
    \/ Process \/ Tick \/ PressTab \/ PressInKeys \/ PressInNewKey
    \/ PressInPassports \/ PressInNewPassport \/ PressInOthers \/ CtrlC
    \/ Task \/ Restart

Spec == Init /\ [][Next]_vars

-----------------------------------------------------------------------------
(* What the code must keep                                                 *)

(* Every variable has its type, and the app, its network and the pages     *)
(* point at keys and sessions they hold.                                   *)
TypeOK ==
    /\ IsTable(db.public_key, PublicKeys, Names \cup {NoName})
    /\ files \subseteq PublicKeys
    /\ keys \in Seq([key : PublicKeys, alias : Names \cup {NoName}])
    /\ currentKey \in 0..Len(keys) 
    /\ currentPassport \in Blocks \cup {NoPassport}
    /\ session.key \in PublicKeys \cup {"none"}
    /\ Len(session.out) <= OutCap /\ Len(session.in) <= MaxIncoming
    /\ refused \in BOOLEAN /\ outcome \in Outcomes /\ starts \in 1..MaxStarts
    /\ page \in 1..4 /\ newKey \in KeySteps \cup {"none"}
    /\ newPassport.step \in PassportSteps \cup {"none"}
    /\ \A l \in {keyList, passportList} : {l.selected, l.cursor} \subseteq 0..Beyond

(* What a key press goes to is there: the page whose tab is shown, or the  *)
(* popup opened over it.  Otherwise the press reaches an `error !` and the *)
(* user can only leave.  The popup of passports goes away when the current *)
(* key changes: never while it has the focus.                              *)
FocusHasTarget ==
    At("input") /\ focus # <<>> =>
        /\ focus[1] = Titles[page] /\ Len(focus) <= 2
        /\ Len(focus) = 2 =>
            \/ focus[2] = "widget::NewKey" /\ page = 1 /\ newKey # "none"
            \/ /\ focus[2] = "widget::NewPassword" /\ page = 2
               /\ newPassport.step # "none"

(* When the user sees the screen, all of the client acts for one key: the  *)
(* session, unless its making was refused, was opened under the current    *)
(* key, when that is not locked; the passports listed and the current one  *)
(* are of that key.                                                        *)
ActsForOneKey ==
    At("input") =>
        /\ AtKey \in PublicKeys /\ ~refused => session.key = AtKey
        /\ currentPassport # NoPassport => Author[currentPassport] = AtKey
        /\ \A id \in Range(passportList.ids) : Author[id] = AtKey

(* The passports in memory are those of the database, what is sent to the  *)
(* node was stored before, and whatever came from the node, everything     *)
(* stored can be loaded by the next start.                                 *)
StoredFirst ==
    /\ \A id \in DOMAIN passports :
        id \in DOMAIN db.passport /\ passports[id] = db.passport[id]
    /\ \A i \in DOMAIN session.out : session.out[i].id \in DOMAIN db.passport
    /\ \A id \in DOMAIN db.passport : FromBlocks(db.passport[id]) # <<>>

(* A client with a key in its selection keeps one there.  It may then      *)
(* panic only over an empty list of passports or over the clipboard, when  *)
(* the key under the cursor is the one selected, and want a key to sign    *)
(* with only for one that is locked or whose alias the database lacks.     *)
KeySelected ==
    keys # <<>> /\ keyList.selected < Len(keys) /\ keyList.cursor < Len(keys)
EndsForAReason ==
    [][KeySelected /\ outcome = "running" =>
        /\ KeySelected' /\ outcome' # "noSuchKey"
        /\ outcome' = "panicked" =>
            \/ Last(focus) = "Passports" /\ passportList.ids = <<>>
            \/ Last(focus) = "Keys" /\ CopiesKey
        /\ outcome' = "noSigningKey" =>
            AtKey = "locked" \/ Alias(AtKey) = NoName]_vars

=============================================================================
