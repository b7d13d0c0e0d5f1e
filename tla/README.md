# A TLA+ model of asmtp

asmtp is a peer to peer messaging system: nodes (`asmtpd`) keep connections
with each other, gossip about the peers they know, relay the messages published
on topics, and keep messages and passports for their users, who connect with
`asmtp-client`. This directory models the sessions between peers, what the
nodes do with connections, gossips and messages, what they store, and the
client with its user interface; it checks the models with TLC and proves with
TLAPS, for every value of the constants, all of what it checks but liveness.

## The system

| part | source | state | operations | correct when |
|---|---|---|---|---|
| Connections | `asmtpd/src/network/connections.rs` | `to`: LRU cache from peer to command sender, behind a Mutex; one task per connection with a command channel of 8; one bounded inbound queue | accept, get_or_connect, send, send_all, send_gossips, send_to_peer, receive; per task: handshake, register, read, run commands, unregister | an entry leads to a live connection of its peer; messages keep order, sender and recipient; unused connections close; nobody waits for ever |
| Gossip scheduling | `asmtpd/src/network/mod.rs` (`GossipCache`) | queue of interests, LRU history of the gossips sent | register_interest, next_gossip_peer, refill by the runner | no peer is gossiped with too often, none is forgotten, the node does not fall silent |
| Message cache | `asmtpd/src/network/mod.rs` (`MessageCache`) | set of fingerprints in order of arrival | check | a message is relayed once, and spreading ends |
| Runner | `asmtpd/src/network/mod.rs` (`Runner`) | the loop and its `select!` | startup, beat, commands, handle_message | it always comes back to its loop |
| Topology | `asmtpd/src/network/topology.rs`, poldercast | profiles and layers behind a Mutex | subscriptions, accept_gossip, gossips_for, view_for, demote | it knows the peers that can be reached |
| Session | `asmtp-network/src/`: `net.rs`, `opening.rs`, `accept.rs`, `codec/encryption.rs`, `handle.rs` | how far each end of the noise IK handshake got; decoder state and buffer of each direction | connect, accept, check_id, encode, decode, poll | both ends agree on identities and version; messages come out as they went in, over any segmentation |
| Message format | `asmtp-network/src/message.rs` | none | constructors, try_from_slice and the readers of each type | what a constructor makes is read back as it is |
| Database | `asmtp-storage/src/lib.rs`, migrations | contacts, passports, keys, threads, messages and the links between them | insert, update, replace, delete, query, each one statement | nothing refers to a row that is gone; what is new has nothing linked to it |
| Node storage | `asmtpd/src/storage/` | SQLite database, sled tree of gossips, the set of users | handle_incoming_message, put_passport, get_passport, put_topic, remove_topic, query, gossips | passports stay valid chains under their hash, messages are kept and, while they are known, stored once, what is stored survives a restart and can be loaded |
| Importer | `asmtp-lib/src/passport_importer.rs` | the passport so far, blocks waiting for their parent | new, put_block, load, finalize, from_blocks | every chain imports, whatever the order of its blocks |
| Client | `asmtp-client/src/app/`, `ui/`, `bin/` | key files and database, keys and passports in memory, one session with its task, the pages and popups | key presses, updates of the pages, messages of the node, start | everything acts for the key the user selected; nothing is sent that is not stored; the program ends only when it is told to |

Runner and connection tasks are tokio tasks. They share the Mutex around `to`
and talk through channels: the runner sends into the command channel of a
connection, every connection sends into the one inbound queue, which only the
runner reads. The Runner, alone, owns both caches of `mod.rs`; it reaches the
storage by direct calls. Nodes reach each other through the connections only,
and a connection is a session. A client has one session with one node at a
time, served by a task of its own behind two bounded channels; its pages run in
one loop that also takes the messages of the node, one at a time. Node and
client each own a database, and both import passports with the importer.

What is hard here is the interleaving of the runner with the tasks (an entry
that is looked up, replaced, evicted or closed while a send waits for room),
everybody waiting for everybody through two kinds of bounded queues, caches at
their limits, messages that come back over cycles of the network, restarts that
empty what is kept in memory, decoders that stop in the middle of a frame, one
statement of several failing, and sequences of key presses nobody tried.
`PROJECT.json` lists each hazard with its line and the properties that look at
it; for the few without, it says why.

## Modules

* `Lru` is the external `lru::LruCache` as a sequence of entries, the most
  recently used first: `Put`, `Pop`, `Promote` (a `get`), `Lookup`.
* `Connections` is `connections.rs` and the calls the runner makes on it.
  `to` is the cache; `phase[c]` says how far the task of connection `c` got:
  `connecting` (in `connect`, dialling), `accepting` and `admitted` (in
  `accept`, before and after the identity check), `live` (in `Runtime::run`),
  `closing` (its loop has ended, the receiver is dropped), `done`. `cmds[c]` is
  its command channel, `hand[c]` the message it read and waits to queue,
  `writing[c]` what it still has to write of the command it took. `pc`
  is where the runner is: in its `select!`, at the next node of a `send_all`
  (`nodes`), waiting for room in a channel (`sending`), answering a query
  (`replying`), waiting for its own lock (`locked`), or gone (`stopped`).
  Every critical section of the Mutex is one action, because the code never
  awaits in one; the two that lock it again are the action `Relock`. A message
  sent is a number, so that order can be told; `wire`, `handled` and
  `addressed` are history variables no guard looks at.
* `PeerMessaging` is the abstract specification: connections bound to one peer
  each, messages addressed to peers, delivered in order over one connection at
  most or lost, and messages read that are handled in order once or lost. It
  knows no cache, lock, task or channel. `Connections!ImplementsMessaging` is
  the refinement (`owner <- peer`, `delivered` from `wire`).
* `GossipCache` is the cache of that name with the loop that drives it. Time is
  the age of each event, up to `MinElapsed`, beyond which nothing depends on it.
* `Dissemination` is `MessageCache::check` and the topic branch of
  `handle_message` for a network of nodes: messages under way, a cache per
  node, the messages stored; messages get lost and nodes restart.
* `Messages` is `message.rs` on lengths: a message is its type and the size of
  its variable part, its bytes the code of the type and how many follow.
  `Code` and `TryFromU8` are the two conversions of the type, `New` stands for
  the constructors, `TryFromSlice` and the seven operators it chooses among for
  the readers. An error is `Invalid`; an `unwrap` or assertion that fails is
  `Panic`.
* `Session` is a session from the address of a peer to the end of its streams.
  `trying` and `outcome` are `net.rs`: the address `connect` is at and what it
  returned. `host[a]` is who listens there. `phase[<<a, s>>]` is how far side
  `s` of connection `a` got in the handshake, `remote` whom it authenticated,
  `hello` its handshake message. `flow[<<a, s>>]` is the stream that side
  writes, with the reader of the other side: messages sealed (`said`), the
  frames in the order of their bytes (`frames`), bytes that arrived (`got`) and
  were taken out of the buffer (`used`), the state of the decoder (`need`: 0
  for `Head`, n for `Data(n)`), what `FramedRead` made of it (`status`) and the
  messages it yielded (`heard`). `Resolve`, `Dial`, `Accept`, `Handshake`,
  `Wait`, `HandshakeCut`, `Timeout` are the steps of connecting; `Send`,
  `Transfer`, `Poll`, `EndOfStream`, `Close` those of an open session.
  `DecodeHead`, `DecodeData` and `Decode` are the functions of that name.
* `Fifo` is the abstract specification of a session: on each channel messages
  arrive as sent, in order, each once. `Session!ImplementsFifo` is the
  refinement.
* `Tables` is `asmtp-storage`: each table a function from its primary key, each
  method an operator that gives the tables it leaves, or `Fault` when its
  statement breaks a constraint. `Database` is the component: any method, at
  any time, from any clone of `Storage`.
* `PassportImporter` is the importer: `NewOwned`, `PutBlock`, `Load` with its
  queue `Resolve`, `Finalize`, `FromBlocks`. Both the node and the client
  extend it.
* `NodeStorage` is `storage/mod.rs` and `storage/gossips.rs` with the branches
  of the runner's `handle_message` that call them. `db` is the database,
  `known` the cache of known messages, which `Cut` cuts before each look,
  `saved` the sled tree, `answer` what the last step sent back, `seen`
  (history) the contents that came since the start. `HandleTopic`,
  `HandleKnown`, `HandleQuery`, `HandleGetPassport`, `ReceivePutPassport`,
  `PutTopic`, `RemoveTopic`, `UpdateKnownGossips` are the handlers, `Execute`
  lets a statement fail; `Stop` and `Start` are crash and restart.
  `NodeStorage!ImplementsDatabase` says that whatever the node does is one call
  of `Database`, done or not, at a time.
* `Client` is `app/mod.rs` and `app/network.rs`: `db` and `files` on the disk,
  `keys`, `currentKey`, `passports`, `currentPassport` of `App`, `session` and
  `refused` (`connection_failure`) of `Network`, `outcome` why the program
  ended. `ClientUi` composes it with the pages: `turn` is where the loop of the
  program is, `focus` the stack of titles, `keyList` and `passportList` the
  positions in the two lists, `newKey` and `newPassport` the steps of the two
  popups. `UpdateNewKey`, `SelectKey`, `UpdateNewPassport`, `ListPassports` are
  the four updates of a turn in their order, `Process` takes a message,
  the `Press...` actions are the key presses by what has the focus, and `Task`
  is what runs beside the loop.
* `ConnectionsProofs`, `GossipProofs`, `DisseminationProofs`,
  `DatabaseProofs`, `NodeStorageProofs`, `SessionProofs` and `ClientProofs`
  hold the proofs about the components, `DataProofs` those about the operators
  several of them use: the cache, the tables, the importer.
* `MCConnections`, `MCGossipCache`, `MCDissemination`, `MCSession`,
  `MCNodeStorage` and `MCClient` add the symmetry sets, links, messages and
  passports of the instances TLC checks.

A definition named like another with a word more (`WriteMessageAgain`,
`CheckedForgets`) and introduced as a mutant is a plausible mistake in that
definition. No specification uses it: it shows that a property notices.

## Runs

| run | what it asks | answer |
|---|---|---|
| connections_registry | entries lead to live connections of their peer and leave for a reason only; what is sent goes to its peer, in order on each connection, no message over two | holds |
| connections_messaging | what is read is handled in order, once, under its sender's name; refinement of `PeerMessaging` | holds |
| connections_closing | an evicted inbound connection closes, unless it waits in a write for ever; the entry of a closed one goes | holds |
| connections_lock | the Mutex is always released | fails: a closed entry makes the runner lock it twice |
| connections_heartbeat | with peers that read, a send ends | fails: the runner waits for room in the channel of a task that waits for room in the inbound queue |
| gossip | two gossips to a peer are `MinElapsed` apart; the queue is bounded; interests come up again and again | holds if the history has room for all peers |
| dissemination | a message is new to a node once if its cache has room, the oldest fingerprints stay in any cache, and spreading ends | holds with one roomy node on each cycle |
| dissemination_full | spreading ends, with full caches | fails: the newest fingerprint is forgotten first |
| session | identities agree; the first address that works is used; reader and writer keep step over any segmentation, with cuts and a message that cannot be sealed; refinement of `Fifo`; what is sent is heard; connecting ends | holds |
| node_storage | passports are filed under their hash and only grow, messages are kept, and stored once unless the cache of known messages may be full; no answer is too old or of another topic; refinement of `Database` | holds |
| node_import | stored passports can be loaded | fails: the importer never counts its first block as added |
| client | a key press has a target; session, passports and current passport belong to the current key; what is sent was stored; the client ends only for the reasons known | holds |

The runs that fail are the findings of `PROJECT.json`: each says what a line of
the repository promises and what the code does.

Some more limits of the code shape the properties that hold. The task of a
connection the node dialled owns a sender of its own command channel
(`connections.rs:111`), so its eviction from the cache does not close it:
`EvictedInboundCloses` is about accepted connections, and of these about those
that do not wait in a write for ever: a task awaits the write and the flush of
each message to the socket (`connections.rs:252`, `260`), and a peer that does
not read keeps it there, away from the other branches of its `select!`. A full
channel of such a task makes the runner wait too, a second way to the end of
its beats beside the one `connections_heartbeat` shows. Until a handshake is
done there is no entry, and each send dials a connection with a channel of its
own: there the runner does not wait. And gossip interests are
taken newest first (`mod.rs:92`): an old one can wait for ever while newer ones
arrive, so that `NeverSilent` promises some peer its turn and not each.

The properties of the storage and of the client are what is left to promise
once the following is known. It is modelled as it is:

* The cache of known messages looks at the content only: a content sent to two
  topics is dropped for the second. Once it is full the newest content is
  forgotten at the next look, and that message is new and stored when it comes
  again: `StoredOnceUnlessFull` is about the time before, `dissemination_full`
  about what comes of it. Any user may deregister a topic, which removes the
  messages of everybody. A query compares times as texts, "2021-05-01 10:00:00"
  with "2021-05-01T10:00:00+00:00", so that messages of the day asked for are
  never found: `AnswersAreLater` promises that none is too old, not that all
  are there. `threads_of_key` (`asmtp-storage/src/lib.rs:460`) names a column
  that is not there and always fails. The sled tree is opened as temporary,
  without a path, so that a start finds no gossips, where
  `asmtpd/src/storage/config.rs:19` speaks of keeping them in between restart.
  Nothing calls `update_subscriptions`.
* The importer's first block is never in `added`, so that a passport of two
  blocks stays pending (run `node_import`). A node therefore adds one block to a
  passport and no second; a client would not start again with such a passport,
  and never stores one for the same reason (`StoredFirst`).
* In the client, with no keys, Down on the page of keys panics, and Enter too,
  although the popup shown says "Next (<Enter>)": it gets the focus only by
  `+`. Enter on the key that is selected copies it to the clipboard and panics
  where there is none (`ui/pages/keys.rs:60`). Up with no keys makes the
  position `usize::MAX`, and the client ends once the first key is created.
  Down on an empty list of passports panics. Creating a passport without a key,
  with a locked one or with one whose alias the database does not have ends the
  client; a crash between the file of a key and its row leaves such a key. The
  page of messages cannot be left but by Ctrl-c. After a failed connect, or
  with a locked key selected, the session of the former key stays in use, and a
  failed connect is not tried again: `ActsForOneKey` holds where
  `connection_failure` does not say so. A message of a topic ends the client,
  which never makes a thread, and so does the second answer with a passport
  that is not in memory. Answers about known passports are compared with the
  lengths the wrong way round: the client sends its own when it is the shorter
  one. A message that finds no room to be sent is dropped. The selection is a
  position in a set whose order an insertion may change.

`FocusHasTarget` and `EndsForAReason` say what holds nevertheless: with a key
selected the selection stays on a key, and, failing files and statements aside,
no press ends the client but Ctrl-c, Down on an empty list of passports, Enter
on the selected key where the clipboard fails, and the last one of creating a
passport with a key that cannot sign.

Bounds. `MaxOpened` is smaller than the number of peers, and there are more
connections than entries, so that evictions, replacements and several
connections with one peer happen. (206,957, 820,897 and 86,574 states for
registry, messaging and closing.) Channels and queues have room for one or two,
so that they are full and that order inside them matters; the code's 8 and 64
only delay both. `MaxReads` and `MaxIssued` bound the messages: two make an
order, and let two connections compete for one peer's messages. The gossip run
has four peers and a queue of three, so that the queue overflows; ages run to
2, so that there is a time between now and long ago. Three nodes make the
shortest cycle on which a message comes back to a node that did not just send
it; caches of three, two and one for two messages are one that never fills, one
that keeps its first entry, and one that keeps nothing.

A session has two addresses, so that one can fail before the other; three keys,
so that somebody else may listen at an address; two releases, one of which does
not support the other. The first address sends nothing: it is about handshakes
and what follows a failed one. At the second, two messages go one or both ways:
the frame after the one in question, and the frame lost, are the hard cases.
Sizes are scaled down in their order (`SizesAssumption`, `HeadSize <= MacSize`):
a content that fits a message and not a frame, and segments that end at every
byte of a frame. No message of the run fills a frame exactly; that boundary is
in `ReadsBack` and `SessionIsFifo`, proved for all sizes. 146,712 states.

The node has a passport of two blocks, put whole, in part, without its head or
under another hash; the first is also a topic, as the topic of a passport is.
`MaxMessages`, the largest row number, is three, `MaxStarts` two and `MaxKnown`
two, as many as there are contents: the cache is empty, half full and full, and
a message comes back after it was stored, deregistered, cut out of the cache and
after a restart. The times lie on one day and on the next. 522,384 states. The
same bounds find the violation of `node_import`.

The client has a key whose file may be there at first, unknown to the database
as after a crash, and one it can create; a passport it can make and one only
the node has; two starts. Its channel to the session has room for one and one
message waits to be processed, so that sends are dropped and messages outlive
their session. `Beyond` stands for the positions below `usize::MAX`, of which
nothing but that they are past every list matters. 3,963,011 states; a longer
instance with a third, locked key (`PublicKeys = {old, fresh, locked}`,
`OldKeys = {old, locked}`, `Beyond = 4`, 10,214,077 states) holds as well. In
the instance of the list no key is locked.

`CHECK_DEADLOCK FALSE` stands where the model may stop: the runner stops on its
shutdown command, a session closes, a node or client stops for the last time,
and the messages of an instance run out.

Fairness. A tokio task that can run is polled in the end, and a channel wakes
the task that waits for room or for a message: weak fairness of the steps of
the connection tasks that need nobody else, of the steps of the runner, and of
the runner taking a message that waits, as `select!` picks at random among
ready branches; a task that waits in its `select!` takes a command, too.
Nothing is assumed of peers: a handshake may hang, a connection may stay
silent, a message may never be read (`WriteMessage` and `WriteFails` have no
fairness), nobody needs to publish. In `GossipCache` the heart beat wakes the
loop, time passes, the start-up ends, and (strongly fair) the topology comes to
have a peer. In `Dissemination` a node handles what reached it. In `Session`
the name is resolved or not, the handshake of each connection goes on while it
can, and each stream is transferred, read and ended: TCP delivers, and the
futures are polled when bytes come. Nothing obliges a side to send or to close.
What a host that accepts the TCP connection does afterwards is its handshake
here, so that `ConnectEnds` is about hosts that go on or go away; one that
keeps silent is what the caller's timeout is for, and `Timeout` needs no
fairness for it. No liveness is claimed of the client or of the node's storage:
their steps wait for users and peers.

## Proofs

All are checked by TLAPS for every value of the constants that the assumptions
at the end of this section allow.

`DataProofs` is about operators. Of the LRU cache: `Put`, `Pop` and `Promote`
keep the type, the uniqueness of the keys and the capacity, and bring in no
entry but the one put; `Pop` loses no entry but its key's, `Promote` none,
`Put` besides its key's only the last of a full cache. Of the tables: a number
that is given next is not in use, and what insertion, deletion and update
leave. Of the importer: `OnlyFirstBlocksImport`, that it accepts a sequence of
blocks exactly when it is a single first block. That is the finding of
`node_import` for every chain. It is about a fold, and no induction theorem of
the library can be used on one: the recursive function a fold stands for is
shown to exist by a smallest counterexample (`PutFunctionExists`), and then to
hold an importer with a block pending, whatever came before the last block.

`ConnectionsProofs` goes in four layers, each an inductive invariant on top of
those before.

* `ConnectionsInv`: the type invariant, what the control state says of the data
  (`ControlOK`, for instance that a connection past its handshake has a peer),
  `RegistryAuthentic`, and `RegistryBounded`, which the operators of the cache
  keep. It gives `ConnectionsTypeCorrect`, `RegistryIsAuthentic` and
  `ConnectionsEntriesLeave`. `RegistryAuthentic` needs the other: a task that
  ends removes the entry of its *peer*, not its own; that no entry leads to the
  ended task afterwards holds because the cache has one entry per peer and each
  entry is filed under the peer of its connection.
* `ReachInv`: nobody holds a sender to a connection that has no peer yet, and
  what is queued, or waits for room, was addressed to the peer the connection
  has from then on: `CommandsAreForTheirPeer`. A wait that outlives the entry
  it came from stays harmless for that reason.
* `InInv`: the property itself (the messages a connection read are, in this
  order, handled, queued, in the hand of its task), that a connection without a
  peer has read nothing, so that the check of the identity moves no message
  to another sender, and that a runner that stopped has no queue:
  `InboundKeepsOrder`.
* `OutInv`: what a connection carries, written, in the hand of its task and in
  its channel, is one increasing line (`LineInOrder`), and the lines of two
  connections with one peer share nothing (`LinesInOrder`). For this to survive
  a send it must be known that the message under way is newer than all that any
  connection with its peer carries (`SendIsNewest`), and before a node's turn
  comes in `send_all`, that it is newer than all that was meant for that node
  (`SendsInOrder`): no peer is twice in a view. `OutboundKeepsOrder` follows.

All four together give `ConnectionsImplementMessaging`: each step of runner and
tasks is a step of `PeerMessaging` or none of its business. What takes an
argument is a write: what was dropped before it is lost, which `PeerMessaging`
may do, and what is written goes out after what was, over one connection only,
which is `LinesInOrder`.

`GossipProofs`: `GossipTypeCorrect`, `QueueIsBounded` and `GossipsAreSpaced`.
The time is checked when an interest is registered, the gossip goes out later;
`SpacingInv` carries the check across the wait. Everybody in the queue was not
gossiped with for `MinElapsed`, everybody who was is in the history, with an
age that is no greater than the true one (the history also records gossips that
found no profile to send to), and who is gossiped with leaves the queue in the
same step. That the history forgets nobody is where its room for all peers is
used: with less, a peer whose entry is evicted can be gossiped with again at
once.

`DisseminationProofs`: `DisseminationTypeCorrect` and `OldestAreNeverTwice`
from `DisseminationInv`, whose extra part `CacheComplete` says that while the
last two slots are free the cache holds all the node took for new, so that a
message landing below the last slot was never seen before.
`NothingIsTakenTwice` adds `RoomInv` about the nodes whose cache is larger than
the number of messages: the entries of such a cache differ, so there is always
room, so nothing is ever cut.

`DatabaseProofs`: `DatabaseReferences` and `DatabaseFreshIsBare`, by a case for
each method. Both need that row numbers are natural numbers below a largest
one, as `NextId` may give the number of a deleted row again: that nothing
refers to it any more is `References`, so that `FreshIsBare` is proved from it.

`NodeStorageProofs`. Of the messages: `NodeReferences`, `NodeMessagesKept`,
`NodeAnswersAreLater` and `NodeStoredOnceUnlessFull`. Every step keeps messages
and threads, adds one message, or removes a thread with its messages.
`Remembered` is the strengthening of the last: while fewer contents came than
the cache has room for, it holds each of them once, so that it was never cut and
what came is found in it. Of the passports: `NodePassportsFiled` and
`NodePassportsOnlyGrow` from `PassportsOK`, which adds their type: a passport
that is put is one block by `OnlyFirstBlocksImport`, and is refused when it is
there already; a block that comes on a topic is added at the end of a passport
that could be imported. `NodeTypeCorrect` and
`NodeImplementsDatabase` close the proof. In the refinement every handler turns
out to be one call of one method; what takes an argument is a block for a
stored passport: it is the second of two, which `Database` lets a caller pass.

`SessionProofs`: `TypeCorrect`, `Authentication`, `TriedInOrder`, `Alignment`,
`ErrorsCaused`, `EndsClean`, `NothingAfterError` and `SessionIsFifo`, for any
number of addresses, keys, releases, messages and any sizes in the order
assumed. The inductive invariant `SessionInv` is the type invariant, `Control`
(for each address, which phases of both ends go together with `trying`,
`outcome` and both handshake messages) and `Streams`. The latter says of each
stream that the frames lie one behind the other (`Laid`); that their nonces
count up to the first that was not sealed and go on one behind after it
(`BreaksAt`); that what was heard is a prefix of what was said; and where the
reader is: at the start of the next frame or behind its length (`InStep`) while
it had no error, past the frame that was not sealed afterwards (`Lost`). `Lost`
is why nothing is opened any more after an error: the nonce the reader waits
for belongs to a frame that starts before its position. This needs `HeadSize <=
MacSize`, 2 and 16 in the code: the reader takes as many bytes as the unsealed
message would have had, at least `MacSize`, and must by that be past the start
of the next frame. `ReadsBack` is the fact about `message.rs`: the readers make
of the bytes of every message that fits a frame that message.

`ClientProofs`: `ClientTypeCorrect`, `ClientFocusHasTarget`,
`ClientActsForOneKey`, `ClientStoresFirst` and `ClientEndsForAReason`, from one
inductive invariant of five parts.

* `KeysInv`: every key in memory has a file, there are no more keys than files,
  and each has the alias the database has for it, unless it is locked.
* `StoreInv`: every stored passport is of one block, by
  `OnlyFirstBlocksImport`; what is in memory and what waits to be sent is
  stored. With that, the next start loads every passport there is.
* `UiInv` types the pages and popups.
* `FocusInv` follows the turns of the loop. The key that is current and the one
  selected differ only between a press and the next `SelectKey` (`Settled`). The
  popup of a passport keeps the focus because, while it is open, the key it was
  opened for stays current: no press moves the selection, and a first key can
  only be created in the other popup.
* `OneKeyInv`: the session is of the current key at once, unless the connection
  was refused; passports and current passport are so again when
  `ListPassports` has run, before the user sees the screen.

`ClientEndsForAReason` needs `FocusInv` too: where a passport is created the key
selected is the current one, so that there is one, and only a locked key or one
without an alias can keep it from signing; `KeysInv` makes the alias in memory
the one of the database. `ClientLinksAreOfAuthor` is about the tables that no
run looks at: a passport is linked only to the key that made its first block,
and both rows are there, wherever a creation was cut off between its statements;
threads, messages and contacts a client has none.

The assumptions are the named `ASSUME`s of the modules. Capacities are at least
one and bounds are natural numbers. (The code accepts a capacity of zero from
its configuration; `check` then never returns.) The sets of peers, messages,
contents, keys and blocks are finite, as hashes and identifiers have a length
and contents a largest one. A node is started at least once. In the client the
two texts that stand for no key and for a locked one are no keys; its `Blocks`
are those it makes passports of, the ones without a parent; and the passports a
node sends it are sequences of blocks, as the type of the message has it.
`Beyond` is past the end of every list. `HeadSize <= MacSize` is the one about
sessions explained above.

Only model-checked: liveness, which needs fairness and `ENABLED`, out of the
prover's reach: `EvictedInboundCloses`, `ClosedIsForgotten`, `NeverSilent`,
`SpreadingEnds`, `SentIsHeard` and `ConnectEnds`. The four violations are
counterexamples of TLC. No module declares a recursive operator.

## Abstractions

* In `Connections` the handshake is its outcome; `Session` has its steps. The
  identity of an accepted peer is any peer; of a dialled one, the one dialled,
  which `Authentic` justifies.
* A read error that the task only logs is a read that brings nothing.
* keynesis is external: a handshake message can be read by whom it is addressed
  to, a ciphertext opens when its bytes are all of it and it is the next one, a
  passport accepts a block whose parent it holds.
* tokio-util's `FramedRead` may go on polling after an error or end the stream:
  releases differ, so both happen.
* poldercast's topology is the set of known peers and any view of at most two
  of them; a profile may appear by a gossip and disappear by a failed connect.
* Two copies of one message under way between the same nodes count as one.
* The outcome of the storage is success or failure, of any message, in
  `Dissemination`; in `NodeStorage` any statement may fail.
* A press of a key that nothing looks at is a turn without a press, `Tick`, or,
  where it closes a popup, one of the steps of `MoveIn`.
* A block is known by its hash, a passport by that of its first block, the topic
  of a passport is that hash. Dates are left out but for those of messages.
* Of the clipboard only that it may fail is kept. Of a passphrase only whether
  it equals its confirmation is kept.

## Not modelled

* The methods of the database that read a table as it is (`contacts`,
  `passports`, `keys`, `key`, `contains_tread`, `threads`, `messages`) have no
  operator: who uses one reads the table. `threads_of_key` and
  `messages_of_key` have no callers.
* Message identifiers (`asmtp-lib/src/message_id.rs`): a conversion whose only
  callers are modules that no `lib.rs` declares. The same holds of the passport
  exporter and of the unused database modules: they are not compiled.
* Configuration and secrets, the binaries of the node, the derivation of keys
  from passphrases: parsing, formatting and cryptography, without state that
  changes. `Key::passphrase` of the client has no callers, so that a locked key
  stays locked.
* The layers of the topology: they live in poldercast. Subscriptions only steer
  its selection.
* Layout, drawing, the text typed, the cursor of the settings.
* The runner as one loop: each module has the branches that concern it, and no
  module composes them. What they share is the order of handling, which no
  property of one branch depends on; an error of one branch that ends the loop
  is `Stop` in the others.

## Plan

Done: connections, gossips and dissemination; sessions with messages and
framing as a refinement of a FIFO; the database and the node's storage over it;
the importer; the client with its user interface; for each of them the proofs
of every invariant, action property and refinement that a run checks.

Next, in this order:

1. The runner as one loop over connections, gossips and storage, with what its
   end leaves behind.
2. `MessageId` (`asmtp-lib/src/message_id.rs`), should it get a caller.
