------------------------------ MODULE Messages ------------------------------
(***************************************************************************)
(* The format of a message (asmtp-network/src/message.rs): one byte for    *)
(* the type, then fields.  What can go wrong with it depends on lengths    *)
(* alone, so a message is its type and the size of its variable part, and  *)
(* its bytes are the code of the type and how many bytes follow it.        *)
(***************************************************************************)
EXTENDS Naturals, Sequences

CONSTANTS
    IdSize,      \* Topic::SIZE and Hash::SIZE, 32 both
    TimeSize,    \* Time::SIZE, 4
    MinGossip,   \* the smallest gossip poldercast accepts
    MinBlocks,   \* the smallest slice of passport blocks keynesis accepts
    MacSize,     \* the bytes encryption adds, 16
    MaxFrame     \* MAX_FRAME_LENGTH, 65533

ASSUME SizesAssumption ==
    /\ {IdSize, TimeSize, MinGossip, MinBlocks, MacSize} \subseteq Nat \ {0}
    /\ MinGossip >= IdSize           \* a gossip holds the id of its node
    /\ MaxFrame \in Nat
    /\ MaxFrame > MacSize + 1 + IdSize + TimeSize

Code == [Gossip |-> 1, Topic |-> 2, PutPassport |-> 3, GetPassport |-> 4,
         RegisterTopic |-> 5, DeregisterTopic |-> 6, QueryTopicMessages |-> 7]

TryFromU8 == <<"Gossip", "Topic", "PutPassport", "GetPassport",
               "RegisterTopic", "DeregisterTopic", "QueryTopicMessages">>

MinSize == 1 + IdSize
MaxSize == MaxFrame - 1

Message == [type : DOMAIN Code, size : Nat]
Invalid == [type |-> "an error", size |-> 0]
Panic == [type |-> "a panic", size |-> 0]

(* What the constructors can be given: fields that are valid by their type.*)
Constructible ==
    {m \in Message :
        CASE m.type = "Gossip" -> m.size >= MinGossip
          [] m.type = "PutPassport" -> m.size >= MinBlocks
          [] m.type = "Topic" -> TRUE
          [] OTHER -> m.size = 0}

(* The constructors: the fields of a fixed size, and the variable part.    *)
New(m) ==
    [code |-> Code[m.type],
     rest |-> m.size +
        CASE m.type = "Gossip" -> 0
          [] m.type = "QueryTopicMessages" -> IdSize + TimeSize
          [] OTHER -> IdSize]

Length(bytes) == 1 + bytes.rest

(* The readers, each on the number of bytes that follow the type.  That of *)
(* a query unwraps the conversion of what follows the topic into a time.   *)
Read(type, size, valid, otherwise) ==
    IF valid THEN [type |-> type, size |-> size] ELSE otherwise

GossipChecked(rest) == Read("Gossip", rest, rest >= MinGossip, Invalid)

TopicCheckedStrict(rest) ==
    Read("Topic", rest - IdSize, rest > IdSize, Invalid)

TopicChecked(rest) == Read("Topic", rest - IdSize, 1 + rest > IdSize, Invalid)

GetPassport(rest) == Read("GetPassport", 0, rest = IdSize, Invalid)

PutPassport(rest) ==
    Read("PutPassport", rest - IdSize, rest - IdSize >= MinBlocks, Invalid)

RegisterTopic(rest) == Read("RegisterTopic", 0, TRUE, Invalid)

DeregisterTopic(rest) == Read("DeregisterTopic", 0, TRUE, Invalid)

QueryTopicMessages(rest) ==
    Read("QueryTopicMessages", 0, rest - IdSize = TimeSize, Panic)

TryFromSlice(bytes) ==
    IF Length(bytes) < MinSize \/ bytes.code \notin DOMAIN TryFromU8
    THEN Invalid
    ELSE IF Length(bytes) > MaxSize THEN Panic
    ELSE LET type == TryFromU8[bytes.code]
         IN  CASE type = "Gossip" -> GossipChecked(bytes.rest)
               [] type = "Topic" -> TopicChecked(bytes.rest)
               [] type = "PutPassport" -> PutPassport(bytes.rest)
               [] type = "GetPassport" -> GetPassport(bytes.rest)
               [] type = "RegisterTopic" -> RegisterTopic(bytes.rest)
               [] type = "DeregisterTopic" -> DeregisterTopic(bytes.rest)
               [] type = "QueryTopicMessages" -> QueryTopicMessages(bytes.rest)

============================================================================
