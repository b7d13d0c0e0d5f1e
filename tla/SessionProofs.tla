--------------------------- MODULE SessionProofs ---------------------------
(***************************************************************************)
(* Proofs about Session: what each end believes of the other, and how the  *)
(* reader of a stream keeps step with its writer.                          *)
(***************************************************************************)
EXTENDS Session, SequenceTheorems, TLAPS

-----------------------------------------------------------------------------
(* Messages                                                                *)

(* What the readers make of the bytes of a message that fits a frame is    *)
(* that message (message.rs).                                              *)
THEOREM ReadsBack ==
    ASSUME NEW m \in Constructible, FitsFrame(Length(New(m)))
    PROVE  /\ m \in Message
           /\ TryFromSlice(New(m)) = m
           /\ Length(New(m)) \in Nat \ {0}
<1>1. m \in Message /\ m.type \in DOMAIN Code /\ m.size \in Nat
  BY DEF Constructible, Message
<1>2. m = [type |-> m.type, size |-> m.size]
  BY <1>1 DEF Message
<1>3. /\ IdSize \in Nat \ {0} /\ TimeSize \in Nat \ {0}
      /\ MinGossip \in Nat \ {0} /\ MinBlocks \in Nat \ {0}
      /\ MacSize \in Nat \ {0} /\ MaxFrame \in Nat /\ MinGossip >= IdSize
  BY SizesAssumption
<1>4. DOMAIN Code = {"Gossip", "Topic", "PutPassport", "GetPassport",
                     "RegisterTopic", "DeregisterTopic", "QueryTopicMessages"}
  BY DEF Code
<1>5. DOMAIN TryFromU8 = 1..7
  BY DEF TryFromU8
<1>6. /\ m.type = "Gossip" => m.size >= MinGossip
      /\ m.type = "PutPassport" => m.size >= MinBlocks
      /\ m.type \notin {"Gossip", "PutPassport", "Topic"} => m.size = 0
  BY <1>4 DEF Constructible
<1>7. /\ Code[m.type] \in 1..7
      /\ TryFromU8[Code[m.type]] = m.type
  BY <1>1, <1>4 DEF Code, TryFromU8
<1>8. /\ New(m).code = Code[m.type]
      /\ m.type = "Gossip" => New(m).rest = m.size
      /\ m.type = "QueryTopicMessages" => New(m).rest = m.size + IdSize + TimeSize
      /\ m.type \notin {"Gossip", "QueryTopicMessages"} =>
            New(m).rest = m.size + IdSize
  BY <1>1, <1>3 DEF New
<1>9. New(m).rest \in Nat /\ New(m).rest >= IdSize
  BY <1>1, <1>3, <1>6, <1>8
<1>10. /\ Length(New(m)) = 1 + New(m).rest
       /\ Length(New(m)) >= MinSize /\ Length(New(m)) <= MaxSize
  BY <1>3, <1>9 DEF Length, MinSize, MaxSize, FitsFrame
<1>11. TryFromSlice(New(m)) = m
  <2> DEFINE r == New(m).rest
  <2>1. CASE m.type = "Gossip"
    <3>1. TryFromSlice(New(m)) = GossipChecked(r)
      BY <1>5, <1>7, <1>8, <1>10, <1>3, <1>9, <2>1 DEF TryFromSlice, MinSize, MaxSize
    <3> QED BY <3>1, <1>2, <1>6, <1>8, <2>1 DEF GossipChecked, Read
  <2>2. CASE m.type = "Topic"
    <3>1. TryFromSlice(New(m)) = TopicChecked(r)
      BY <1>5, <1>7, <1>8, <1>10, <1>3, <1>9, <2>2 DEF TryFromSlice, MinSize, MaxSize
    <3> QED BY <3>1, <1>1, <1>2, <1>3, <1>8, <2>2 DEF TopicChecked, Read
  <2>3. CASE m.type = "PutPassport"
    <3>1. TryFromSlice(New(m)) = PutPassport(r)
      BY <1>5, <1>7, <1>8, <1>10, <1>3, <1>9, <2>3 DEF TryFromSlice, MinSize, MaxSize
    <3> QED BY <3>1, <1>1, <1>2, <1>3, <1>6, <1>8, <2>3 DEF PutPassport, Read
  <2>4. CASE m.type = "GetPassport"
    <3>1. TryFromSlice(New(m)) = GetPassport(r)
      BY <1>5, <1>7, <1>8, <1>10, <1>3, <1>9, <2>4 DEF TryFromSlice, MinSize, MaxSize
    <3> QED BY <3>1, <1>1, <1>2, <1>3, <1>6, <1>8, <2>4 DEF GetPassport, Read
  <2>5. CASE m.type = "RegisterTopic"
    <3>1. TryFromSlice(New(m)) = RegisterTopic(r)
      BY <1>5, <1>7, <1>8, <1>10, <1>3, <1>9, <2>5 DEF TryFromSlice, MinSize, MaxSize
    <3> QED BY <3>1, <1>1, <1>2, <1>6, <2>5 DEF RegisterTopic, Read
  <2>6. CASE m.type = "DeregisterTopic"
    <3>1. TryFromSlice(New(m)) = DeregisterTopic(r)
      BY <1>5, <1>7, <1>8, <1>10, <1>3, <1>9, <2>6 DEF TryFromSlice, MinSize, MaxSize
    <3> QED BY <3>1, <1>1, <1>2, <1>6, <2>6 DEF DeregisterTopic, Read
  <2>7. CASE m.type = "QueryTopicMessages"
    <3>1. TryFromSlice(New(m)) = QueryTopicMessages(r)
      BY <1>5, <1>7, <1>8, <1>10, <1>3, <1>9, <2>7 DEF TryFromSlice, MinSize, MaxSize
    <3> QED BY <3>1, <1>1, <1>2, <1>3, <1>6, <1>8, <2>7 DEF QueryTopicMessages, Read
  <2> QED BY <1>1, <1>4, <2>1, <2>2, <2>3, <2>4, <2>5, <2>6, <2>7
<1> QED BY <1>1, <1>3, <1>9, <1>10, <1>11

-----------------------------------------------------------------------------
(* Streams: what the writer leaves, and where the reader is in it          *)

Payload(frame) == IF frame.nonce = 0 THEN 0 ELSE frame.n

(* The frames follow one another from the end of the handshake, and the    *)
(* messages in them are among those a side may send.                       *)
Laid(f) ==
    /\ \A i \in 1..Len(f.said) :
        f.said[i] \in Sends /\ FitsFrame(Length(New(f.said[i])))
    /\ \A i \in 1..Len(f.frames) : f.frames[i].n \in MacSize + 1 .. MaxFrame
    /\ Len(f.frames) > 0 => f.frames[1].start = HelloSize
    /\ \A i \in 1..Len(f.frames), k \in 1..Len(f.frames) :
        /\ k = i + 1 =>
            f.frames[k].start = f.frames[i].start + HeadSize + Payload(f.frames[i])
        /\ i < k =>
            f.frames[k].start >= f.frames[i].start + HeadSize + Payload(f.frames[i])

(* Frame j is the first that was not sealed, or the next to come.          *)
BreaksAt(f, j) ==
    /\ j \in 1..Len(f.frames) + 1
    /\ \A i \in 1..Len(f.frames) :
        /\ i < j => f.frames[i].nonce = i
        /\ i = j => f.frames[i].nonce = 0
        /\ i > j => f.frames[i].nonce = i - 1
    /\ Len(f.said) = IF j > Len(f.frames) THEN Len(f.frames)
                     ELSE Len(f.frames) - 1

Heard(f) ==
    /\ Len(f.heard) <= Len(f.said)
    /\ \A i \in 1..Len(f.heard) : f.heard[i] = f.said[i]

InStep(f) ==
    IF f.need = AtHead THEN AtNextFrame(f, 0)
    ELSE /\ Len(f.heard) < Len(f.frames)
         /\ AtNextFrame(f, HeadSize)
         /\ f.need = f.frames[Len(f.heard) + 1].n

(* After an error: the data of the frame that was not sealed was taken,    *)
(* and with it the head of the next.                                       *)
Lost(f, j) ==
    /\ j \in 1..Len(f.frames) /\ Len(f.heard) = j - 1
    /\ f.need = f.frames[j].n
    /\ f.used >= f.frames[j].start + HeadSize + f.need

(* What the assumptions say of the sizes, one by one.                      *)
LEMMA Sizes ==
    /\ HeadSize \in Nat \ {0} /\ HelloSize \in Nat \ {0}
    /\ MacSize \in Nat \ {0} /\ MaxFrame \in Nat
    /\ HeadSize <= MacSize /\ MaxFrame > MacSize
    /\ Addresses \in Nat \ {0}
    /\ AtHead = 0
BY SizesAssumption, SessionAssumption DEF AtHead

(* The fields of a flow.                                                   *)
LEMMA FlowFields ==
    ASSUME NEW f \in Flow
    PROVE  /\ f.said \in Seq(Message) /\ f.frames \in Seq(Frame)
           /\ f.got \in Nat /\ f.used \in Nat /\ f.need \in Nat
           /\ f.status \in Statuses
           /\ f.heard \in Seq(Message \cup {Invalid, Panic})
           /\ Len(f.said) \in Nat /\ Len(f.frames) \in Nat
           /\ Len(f.heard) \in Nat
           /\ DOMAIN f.frames = 1..Len(f.frames)
           /\ \A i \in 1..Len(f.frames) :
                /\ f.frames[i] \in Frame
                /\ f.frames[i].start \in Nat /\ f.frames[i].n \in Nat
                /\ f.frames[i].nonce \in Nat
                /\ Payload(f.frames[i]) \in Nat
<1>1. /\ f.said \in Seq(Message) /\ f.frames \in Seq(Frame)
      /\ f.got \in Nat /\ f.used \in Nat /\ f.need \in Nat
      /\ f.status \in Statuses
      /\ f.heard \in Seq(Message \cup {Invalid, Panic})
  BY DEF Flow
<1>2. /\ Len(f.said) \in Nat /\ Len(f.frames) \in Nat /\ Len(f.heard) \in Nat
      /\ DOMAIN f.frames = 1..Len(f.frames)
      /\ \A i \in 1..Len(f.frames) : f.frames[i] \in Frame
  BY <1>1
<1>3. ASSUME NEW i \in 1..Len(f.frames)
      PROVE  /\ f.frames[i] \in Frame
             /\ f.frames[i].start \in Nat /\ f.frames[i].n \in Nat
             /\ f.frames[i].nonce \in Nat
             /\ Payload(f.frames[i]) \in Nat
  <2>1. /\ f.frames[i] \in Frame
        /\ f.frames[i].start \in Nat /\ f.frames[i].n \in Nat
        /\ f.frames[i].nonce \in Nat
    BY <1>2, <1>3 DEF Frame
  <2> QED BY <2>1 DEF Payload
<1> QED BY <1>1, <1>2, <1>3

(* No frame ends behind the end.                                           *)
LEMMA FramesEnd ==
    ASSUME NEW f \in Flow, Laid(f)
    PROVE  /\ End(f) \in Nat
           /\ Len(f.frames) = 0 => End(f) = HelloSize
           /\ Len(f.frames) > 0 =>
                LET last == f.frames[Len(f.frames)]
                IN  End(f) = last.start + HeadSize + Payload(last)
           /\ \A i \in 1..Len(f.frames) :
                End(f) >= f.frames[i].start + HeadSize + Payload(f.frames[i])
<1>1. Len(f.frames) = 0 <=> f.frames = <<>>
  BY FlowFields
<1>2. /\ Len(f.frames) = 0 => End(f) = HelloSize
      /\ Len(f.frames) > 0 =>
            End(f) = f.frames[Len(f.frames)].start + HeadSize
                        + Payload(f.frames[Len(f.frames)])
  BY <1>1, FlowFields DEF End, Payload
<1>3. End(f) \in Nat
  BY <1>2, FlowFields, Sizes
<1>4. ASSUME NEW i \in 1..Len(f.frames)
      PROVE  End(f) >= f.frames[i].start + HeadSize + Payload(f.frames[i])
  <2>1. CASE i = Len(f.frames)
    BY <2>1, <1>2, FlowFields, Sizes
  <2>2. CASE i < Len(f.frames)
    <3>1. /\ Len(f.frames) \in 1..Len(f.frames) /\ Len(f.frames) > 0
      BY <2>2, FlowFields
    <3>2. f.frames[Len(f.frames)].start
            >= f.frames[i].start + HeadSize + Payload(f.frames[i])
      BY <3>1, <2>2 DEF Laid
    <3>3. /\ f.frames[Len(f.frames)].start \in Nat
          /\ Payload(f.frames[Len(f.frames)]) \in Nat
          /\ f.frames[i].start \in Nat /\ Payload(f.frames[i]) \in Nat
      BY <3>1, FlowFields
    <3>4. End(f) = f.frames[Len(f.frames)].start + HeadSize
                    + Payload(f.frames[Len(f.frames)])
      BY <1>2, <3>1
    <3> QED BY <3>2, <3>3, <3>4, Sizes
  <2> QED BY <2>1, <2>2, FlowFields
<1> QED BY <1>2, <1>3, <1>4

(* Sending keeps the layout; the reader stays where it is in it.           *)
LEMMA EncodeKeeps ==
    ASSUME NEW f \in Flow, Laid(f), NEW j, BreaksAt(f, j),
           NEW m \in Sends, FitsFrame(Length(New(m))),
           NEW sealed \in BOOLEAN, sealed \/ Whole(f)
    PROVE  LET g == Encode(f, m, sealed)
           IN  /\ g \in Flow /\ Laid(g) /\ End(g) >= End(f)
               /\ g.got = f.got /\ g.used = f.used /\ g.need = f.need
               /\ g.heard = f.heard /\ g.status = f.status
               /\ g.said = IF sealed THEN Append(f.said, m) ELSE f.said
               /\ Heard(f) => Heard(g)
               /\ ~Whole(f) => ~Whole(g)
               /\ Len(f.heard) < j /\ InStep(f) => InStep(g)
               /\ \E k \in Nat : /\ BreaksAt(g, k) /\ k >= j
                                 /\ Lost(f, j) => k = j /\ Lost(g, k)
<1> DEFINE g == Encode(f, m, sealed)
           n == Len(f.frames)
           new == [start |-> End(f), n |-> Length(New(m)) + MacSize,
                   nonce |-> IF sealed THEN Len(f.said) + 1 ELSE 0]
<1>1. /\ m \in Constructible /\ m \in Message
      /\ Length(New(m)) \in Nat \ {0}
      /\ Length(New(m)) <= MaxFrame - MacSize
  BY ReadsBack, SessionAssumption DEF FitsFrame
<1>2. n \in Nat /\ Len(f.said) \in Nat /\ End(f) \in Nat /\ j \in Nat
  BY FlowFields, FramesEnd DEF BreaksAt
<1>3. /\ new \in Frame /\ new.start = End(f)
      /\ new.n \in MacSize + 1 .. MaxFrame
      /\ new.nonce = IF sealed THEN Len(f.said) + 1 ELSE 0
  BY <1>1, <1>2, Sizes DEF Frame
<1>4. /\ g.got = f.got /\ g.used = f.used /\ g.need = f.need
      /\ g.heard = f.heard /\ g.status = f.status
      /\ g.said = (IF sealed THEN Append(f.said, m) ELSE f.said)
      /\ g.frames = Append(f.frames, new)
  BY DEF Encode, Flow
<1>5. /\ g.said \in Seq(Message) /\ g.frames \in Seq(Frame)
      /\ Len(g.frames) = n + 1
      /\ Len(g.said) = IF sealed THEN Len(f.said) + 1 ELSE Len(f.said)
      /\ \A i \in 1..n : g.frames[i] = f.frames[i]
      /\ g.frames[n + 1] = new
      /\ \A i \in 1..Len(f.said) : g.said[i] = f.said[i]
      /\ sealed => g.said[Len(f.said) + 1] = m
  BY <1>1, <1>3, <1>4, FlowFields
<1>6. g \in Flow
  BY <1>4, <1>5 DEF Encode, Flow
<1> HIDE DEF g, new
<1>7. Laid(g)
  <2>1. \A i \in 1..Len(g.said) :
            g.said[i] \in Sends /\ FitsFrame(Length(New(g.said[i])))
    BY <1>2, <1>5 DEF Laid
  <2>2. \A i \in 1..Len(g.frames) : g.frames[i].n \in MacSize + 1 .. MaxFrame
    <3>1. ASSUME NEW i \in 1..n + 1
          PROVE  g.frames[i].n \in MacSize + 1 .. MaxFrame
      <4>1. CASE i \in 1..n
        BY <4>1, <1>5 DEF Laid
      <4>2. CASE i = n + 1
        BY <4>2, <1>3, <1>5
      <4> QED BY <4>1, <4>2, <1>2
    <3> QED BY <3>1, <1>5
  <2>3. g.frames[1].start = HelloSize
    <3>1. CASE n = 0
      BY <3>1, <1>3, <1>5, FramesEnd
    <3>2. CASE n > 0
      BY <3>2, <1>2, <1>5 DEF Laid
    <3> QED BY <3>1, <3>2, <1>2
  <2>4. ASSUME NEW i \in 1..n + 1, NEW k \in 1..n + 1
        PROVE  /\ k = i + 1 => g.frames[k].start =
                    g.frames[i].start + HeadSize + Payload(g.frames[i])
               /\ i < k => g.frames[k].start >=
                    g.frames[i].start + HeadSize + Payload(g.frames[i])
    <3>1. CASE k \in 1..n
      <4>1. CASE i \in 1..n
        BY <3>1, <4>1, <1>5 DEF Laid
      <4>2. CASE i = n + 1
        BY <3>1, <4>2, <1>2
      <4> QED BY <4>1, <4>2, <1>2
    <3>2. CASE k = n + 1 /\ i < k
      <4>1. i \in 1..n /\ n > 0
        BY <3>2, <1>2
      <4>2. End(f) >= f.frames[i].start + HeadSize + Payload(f.frames[i])
        BY <4>1, FramesEnd
      <4>3. i = n => End(f) = f.frames[i].start + HeadSize + Payload(f.frames[i])
        BY <4>1, FramesEnd
      <4> QED BY <3>2, <4>1, <4>2, <4>3, <1>2, <1>3, <1>5
    <3>3. CASE k = n + 1 /\ i = n + 1
      BY <3>3, <1>2
    <3> QED BY <3>1, <3>2, <3>3, <1>2
  <2> QED BY <2>1, <2>2, <2>3, <2>4, <1>5 DEF Laid
<1>8. End(g) >= End(f)
  <2>1. End(g) = new.start + HeadSize + Payload(new)
    <3>1. Len(g.frames) > 0 /\ g.frames[Len(g.frames)] = new
      BY <1>2, <1>5
    <3> QED BY <3>1, <1>6, <1>7, FramesEnd
  <2>2. Payload(new) \in Nat
    BY <1>3, Sizes DEF Payload
  <2> QED BY <2>1, <2>2, <1>2, <1>3, Sizes
<1>9. Heard(f) => Heard(g)
  BY <1>2, <1>4, <1>5, FlowFields DEF Heard
<1>10. ~Whole(f) => ~Whole(g)
  <2> SUFFICES ASSUME NEW i \in DOMAIN f.frames, f.frames[i].nonce = 0
               PROVE  ~Whole(g)
    BY DEF Whole
  <2>1. i \in 1..n /\ i \in 1..n + 1
    BY <1>2, FlowFields
  <2>2. i \in DOMAIN g.frames /\ g.frames[i].nonce = 0
    BY <2>1, <1>5, <1>6, FlowFields
  <2> QED BY <2>2 DEF Whole
<1>11. Len(f.heard) < j /\ InStep(f) => InStep(g)
  <2> SUFFICES ASSUME Len(f.heard) < j, InStep(f)
               PROVE  InStep(g)
    OBVIOUS
  <2> DEFINE i == Len(f.heard) + 1
  <2>1. i \in 1..n + 1
    BY <1>2, FlowFields DEF BreaksAt
  <2>2. CASE i \in 1..n
    BY <2>2, <1>2, <1>4, <1>5, FlowFields DEF InStep, AtNextFrame
  <2>3. CASE i = n + 1
    <3>1. f.need = AtHead /\ f.used = End(f)
      BY <2>3, <1>2, FlowFields DEF InStep, AtNextFrame
    <3> QED BY <2>3, <3>1, <1>2, <1>3, <1>4, <1>5, FlowFields DEF InStep, AtNextFrame
  <2> QED BY <2>1, <2>2, <2>3
<1>12. \E k \in Nat : /\ BreaksAt(g, k) /\ k >= j
                      /\ Lost(f, j) => k = j /\ Lost(g, k)
  <2>1. CASE j = n + 1
    <3>1. \A i \in 1..n : f.frames[i].nonce = i
      BY <2>1, <1>2 DEF BreaksAt
    <3>2. Len(f.said) = n
      BY <2>1, <1>2 DEF BreaksAt
    <3>3. ~Lost(f, j)
      BY <2>1, <1>2 DEF Lost
    <3>4. CASE sealed
      <4>1. BreaksAt(g, n + 2)
        <5>1. ASSUME NEW i \in 1..n + 1
              PROVE  /\ i < n + 2 => g.frames[i].nonce = i
                     /\ i = n + 2 => g.frames[i].nonce = 0
                     /\ i > n + 2 => g.frames[i].nonce = i - 1
          <6>1. CASE i \in 1..n
            <7>1. g.frames[i] = f.frames[i] /\ f.frames[i].nonce = i
              BY <6>1, <3>1, <1>5
            <7>2. i \in Nat /\ i < n + 2 /\ i # n + 2 /\ ~(i > n + 2)
              BY <6>1, <1>2
            <7> QED BY <7>1, <7>2
          <6>2. CASE i = n + 1
            BY <6>2, <3>2, <3>4, <1>2, <1>3, <1>5
          <6> QED BY <6>1, <6>2, <1>2
        <5> QED BY <5>1, <3>2, <3>4, <1>2, <1>5 DEF BreaksAt
      <4> QED BY <4>1, <3>3, <2>1, <1>2
    <3>5. CASE ~sealed
      <4>1. BreaksAt(g, n + 1)
        <5>1. ASSUME NEW i \in 1..n + 1
              PROVE  /\ i < n + 1 => g.frames[i].nonce = i
                     /\ i = n + 1 => g.frames[i].nonce = 0
                     /\ i > n + 1 => g.frames[i].nonce = i - 1
          <6>1. CASE i \in 1..n
            <7>1. g.frames[i] = f.frames[i] /\ f.frames[i].nonce = i
              BY <6>1, <3>1, <1>5
            <7>2. i \in Nat /\ i < n + 1 /\ i # n + 1 /\ ~(i > n + 1)
              BY <6>1, <1>2
            <7> QED BY <7>1, <7>2
          <6>2. CASE i = n + 1
            BY <6>2, <3>2, <3>5, <1>2, <1>3, <1>5
          <6> QED BY <6>1, <6>2, <1>2
        <5> QED BY <5>1, <3>2, <3>5, <1>2, <1>5 DEF BreaksAt
      <4> QED BY <4>1, <3>3, <2>1, <1>2
    <3> QED BY <3>4, <3>5
  <2>2. CASE j \in 1..n
    <3>1. ~Whole(f)
      BY <2>2, FlowFields DEF Whole, BreaksAt
    <3>2. Len(f.said) = n - 1
      BY <2>2, <1>2 DEF BreaksAt
    <3>3. BreaksAt(g, j)
      <4>1. sealed
        BY <3>1
      <4>2. ASSUME NEW i \in 1..n + 1
            PROVE  /\ i < j => g.frames[i].nonce = i
                   /\ i = j => g.frames[i].nonce = 0
                   /\ i > j => g.frames[i].nonce = i - 1
        <5>1. CASE i \in 1..n
          BY <5>1, <1>5 DEF BreaksAt
        <5>2. CASE i = n + 1
          BY <5>2, <4>1, <2>2, <3>2, <1>2, <1>3, <1>5
        <5> QED BY <5>1, <5>2, <1>2
      <4> QED BY <4>1, <4>2, <2>2, <3>2, <1>2, <1>5 DEF BreaksAt
    <3>4. Lost(f, j) => Lost(g, j)
      BY <2>2, <1>2, <1>4, <1>5 DEF Lost
    <3> QED BY <3>3, <3>4, <1>2
  <2>3. j \in 1..n + 1
    BY DEF BreaksAt
  <2> QED BY <2>1, <2>2, <2>3, <1>2
<1> QED BY <1>4, <1>6, <1>7, <1>8, <1>9, <1>10, <1>11, <1>12 DEF g

(* Frames start at different places.                                       *)
LEMMA StartsDiffer ==
    ASSUME NEW f \in Flow, Laid(f),
           NEW i \in 1..Len(f.frames), NEW k \in 1..Len(f.frames),
           f.frames[i].start = f.frames[k].start
    PROVE  i = k
<1>1. /\ i < k => f.frames[k].start >=
                    f.frames[i].start + HeadSize + Payload(f.frames[i])
      /\ k < i => f.frames[i].start >=
                    f.frames[k].start + HeadSize + Payload(f.frames[k])
  BY DEF Laid
<1>2. /\ f.frames[i].start \in Nat /\ Payload(f.frames[i]) \in Nat
      /\ f.frames[k].start \in Nat /\ Payload(f.frames[k]) \in Nat
      /\ Len(f.frames) \in Nat
  BY FlowFields
<1> QED BY <1>1, <1>2, Sizes

(* A reader in step that takes a length stays in step, and refuses none:   *)
(* the length written is between the bounds the decoder checks.            *)
LEMMA DecodeHeadInStep ==
    ASSUME NEW f \in Flow, Laid(f), f.status = "open", InStep(f),
           f.got <= End(f)
    PROVE  LET g == DecodeHead(f)
           IN  /\ g \in Flow /\ InStep(g) /\ g.status = "open"
               /\ g.said = f.said /\ g.frames = f.frames
               /\ g.got = f.got /\ g.heard = f.heard
<1> DEFINE g == DecodeHead(f)
           h == Len(f.heard) + 1
<1>1. CASE f.need # AtHead \/ f.got - f.used < HeadSize
  BY <1>1 DEF DecodeHead
<1>2. CASE ~(f.need # AtHead \/ f.got - f.used < HeadSize)
  <2>1. /\ f.got \in Nat /\ f.used \in Nat /\ Len(f.frames) \in Nat
        /\ Len(f.heard) \in Nat /\ DOMAIN f.frames = 1..Len(f.frames)
        /\ End(f) \in Nat /\ h \in Nat \ {0}
    BY FlowFields, FramesEnd
  <2>2. f.need = AtHead /\ AtNextFrame(f, 0)
    BY <1>2 DEF InStep
  <2>3. h <= Len(f.frames)
    BY <1>2, <2>1, <2>2, Sizes DEF AtNextFrame
  <2>4. h \in 1..Len(f.frames) /\ f.used = f.frames[h].start
    <3>1. f.used = f.frames[h].start + 0
      BY <2>2, <2>3 DEF AtNextFrame
    <3>2. h \in 1..Len(f.frames)
      BY <2>1, <2>3
    <3> QED BY <3>1, <3>2, FlowFields
  <2>5. LengthAt(f) = f.frames[h].n
    <3> DEFINE here == {i \in DOMAIN f.frames : f.frames[i].start = f.used}
    <3>1. h \in here
      BY <2>1, <2>4
    <3>2. \A i \in here : i = h
      BY <2>1, <2>4, StartsDiffer
    <3>3. here # {} /\ (CHOOSE i \in here : TRUE) = h
      BY <3>1, <3>2
    <3> QED BY <3>3 DEF LengthAt
  <2>6. /\ f.frames[h].n \in Nat /\ MacSize <= f.frames[h].n
        /\ f.frames[h].n <= MaxFrame /\ f.frames[h].n # AtHead
    <3>1. f.frames[h].n \in MacSize + 1 .. MaxFrame
      BY <2>4 DEF Laid
    <3> QED BY <3>1, Sizes
  <2>7. g = [f EXCEPT !.used = @ + HeadSize, !.need = f.frames[h].n,
                      !.status = "open"]
    BY <1>2, <2>5, <2>6 DEF DecodeHead
  <2>8. /\ g.used = f.used + HeadSize /\ g.need = f.frames[h].n
        /\ g.status = "open" /\ g.said = f.said /\ g.frames = f.frames
        /\ g.got = f.got /\ g.heard = f.heard
    BY <2>7 DEF Flow
  <2>9. g \in Flow
    <3>1. f.used + HeadSize \in Nat /\ "open" \in Statuses
      BY <2>1, Sizes DEF Statuses
    <3> QED BY <2>6, <2>7, <3>1 DEF Flow
  <2> HIDE DEF g
  <2>10. InStep(g)
    BY <2>1, <2>3, <2>4, <2>6, <2>8 DEF InStep, AtNextFrame
  <2> QED BY <2>8, <2>9, <2>10 DEF g
<1> QED BY <1>1, <1>2

(* Noise opens the next message and no other: a reader in step that finds  *)
(* the bytes of a frame complete hears the message the writer sealed, and  *)
(* fails at the frame whose message was not sealed.                        *)
LEMMA DecodeDataInStep ==
    ASSUME NEW f \in Flow, Laid(f), NEW j, BreaksAt(f, j), Heard(f),
           Len(f.heard) < j, f.status = "open", InStep(f)
    PROVE  LET g == DecodeData(f)
           IN  /\ g \in Flow
               /\ g.said = f.said /\ g.frames = f.frames /\ g.got = f.got
               /\ \/ g = f
                  \/ /\ g.status = "open" /\ InStep(g) /\ Len(g.heard) < j
                     /\ Len(f.heard) < Len(f.said)
                     /\ g.heard = Append(f.heard, f.said[Len(f.heard) + 1])
                  \/ /\ g.status = "failed" /\ Lost(g, j) /\ g.heard = f.heard
<1> DEFINE g == DecodeData(f)
           h == Len(f.heard) + 1
           n == Len(f.frames)
<1>1. CASE f.need = AtHead \/ f.got - f.used < f.need
  BY <1>1 DEF DecodeData
<1>2. CASE ~(f.need = AtHead \/ f.got - f.used < f.need)
  <2>1. /\ f.got \in Nat /\ f.used \in Nat /\ f.need \in Nat /\ n \in Nat
        /\ Len(f.heard) \in Nat /\ DOMAIN f.frames = 1..n
        /\ End(f) \in Nat /\ h \in Nat \ {0} /\ h - 1 = Len(f.heard)
        /\ Len(f.said) \in Nat /\ j \in 1..n + 1
    BY FlowFields, FramesEnd DEF BreaksAt
  <2>2. /\ h \in 1..n /\ f.need = f.frames[h].n
        /\ f.used = f.frames[h].start + HeadSize
    BY <1>2, <2>1 DEF InStep, AtNextFrame
  <2>3. \A i \in 1..n : f.frames[i].start + HeadSize = f.used => i = h
    <3> SUFFICES ASSUME NEW i \in 1..n, f.frames[i].start + HeadSize = f.used
                 PROVE  i = h
      OBVIOUS
    <3>1. f.frames[i].start \in Nat /\ f.frames[h].start \in Nat
      BY <2>2, FlowFields
    <3>2. f.frames[i].start = f.frames[h].start
      <4>1. f.frames[i].start + HeadSize = f.frames[h].start + HeadSize
        BY <2>2
      <4> HIDE DEF h, n
      <4> QED BY <3>1, <4>1, Sizes
    <3> QED BY <2>2, <3>2, StartsDiffer
  <2>4. /\ f.frames[h].start \in Nat /\ f.frames[h].n \in Nat
        /\ f.frames[h].nonce \in Nat /\ f.need # AtHead
        /\ f.used + f.need \in Nat
    <3>1. /\ f.frames[h].start \in Nat /\ f.frames[h].n \in Nat
          /\ f.frames[h].nonce \in Nat
      BY <2>2, FlowFields
    <3> QED BY <1>2, <2>1, <3>1
  <2>5. CASE h < j
    <3>1. f.frames[h].nonce = h
      BY <2>2, <2>5 DEF BreaksAt
    <3>2. Opens(f)
      BY <2>1, <2>2, <3>1 DEF Opens
    <3>3. h <= Len(f.said)
      BY <2>1, <2>2, <2>5 DEF BreaksAt
    <3>4. h \in 1..Len(f.said) /\ f.said[h] \in Message
      BY <2>1, <3>3, FlowFields
    <3>5. TryFromSlice(New(f.said[h])) = f.said[h]
      <4>1. f.said[h] \in Sends /\ FitsFrame(Length(New(f.said[h])))
        BY <3>4 DEF Laid
      <4> QED BY <4>1, ReadsBack, SessionAssumption
    <3>6. g = Opened(f)
      BY <1>2, <3>2 DEF DecodeData
    <3>7. /\ g.used = f.used + f.need /\ g.need = AtHead
          /\ g.status = "open" /\ g.said = f.said /\ g.frames = f.frames
          /\ g.got = f.got
          /\ g.heard = Append(f.heard, TryFromSlice(New(f.said[h])))
      BY <3>6, FlowFields DEF Opened, Taken, Flow
    <3>8. /\ g.heard \in Seq(Message \cup {Invalid, Panic})
          /\ g.heard = Append(f.heard, f.said[h]) /\ Len(g.heard) = h
      BY <2>1, <3>4, <3>5, <3>7, FlowFields
    <3>9. g \in Flow
      <4>1. AtHead \in Nat
        BY Sizes
      <4> QED BY <2>4, <3>6, <3>7, <3>8, <4>1 DEF Opened, Taken, Flow
    <3> HIDE DEF g
    <3>10. AtNextFrame(g, 0)
      <4>1. Payload(f.frames[h]) = f.frames[h].n
        BY <2>1, <3>1 DEF Payload
      <4>2. CASE h = n
        <5>1. End(f) = f.frames[h].start + HeadSize + Payload(f.frames[h])
          BY <2>1, <4>2, FramesEnd
        <5>2. End(g) = End(f)
          BY <3>7 DEF End
        <5> QED BY <2>1, <2>2, <2>4, <3>7, <3>8, <4>1, <4>2, <5>1, <5>2, Sizes
                DEF AtNextFrame
      <4>3. CASE h < n
        <5>1. h + 1 \in 1..n
          BY <2>1, <4>3
        <5>2. f.frames[h + 1].start
                = f.frames[h].start + HeadSize + Payload(f.frames[h])
          BY <2>2, <5>1 DEF Laid
        <5> QED BY <2>1, <2>2, <2>4, <3>7, <3>8, <4>1, <4>3, <5>1, <5>2, Sizes
                DEF AtNextFrame
      <4> QED BY <2>1, <2>2, <4>2, <4>3
    <3>11. InStep(g)
      BY <3>7, <3>10 DEF InStep
    <3> QED BY <2>1, <2>5, <3>3, <3>7, <3>8, <3>9, <3>11 DEF g
  <2>6. CASE h = j
    <3>1. f.frames[h].nonce = 0
      BY <2>2, <2>6 DEF BreaksAt
    <3>2. ~Opens(f)
      BY <2>1, <2>3, <3>1 DEF Opens
    <3>3. g = Failed(f)
      BY <1>2, <3>2 DEF DecodeData
    <3>4. /\ g.used = f.used + f.need /\ g.need = f.need
          /\ g.status = "failed" /\ g.said = f.said /\ g.frames = f.frames
          /\ g.got = f.got /\ g.heard = f.heard
      BY <3>3 DEF Failed, Taken, Flow
    <3>5. g \in Flow
      <4>1. "failed" \in Statuses
        BY DEF Statuses
      <4> QED BY <2>4, <3>3, <4>1 DEF Failed, Taken, Flow
    <3> HIDE DEF g
    <3>6. Lost(g, j)
      BY <2>1, <2>2, <2>4, <2>6, <3>4, Sizes DEF Lost
    <3> QED BY <3>4, <3>5, <3>6 DEF g
  <2> QED BY <2>1, <2>5, <2>6
<1> QED BY <1>1, <1>2

(* A reader that lost its step finds no message again: what would open     *)
(* next starts before where it looks.                                      *)
LEMMA DecodeLost ==
    ASSUME NEW f \in Flow, Laid(f), NEW j, BreaksAt(f, j), Lost(f, j),
           f.status = "failed"
    PROVE  LET g == Decode(f)
           IN  /\ g \in Flow /\ Lost(g, j) /\ g.status = "failed"
               /\ g.said = f.said /\ g.frames = f.frames
               /\ g.got = f.got /\ g.heard = f.heard
<1> DEFINE g == Decode(f)
           n == Len(f.frames)
<1>1. /\ f.got \in Nat /\ f.used \in Nat /\ f.need \in Nat /\ n \in Nat
      /\ Len(f.heard) \in Nat /\ DOMAIN f.frames = 1..n /\ j \in 1..n
      /\ Len(f.heard) + 1 = j
  BY FlowFields DEF Lost
<1>2. /\ f.frames[j].n \in Nat /\ f.frames[j].n > MacSize
      /\ f.frames[j].start \in Nat
      /\ f.need = f.frames[j].n
      /\ f.used >= f.frames[j].start + HeadSize + f.frames[j].n
  <2>1. f.frames[j].n \in MacSize + 1 .. MaxFrame
    BY <1>1 DEF Laid
  <2> QED BY <1>1, <2>1, FlowFields, Sizes DEF Lost
<1>3. Decode(f) = DecodeData(f)
  <2>1. DecodeHead(f) = f
    BY <1>2, Sizes DEF DecodeHead
  <2> QED BY <2>1 DEF Decode
<1>4. ~Opens(f)
  <2> SUFFICES ASSUME NEW i \in 1..n, f.frames[i].start + HeadSize = f.used,
                      f.frames[i].nonce = Len(f.heard) + 1
               PROVE  FALSE
    BY <1>1 DEF Opens
  <2>1. i = j + 1
    <3>1. /\ i < j => f.frames[i].nonce = i
          /\ i = j => f.frames[i].nonce = 0
          /\ i > j => f.frames[i].nonce = i - 1
      BY DEF BreaksAt
    <3>2. f.frames[i].nonce = j /\ j \in Nat \ {0} /\ i \in Nat
      BY <1>1
    <3> HIDE DEF n
    <3> QED BY <3>1, <3>2
  <2>2. f.frames[i].start = f.frames[j].start + HeadSize + Payload(f.frames[j])
    BY <1>1, <2>1 DEF Laid
  <2>3. Payload(f.frames[j]) = 0
    <3>1. f.frames[j].nonce = 0
      BY <1>1 DEF BreaksAt
    <3> QED BY <3>1 DEF Payload
  <2>4. f.frames[i].start \in Nat
    BY FlowFields
  <2>5. f.used = f.frames[j].start + HeadSize + HeadSize
    BY <1>2, <2>2, <2>3, <2>4, Sizes
  <2>6. ASSUME NEW a \in Nat, NEW h \in Nat, NEW m \in Nat, m > h
        PROVE  ~(a + h + h >= a + h + m)
    BY <2>6
  <2>7. HeadSize \in Nat /\ f.frames[j].n > HeadSize
    BY <1>2, Sizes
  <2> QED BY <1>2, <2>5, <2>6, <2>7, Zenon
<1>5. CASE f.got - f.used < f.need
  BY <1>3, <1>5 DEF DecodeData
<1>6. CASE ~(f.got - f.used < f.need)
  <2>1. g = Failed(f)
    BY <1>2, <1>3, <1>4, <1>6, Sizes DEF DecodeData
  <2>2. /\ g.used = f.used + f.need /\ g.need = f.need
        /\ g.status = "failed" /\ g.said = f.said /\ g.frames = f.frames
        /\ g.got = f.got /\ g.heard = f.heard
    BY <2>1 DEF Failed, Taken, Flow
  <2>3. g \in Flow
    <3>1. "failed" \in Statuses /\ f.used + f.need \in Nat
      BY <1>1 DEF Statuses
    <3> QED BY <2>1, <3>1 DEF Failed, Taken, Flow
  <2> HIDE DEF g
  <2>4. Lost(g, j)
    <3>1. ASSUME NEW u \in Nat, NEW x \in Nat, NEW h \in Nat, NEW m \in Nat,
                 u >= x + h + m
          PROVE  u + m >= x + h + m
      BY <3>1
    <3>2. f.used + f.need >= f.frames[j].start + HeadSize + f.need
      BY <1>1, <1>2, <3>1, Sizes
    <3> QED BY <1>1, <1>2, <2>2, <3>2 DEF Lost
  <2> QED BY <2>2, <2>3, <2>4 DEF g
<1> QED BY <1>5, <1>6

-----------------------------------------------------------------------------
(* The invariant                                                           *)

Fresh(f) ==
    f.used = 0 /\ f.need = AtHead /\ f.heard = <<>> /\ f.status = "open"

StreamOK(f) ==
    /\ Laid(f) /\ Heard(f) /\ f.got <= End(f)
    /\ \E j \in Nat : /\ BreaksAt(f, j) /\ Len(f.heard) < j
                      /\ f.status = "failed" => Lost(f, j)

(* What a reader has depends on how far it and the writer are.             *)
ReaderOK(a, s, f) ==
    /\ f.got > 0 => hello[<<a, s>>] # <<>>
    /\ phase[<<a, Other(s)>>] \in {"idle", "reading", "waiting"} => Fresh(f)
    /\ Established(a, Other(s)) /\ f.status = "open" => InStep(f)
    /\ f.status = "ended" => InStep(f) /\ f.got = f.used /\ Gone(a, s)
    /\ f.status = "over" => Gone(a, s) \/ ~Whole(f)

ChannelOK(a, s) ==
    StreamOK(flow[<<a, s>>]) /\ ReaderOK(a, s, flow[<<a, s>>])

(* The opener is at one address at a time; what the two sides at an        *)
(* address know of each other comes from the handshakes they read.         *)
AddressOK(a) ==
    /\ a < trying => phase[<<a, "opener">>] = "failed"
    /\ a > trying => phase[<<a, "opener">>] = "idle"
    /\ remote[<<a, "opener">>] # Nobody <=> outcome = "connected" /\ a = trying
    /\ phase[<<a, "opener">>] = "waiting" => outcome = "trying" /\ a = trying
    /\ phase[<<a, "opener">>] = "idle" =>
        hello[<<a, "opener">>] = <<>> /\ host[a] = Nobody
    /\ host[a] = Nobody => phase[<<a, "accepter">>] = "idle"
    /\ hello[<<a, "opener">>] # <<>> =>
        /\ hello[<<a, "opener">>].from = Me /\ hello[<<a, "opener">>].to = Target
        /\ host[a] # Nobody
    /\ hello[<<a, "accepter">>] # <<>> => remote[<<a, "accepter">>] = Me
    /\ remote[<<a, "accepter">>] # Nobody =>
        remote[<<a, "accepter">>] = Me /\ host[a] = Target
    /\ remote[<<a, "opener">>] # Nobody =>
        remote[<<a, "opener">>] = Target /\ remote[<<a, "accepter">>] = Me

Control ==
    /\ outcome = "failed" => trying \in {0, Addresses + 1}
    /\ \A a \in Attempts : AddressOK(a)

Streams == \A a \in Attempts, s \in Sides : ChannelOK(a, s)

SessionInv == TypeOK /\ Control /\ Streams

(* An update of what is kept for each direction.                           *)
LEMMA Update ==
    ASSUME NEW S, NEW F \in [Channels -> S], NEW a \in Attempts,
           NEW s \in Sides, NEW x \in S
    PROVE  /\ [F EXCEPT ![<<a, s>>] = x] \in [Channels -> S]
           /\ \A b \in Attempts, t \in Sides :
                [F EXCEPT ![<<a, s>>] = x][<<b, t>>] =
                    IF b = a /\ t = s THEN x ELSE F[<<b, t>>]
<1>1. <<a, s>> \in Channels
  BY DEF Channels
<1>2. ASSUME NEW b \in Attempts, NEW t \in Sides
      PROVE  [F EXCEPT ![<<a, s>>] = x][<<b, t>>] =
                    IF b = a /\ t = s THEN x ELSE F[<<b, t>>]
  <2>1. <<b, t>> \in Channels
    BY DEF Channels
  <2>2. <<b, t>> = <<a, s>> <=> b = a /\ t = s
    OBVIOUS
  <2> QED BY <1>1, <2>1, <2>2
<1> QED BY <1>1, <1>2

(* Nothing is dialled, written or read at first.                           *)
LEMMA Initially == Init => SessionInv
<1> SUFFICES ASSUME Init PROVE SessionInv
  OBVIOUS
<1>1. /\ trying = 0 /\ outcome = "trying" /\ Addresses \in Nat \ {0}
      /\ \A a \in Attempts : host[a] = Nobody /\ a \in Nat /\ a > 0
      /\ \A a \in Attempts, s \in Sides :
            /\ <<a, s>> \in Channels
            /\ phase[<<a, s>>] = "idle" /\ remote[<<a, s>>] = Nobody
            /\ hello[<<a, s>>] = <<>> /\ flow[<<a, s>>] = NoFlow
  BY SessionAssumption DEF Init, Channels, Attempts
<1>2. NoFlow \in Flow
  <2>1. /\ AtHead \in Nat /\ "open" \in Statuses
        /\ <<>> \in Seq(Message) /\ <<>> \in Seq(Frame)
        /\ <<>> \in Seq(Message \cup {Invalid, Panic})
    BY DEF AtHead, Statuses
  <2> QED BY <2>1 DEF NoFlow, Flow
<1>3. TypeOK
  BY <1>2, SessionAssumption DEF Init, TypeOK, Phases
<1>4. Control
  BY <1>1 DEF Control, AddressOK, Sides
<1>5. StreamOK(NoFlow) /\ Fresh(NoFlow)
  <2>1. Len(<<>>) = 0 /\ 1..0 = {}
    BY EmptySeq
  <2>2. Laid(NoFlow) /\ Heard(NoFlow) /\ BreaksAt(NoFlow, 1)
    BY <2>1 DEF NoFlow, Laid, Heard, BreaksAt
  <2>3. NoFlow.got <= End(NoFlow)
    BY Sizes DEF NoFlow, End
  <2> QED BY <2>1, <2>2, <2>3 DEF StreamOK, Fresh, NoFlow
<1>6. Streams
  <2> SUFFICES ASSUME NEW a \in Attempts, NEW s \in Sides
               PROVE  ChannelOK(a, s)
    BY DEF Streams
  <2>1. Other(s) \in Sides
    BY DEF Other, Sides
  <2>2. ReaderOK(a, s, NoFlow)
    BY <1>1, <1>5, <2>1 DEF ReaderOK, Established, NoFlow
  <2> QED BY <1>1, <1>5, <2>2 DEF ChannelOK
<1> QED BY <1>3, <1>4, <1>6 DEF SessionInv

(* A direction that a step leaves alone.                                   *)
LEMMA Kept ==
    ASSUME NEW a \in Attempts, NEW s \in Sides, ChannelOK(a, s),
           flow'[<<a, s>>] = flow[<<a, s>>],
           hello[<<a, s>>] # <<>> => hello'[<<a, s>>] # <<>>,
           Gone(a, s) => Gone(a, s)',
           phase'[<<a, Other(s)>>] \in {"idle", "reading", "waiting"} =>
                phase[<<a, Other(s)>>] \in {"idle", "reading", "waiting"},
           Established(a, Other(s))' => Established(a, Other(s))
    PROVE  ChannelOK(a, s)'
<1>1. StreamOK(flow[<<a, s>>])'
  BY DEF ChannelOK
<1>2. ReaderOK(a, s, flow[<<a, s>>])'
  BY DEF ChannelOK, ReaderOK
<1> QED BY <1>1, <1>2 DEF ChannelOK

-----------------------------------------------------------------------------
(* Steps that leave the streams alone                                      *)

(* lookup_host comes back, or fails.                                       *)
LEMMA ResolveKeeps ==
    ASSUME SessionInv, Resolve
    PROVE  SessionInv'
<1>1. /\ Addresses \in Nat \ {0} /\ trying = 0 /\ outcome = "trying"
      /\ trying' \in {0, 1} /\ outcome' \in {"trying", "failed"}
      /\ outcome' = "failed" => trying' = 0
      /\ UNCHANGED <<host, phase, remote, hello, flow>>
  BY Sizes DEF Resolve
<1>2. TypeOK'
  <2>1. trying' \in 0..Addresses + 1
    BY <1>1
  <2> QED BY <1>1, <2>1 DEF SessionInv, TypeOK
<1>3. Control'
  <2>1. ASSUME NEW a \in Attempts PROVE AddressOK(a)'
    <3>1. AddressOK(a) /\ a \in Nat /\ a > 0
      BY <1>1 DEF SessionInv, Control, Attempts
    <3> QED BY <1>1, <3>1 DEF AddressOK
  <2> QED BY <1>1, <2>1 DEF Control
<1>4. Streams'
  <2>1. ASSUME NEW a \in Attempts, NEW s \in Sides PROVE ChannelOK(a, s)'
    BY <1>1, Kept DEF SessionInv, Streams, Gone, Established
  <2> QED BY <2>1 DEF Streams
<1> QED BY <1>2, <1>3, <1>4 DEF SessionInv

(* The client drops a connect that takes too long.                         *)
LEMMA TimeoutKeeps ==
    ASSUME SessionInv, Timeout
    PROVE  SessionInv'
<1>1. /\ outcome = "trying" /\ outcome' = "timed out"
      /\ UNCHANGED <<trying, host, remote, hello, flow>>
      /\ phase \in [Channels -> Phases]
      /\ phase' = [c \in Channels |->
                    IF phase[c] = "waiting" THEN "closed" ELSE phase[c]]
  BY DEF Timeout, SessionInv, TypeOK
<1>2. ASSUME NEW a \in Attempts, NEW s \in Sides
      PROVE  phase'[<<a, s>>] =
                IF phase[<<a, s>>] = "waiting" THEN "closed" ELSE phase[<<a, s>>]
  BY <1>1 DEF Channels
<1>3. TypeOK'
  <2>1. phase' \in [Channels -> Phases]
    BY <1>1 DEF Phases
  <2> QED BY <1>1, <2>1 DEF SessionInv, TypeOK
<1>4. Control'
  <2>1. ASSUME NEW a \in Attempts PROVE AddressOK(a)'
    <3>1. AddressOK(a) /\ "opener" \in Sides /\ "accepter" \in Sides
      BY DEF SessionInv, Control, Sides
    <3>2. \A s \in Sides :
            /\ phase'[<<a, s>>] # "waiting"
            /\ phase'[<<a, s>>] = "idle" <=> phase[<<a, s>>] = "idle"
            /\ phase'[<<a, s>>] = "failed" <=> phase[<<a, s>>] = "failed"
      BY <1>2
    <3>3. /\ phase'[<<a, "opener">>] # "waiting"
          /\ phase'[<<a, "opener">>] = "idle" <=> phase[<<a, "opener">>] = "idle"
          /\ phase'[<<a, "opener">>] = "failed" <=>
                phase[<<a, "opener">>] = "failed"
          /\ phase'[<<a, "accepter">>] = "idle" <=>
                phase[<<a, "accepter">>] = "idle"
      BY <3>1, <3>2
    <3> QED BY <1>1, <3>1, <3>3 DEF AddressOK
  <2> QED BY <1>1, <2>1 DEF Control
<1>5. Streams'
  <2>1. ASSUME NEW a \in Attempts, NEW s \in Sides PROVE ChannelOK(a, s)'
    <3>1. ChannelOK(a, s) /\ Other(s) \in Sides
      BY DEF SessionInv, Streams, Other, Sides
    <3>2. /\ phase'[<<a, s>>] = IF phase[<<a, s>>] = "waiting"
                THEN "closed" ELSE phase[<<a, s>>]
          /\ phase'[<<a, Other(s)>>] = IF phase[<<a, Other(s)>>] = "waiting"
                THEN "closed" ELSE phase[<<a, Other(s)>>]
      BY <1>2, <3>1
    <3>3. /\ Gone(a, s) => Gone(a, s)'
          /\ Established(a, Other(s))' => Established(a, Other(s))
          /\ phase'[<<a, Other(s)>>] \in {"idle", "reading", "waiting"} =>
                phase[<<a, Other(s)>>] \in {"idle", "reading", "waiting"}
      BY <3>2 DEF Gone, Established
    <3> QED BY <1>1, <3>1, <3>3, Kept
  <2> QED BY <2>1 DEF Streams
<1> QED BY <1>3, <1>4, <1>5 DEF SessionInv

(* A phase that moves on keeps the streams as they are.                    *)
LEMMA PhaseMoves ==
    ASSUME SessionInv, NEW a \in Attempts, NEW s \in Sides, NEW x \in Phases,
           phase' = [phase EXCEPT ![<<a, s>>] = x],
           UNCHANGED flow,
           \A b \in Attempts, t \in Sides :
                hello[<<b, t>>] # <<>> => hello'[<<b, t>>] # <<>>,
           x # "established", x # "idle",
           x \in {"reading", "waiting"} =>
                phase[<<a, s>>] \in {"idle", "reading", "waiting"},
           Gone(a, s) => x \in {"failed", "closed"}
    PROVE  /\ phase' \in [Channels -> Phases]
           /\ \A b \in Attempts, t \in Sides :
                phase'[<<b, t>>] =
                    IF b = a /\ t = s THEN x ELSE phase[<<b, t>>]
           /\ Streams'
<1>1. /\ phase' \in [Channels -> Phases]
      /\ \A b \in Attempts, t \in Sides :
            phase'[<<b, t>>] = IF b = a /\ t = s THEN x ELSE phase[<<b, t>>]
  <2>1. phase \in [Channels -> Phases]
    BY DEF SessionInv, TypeOK
  <2> QED BY <2>1, Update
<1>2. ASSUME NEW b \in Attempts, NEW t \in Sides PROVE ChannelOK(b, t)'
  <2>1. ChannelOK(b, t) /\ Other(t) \in Sides
    BY DEF SessionInv, Streams, Other, Sides
  <2>2. /\ phase'[<<b, t>>] = IF b = a /\ t = s THEN x ELSE phase[<<b, t>>]
        /\ phase'[<<b, Other(t)>>] =
                IF b = a /\ Other(t) = s THEN x ELSE phase[<<b, Other(t)>>]
    BY <1>1, <2>1
  <2>3. Gone(b, t) => Gone(b, t)'
    BY <2>2 DEF Gone
  <2>4. Established(b, Other(t))' => Established(b, Other(t))
    BY <2>2 DEF Established
  <2>5. phase'[<<b, Other(t)>>] \in {"idle", "reading", "waiting"} =>
            phase[<<b, Other(t)>>] \in {"idle", "reading", "waiting"}
    BY <2>2
  <2> QED BY <2>1, <2>3, <2>4, <2>5, Kept
<1> QED BY <1>1, <1>2 DEF Streams

(* A side that drops its connection leaves the streams as they are.        *)
LEMMA CloseKeeps ==
    ASSUME SessionInv, NEW a \in Attempts, NEW s \in Sides, Close(a, s)
    PROVE  SessionInv'
<1>1. /\ phase[<<a, s>>] \in {"reading", "established"}
      /\ phase' = [phase EXCEPT ![<<a, s>>] = "closed"]
      /\ "closed" \in Phases
      /\ UNCHANGED <<trying, outcome, host, remote, hello, flow>>
  BY DEF Close, Phases
<1>2. /\ phase' \in [Channels -> Phases]
      /\ \A b \in Attempts, t \in Sides :
            phase'[<<b, t>>] =
                IF b = a /\ t = s THEN "closed" ELSE phase[<<b, t>>]
      /\ Streams'
  BY <1>1, PhaseMoves
<1>3. TypeOK'
  BY <1>1, <1>2 DEF SessionInv, TypeOK
<1>4. Control'
  <2>1. ASSUME NEW b \in Attempts PROVE AddressOK(b)'
    <3>1. AddressOK(b) /\ "opener" \in Sides /\ "accepter" \in Sides
      BY DEF SessionInv, Control, Sides
    <3>2. /\ phase'[<<b, "opener">>] = IF b = a /\ s = "opener"
                THEN "closed" ELSE phase[<<b, "opener">>]
          /\ phase'[<<b, "accepter">>] = IF b = a /\ s = "accepter"
                THEN "closed" ELSE phase[<<b, "accepter">>]
      BY <1>2, <3>1
    <3> QED BY <1>1, <3>1, <3>2 DEF AddressOK
  <2> QED BY <1>1, <2>1 DEF Control, SessionInv
<1> QED BY <1>2, <1>3, <1>4 DEF SessionInv

(* The accepter starts to read where an opener connected.                  *)
LEMMA AcceptKeeps ==
    ASSUME SessionInv, NEW a \in Attempts, Accept(a)
    PROVE  SessionInv'
<1>1. /\ host[a] # Nobody /\ phase[<<a, "accepter">>] = "idle"
      /\ phase' = [phase EXCEPT ![<<a, "accepter">>] = "reading"]
      /\ "reading" \in Phases /\ "accepter" \in Sides
      /\ UNCHANGED <<trying, outcome, host, remote, hello, flow>>
  BY DEF Accept, Phases, Sides
<1>2. /\ phase' \in [Channels -> Phases]
      /\ \A b \in Attempts, t \in Sides :
            phase'[<<b, t>>] =
                IF b = a /\ t = "accepter" THEN "reading" ELSE phase[<<b, t>>]
      /\ Streams'
  BY <1>1, PhaseMoves DEF Gone
<1>3. TypeOK'
  BY <1>1, <1>2 DEF SessionInv, TypeOK
<1>4. Control'
  <2>1. ASSUME NEW b \in Attempts PROVE AddressOK(b)'
    <3>1. AddressOK(b) /\ "opener" \in Sides
      BY DEF SessionInv, Control, Sides
    <3>2. /\ phase'[<<b, "opener">>] = phase[<<b, "opener">>]
          /\ b # a => phase'[<<b, "accepter">>] = phase[<<b, "accepter">>]
      BY <1>1, <1>2, <3>1
    <3> QED BY <1>1, <3>1, <3>2 DEF AddressOK
  <2> QED BY <1>1, <2>1 DEF Control, SessionInv
<1> QED BY <1>2, <1>3, <1>4 DEF SessionInv

(* An address that did not work: the next one is tried, or connect fails.  *)
LEMMA GiveUpControl ==
    ASSUME SessionInv, NEW a \in Attempts, outcome = "trying", trying = a,
           GiveUp(a),
           phase[<<a, "opener">>] \in {"idle", "waiting"},
           phase' = [phase EXCEPT ![<<a, "opener">>] = "failed"],
           UNCHANGED <<host, remote, hello>>
    PROVE  /\ Control' /\ trying' \in 0..Addresses + 1
           /\ outcome' \in {"trying", "connected", "failed", "timed out"}
<1>1. /\ a \in Nat /\ a > 0 /\ a <= Addresses /\ Addresses \in Nat
      /\ trying' = a + 1 /\ outcome' \in {"trying", "failed"}
      /\ outcome' = "failed" => a = Addresses
  BY Sizes DEF GiveUp, Attempts
<1>2. trying' \in 0..Addresses + 1
  BY <1>1
<1>3. ASSUME NEW b \in Attempts PROVE AddressOK(b)'
  <2>1. AddressOK(b) /\ AddressOK(a) /\ b \in Nat
    BY DEF SessionInv, Control, Attempts
  <2>2. /\ phase'[<<b, "opener">>] =
                IF b = a THEN "failed" ELSE phase[<<b, "opener">>]
        /\ phase'[<<b, "accepter">>] = phase[<<b, "accepter">>]
    <3>1. /\ phase \in [Channels -> Phases] /\ "failed" \in Phases
          /\ "opener" \in Sides /\ "accepter" \in Sides
      BY DEF SessionInv, TypeOK, Phases, Sides
    <3>2. /\ [phase EXCEPT ![<<a, "opener">>] = "failed"]
                \in [Channels -> Phases]
          /\ \A d \in Attempts, t \in Sides :
                [phase EXCEPT ![<<a, "opener">>] = "failed"][<<d, t>>] =
                    IF d = a /\ t = "opener" THEN "failed" ELSE phase[<<d, t>>]
      BY <3>1, Update
    <3> QED BY <3>1, <3>2
  <2>3. CASE b = a
    BY <1>1, <2>1, <2>2, <2>3 DEF AddressOK
  <2>4. CASE b # a
    BY <1>1, <2>1, <2>2, <2>4 DEF AddressOK
  <2> QED BY <2>3, <2>4
<1>4. Control'
  BY <1>1, <1>3 DEF Control
<1> QED BY <1>1, <1>2, <1>4

(* A connection to the next address, or none.                              *)
LEMMA DialKeeps ==
    ASSUME SessionInv, NEW a \in Attempts, Dial(a)
    PROVE  SessionInv'
<1>1. /\ outcome = "trying" /\ trying = a /\ phase[<<a, "opener">>] = "idle"
      /\ UNCHANGED <<remote, flow>> /\ "opener" \in Sides
      /\ "failed" \in Phases /\ "waiting" \in Phases
      /\ AddressOK(a) /\ ~Gone(a, "opener")
      /\ hello[<<a, "opener">>] = <<>> /\ host[a] = Nobody
  BY DEF Dial, Sides, Phases, SessionInv, Control, AddressOK, Gone
<1>2. CASE /\ phase' = [phase EXCEPT ![<<a, "opener">>] = "failed"]
           /\ GiveUp(a)
           /\ UNCHANGED <<host, hello>>
  <2>1. phase' \in [Channels -> Phases] /\ Streams'
    BY <1>1, <1>2, PhaseMoves
  <2>2. /\ Control' /\ trying' \in 0..Addresses + 1
        /\ outcome' \in {"trying", "connected", "failed", "timed out"}
    BY <1>1, <1>2, GiveUpControl
  <2>3. TypeOK'
    BY <1>1, <1>2, <2>1, <2>2 DEF SessionInv, TypeOK
  <2> QED BY <2>1, <2>2, <2>3 DEF SessionInv
<1>3. ASSUME NEW k \in Keys \ {Me},
             host' = [host EXCEPT ![a] = k],
             phase' = [phase EXCEPT ![<<a, "opener">>] = "waiting"],
             hello' = [hello EXCEPT ![<<a, "opener">>] =
                [version |-> MyRelease.current, from |-> Me, to |-> Target]],
             UNCHANGED <<trying, outcome>>
      PROVE  SessionInv'
  <2> DEFINE x == [version |-> MyRelease.current, from |-> Me, to |-> Target]
  <2>1. /\ x \in Hello /\ x.from = Me /\ x.to = Target /\ x # <<>>
        /\ k \in Keys \cup {Nobody} /\ k # Nobody
    BY SessionAssumption DEF Hello
  <2>2. x \in Hello \cup {<<>>}
    BY <2>1
  <2> HIDE DEF x
  <2>3. /\ hello' \in [Channels -> Hello \cup {<<>>}]
        /\ \A b \in Attempts, t \in Sides : hello'[<<b, t>>] =
                IF b = a /\ t = "opener" THEN x ELSE hello[<<b, t>>]
    <3>1. hello \in [Channels -> Hello \cup {<<>>}]
      BY DEF SessionInv, TypeOK
    <3> DEFINE S == Hello \cup {<<>>}
    <3> HIDE DEF S
    <3>2. hello \in [Channels -> S] /\ x \in S
      BY <2>2, <3>1 DEF S
    <3>3. /\ [hello EXCEPT ![<<a, "opener">>] = x] \in [Channels -> S]
          /\ \A b \in Attempts, t \in Sides :
                [hello EXCEPT ![<<a, "opener">>] = x][<<b, t>>] =
                    IF b = a /\ t = "opener" THEN x ELSE hello[<<b, t>>]
      BY <1>1, <3>2, Update
    <3> QED BY <1>3, <3>3 DEF x, S
  <2>4. /\ host' \in [Attempts -> Keys \cup {Nobody}]
        /\ \A b \in Attempts : host'[b] = IF b = a THEN k ELSE host[b]
    BY <1>3, <2>1 DEF SessionInv, TypeOK
  <2>5. /\ phase' \in [Channels -> Phases]
        /\ \A b \in Attempts, t \in Sides : phase'[<<b, t>>] =
                IF b = a /\ t = "opener" THEN "waiting" ELSE phase[<<b, t>>]
        /\ Streams'
    <3>1. \A b \in Attempts, t \in Sides :
            hello[<<b, t>>] # <<>> => hello'[<<b, t>>] # <<>>
      BY <2>1, <2>3
    <3> QED BY <1>1, <1>3, <3>1, PhaseMoves
  <2>6. TypeOK'
    BY <1>1, <1>3, <2>3, <2>4, <2>5 DEF SessionInv, TypeOK
  <2>7. ASSUME NEW b \in Attempts PROVE AddressOK(b)'
    <3>1. AddressOK(b) /\ "opener" \in Sides /\ "accepter" \in Sides
      BY DEF SessionInv, Control, Sides
    <3>2. /\ phase'[<<b, "opener">>] =
                IF b = a THEN "waiting" ELSE phase[<<b, "opener">>]
          /\ phase'[<<b, "accepter">>] = phase[<<b, "accepter">>]
          /\ hello'[<<b, "opener">>] =
                IF b = a THEN x ELSE hello[<<b, "opener">>]
          /\ hello'[<<b, "accepter">>] = hello[<<b, "accepter">>]
          /\ host'[b] = IF b = a THEN k ELSE host[b]
      BY <2>3, <2>4, <2>5, <3>1
    <3>3. CASE b = a
      <4>1. remote[<<a, "accepter">>] = Nobody
        BY <1>1, SessionAssumption DEF AddressOK
      <4> QED BY <1>1, <1>3, <2>1, <3>1, <3>2, <3>3, <4>1, SessionAssumption
              DEF AddressOK
    <3>4. CASE b # a
      BY <1>1, <1>3, <3>1, <3>2, <3>4 DEF AddressOK
    <3> QED BY <3>3, <3>4
  <2>8. Control'
    BY <1>3, <2>7 DEF Control, SessionInv
  <2> QED BY <2>5, <2>6, <2>8 DEF SessionInv
<1> QED BY <1>2, <1>3 DEF Dial

(* A handshake that the other side does not finish.                        *)
LEMMA CutKeeps ==
    ASSUME SessionInv, NEW a \in Attempts, NEW s \in Sides, HandshakeCut(a, s)
    PROVE  SessionInv'
<1>1. /\ phase[<<a, s>>] = (IF s = "opener" THEN "waiting" ELSE "reading")
      /\ phase' = [phase EXCEPT ![<<a, s>>] = "failed"]
      /\ UNCHANGED <<host, remote, hello, flow>>
      /\ "failed" \in Phases
  BY DEF HandshakeCut, Phases
<1>2. /\ phase' \in [Channels -> Phases]
      /\ \A b \in Attempts, t \in Sides :
            phase'[<<b, t>>] =
                IF b = a /\ t = s THEN "failed" ELSE phase[<<b, t>>]
      /\ Streams'
  BY <1>1, PhaseMoves
<1>3. CASE s = "opener"
  <2>1. GiveUp(a) /\ outcome = "trying" /\ trying = a
    BY <1>1, <1>3 DEF HandshakeCut, SessionInv, Control, AddressOK
  <2>2. /\ Control' /\ trying' \in 0..Addresses + 1
        /\ outcome' \in {"trying", "connected", "failed", "timed out"}
    BY <1>1, <1>3, <2>1, GiveUpControl
  <2>3. TypeOK'
    BY <1>1, <1>2, <2>2 DEF SessionInv, TypeOK
  <2> QED BY <1>2, <2>2, <2>3 DEF SessionInv
<1>4. CASE s = "accepter"
  <2>1. UNCHANGED <<trying, outcome>>
    BY <1>4 DEF HandshakeCut
  <2>2. TypeOK'
    BY <1>1, <1>2, <2>1 DEF SessionInv, TypeOK
  <2>3. ASSUME NEW b \in Attempts PROVE AddressOK(b)'
    <3>1. AddressOK(b) /\ "opener" \in Sides /\ "accepter" \in Sides
      BY DEF SessionInv, Control, Sides
    <3>2. /\ phase'[<<b, "opener">>] = phase[<<b, "opener">>]
          /\ phase'[<<b, "accepter">>] =
                IF b = a THEN "failed" ELSE phase[<<b, "accepter">>]
      BY <1>2, <1>4, <3>1
    <3> QED BY <1>1, <1>4, <2>1, <3>1, <3>2 DEF AddressOK
  <2>4. Control'
    BY <2>1, <2>3 DEF Control, SessionInv
  <2> QED BY <1>2, <2>2, <2>4 DEF SessionInv
<1> QED BY <1>3, <1>4 DEF Sides

-----------------------------------------------------------------------------
(* Steps on one stream                                                     *)

(* A step on one stream keeps the invariant when it keeps that stream.     *)
LEMMA FlowMoves ==
    ASSUME SessionInv, NEW a \in Attempts, NEW s \in Sides, NEW g \in Flow,
           flow' = [flow EXCEPT ![<<a, s>>] = g],
           UNCHANGED <<trying, outcome, host, phase, remote, hello>>,
           StreamOK(g), ReaderOK(a, s, g)
    PROVE  SessionInv'
<1>1. /\ flow' \in [Channels -> Flow]
      /\ \A b \in Attempts, t \in Sides :
            flow'[<<b, t>>] = IF b = a /\ t = s THEN g ELSE flow[<<b, t>>]
  <2>1. flow \in [Channels -> Flow]
    BY DEF SessionInv, TypeOK
  <2> QED BY <2>1, Update
<1>2. TypeOK'
  BY <1>1 DEF SessionInv, TypeOK
<1>3. Control'
  BY DEF SessionInv, Control, AddressOK
<1>4. ASSUME NEW b \in Attempts, NEW t \in Sides PROVE ChannelOK(b, t)'
  <2>1. CASE b = a /\ t = s
    <3>1. flow'[<<a, s>>] = g
      BY <1>1
    <3>2. StreamOK(flow[<<a, s>>])'
      BY <3>1
    <3>3. ReaderOK(a, s, flow[<<a, s>>])'
      BY <3>1 DEF ReaderOK, Established, Gone
    <3> QED BY <2>1, <3>2, <3>3 DEF ChannelOK
  <2>2. CASE ~(b = a /\ t = s)
    <3>1. flow'[<<b, t>>] = flow[<<b, t>>] /\ ChannelOK(b, t)
      BY <1>1, <2>2 DEF SessionInv, Streams
    <3> QED BY <3>1, Kept DEF Gone, Established
  <2> QED BY <2>1, <2>2
<1>5. Streams'
  BY <1>4 DEF Streams
<1> QED BY <1>2, <1>3, <1>5 DEF SessionInv

(* The stream of a direction, its flow and what holds of it.               *)
LEMMA StreamOf ==
    ASSUME SessionInv, NEW a \in Attempts, NEW s \in Sides
    PROVE  /\ flow[<<a, s>>] \in Flow /\ StreamOK(flow[<<a, s>>])
           /\ ReaderOK(a, s, flow[<<a, s>>])
<1>1. <<a, s>> \in Channels
  BY DEF Channels
<1> QED BY <1>1 DEF SessionInv, TypeOK, Streams, ChannelOK

(* Encoder::encode.                                                        *)
LEMMA SendKeeps ==
    ASSUME SessionInv, NEW a \in Attempts, NEW s \in Sides, NEW m \in Sends,
           NEW sealed \in BOOLEAN, Send(a, s, m, sealed)
    PROVE  SessionInv'
<1> DEFINE f == flow[<<a, s>>]
           g == Encode(f, m, sealed)
<1>1. /\ f \in Flow /\ StreamOK(f) /\ ReaderOK(a, s, f)
      /\ FitsFrame(Length(New(m))) /\ (sealed \/ Whole(f))
      /\ ~Gone(a, s)
  BY StreamOf DEF Send, Established, Gone
<1>2. PICK j \in Nat : /\ BreaksAt(f, j) /\ Len(f.heard) < j
                       /\ f.status = "failed" => Lost(f, j)
  BY <1>1 DEF StreamOK
<1>3. flow' = [flow EXCEPT ![<<a, s>>] = g]
  BY DEF Send
<1> HIDE DEF f
<1>4. /\ g \in Flow /\ Laid(g) /\ End(g) >= End(f)
      /\ g.got = f.got /\ g.used = f.used /\ g.need = f.need
      /\ g.heard = f.heard /\ g.status = f.status
      /\ Heard(f) => Heard(g)
      /\ ~Whole(f) => ~Whole(g)
      /\ Len(f.heard) < j /\ InStep(f) => InStep(g)
      /\ \E k \in Nat : /\ BreaksAt(g, k) /\ k >= j
                        /\ Lost(f, j) => k = j /\ Lost(g, k)
  BY <1>1, <1>2, EncodeKeeps DEF StreamOK
<1> HIDE DEF g
<1>5. StreamOK(g)
  <2>1. g.got <= End(g)
    BY <1>1, <1>4, FlowFields, FramesEnd DEF StreamOK
  <2>2. PICK k \in Nat : /\ BreaksAt(g, k) /\ k >= j
                         /\ Lost(f, j) => k = j /\ Lost(g, k)
    BY <1>4
  <2>3. Len(g.heard) < k
    BY <1>1, <1>2, <1>4, <2>2, FlowFields
  <2> QED BY <1>1, <1>2, <1>4, <2>1, <2>2, <2>3 DEF StreamOK
<1>6. ReaderOK(a, s, g)
  BY <1>1, <1>2, <1>4 DEF ReaderOK, Fresh
<1> QED BY <1>3, <1>4, <1>5, <1>6, FlowMoves DEF f, Send

(* What only depends on the fields a step of the reader leaves alone.      *)
LEMMA SameStream ==
    ASSUME NEW f \in Flow, NEW g \in Flow,
           g.said = f.said, g.frames = f.frames
    PROVE  /\ Laid(g) <=> Laid(f)
           /\ Whole(g) <=> Whole(f)
           /\ End(g) = End(f)
           /\ \A j : BreaksAt(g, j) <=> BreaksAt(f, j)
           /\ g.heard = f.heard => (Heard(g) <=> Heard(f))
           /\ g.heard = f.heard /\ g.used = f.used /\ g.need = f.need =>
                /\ InStep(g) <=> InStep(f)
                /\ \A j : Lost(g, j) <=> Lost(f, j)
<1>1. Laid(g) <=> Laid(f)
  BY DEF Laid
<1>2. (Whole(g) <=> Whole(f)) /\ End(g) = End(f)
  BY DEF Whole, End
<1>3. ASSUME NEW j PROVE BreaksAt(g, j) <=> BreaksAt(f, j)
  BY DEF BreaksAt
<1>4. g.heard = f.heard => (Heard(g) <=> Heard(f))
  BY DEF Heard
<1>5. g.heard = f.heard /\ g.used = f.used /\ g.need = f.need =>
        (InStep(g) <=> InStep(f))
  BY <1>2 DEF InStep, AtNextFrame
<1>6. ASSUME NEW j,
             g.heard = f.heard /\ g.used = f.used /\ g.need = f.need
      PROVE  Lost(g, j) <=> Lost(f, j)
  BY <1>6 DEF Lost
<1> QED BY <1>1, <1>2, <1>3, <1>4, <1>5, <1>6

(* More bytes arrive, never more than were written.                        *)
LEMMA TransferKeeps ==
    ASSUME SessionInv, NEW a \in Attempts, NEW s \in Sides, Transfer(a, s)
    PROVE  SessionInv'
<1> DEFINE f == flow[<<a, s>>]
<1>1. /\ f \in Flow /\ StreamOK(f) /\ ReaderOK(a, s, f)
      /\ hello[<<a, s>>] # <<>> /\ End(f) \in Nat /\ f.got \in Nat
  BY StreamOf, FlowFields, FramesEnd DEF Transfer, StreamOK
<1>2. PICK n \in f.got + 1 .. End(f) :
        flow' = [flow EXCEPT ![<<a, s>>].got = n]
  BY DEF Transfer
<1> DEFINE g == [f EXCEPT !.got = n]
<1>3. flow' = [flow EXCEPT ![<<a, s>>] = g]
  BY <1>2
<1> HIDE DEF f
<1>4. /\ g \in Flow /\ g.got <= End(f)
      /\ g.said = f.said /\ g.frames = f.frames /\ g.used = f.used
      /\ g.need = f.need /\ g.heard = f.heard /\ g.status = f.status
  <2>1. n \in Nat /\ n <= End(f)
    BY <1>1, <1>2
  <2>2. /\ g.got = n /\ g.said = f.said /\ g.frames = f.frames
        /\ g.used = f.used /\ g.need = f.need /\ g.heard = f.heard
        /\ g.status = f.status
    BY <1>1 DEF Flow
  <2>3. g \in Flow
    BY <1>1, <2>1 DEF Flow
  <2> QED BY <2>1, <2>2, <2>3
<1> HIDE DEF g
<1>5. StreamOK(g)
  BY <1>1, <1>4, SameStream DEF StreamOK
<1>6. ReaderOK(a, s, g)
  <2>1. f.status \in {"open", "failed"}
    BY DEF Transfer, f
  <2> QED BY <1>1, <1>4, <2>1, SameStream DEF ReaderOK, Fresh
<1> QED BY <1>3, <1>4, <1>5, <1>6, FlowMoves DEF Transfer

(* What one call of decode does to a stream whose reader is established.   *)
LEMMA DecodeKeeps ==
    ASSUME NEW f \in Flow, StreamOK(f), f.status \in {"open", "failed"},
           f.status = "open" => InStep(f)
    PROVE  LET g == Decode(f)
           IN  /\ g \in Flow /\ StreamOK(g) /\ g.status \in {"open", "failed"}
               /\ g.status = "open" => InStep(g)
               /\ g.said = f.said /\ g.frames = f.frames /\ g.got = f.got
               /\ \/ g.heard = f.heard
                  \/ /\ f.status = "open" /\ Len(f.heard) < Len(f.said)
                     /\ g.heard = Append(f.heard, f.said[Len(f.heard) + 1])
<1> DEFINE h == DecodeHead(f)
           g == Decode(f)
<1>1. PICK j \in Nat : /\ BreaksAt(f, j) /\ Len(f.heard) < j
                       /\ f.status = "failed" => Lost(f, j)
  BY DEF StreamOK
<1>2. Laid(f) /\ Heard(f) /\ f.got <= End(f)
  BY DEF StreamOK
<1>3. CASE f.status = "failed"
  <2>1. /\ g \in Flow /\ Lost(g, j) /\ g.status = "failed"
        /\ g.said = f.said /\ g.frames = f.frames
        /\ g.got = f.got /\ g.heard = f.heard
    BY <1>1, <1>2, <1>3, DecodeLost
  <2> HIDE DEF g
  <2>2. StreamOK(g)
    BY <1>1, <1>2, <2>1, SameStream DEF StreamOK
  <2> QED BY <2>1, <2>2 DEF g
<1>4. CASE f.status = "open"
  <2>1. /\ h \in Flow /\ InStep(h) /\ h.status = "open"
        /\ h.said = f.said /\ h.frames = f.frames
        /\ h.got = f.got /\ h.heard = f.heard
    BY <1>2, <1>4, DecodeHeadInStep
  <2>2. g = DecodeData(h)
    BY <2>1 DEF Decode
  <2> HIDE DEF h, g
  <2>3. Laid(h) /\ Heard(h) /\ BreaksAt(h, j) /\ Len(h.heard) < j
    BY <1>1, <1>2, <2>1, SameStream
  <2>4. /\ g \in Flow
        /\ g.said = h.said /\ g.frames = h.frames /\ g.got = h.got
        /\ \/ g = h
           \/ /\ g.status = "open" /\ InStep(g) /\ Len(g.heard) < j
              /\ Len(h.heard) < Len(h.said)
              /\ g.heard = Append(h.heard, h.said[Len(h.heard) + 1])
           \/ /\ g.status = "failed" /\ Lost(g, j) /\ g.heard = h.heard
    BY <2>1, <2>2, <2>3, DecodeDataInStep
  <2>5. /\ Laid(g) /\ BreaksAt(g, j) /\ End(g) = End(f)
        /\ g.got <= End(g)
    BY <1>1, <1>2, <2>1, <2>4, SameStream
  <2>6. CASE g = h
    <3>1. StreamOK(g)
      BY <1>1, <2>1, <2>3, <2>5, <2>6 DEF StreamOK
    <3> QED BY <2>1, <2>6, <3>1 DEF g, h
  <2>7. CASE /\ g.status = "open" /\ InStep(g) /\ Len(g.heard) < j
             /\ Len(h.heard) < Len(h.said)
             /\ g.heard = Append(h.heard, h.said[Len(h.heard) + 1])
    <3>1. Heard(g)
      <4> DEFINE n == Len(h.heard)
      <4>1. /\ n \in Nat /\ Len(h.said) \in Nat /\ g.said = h.said
            /\ n < Len(h.said)
            /\ h.heard \in Seq(Message \cup {Invalid, Panic})
            /\ h.said[n + 1] \in Message \cup {Invalid, Panic}
        BY <2>1, <2>4, <2>7, FlowFields
      <4>2. /\ Len(g.heard) = n + 1 /\ g.heard[n + 1] = h.said[n + 1]
            /\ \A i \in 1..n : g.heard[i] = h.heard[i]
        BY <2>7, <4>1
      <4>3. \A i \in 1..n : h.heard[i] = h.said[i]
        BY <2>3 DEF Heard
      <4> HIDE DEF n
      <4>4. \A i \in 1..n + 1 : g.heard[i] = h.said[i]
        BY <4>1, <4>2, <4>3
      <4> QED BY <4>1, <4>2, <4>4 DEF Heard
    <3>2. StreamOK(g)
      BY <1>1, <2>5, <2>7, <3>1 DEF StreamOK
    <3> QED BY <1>4, <2>1, <2>4, <2>7, <3>2 DEF g
  <2>8. CASE g.status = "failed" /\ Lost(g, j) /\ g.heard = h.heard
    <3>1. StreamOK(g)
      BY <1>1, <2>1, <2>3, <2>4, <2>5, <2>8, SameStream DEF StreamOK
    <3> QED BY <2>1, <2>4, <2>8, <3>1 DEF g
  <2> QED BY <2>4, <2>6, <2>7, <2>8
<1> QED BY <1>3, <1>4

(* FramedRead polls decode.                                                *)
LEMMA PollKeeps ==
    ASSUME SessionInv, NEW a \in Attempts, NEW s \in Sides, Poll(a, s)
    PROVE  SessionInv'
<1> DEFINE f == flow[<<a, s>>]
           g == Decode(f)
<1>1. /\ f \in Flow /\ StreamOK(f) /\ ReaderOK(a, s, f)
      /\ Established(a, Other(s)) /\ f.status \in {"open", "failed"}
  BY StreamOf DEF Poll
<1>2. flow' = [flow EXCEPT ![<<a, s>>] = g]
  BY DEF Poll
<1> HIDE DEF f
<1>3. /\ g \in Flow /\ StreamOK(g) /\ g.status \in {"open", "failed"}
      /\ g.status = "open" => InStep(g)
      /\ g.got = f.got
  BY <1>1, DecodeKeeps DEF ReaderOK
<1> HIDE DEF g
<1>4. ReaderOK(a, s, g)
  BY <1>1, <1>3 DEF ReaderOK, Established
<1> QED BY <1>2, <1>3, <1>4, FlowMoves DEF Poll

(* FramedRead ends the stream.                                             *)
LEMMA EndKeeps ==
    ASSUME SessionInv, NEW a \in Attempts, NEW s \in Sides, EndOfStream(a, s)
    PROVE  SessionInv'
<1> DEFINE f == flow[<<a, s>>]
<1>1. /\ f \in Flow /\ StreamOK(f) /\ ReaderOK(a, s, f)
      /\ Established(a, Other(s))
  BY StreamOf DEF EndOfStream
<1>2. PICK x \in {"ended", "over"} :
        /\ flow' = [flow EXCEPT ![<<a, s>>].status = x]
        /\ \/ /\ f.status = "open" /\ Gone(a, s)
              /\ x = "ended" => f.used = f.got
           \/ f.status = "failed" /\ x = "over"
  BY DEF EndOfStream
<1> DEFINE g == [f EXCEPT !.status = x]
<1>3. flow' = [flow EXCEPT ![<<a, s>>] = g]
  BY <1>2
<1> HIDE DEF f
<1>4. /\ g \in Flow /\ g.status = x
      /\ g.said = f.said /\ g.frames = f.frames /\ g.used = f.used
      /\ g.need = f.need /\ g.heard = f.heard /\ g.got = f.got
  <2>1. x \in Statuses
    BY DEF Statuses
  <2> QED BY <1>1, <2>1 DEF Flow
<1> HIDE DEF g
<1>5. StreamOK(g)
  BY <1>1, <1>4, SameStream DEF StreamOK
<1>6. f.status = "failed" => ~Whole(f)
  <2> SUFFICES ASSUME f.status = "failed" PROVE ~Whole(f)
    OBVIOUS
  <2>1. PICK j \in Nat : BreaksAt(f, j) /\ Lost(f, j)
    BY <1>1 DEF StreamOK
  <2>2. j \in 1..Len(f.frames) /\ f.frames[j].nonce = 0
    BY <2>1 DEF Lost, BreaksAt
  <2> QED BY <1>1, <2>2, FlowFields DEF Whole
<1>7. ReaderOK(a, s, g)
  BY <1>1, <1>2, <1>4, <1>6, SameStream DEF ReaderOK, Established
<1> QED BY <1>3, <1>4, <1>5, <1>7, FlowMoves DEF EndOfStream

(* The bytes of a handshake and not one more are taken from the stream.    *)
LEMMA ReadExactKeeps ==
    ASSUME NEW f \in Flow, StreamOK(f), Fresh(f)
    PROVE  LET g == ReadExact(f)
           IN  /\ g \in Flow /\ StreamOK(g) /\ InStep(g)
               /\ g.status = "open" /\ g.got = f.got
               /\ g.said = f.said /\ g.heard = f.heard
<1> DEFINE g == ReadExact(f)
<1>1. /\ g \in Flow /\ g.used = HelloSize /\ g.got = f.got
      /\ g.said = f.said /\ g.frames = f.frames
      /\ g.need = AtHead /\ g.heard = <<>> /\ g.status = "open"
      /\ g.heard = f.heard
  BY Sizes DEF ReadExact, Flow, Fresh
<1> HIDE DEF g
<1>2. StreamOK(g)
  BY <1>1, SameStream DEF StreamOK
<1>3. InStep(g)
  <2>1. Len(g.heard) = 0 /\ Len(g.frames) \in Nat
    BY <1>1, FlowFields
  <2>2. Len(g.frames) = 0 => End(g) = HelloSize
    BY <1>1, <1>2, FramesEnd DEF StreamOK
  <2>3. Len(g.frames) > 0 => g.frames[1].start = HelloSize
    BY <1>2 DEF StreamOK, Laid
  <2> QED BY <1>1, <2>1, <2>2, <2>3, Sizes DEF InStep, AtNextFrame
<1> QED BY <1>1, <1>2, <1>3 DEF g

-----------------------------------------------------------------------------
(* The handshake                                                           *)

(* A side that reads the handshake of the other becomes established, or    *)
(* fails; of the streams only the one it reads is touched.                 *)
LEMMA HelloRead ==
    ASSUME SessionInv, NEW a \in Attempts, NEW s \in Sides,
           NEW r \in Sides, r = Other(s),
           NEW x \in {"established", "failed"},
           phase[<<a, r>>] \in {"reading", "waiting"},
           flow[<<a, s>>].got >= HelloSize,
           flow' = [flow EXCEPT ![<<a, s>>] = ReadExact(@)],
           phase' = [phase EXCEPT ![<<a, r>>] = x],
           \A b \in Attempts, t \in Sides :
                hello[<<b, t>>] # <<>> => hello'[<<b, t>>] # <<>>
    PROVE  /\ hello[<<a, s>>] # <<>>
           /\ flow' \in [Channels -> Flow]
           /\ phase' \in [Channels -> Phases]
           /\ \A b \in Attempts, t \in Sides :
                phase'[<<b, t>>] =
                    IF b = a /\ t = r THEN x ELSE phase[<<b, t>>]
           /\ Streams'
<1> DEFINE f == flow[<<a, s>>]
           g == ReadExact(f)
<1>1. /\ f \in Flow /\ StreamOK(f) /\ ReaderOK(a, s, f)
      /\ Other(s) \in Sides /\ Other(s) # s /\ Other(Other(s)) = s
      /\ x \in Phases
  BY StreamOf DEF Other, Sides, Phases
<1>2. f.got >= HelloSize /\ flow' = [flow EXCEPT ![<<a, s>>] = g]
  OBVIOUS
<1> HIDE DEF f
<1>3. Fresh(f) /\ hello[<<a, s>>] # <<>>
  BY <1>1, <1>2, FlowFields, Sizes DEF ReaderOK
<1>4. g \in Flow /\ StreamOK(g) /\ InStep(g) /\ g.status = "open"
  BY <1>1, <1>3, ReadExactKeeps
<1> HIDE DEF g
<1>5. /\ flow' \in [Channels -> Flow]
      /\ \A b \in Attempts, t \in Sides :
            flow'[<<b, t>>] = IF b = a /\ t = s THEN g ELSE flow[<<b, t>>]
  <2>1. flow \in [Channels -> Flow]
    BY DEF SessionInv, TypeOK
  <2>2. /\ [flow EXCEPT ![<<a, s>>] = g] \in [Channels -> Flow]
        /\ \A b \in Attempts, t \in Sides :
            [flow EXCEPT ![<<a, s>>] = g][<<b, t>>] =
                IF b = a /\ t = s THEN g ELSE flow[<<b, t>>]
    BY <1>4, <2>1, Update
  <2> QED BY <1>2, <2>2
<1>6. /\ phase' \in [Channels -> Phases]
      /\ \A b \in Attempts, t \in Sides :
            phase'[<<b, t>>] =
                IF b = a /\ t = r THEN x ELSE phase[<<b, t>>]
  <2>1. phase \in [Channels -> Phases]
    BY DEF SessionInv, TypeOK
  <2> QED BY <1>1, <2>1, Update
<1>7. ASSUME NEW b \in Attempts, NEW t \in Sides PROVE ChannelOK(b, t)'
  <2>1. ChannelOK(b, t) /\ Other(t) \in Sides
    BY DEF SessionInv, Streams, Other, Sides
  <2>2. /\ phase'[<<b, t>>] =
                IF b = a /\ t = r THEN x ELSE phase[<<b, t>>]
        /\ phase'[<<b, Other(t)>>] =
                IF b = a /\ Other(t) = r THEN x
                ELSE phase[<<b, Other(t)>>]
    BY <1>6, <2>1
  <2>3. Other(t) = r <=> t = s
    BY DEF Other, Sides
  <2>4. CASE b = a /\ t = s
    <3>1. flow'[<<b, t>>] = g /\ phase'[<<b, Other(t)>>] = x
      BY <1>5, <2>2, <2>4
    <3>2. StreamOK(flow[<<b, t>>])'
      BY <1>4, <3>1
    <3>3. ReaderOK(b, t, flow[<<b, t>>])'
      BY <1>3, <1>4, <2>4, <3>1 DEF ReaderOK
    <3> QED BY <3>2, <3>3 DEF ChannelOK
  <2>5. CASE ~(b = a /\ t = s)
    <3>1. flow'[<<b, t>>] = flow[<<b, t>>]
      BY <1>5, <2>5
    <3>2. phase'[<<b, Other(t)>>] = phase[<<b, Other(t)>>]
      BY <2>2, <2>3, <2>5
    <3>3. Gone(b, t) => Gone(b, t)'
      BY <2>2 DEF Gone
    <3>4. Established(b, Other(t))' => Established(b, Other(t))
      BY <3>2 DEF Established
    <3> QED BY <2>1, <3>1, <3>2, <3>3, <3>4, Kept
  <2> QED BY <2>4, <2>5
<1> QED BY <1>3, <1>5, <1>6, <1>7 DEF Streams

(* The same for the accepter, the first to read.                           *)
LEMMA HelloReadByAccepter ==
    ASSUME SessionInv, NEW a \in Attempts, NEW x \in {"established", "failed"},
           phase[<<a, "accepter">>] = "reading",
           flow[<<a, "opener">>].got >= HelloSize,
           flow' = [flow EXCEPT ![<<a, "opener">>] = ReadExact(@)],
           phase' = [phase EXCEPT ![<<a, "accepter">>] = x],
           \A b \in Attempts, t \in Sides :
                hello[<<b, t>>] # <<>> => hello'[<<b, t>>] # <<>>
    PROVE  /\ hello[<<a, "opener">>] # <<>>
           /\ flow' \in [Channels -> Flow]
           /\ phase' \in [Channels -> Phases]
           /\ \A b \in Attempts, t \in Sides :
                phase'[<<b, t>>] =
                    IF b = a /\ t = "accepter" THEN x ELSE phase[<<b, t>>]
           /\ Streams'
<1>1. /\ "opener" \in Sides /\ "accepter" \in Sides
      /\ "accepter" = Other("opener")
  BY DEF Sides, Other
<1>2. /\ hello[<<a, "opener">>] # <<>> /\ flow' \in [Channels -> Flow]
      /\ phase' \in [Channels -> Phases] /\ Streams'
  BY <1>1, HelloRead
<1>3. /\ [phase EXCEPT ![<<a, "accepter">>] = x] \in [Channels -> Phases]
      /\ \A b \in Attempts, t \in Sides :
            [phase EXCEPT ![<<a, "accepter">>] = x][<<b, t>>] =
                IF b = a /\ t = "accepter" THEN x ELSE phase[<<b, t>>]
  <2>1. phase \in [Channels -> Phases] /\ x \in Phases
    BY DEF SessionInv, TypeOK, Phases
  <2> QED BY <1>1, <2>1, Update
<1> QED BY <1>2, <1>3

(* The accepter reads the first message and answers, or fails.             *)
LEMMA HandshakeKeeps ==
    ASSUME SessionInv, NEW a \in Attempts, NEW release \in Releases[a],
           NEW welcome \in BOOLEAN, Handshake(a, release, welcome)
    PROVE  SessionInv'
<1> DEFINE h == hello[<<a, "opener">>]
           reply == [version |-> release.current, from |-> host[a], to |-> h.from]
<1>1. /\ phase[<<a, "accepter">>] = "reading"
      /\ flow[<<a, "opener">>].got >= HelloSize
      /\ flow' = [flow EXCEPT ![<<a, "opener">>] = ReadExact(@)]
      /\ UNCHANGED <<trying, outcome, host>>
      /\ "opener" \in Sides /\ "accepter" \in Sides
      /\ Other("opener") = "accepter"
  BY DEF Handshake, Sides, Other
<1>2. AddressOK(a) /\ Addresses \in Nat /\ release.current \in Nat
  BY SessionAssumption DEF SessionInv, Control
<1>3. CASE /\ Checked(a, h, release, welcome)
           /\ phase' = [phase EXCEPT ![<<a, "accepter">>] = "established"]
           /\ remote' = [remote EXCEPT ![<<a, "accepter">>] = h.from]
           /\ hello' = [hello EXCEPT ![<<a, "accepter">>] = reply]
  <2>1. hello \in [Channels -> Hello \cup {<<>>}] /\ h \in Hello \cup {<<>>}
        /\ host[a] \in Keys \cup {Nobody}
    BY <1>1 DEF SessionInv, TypeOK, Channels
  <2>2. flow[<<a, "opener">>].got \in Nat /\ h # <<>>
    <3>1. /\ flow[<<a, "opener">>] \in Flow
          /\ ReaderOK(a, "opener", flow[<<a, "opener">>])
      BY <1>1, StreamOf
    <3> QED BY <1>1, <3>1, FlowFields, Sizes DEF ReaderOK
  <2>3. h.from = Me /\ h.to = Target /\ host[a] = Target
    BY <1>2, <1>3, <2>2 DEF AddressOK, Checked
  <2>4. reply \in Hello /\ reply # <<>> /\ Target # Nobody /\ Me # Nobody
        /\ Me \in Keys \cup {Nobody} /\ Target \in Keys
    BY <1>2, <2>3, SessionAssumption DEF Hello
  <2> HIDE DEF reply
  <2>5. /\ hello' \in [Channels -> Hello \cup {<<>>}]
        /\ \A b \in Attempts, t \in Sides : hello'[<<b, t>>] =
                IF b = a /\ t = "accepter" THEN reply ELSE hello[<<b, t>>]
    <3> DEFINE S == Hello \cup {<<>>}
    <3>1. hello \in [Channels -> S] /\ reply \in S
      BY <2>1, <2>4
    <3> HIDE DEF S
    <3>2. /\ [hello EXCEPT ![<<a, "accepter">>] = reply] \in [Channels -> S]
          /\ \A b \in Attempts, t \in Sides :
                [hello EXCEPT ![<<a, "accepter">>] = reply][<<b, t>>] =
                    IF b = a /\ t = "accepter" THEN reply ELSE hello[<<b, t>>]
      BY <1>1, <3>1, Update
    <3> QED BY <1>3, <3>2 DEF S
  <2>6. /\ remote' \in [Channels -> Keys \cup {Nobody}]
        /\ \A b \in Attempts, t \in Sides : remote'[<<b, t>>] =
                IF b = a /\ t = "accepter" THEN Me ELSE remote[<<b, t>>]
    <3> DEFINE S == Keys \cup {Nobody}
    <3>1. remote \in [Channels -> S] /\ Me \in S
      BY <2>4 DEF SessionInv, TypeOK
    <3>2. remote' = [remote EXCEPT ![<<a, "accepter">>] = Me]
      BY <1>3, <2>3
    <3> HIDE DEF S
    <3>3. /\ [remote EXCEPT ![<<a, "accepter">>] = Me] \in [Channels -> S]
          /\ \A b \in Attempts, t \in Sides :
                [remote EXCEPT ![<<a, "accepter">>] = Me][<<b, t>>] =
                    IF b = a /\ t = "accepter" THEN Me ELSE remote[<<b, t>>]
      BY <1>1, <3>1, Update
    <3> QED BY <3>2, <3>3 DEF S
  <2>7. /\ flow' \in [Channels -> Flow]
        /\ phase' \in [Channels -> Phases]
        /\ \A b \in Attempts, t \in Sides : phase'[<<b, t>>] =
                IF b = a /\ t = "accepter" THEN "established" ELSE phase[<<b, t>>]
        /\ Streams'
    <3>1. \A b \in Attempts, t \in Sides :
            hello[<<b, t>>] # <<>> => hello'[<<b, t>>] # <<>>
      BY <2>4, <2>5
    <3> QED BY <1>1, <1>3, <3>1, HelloReadByAccepter
  <2>8. TypeOK'
    BY <1>1, <2>5, <2>6, <2>7 DEF SessionInv, TypeOK
  <2>9. ASSUME NEW b \in Attempts PROVE AddressOK(b)'
    <3>1. AddressOK(b)
      BY DEF SessionInv, Control
    <3>2. /\ phase'[<<b, "opener">>] = phase[<<b, "opener">>]
          /\ b # a => phase'[<<b, "accepter">>] = phase[<<b, "accepter">>]
          /\ remote'[<<b, "opener">>] = remote[<<b, "opener">>]
          /\ remote'[<<b, "accepter">>] =
                IF b = a THEN Me ELSE remote[<<b, "accepter">>]
          /\ hello'[<<b, "opener">>] = hello[<<b, "opener">>]
          /\ b # a => hello'[<<b, "accepter">>] = hello[<<b, "accepter">>]
      BY <1>1, <2>5, <2>6, <2>7
    <3>3. CASE b = a
      BY <1>1, <1>2, <2>3, <2>4, <3>2, <3>3 DEF AddressOK
    <3>4. CASE b # a
      BY <1>1, <3>1, <3>2, <3>4 DEF AddressOK
    <3> QED BY <3>3, <3>4
  <2>10. Control'
    BY <1>1, <2>9 DEF Control, SessionInv
  <2> QED BY <2>7, <2>8, <2>10 DEF SessionInv
<1>4. CASE /\ phase' = [phase EXCEPT ![<<a, "accepter">>] = "failed"]
           /\ UNCHANGED <<remote, hello>>
  <2>1. /\ flow' \in [Channels -> Flow]
        /\ phase' \in [Channels -> Phases]
        /\ \A b \in Attempts, t \in Sides : phase'[<<b, t>>] =
                IF b = a /\ t = "accepter" THEN "failed" ELSE phase[<<b, t>>]
        /\ Streams'
    <3>1. \A b \in Attempts, t \in Sides :
            hello[<<b, t>>] # <<>> => hello'[<<b, t>>] # <<>>
      BY <1>4
    <3> QED BY <1>1, <1>4, <3>1, HelloReadByAccepter
  <2>2. TypeOK'
    BY <1>1, <1>4, <2>1 DEF SessionInv, TypeOK
  <2>3. ASSUME NEW b \in Attempts PROVE AddressOK(b)'
    <3>1. AddressOK(b)
      BY DEF SessionInv, Control
    <3>2. /\ phase'[<<b, "opener">>] = phase[<<b, "opener">>]
          /\ b # a => phase'[<<b, "accepter">>] = phase[<<b, "accepter">>]
      BY <1>1, <2>1
    <3> QED BY <1>1, <1>4, <3>1, <3>2 DEF AddressOK
  <2>4. Control'
    BY <1>1, <2>3 DEF Control, SessionInv
  <2> QED BY <2>1, <2>2, <2>4 DEF SessionInv
<1> QED BY <1>3, <1>4 DEF Handshake

(* The opener reads the answer, or goes on to the next address.            *)
LEMMA WaitKeeps ==
    ASSUME SessionInv, NEW a \in Attempts, Wait(a)
    PROVE  SessionInv'
<1> DEFINE h == hello[<<a, "accepter">>]
<1>1. /\ phase[<<a, "opener">>] = "waiting"
      /\ flow[<<a, "accepter">>].got >= HelloSize
      /\ flow' = [flow EXCEPT ![<<a, "accepter">>] = ReadExact(@)]
      /\ UNCHANGED <<host, hello>>
      /\ "opener" \in Sides /\ "accepter" \in Sides
      /\ Other("accepter") = "opener"
  BY DEF Wait, Sides, Other
<1>2. AddressOK(a) /\ outcome = "trying" /\ trying = a
  BY <1>1 DEF SessionInv, Control, AddressOK
<1>3. CASE /\ phase' = [phase EXCEPT ![<<a, "opener">>] = "established"]
           /\ remote' = [remote EXCEPT ![<<a, "opener">>] = Target]
           /\ outcome' = "connected"
           /\ UNCHANGED trying
  <2>1. /\ h # <<>>
        /\ flow' \in [Channels -> Flow]
        /\ phase' \in [Channels -> Phases]
        /\ \A b \in Attempts, t \in Sides : phase'[<<b, t>>] =
                IF b = a /\ t = "opener" THEN "established" ELSE phase[<<b, t>>]
        /\ Streams'
    BY <1>1, <1>3, HelloRead
  <2>2. Target # Nobody /\ Target \in Keys \cup {Nobody} /\ Me # Nobody
    BY SessionAssumption
  <2>3. /\ remote' \in [Channels -> Keys \cup {Nobody}]
        /\ \A b \in Attempts, t \in Sides : remote'[<<b, t>>] =
                IF b = a /\ t = "opener" THEN Target ELSE remote[<<b, t>>]
    <3> DEFINE S == Keys \cup {Nobody}
    <3>1. remote \in [Channels -> S] /\ Target \in S
      BY <2>2 DEF SessionInv, TypeOK
    <3> HIDE DEF S
    <3>2. /\ [remote EXCEPT ![<<a, "opener">>] = Target] \in [Channels -> S]
          /\ \A b \in Attempts, t \in Sides :
                [remote EXCEPT ![<<a, "opener">>] = Target][<<b, t>>] =
                    IF b = a /\ t = "opener" THEN Target ELSE remote[<<b, t>>]
      BY <1>1, <3>1, Update
    <3> QED BY <1>3, <3>2 DEF S
  <2>4. TypeOK'
    BY <1>1, <1>3, <2>1, <2>3 DEF SessionInv, TypeOK
  <2>5. ASSUME NEW b \in Attempts PROVE AddressOK(b)'
    <3>1. AddressOK(b) /\ remote[<<b, "opener">>] = Nobody
          /\ phase[<<a, "opener">>] # "failed"
      BY <1>1, <1>2 DEF SessionInv, Control, AddressOK
    <3>2. /\ phase'[<<b, "opener">>] =
                IF b = a THEN "established" ELSE phase[<<b, "opener">>]
          /\ phase'[<<b, "accepter">>] = phase[<<b, "accepter">>]
          /\ remote'[<<b, "opener">>] =
                IF b = a THEN Target ELSE remote[<<b, "opener">>]
          /\ remote'[<<b, "accepter">>] = remote[<<b, "accepter">>]
      BY <1>1, <2>1, <2>3
    <3>3. CASE b = a
      <4>1. ~(a < trying) /\ ~(a > trying)
        BY <1>1, <1>2 DEF AddressOK
      <4> QED BY <1>1, <1>2, <1>3, <2>1, <2>2, <3>2, <3>3, <4>1 DEF AddressOK
    <3>4. CASE b # a
      BY <1>1, <1>2, <1>3, <3>1, <3>2, <3>4 DEF AddressOK
    <3> QED BY <3>3, <3>4
  <2>6. Control'
    BY <1>3, <2>5 DEF Control
  <2> QED BY <2>1, <2>4, <2>6 DEF SessionInv
<1>4. CASE /\ phase' = [phase EXCEPT ![<<a, "opener">>] = "failed"]
           /\ GiveUp(a)
           /\ UNCHANGED remote
  <2>1. /\ flow' \in [Channels -> Flow]
        /\ phase' \in [Channels -> Phases]
        /\ Streams'
    BY <1>1, <1>4, HelloRead
  <2>2. /\ Control' /\ trying' \in 0..Addresses + 1
        /\ outcome' \in {"trying", "connected", "failed", "timed out"}
    BY <1>1, <1>2, <1>4, GiveUpControl
  <2>3. TypeOK'
    BY <1>1, <1>4, <2>1, <2>2 DEF SessionInv, TypeOK
  <2> QED BY <2>1, <2>2, <2>3 DEF SessionInv
<1> QED BY <1>3, <1>4 DEF Wait

-----------------------------------------------------------------------------
(* The theorems                                                            *)

(* Every step keeps the invariant.                                         *)
LEMMA Inductive == SessionInv /\ [Next]_vars => SessionInv'
<1> SUFFICES ASSUME SessionInv, [Next]_vars PROVE SessionInv'
  OBVIOUS
<1>1. CASE Resolve
  BY <1>1, ResolveKeeps
<1>2. CASE Timeout
  BY <1>2, TimeoutKeeps
<1>3. ASSUME NEW a \in Attempts, Shake(a) PROVE SessionInv'
  <2>1. CASE Dial(a)
    BY <2>1, DialKeeps
  <2>2. CASE Accept(a)
    BY <2>2, AcceptKeeps
  <2>3. CASE Wait(a)
    BY <2>3, WaitKeeps
  <2>4. ASSUME NEW release \in Releases[a], NEW welcome \in BOOLEAN,
               Handshake(a, release, welcome)
        PROVE  SessionInv'
    BY <2>4, HandshakeKeeps
  <2>5. ASSUME NEW s \in Sides, HandshakeCut(a, s) PROVE SessionInv'
    BY <2>5, CutKeeps
  <2> QED BY <1>3, <2>1, <2>2, <2>3, <2>4, <2>5 DEF Shake
<1>4. ASSUME NEW a \in Attempts, NEW s \in Sides, NEW m \in Sends,
             NEW sealed \in BOOLEAN, Send(a, s, m, sealed)
      PROVE  SessionInv'
  BY <1>4, SendKeeps
<1>5. ASSUME NEW a \in Attempts, NEW s \in Sides, Receive(a, s)
      PROVE  SessionInv'
  BY <1>5, TransferKeeps, PollKeeps, EndKeeps DEF Receive
<1>6. ASSUME NEW a \in Attempts, NEW s \in Sides, Close(a, s)
      PROVE  SessionInv'
  BY <1>6, CloseKeeps
<1>7. CASE UNCHANGED vars
  <2>1. TypeOK'
    BY <1>7 DEF vars, SessionInv, TypeOK
  <2>2. Control'
    BY <1>7 DEF vars, SessionInv, Control, AddressOK
  <2>3. ASSUME NEW a \in Attempts, NEW s \in Sides PROVE ChannelOK(a, s)'
    BY <1>7, Kept DEF vars, SessionInv, Streams, Gone, Established
  <2> QED BY <2>1, <2>2, <2>3 DEF SessionInv, Streams
<1> QED BY <1>1, <1>2, <1>3, <1>4, <1>5, <1>6, <1>7 DEF Next

(* The invariant holds throughout.                                         *)
LEMMA Always == Spec => []SessionInv
BY Initially, Inductive, PTL DEF Spec

(* The variables keep the shape of what the code holds.                    *)
THEOREM TypeCorrect == Spec => []TypeOK
<1>1. SessionInv => TypeOK
  BY DEF SessionInv
<1> QED BY <1>1, Always, PTL

(* opening.rs and accept.rs: two sides that both believe to have a session *)
(* have it with each other, for any number of addresses, any keys behind   *)
(* them and any releases they run.                                         *)
THEOREM Authentication == Spec => []Authentic
<1>1. SessionInv => Authentic
  BY DEF SessionInv, Control, AddressOK, Authentic
<1> QED BY <1>1, Always, PTL

(* net.rs connect: the addresses in order, up to the first that works.     *)
THEOREM TriedInOrder == Spec => []FirstThatWorks
<1>1. SessionInv => FirstThatWorks
  BY DEF SessionInv, Control, AddressOK, FirstThatWorks
<1> QED BY <1>1, Always, PTL

(* codec/encryption.rs: a reader without an error is where a frame starts, *)
(* or behind the length of one, whatever the segments the bytes came in.   *)
THEOREM Alignment == Spec => []Aligned
<1>1. SessionInv => Aligned
  BY DEF SessionInv, Streams, ChannelOK, ReaderOK, InStep, Aligned
<1> QED BY <1>1, Always, PTL

(* codec/encryption.rs: without a message that could not be sealed, and    *)
(* with a writer that is there, decode never fails.                        *)
THEOREM ErrorsCaused == Spec => []ErrorsHaveACause
<1>1. SessionInv => ErrorsHaveACause
  <2> SUFFICES ASSUME SessionInv, NEW a \in Attempts, NEW s \in Sides,
                      flow[<<a, s>>].status \in {"failed", "over"}
               PROVE  Gone(a, s) \/ ~Whole(flow[<<a, s>>])
    BY DEF ErrorsHaveACause
  <2> DEFINE f == flow[<<a, s>>]
  <2>1. f \in Flow /\ StreamOK(f) /\ ReaderOK(a, s, f)
    BY StreamOf
  <2> HIDE DEF f
  <2>2. CASE f.status = "over"
    BY <2>1, <2>2 DEF ReaderOK, f
  <2>3. CASE f.status = "failed"
    <3>1. PICK j \in Nat : BreaksAt(f, j) /\ Lost(f, j)
      BY <2>1, <2>3 DEF StreamOK
    <3>2. j \in 1..Len(f.frames) /\ f.frames[j].nonce = 0
      BY <3>1 DEF Lost, BreaksAt
    <3>3. ~Whole(f)
      BY <2>1, <3>2, FlowFields DEF Whole
    <3> QED BY <3>3 DEF f
  <2> QED BY <2>2, <2>3 DEF f
<1> QED BY <1>1, Always, PTL

(* codec/encryption.rs with FramedRead: a stream that ends without an      *)
(* error ends between two frames, or right behind the length of one.       *)
THEOREM EndsClean == Spec => []CleanEnd
<1>1. SessionInv => CleanEnd
  <2> SUFFICES ASSUME SessionInv, NEW a \in Attempts, NEW s \in Sides,
                      flow[<<a, s>>].status = "ended"
               PROVE  LET f == flow[<<a, s>>]
                      IN  /\ f.got = f.used
                          /\ \/ f.need = AtHead /\ AtNextFrame(f, 0)
                             \/ f.need # AtHead /\ AtNextFrame(f, HeadSize)
    BY DEF CleanEnd, Channels
  <2>1. InStep(flow[<<a, s>>]) /\ flow[<<a, s>>].got = flow[<<a, s>>].used
    BY StreamOf DEF ReaderOK
  <2> QED BY <2>1 DEF InStep
<1> QED BY <1>1, Always, PTL

-----------------------------------------------------------------------------
(* What a step adds to what was said and heard                             *)

Same(c) == flow'[c].said = flow[c].said /\ flow'[c].heard = flow[c].heard

Said(c, m) ==
    /\ flow'[c].said = Append(flow[c].said, m)
    /\ flow'[c].heard = flow[c].heard

HeardNext(c) ==
    LET f == flow[c]
    IN  /\ f.status = "open" /\ Len(f.heard) < Len(f.said)
        /\ flow'[c].said = f.said
        /\ flow'[c].heard = Append(f.heard, f.said[Len(f.heard) + 1])

OnlyOn(c) == \A d \in Channels : d # c => Same(d)

StreamStep ==
    \/ \A c \in Channels : Same(c)
    \/ \E c \in Channels :
        /\ OnlyOn(c)
        /\ HeardNext(c) \/ \E m \in Sends : Said(c, m)

(* A step adds a message to what was said or to what was heard of one      *)
(* direction, or to none.                                                  *)
LEMMA Steps == SessionInv /\ [Next]_vars => StreamStep
<1> SUFFICES ASSUME SessionInv, [Next]_vars PROVE StreamStep
  OBVIOUS
<1>1. CASE UNCHANGED flow
  BY <1>1 DEF StreamStep, Same
<1>2. ASSUME NEW a \in Attempts, NEW s \in Sides, NEW g,
             flow' = [flow EXCEPT ![<<a, s>>] = g]
      PROVE  /\ <<a, s>> \in Channels /\ flow'[<<a, s>>] = g
             /\ OnlyOn(<<a, s>>)
  <2>1. flow \in [Channels -> Flow] /\ <<a, s>> \in Channels
    BY DEF SessionInv, TypeOK, Channels
  <2> QED BY <1>2, <2>1 DEF OnlyOn, Same
<1>3. ASSUME NEW a \in Attempts, NEW s \in Sides, NEW g,
             flow' = [flow EXCEPT ![<<a, s>>] = g],
             g.said = flow[<<a, s>>].said, g.heard = flow[<<a, s>>].heard
      PROVE  StreamStep
  <2>1. Same(<<a, s>>) /\ OnlyOn(<<a, s>>)
    BY <1>2, <1>3 DEF Same
  <2> QED BY <2>1 DEF StreamStep, OnlyOn
<1>4. ASSUME NEW a \in Attempts, Wait(a) PROVE StreamStep
  <2> DEFINE g == ReadExact(flow[<<a, "accepter">>])
  <2>1. flow' = [flow EXCEPT ![<<a, "accepter">>] = g] /\ "accepter" \in Sides
    BY <1>4 DEF Wait, Sides
  <2>2. flow[<<a, "accepter">>] \in Flow
    BY <2>1, StreamOf
  <2>3. /\ g.said = flow[<<a, "accepter">>].said
        /\ g.heard = flow[<<a, "accepter">>].heard
    BY <2>2 DEF ReadExact, Flow
  <2> QED BY <1>3, <2>1, <2>3
<1>5. ASSUME NEW a \in Attempts, NEW release, NEW welcome,
             Handshake(a, release, welcome)
      PROVE  StreamStep
  <2> DEFINE g == ReadExact(flow[<<a, "opener">>])
  <2>1. flow' = [flow EXCEPT ![<<a, "opener">>] = g] /\ "opener" \in Sides
    BY <1>5 DEF Handshake, Sides
  <2>2. flow[<<a, "opener">>] \in Flow
    BY <2>1, StreamOf
  <2>3. /\ g.said = flow[<<a, "opener">>].said
        /\ g.heard = flow[<<a, "opener">>].heard
    BY <2>2 DEF ReadExact, Flow
  <2> QED BY <1>3, <2>1, <2>3
<1>6. ASSUME NEW a \in Attempts, Shake(a) PROVE StreamStep
  BY <1>1, <1>4, <1>5, <1>6 DEF Shake, Dial, Accept, HandshakeCut
<1>7. ASSUME NEW a \in Attempts, NEW s \in Sides, NEW m \in Sends,
             NEW sealed \in BOOLEAN, Send(a, s, m, sealed)
      PROVE  StreamStep
  <2> DEFINE f == flow[<<a, s>>]
             g == Encode(f, m, sealed)
  <2>1. f \in Flow /\ flow' = [flow EXCEPT ![<<a, s>>] = g]
    BY <1>7, StreamOf DEF Send
  <2> HIDE DEF f
  <2>2. /\ g.said = (IF sealed THEN Append(f.said, m) ELSE f.said)
        /\ g.heard = f.heard
    BY <2>1 DEF Encode, Flow
  <2> HIDE DEF g
  <2>3. CASE sealed
    <3>1. /\ <<a, s>> \in Channels /\ OnlyOn(<<a, s>>)
          /\ flow'[<<a, s>>] = g
      BY <1>2, <2>1
    <3>2. Said(<<a, s>>, m)
      BY <2>2, <2>3, <3>1 DEF Said, f
    <3> QED BY <3>1, <3>2 DEF StreamStep
  <2>4. CASE ~sealed
    BY <1>3, <2>1, <2>2, <2>4 DEF f
  <2> QED BY <2>3, <2>4
<1>8. ASSUME NEW a \in Attempts, NEW s \in Sides, Receive(a, s)
      PROVE  StreamStep
  <2> DEFINE f == flow[<<a, s>>]
  <2>1. f \in Flow /\ StreamOK(f) /\ ReaderOK(a, s, f)
    BY StreamOf
  <2>2. CASE Transfer(a, s)
    <3>1. PICK n : flow' = [flow EXCEPT ![<<a, s>>].got = n]
      BY <2>2 DEF Transfer
    <3> DEFINE g == [f EXCEPT !.got = n]
    <3>2. /\ flow' = [flow EXCEPT ![<<a, s>>] = g]
          /\ g.said = f.said /\ g.heard = f.heard
      BY <2>1, <3>1 DEF Flow
    <3> QED BY <1>3, <3>2
  <2>3. CASE EndOfStream(a, s)
    <3>1. PICK x : flow' = [flow EXCEPT ![<<a, s>>].status = x]
      BY <2>3 DEF EndOfStream
    <3> DEFINE g == [f EXCEPT !.status = x]
    <3>2. /\ flow' = [flow EXCEPT ![<<a, s>>] = g]
          /\ g.said = f.said /\ g.heard = f.heard
      BY <2>1, <3>1 DEF Flow
    <3> QED BY <1>3, <3>2
  <2>4. CASE Poll(a, s)
    <3> DEFINE g == Decode(f)
    <3>1. /\ flow' = [flow EXCEPT ![<<a, s>>] = g]
          /\ Established(a, Other(s)) /\ f.status \in {"open", "failed"}
      BY <2>4 DEF Poll
    <3> HIDE DEF f
    <3>2. /\ g.said = f.said
          /\ \/ g.heard = f.heard
             \/ /\ f.status = "open" /\ Len(f.heard) < Len(f.said)
                /\ g.heard = Append(f.heard, f.said[Len(f.heard) + 1])
      BY <2>1, <3>1, DecodeKeeps DEF ReaderOK
    <3> HIDE DEF g
    <3>3. CASE g.heard = f.heard
      BY <1>3, <3>1, <3>2, <3>3 DEF f
    <3>4. CASE g.heard # f.heard
      <4>1. HeardNext(<<a, s>>) /\ OnlyOn(<<a, s>>) /\ <<a, s>> \in Channels
        BY <1>2, <3>1, <3>2, <3>4 DEF HeardNext, f
      <4> QED BY <4>1 DEF StreamStep
    <3> QED BY <3>3, <3>4
  <2> QED BY <1>8, <2>2, <2>3, <2>4 DEF Receive
<1> QED BY <1>1, <1>6, <1>7, <1>8 DEF Next, Resolve, Timeout, Close, vars

(* codec/encryption.rs: noise counts the messages, so a reader that missed *)
(* one opens none of those that follow.                                    *)
THEOREM NothingAfterError == Spec => SilentAfterError
<1>1. SessionInv /\ [Next]_vars =>
        [\A c \in Channels :
            flow[c].status # "open" => flow'[c].heard = flow[c].heard]_vars
  <2>1. StreamStep => \A c \in Channels :
            flow[c].status # "open" => flow'[c].heard = flow[c].heard
    BY DEF StreamStep, OnlyOn, Same, Said, HeardNext
  <2> QED BY <2>1, Steps
<1> QED BY <1>1, Always, PTL DEF Spec, SilentAfterError

(* Handshake, frames and message format give each direction of each        *)
(* connection the messages that were sent on it, in order, each once.      *)
THEOREM SessionIsFifo == Spec => ImplementsFifo
<1>1. Init => Abstract!Init
  <2>1. NoFlow.said = <<>> /\ NoFlow.heard = <<>>
    BY DEF NoFlow
  <2> QED BY <2>1 DEF Init, Abstract!Init
<1>2. SessionInv /\ [Next]_vars => [Abstract!Next]_Abstract!vars
  <2> SUFFICES ASSUME SessionInv, [Next]_vars
               PROVE  [Abstract!Next]_Abstract!vars
    OBVIOUS
  <2> DEFINE said == [c \in Channels |-> flow[c].said]
             heard == [c \in Channels |-> flow[c].heard]
  <2>1. CASE \A c \in Channels : Same(c)
    <3>1. said' = said /\ heard' = heard
      BY <2>1 DEF Same
    <3> QED BY <3>1 DEF Abstract!vars
  <2>2. ASSUME NEW c \in Channels, OnlyOn(c), NEW m \in Sends, Said(c, m)
        PROVE  Abstract!Next
    <3>1. said' = [said EXCEPT ![c] = Append(@, m)]
      BY <2>2 DEF OnlyOn, Same, Said
    <3>2. heard' = heard
      BY <2>2 DEF OnlyOn, Same, Said
    <3> QED BY <3>1, <3>2 DEF Abstract!Next, Abstract!Say
  <2>3. ASSUME NEW c \in Channels, OnlyOn(c), HeardNext(c)
        PROVE  Abstract!Next
    <3>1. said' = said
      BY <2>3 DEF OnlyOn, Same, HeardNext
    <3>2. heard' = [heard EXCEPT ![c] = Append(@, said[c][Len(@) + 1])]
      BY <2>3 DEF OnlyOn, Same, HeardNext
    <3>3. Len(heard[c]) < Len(said[c])
      BY <2>3 DEF HeardNext
    <3> QED BY <3>1, <3>2, <3>3 DEF Abstract!Next, Abstract!Hear
  <2> QED BY <2>1, <2>2, <2>3, Steps DEF StreamStep
<1> QED BY <1>1, <1>2, Always, PTL DEF Spec, ImplementsFifo, Abstract!Spec

=============================================================================
