------------------------------ MODULE Session ------------------------------
(***************************************************************************)
(* A secure session between two peers (crate asmtp-network): the opener    *)
(* tries the addresses of the peer one after the other (net.rs); on each   *)
(* connection the noise IK handshake (opening.rs, accept.rs), then frames  *)
(* both ways (codec/encryption.rs, handle.rs), each holding a message.     *)
(*                                                                         *)
(* The bytes of a direction are one stream that never changes: the         *)
(* handshake of that side and then the frames it sealed, each known by     *)
(* where it starts.  `got` bytes of it arrived, in segments of any size,   *)
(* `used` of them were taken out by the reader.  The cipher (keynesis) is  *)
(* external: a handshake can be read by whom it is addressed to, and a     *)
(* ciphertext opens when the bytes are all of it and it is the next one.   *)
(***************************************************************************)
EXTENDS Messages

CONSTANTS
    Keys, Me, Target, \* the public keys; the opener's and that of its peer
    Addresses,        \* how many addresses lookup_host returns
    Releases,         \* the versions of the protocol in use at each address
    MyRelease,       \* the one the opener runs
    HelloSize,        \* the bytes of a handshake message
    HeadSize,         \* HEAD_LENGTH, 2
    Sends,            \* bound: the messages a side may send
    MaxSent,          \* bound: how many of them, for each address
    Nobody

Sides == {"opener", "accepter"}
Attempts == 1..Addresses
Channels == Attempts \X Sides     \* a direction, by the side that writes
Other(s) == IF s = "opener" THEN "accepter" ELSE "opener"

ASSUME SessionAssumption ==
    /\ {Me, Target} \subseteq Keys /\ Nobody \notin Keys
    /\ {Addresses, HelloSize, HeadSize} \subseteq Nat \ {0}
    /\ HeadSize <= MacSize
    /\ MyRelease \in [min : Nat, current : Nat, max : Nat]
    /\ Releases \in [Attempts -> SUBSET [min : Nat, current : Nat, max : Nat]]
    /\ Sends \subseteq Constructible
    /\ MaxSent \in [Attempts -> Nat]

VARIABLES
    trying,   \* the address being tried, 0 before the name is resolved
    outcome,  \* what connect returned
    host,     \* who listens at an address
    phase,    \* how far each end of a connection got
    remote,   \* whom it authenticated
    hello,    \* the handshake message of each end
    flow      \* what each end wrote after it, and how much the other read

vars == <<trying, outcome, host, phase, remote, hello, flow>>

Phases == {"idle", "reading", "waiting", "established", "failed", "closed"}
Statuses == {"open", "failed", "ended", "over"}
Hello == [version : Nat, from : Keys, to : Keys]
Frame == [start : Nat, n : Nat, nonce : Nat]
AtHead == 0                         \* State::Head; Data(n) is n itself

Flow == [said : Seq(Message), frames : Seq(Frame), got : Nat, used : Nat,
         need : Nat, status : Statuses,
         heard : Seq(Message \cup {Invalid, Panic})]

NoFlow == [said |-> <<>>, frames |-> <<>>, got |-> 0, used |-> 0,
           need |-> AtHead, status |-> "open", heard |-> <<>>]

Init ==
    /\ trying = 0 /\ outcome = "trying"
    /\ host = [a \in Attempts |-> Nobody]
    /\ phase = [c \in Channels |-> "idle"]
    /\ remote = [c \in Channels |-> Nobody]
    /\ hello = [c \in Channels |-> <<>>]
    /\ flow = [c \in Channels |-> NoFlow]

Established(a, s) == phase[<<a, s>>] = "established"
Gone(a, s) == phase[<<a, s>>] \in {"failed", "closed"}

-----------------------------------------------------------------------------
(* Connecting and the handshake                                            *)

IsSupported(release, version) ==
    release.min <= version /\ version <= release.max

Resolve ==
    /\ trying = 0 /\ outcome = "trying"
    /\ \/ trying' = 1 /\ UNCHANGED outcome
       \/ outcome' = "failed" /\ UNCHANGED trying
    /\ UNCHANGED <<host, phase, remote, hello, flow>>

GiveUpAtOnce(a) ==
    /\ trying' = a + 1
    /\ outcome' = "failed"
GiveUpInTheEnd(a) ==
    /\ trying' = a + 1
    /\ outcome' = outcome
GiveUp(a) ==
    /\ trying' = a + 1
    /\ outcome' = IF a = Addresses THEN "failed" ELSE outcome

(* TcpStream::connect, and the first message of the handshake.             *)
Dial(a) ==
    /\ outcome = "trying" /\ trying = a /\ phase[<<a, "opener">>] = "idle"
    /\ \/ /\ phase' = [phase EXCEPT ![<<a, "opener">>] = "failed"]
          /\ GiveUp(a)
          /\ UNCHANGED <<host, hello>>
       \/ \E k \in Keys \ {Me} :
          /\ host' = [host EXCEPT ![a] = k]
          /\ phase' = [phase EXCEPT ![<<a, "opener">>] = "waiting"]
          /\ hello' = [hello EXCEPT ![<<a, "opener">>] =
                [version |-> MyRelease.current, from |-> Me, to |-> Target]]
          /\ UNCHANGED <<trying, outcome>>
    /\ UNCHANGED <<remote, flow>>

Accept(a) ==
    /\ host[a] # Nobody /\ phase[<<a, "accepter">>] = "idle"
    /\ phase' = [phase EXCEPT ![<<a, "accepter">>] = "reading"]
    /\ UNCHANGED <<trying, outcome, host, remote, hello, flow>>

(* read_exact: the bytes of the handshake and not one more.                *)
ReadExactGreedy(f) == [f EXCEPT !.used = f.got]
ReadExact(f) == [f EXCEPT !.used = HelloSize]

CheckedVersion(a, h, release, welcome) ==
    IsSupported(release, h.version) /\ welcome
Checked(a, h, release, welcome) ==
    /\ IsSupported(release, h.version)
    /\ h.to = host[a]
    /\ welcome

(* The accepter reads the first message, lets check_id judge the sender,   *)
(* and replies.                                                            *)
Handshake(a, release, welcome) ==
    LET h == hello[<<a, "opener">>]
    IN  /\ phase[<<a, "accepter">>] = "reading"
        /\ flow[<<a, "opener">>].got >= HelloSize
        /\ flow' = [flow EXCEPT ![<<a, "opener">>] = ReadExact(@)]
        /\ \/ /\ Checked(a, h, release, welcome)
              /\ phase' = [phase EXCEPT ![<<a, "accepter">>] = "established"]
              /\ remote' = [remote EXCEPT ![<<a, "accepter">>] = h.from]
              /\ hello' = [hello EXCEPT ![<<a, "accepter">>] =
                    [version |-> release.current,
                     from |-> host[a], to |-> h.from]]
           \/ /\ ~Checked(a, h, release, welcome) \/ Gone(a, "opener")
              /\ phase' = [phase EXCEPT ![<<a, "accepter">>] = "failed"]
              /\ UNCHANGED <<remote, hello>>
        /\ UNCHANGED <<trying, outcome, host>>

Wait(a) ==
    LET h == hello[<<a, "accepter">>]
    IN  /\ phase[<<a, "opener">>] = "waiting"
        /\ flow[<<a, "accepter">>].got >= HelloSize
        /\ flow' = [flow EXCEPT ![<<a, "accepter">>] = ReadExact(@)]
        /\ \/ /\ IsSupported(MyRelease, h.version) /\ h.from = Target
              /\ phase' = [phase EXCEPT ![<<a, "opener">>] = "established"]
              /\ remote' = [remote EXCEPT ![<<a, "opener">>] = Target]
              /\ outcome' = "connected"
              /\ UNCHANGED trying
           \/ /\ ~(IsSupported(MyRelease, h.version) /\ h.from = Target)
              /\ phase' = [phase EXCEPT ![<<a, "opener">>] = "failed"]
              /\ GiveUp(a)
              /\ UNCHANGED remote
        /\ UNCHANGED <<host, hello>>

(* The client gives up after a while, and drops what it was waiting for.   *)
Timeout ==
    /\ outcome = "trying"
    /\ outcome' = "timed out"
    /\ phase' = [c \in Channels |->
                    IF phase[c] = "waiting" THEN "closed" ELSE phase[c]]
    /\ UNCHANGED <<trying, host, remote, hello, flow>>

(* The other side is gone before its message is complete.                  *)
HandshakeCut(a, s) ==
    /\ phase[<<a, s>>] = (IF s = "opener" THEN "waiting" ELSE "reading")
    /\ Gone(a, Other(s))
    /\ phase' = [phase EXCEPT ![<<a, s>>] = "failed"]
    /\ IF s = "opener" THEN GiveUp(a) ELSE UNCHANGED <<trying, outcome>>
    /\ UNCHANGED <<host, remote, hello, flow>>

-----------------------------------------------------------------------------
(* Frames                                                                  *)

End(f) ==
    IF f.frames = <<>> THEN HelloSize
    ELSE LET last == f.frames[Len(f.frames)]
         IN  last.start + HeadSize + (IF last.nonce = 0 THEN 0 ELSE last.n)

(* Encoder::encode.  The length is written before noise seals the message: *)
(* when that fails the length stays in the buffer, here with nonce 0.      *)
FitsFrame(n) == n <= MaxFrame - MacSize

Encode(f, m, sealed) ==
    [f EXCEPT
        !.said = IF sealed THEN Append(@, m) ELSE @,
        !.frames = Append(@,
            [start |-> End(f), n |-> Length(New(m)) + MacSize,
             nonce |-> IF sealed THEN Len(f.said) + 1 ELSE 0])]

Whole(f) == \A i \in DOMAIN f.frames : f.frames[i].nonce # 0

Written(a) ==
    Len(flow[<<a, "opener">>].frames) + Len(flow[<<a, "accepter">>].frames)

Send(a, s, m, sealed) ==
    /\ Established(a, s)
    /\ Written(a) < MaxSent[a]
    /\ sealed \/ Whole(flow[<<a, s>>])          \* bound: one failure
    /\ FitsFrame(Length(New(m)))
    /\ flow' = [flow EXCEPT ![<<a, s>>] = Encode(@, m, sealed)]
    /\ UNCHANGED <<trying, outcome, host, phase, remote, hello>>

(* poll_flush and TCP: any more of what was written gets to the reader,    *)
(* also after the writer is gone.                                          *)
Transfer(a, s) ==
    /\ hello[<<a, s>>] # <<>> /\ ~Gone(a, Other(s))
    /\ flow[<<a, s>>].status \in {"open", "failed"}
    /\ \E n \in flow[<<a, s>>].got + 1 .. End(flow[<<a, s>>]) :
        flow' = [flow EXCEPT ![<<a, s>>].got = n]
    /\ UNCHANGED <<trying, outcome, host, phase, remote, hello>>

(* The length that starts at the next byte.  Bytes that are not one would  *)
(* read as anything; the reader never gets there (Aligned).                *)
LengthAt(f) ==
    LET here == {i \in DOMAIN f.frames : f.frames[i].start = f.used}
    IN  IF here = {} THEN 0 ELSE f.frames[CHOOSE i \in here : TRUE].n

DecodeHeadForgets(f) ==
    IF f.need # AtHead \/ f.got - f.used < HeadSize THEN f
    ELSE IF f.got - f.used < HeadSize + LengthAt(f)
    THEN [f EXCEPT !.used = @ + HeadSize]
    ELSE [f EXCEPT !.used = @ + HeadSize, !.need = LengthAt(f)]
DecodeHead(f) ==
    IF f.need # AtHead \/ f.got - f.used < HeadSize THEN f
    ELSE LET n == LengthAt(f)
         IN  [f EXCEPT !.used = @ + HeadSize,
                       !.need = IF MacSize <= n /\ n <= MaxFrame THEN n ELSE @,
                       !.status = IF MacSize <= n /\ n <= MaxFrame
                                  THEN @ ELSE "failed"]

(* noise.receive on the next n bytes.                                      *)
Opens(f) ==
    \E i \in DOMAIN f.frames :
        /\ f.frames[i].start + HeadSize = f.used
        /\ f.frames[i].n = f.need
        /\ f.frames[i].nonce = Len(f.heard) + 1

Taken(f) == [f EXCEPT !.used = @ + f.need]

Opened(f) ==
    [Taken(f) EXCEPT
        !.heard = Append(@, TryFromSlice(New(f.said[Len(@) + 1]))),
        !.need = AtHead]

Failed(f) == [Taken(f) EXCEPT !.status = "failed"]

DecodeDataRaw(f) ==
    IF f.need = AtHead \/ f.got - f.used < f.need THEN f
    ELSE IF Opens(f)
    THEN [Taken(f) EXCEPT !.heard = Append(@, New(f.said[Len(@) + 1])),
                          !.need = AtHead]
    ELSE Failed(f)
DecodeDataSkips(f) ==
    IF f.need = AtHead \/ f.got - f.used < f.need THEN f
    ELSE IF Opens(f) THEN [Opened(f) EXCEPT !.need = f.need] ELSE Failed(f)
DecodeDataResumes(f) ==
    IF f.need = AtHead \/ f.got - f.used < f.need THEN f
    ELSE IF Opens(f) THEN Opened(f)
    ELSE [f EXCEPT !.status = "failed", !.need = AtHead]
DecodeDataWaits(f) ==
    IF f.need = AtHead \/ f.got - f.used <= f.need THEN f
    ELSE IF Opens(f) THEN Opened(f) ELSE Failed(f)
DecodeData(f) ==
    IF f.need = AtHead \/ f.got - f.used < f.need THEN f
    ELSE IF Opens(f) THEN Opened(f) ELSE Failed(f)

(* Decoder::decode, as FramedRead calls it: the head may have come with an *)
(* earlier call.  After an error some releases of tokio-util go on         *)
(* polling, others end the stream.                                         *)
Decode(f) ==
    LET h == DecodeHead(f)
    IN  IF f.status = "open" /\ h.status = "failed" THEN h ELSE DecodeData(h)

Poll(a, s) ==
    /\ Established(a, Other(s))
    /\ flow[<<a, s>>].status \in {"open", "failed"}
    /\ Decode(flow[<<a, s>>]) # flow[<<a, s>>]
    /\ flow' = [flow EXCEPT ![<<a, s>>] = Decode(@)]
    /\ UNCHANGED <<trying, outcome, host, phase, remote, hello>>

(* The stream ends: the writer is gone, or FramedRead stops after an       *)
(* error.  Bytes that are left and are no frame are an error.              *)
EndOfStream(a, s) ==
    /\ Established(a, Other(s))
    /\ LET f == flow[<<a, s>>]
       IN  \/ /\ f.status = "open" /\ Gone(a, s) /\ Decode(f) = f
              /\ flow' = [flow EXCEPT ![<<a, s>>].status =
                            IF f.used = f.got THEN "ended" ELSE "over"]
           \/ /\ f.status = "failed"
              /\ flow' = [flow EXCEPT ![<<a, s>>].status = "over"]
    /\ UNCHANGED <<trying, outcome, host, phase, remote, hello>>

(* A side drops its connection, or dies.                                   *)
Close(a, s) ==
    /\ phase[<<a, s>>] \in {"reading", "established"}
    /\ phase' = [phase EXCEPT ![<<a, s>>] = "closed"]
    /\ UNCHANGED <<trying, outcome, host, remote, hello, flow>>

-----------------------------------------------------------------------------
Shake(a) ==
    \/ Dial(a) \/ Accept(a) \/ Wait(a)
    \/ \E release \in Releases[a], welcome \in BOOLEAN :
        Handshake(a, release, welcome)
    \/ \E s \in Sides : HandshakeCut(a, s)

Receive(a, s) == Transfer(a, s) \/ Poll(a, s) \/ EndOfStream(a, s)

Next ==
    \/ Resolve \/ Timeout
    \/ \E a \in Attempts :
        \/ Shake(a)
        \/ \E s \in Sides :
            \/ \E m \in Sends, sealed \in BOOLEAN : Send(a, s, m, sealed)
            \/ Receive(a, s)
            \/ Close(a, s)

Spec == Init /\ [][Next]_vars

(* The futures are polled when bytes come, and TCP delivers.  Nothing      *)
(* obliges a side to send or to close.                                     *)
FairSpec ==
    /\ Spec
    /\ WF_vars(Resolve)
    /\ \A a \in Attempts :
        /\ WF_vars(Shake(a))
        /\ \A s \in Sides : WF_vars(Receive(a, s))

-----------------------------------------------------------------------------
TypeOK ==
    /\ trying \in 0..Addresses + 1
    /\ outcome \in {"trying", "connected", "failed", "timed out"}
    /\ host \in [Attempts -> Keys \cup {Nobody}]
    /\ phase \in [Channels -> Phases]
    /\ remote \in [Channels -> Keys \cup {Nobody}]
    /\ hello \in [Channels -> Hello \cup {<<>>}]
    /\ flow \in [Channels -> Flow]

(* Who believes to talk to the other does: the side that opened a session  *)
(* is with the key it asked for, and the one that accepted it, at that     *)
(* address, is with the opener; and no session is open on one side only    *)
(* unless the other dropped it or has the answer still to read.            *)
Authentic ==
    \A a \in Attempts :
        /\ remote[<<a, "opener">>] # Nobody =>
            /\ remote[<<a, "opener">>] = Target
            /\ remote[<<a, "accepter">>] = Me
        /\ remote[<<a, "accepter">>] # Nobody =>
            /\ remote[<<a, "accepter">>] = Me
            /\ host[a] = Target

(* connect tries the addresses in order, the next one only when the one    *)
(* before failed, stops at the first that works, and says so.              *)
FirstThatWorks ==
    \A a \in Attempts :
        /\ a < trying => phase[<<a, "opener">>] = "failed"
        /\ a > trying => phase[<<a, "opener">>] = "idle"
        /\ remote[<<a, "opener">>] # Nobody <=>
            outcome = "connected" /\ a = trying
        /\ outcome = "failed" => trying \in {0, Addresses + 1}

(* The reader stays in step with the writer: where it looks for a length   *)
(* there is one, and the bytes it takes for a message are one.             *)
AtNextFrame(f, offset) ==
    LET i == Len(f.heard) + 1
    IN  IF i <= Len(f.frames) THEN f.used = f.frames[i].start + offset
        ELSE f.used = End(f) /\ offset = 0

Aligned ==
    \A a \in Attempts, s \in Sides :
        LET f == flow[<<a, s>>]
        IN  Established(a, Other(s)) /\ f.status = "open" =>
            IF f.need = AtHead THEN AtNextFrame(f, 0)
            ELSE /\ AtNextFrame(f, HeadSize)
                 /\ f.need = f.frames[Len(f.heard) + 1].n

(* A reader reports an error only when the writer went away or failed to   *)
(* seal a message: never for a frame in two segments, two frames in one,   *)
(* or a message that came along with the handshake.                        *)
ErrorsHaveACause ==
    \A a \in Attempts, s \in Sides :
        flow[<<a, s>>].status \in {"failed", "over"} =>
            Gone(a, s) \/ ~Whole(flow[<<a, s>>])

(* A stream that ended without an error was cut between two frames, or     *)
(* right after the length of one, which is no longer in the buffer then.   *)
CleanEnd ==
    \A c \in Channels :
        LET f == flow[c]
        IN  f.status = "ended" =>
            /\ f.got = f.used
            /\ \/ f.need = AtHead /\ AtNextFrame(f, 0)
               \/ f.need # AtHead /\ AtNextFrame(f, HeadSize)

(* Nothing is read after an error or the end, whatever the bytes that      *)
(* follow: a stream that lost its step does not find it again.             *)
SilentAfterError ==
    [][\A c \in Channels :
        flow[c].status # "open" => flow'[c].heard = flow[c].heard]_vars

(* Handshake, frames and message format together are a FIFO of messages,   *)
(* in each direction of each connection.                                   *)
Abstract == INSTANCE Fifo WITH
    Content <- Sends,
    said <- [c \in Channels |-> flow[c].said],
    heard <- [c \in Channels |-> flow[c].heard]

ImplementsFifo == Abstract!Spec

(* What is sent gets there, unless a side goes or a message failed.        *)
SentIsHeard ==
    <>[](\A a \in Attempts, s \in Sides :
            \/ Len(flow[<<a, s>>].heard) = Len(flow[<<a, s>>].said)
            \/ Gone(a, s) \/ Gone(a, Other(s)) \/ ~Whole(flow[<<a, s>>]))

(* connect comes to an end whatever it finds at the addresses, as long as  *)
(* those who accepted its connection go on or go away.                     *)
ConnectEnds == <>(outcome # "trying")

============================================================================
