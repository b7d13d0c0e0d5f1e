-------------------------------- MODULE Fifo --------------------------------
(***************************************************************************)
(* What a secure connection promises, without handshake, frames, keys or   *)
(* bytes: on each channel the messages arrive as they were sent, in the    *)
(* order of sending, each once, none left out; a channel may stop.         *)
(***************************************************************************)
EXTENDS Naturals, Sequences

CONSTANTS Channels, Content

VARIABLES
    said,   \* what was sent on each channel
    heard   \* what arrived

vars == <<said, heard>>

Init ==
    /\ said = [c \in Channels |-> <<>>]
    /\ heard = [c \in Channels |-> <<>>]

Say(c) ==
    /\ \E m \in Content : said' = [said EXCEPT ![c] = Append(@, m)]
    /\ UNCHANGED heard

Hear(c) ==
    /\ Len(heard[c]) < Len(said[c])
    /\ heard' = [heard EXCEPT ![c] = Append(@, said[c][Len(@) + 1])]
    /\ UNCHANGED said

Next == \E c \in Channels : Say(c) \/ Hear(c)

Spec == Init /\ [][Next]_vars

============================================================================
