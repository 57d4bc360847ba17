--------------------------- MODULE StreamDelivery ---------------------------
(***************************************************************************)
(* What the Sequencer layer promises to the layers above it: the messages  *)
(* of a stream are forwarded one by one, in the order the streamer gave    *)
(* them, none before it was sent.                                          *)
(***************************************************************************)
EXTENDS Integers

CONSTANTS
    Stream,  \* ids of the provider's outgoing streams
    MaxSeq   \* bound of the model: messages in one stream

VARIABLES
    sent,      \* messages the streamer has put into each stream
    closed,    \* streams whose last message is the end of the stream
    forwarded  \* messages passed to onMessageCallback

vars == <<sent, closed, forwarded>>

Init ==
    /\ sent = [s \in Stream |-> 0]
    /\ closed = {}
    /\ forwarded = [s \in Stream |-> 0]

Send(s) ==
    /\ s \notin closed
    /\ sent[s] < MaxSeq
    /\ sent' = [sent EXCEPT ![s] = @ + 1]
    /\ closed' \in {closed, closed \cup {s}}
    /\ UNCHANGED forwarded

Forward(s) ==
    /\ forwarded[s] < sent[s]
    /\ forwarded' = [forwarded EXCEPT ![s] = @ + 1]
    /\ UNCHANGED <<sent, closed>>

Next == \E s \in Stream : Send(s) \/ Forward(s)

Spec == Init /\ [][Next]_vars
=============================================================================
