------------------------------ MODULE Sequencer ------------------------------
(***************************************************************************)
(* The Sequencer layer of the communication stack                          *)
(* (src/helpers/src/communication/layers/sequencer.h): it puts the         *)
(* messages of the provider's streams back into order, asks for missing    *)
(* ones and acknowledges forwarded ones.                                   *)
(*                                                                         *)
(* Incoming messages are handled one at a time, on the connection pool's   *)
(* thread, under a shared lock on m_buffers; the periodic request runs on  *)
(* the scheduler's threads, takes the exclusive lock only to copy the      *)
(* expected sequence numbers, and sends its requests without it.  The      *)
(* handler is one step per turn of the loop in Buffer::clear().            *)
(*                                                                         *)
(* Outside src/: the provider, which keeps the messages of a stream until  *)
(* they are acknowledged and resends the requested ones; and the network   *)
(* between the two, several connections that lose, duplicate and reorder.  *)
(***************************************************************************)
EXTENDS Integers, Sequences

CONSTANTS
    Stream,     \* ids of the provider's outgoing streams
    NoStream,   \* no stream
    AckWindow,  \* STREAM_MSG_ACK_WINDOW
    UintMax,    \* the largest value of uint64_t
    MaxSeq,     \* bound of the model: messages in one stream
    Repeated,   \* bound of the model: numbers that a buffer may hold more than once,
    MaxCopies   \*   and how often

ASSUME AckWindowAssumption == AckWindow \in Nat \ {0}
ASSUME MaxSeqAssumption == MaxSeq \in Nat /\ UintMax \in Nat /\ MaxSeq <= UintMax
ASSUME NoStreamAssumption == NoStream \notin Stream

VARIABLES
    pool,        \* "connected" once ConnectionPool::m_connected is set
    m_buffers,   \* streams that have a Buffer
    m_seqNum,    \* Buffer::m_seqNum, expected sequence number
    m_seqNumAck, \* Buffer::m_seqNumAck, first unacknowledged one
    m_buffer,    \* Buffer::m_buffer, copies of each number in the priority queue
    handling,    \* the stream whose message is being handled
    unsent,      \* requests of the periodic job that were computed and not yet sent
    delivered,   \* numbers given to onMessageCallback since the Buffer was created
    finished,    \* history: streams whose end has been forwarded
    sent,        \* provider: messages put into the stream
    closed,      \* provider: streams whose last message is the end of the stream
    acked,       \* provider: messages discarded because they were acknowledged
    toClient,    \* network: <<stream, number>> on their way to the client
    toProvider   \* network: requests, acknowledgements and resets on their way

buffers == <<m_buffers, m_seqNum, m_seqNumAck, m_buffer>>
provider == <<sent, closed, acked>>
vars == <<pool, buffers, handling, unsent, delivered, finished, provider,
          toClient, toProvider>>

SeqNum == 0..MaxSeq
Request == [type : {"request"}, stream : Stream, lower : Nat, upper : Nat]
Acknowledgement == [type : {"ack"}, stream : Stream, number : Nat]
Reset == [type : {"reset"}]

TypeOK ==
    /\ pool \in {"created", "connected"}
    /\ m_buffers \in SUBSET Stream
    /\ m_seqNum \in [Stream -> SeqNum]
    /\ m_seqNumAck \in [Stream -> SeqNum]
    /\ m_buffer \in [Stream -> [SeqNum -> Nat]]
    /\ handling \in Stream \cup {NoStream}
    /\ unsent \in SUBSET Request
    /\ delivered \in [Stream -> Seq(SeqNum)]
    /\ finished \in SUBSET Stream
    /\ sent \in [Stream -> SeqNum]
    /\ closed \in SUBSET Stream
    /\ acked \in [Stream -> SeqNum]
    /\ toClient \in SUBSET (Stream \X SeqNum)
    /\ toProvider \in SUBSET (Request \cup Acknowledgement \cup Reset)

Init ==
    /\ pool = "created"
    /\ m_buffers = {}
    /\ m_seqNum = [s \in Stream |-> 0]
    /\ m_seqNumAck = [s \in Stream |-> 0]
    /\ m_buffer = [s \in Stream |-> [n \in SeqNum |-> 0]]
    /\ handling = NoStream
    /\ unsent = {}
    /\ delivered = [s \in Stream |-> <<>>]
    /\ finished = {}
    /\ sent = [s \in Stream |-> 0]
    /\ closed = {}
    /\ acked = [s \in Stream |-> 0]
    /\ toClient = {}
    /\ toProvider = {}

------------------------------------------------------------------------------
(* Sending.  ConnectionPool::send() drops what it gets before connect().   *)

Send(msgs) == toProvider' = IF pool = "connected" THEN toProvider \cup msgs ELSE toProvider

MessageRequest(s, lower, upper) ==
    [type |-> "request", stream |-> s, lower |-> lower, upper |-> upper]

MessageAcknowledgement(s, n) == [type |-> "ack", stream |-> s, number |-> n]

\* The predecessor of an unsigned number.
Pred(n) == IF n = 0 THEN UintMax ELSE n - 1

\* connect(): the reset is sent first, then the lower layers connect.
Connect ==
    /\ pool = "created"
    /\ Send({[type |-> "reset"]})
    /\ pool' = "connected"
    /\ UNCHANGED <<buffers, handling, unsent, delivered, finished, provider, toClient>>

------------------------------------------------------------------------------
(* The handler of incoming stream messages.                                *)

\* The number on top of the priority queue, when there is one.
Pending(s) == {n \in SeqNum : m_buffer[s][n] > 0}
IsTop(s, n) == n \in Pending(s) /\ \A k \in Pending(s) : n <= k
Pop(s, n) == m_buffer' = [m_buffer EXCEPT ![s][n] = @ - 1]

\* Variant: push() accepts forwarded messages and the Buffer of a stream is replaced
\* when its first message comes again.
ReceiveRestarts(s, n) ==
    /\ pool = "connected"
    /\ handling = NoStream
    /\ <<s, n>> \in toClient
    /\ m_buffer[s][n] < IF n \in Repeated THEN MaxCopies ELSE 1
    /\ handling' = s
    /\ m_buffers' = m_buffers \cup {s}
    /\ delivered' = IF n = 0 THEN [delivered EXCEPT ![s] = <<>>] ELSE delivered
    /\ m_seqNum' = IF n = 0 THEN [m_seqNum EXCEPT ![s] = 0] ELSE m_seqNum
    /\ m_buffer' = [m_buffer EXCEPT ![s][n] = @ + 1]
    /\ toClient' \in {toClient, toClient \ {<<s, n>>}}
    /\ UNCHANGED <<pool, m_seqNumAck, unsent, finished, provider, toProvider>>

\* A message arrives, by one of the connections and perhaps not for the last time:
\* insert() makes a value-initialised Buffer for a new stream and push() ignores old
\* numbers.
Receive(s, n) ==
    /\ pool = "connected"
    /\ handling = NoStream
    /\ <<s, n>> \in toClient
    /\ m_buffer[s][n] < IF n \in Repeated THEN MaxCopies ELSE 1
    /\ handling' = s
    /\ m_buffers' = m_buffers \cup {s}
    /\ delivered' = IF s \in m_buffers THEN delivered ELSE [delivered EXCEPT ![s] = <<>>]
    /\ m_buffer' = IF n >= m_seqNum[s] THEN [m_buffer EXCEPT ![s][n] = @ + 1] ELSE m_buffer
    /\ toClient' \in {toClient, toClient \ {<<s, n>>}}
    /\ UNCHANGED <<pool, m_seqNum, m_seqNumAck, unsent, finished, provider,
                   toProvider>>

\* The expected message is on top: it is forwarded, and the loop goes on.
ForwardTop(s) ==
    /\ handling = s
    /\ IsTop(s, m_seqNum[s])
    /\ ~(s \in closed /\ m_seqNum[s] = sent[s] - 1)
    /\ Pop(s, m_seqNum[s])
    /\ m_seqNum' = [m_seqNum EXCEPT ![s] = @ + 1]
    /\ delivered' = [delivered EXCEPT ![s] = Append(@, m_seqNum[s])]
    /\ UNCHANGED <<pool, m_buffers, m_seqNumAck, handling, unsent, finished,
                   provider, toClient, toProvider>>

\* The expected message is the end of the stream: it is forwarded and acknowledged,
\* and the Buffer is erased.
ForwardEnd(s) ==
    /\ handling = s
    /\ IsTop(s, m_seqNum[s])
    /\ s \in closed /\ m_seqNum[s] = sent[s] - 1
    /\ delivered' = [delivered EXCEPT ![s] = Append(@, m_seqNum[s])]
    /\ finished' = finished \cup {s}
    /\ Send({MessageAcknowledgement(s, m_seqNum[s])})
    /\ m_buffers' = m_buffers \ {s}
    /\ m_seqNum' = [m_seqNum EXCEPT ![s] = 0]
    /\ m_seqNumAck' = [m_seqNumAck EXCEPT ![s] = 0]
    /\ m_buffer' = [m_buffer EXCEPT ![s] = [n \in SeqNum |-> 0]]
    /\ handling' = NoStream
    /\ UNCHANGED <<pool, unsent, provider, toClient>>

\* A copy of a forwarded message is on top: it is dropped, and the loop goes on.
DropTop(s) ==
    /\ handling = s
    /\ \E n \in SeqNum : n < m_seqNum[s] /\ IsTop(s, n) /\ Pop(s, n)
    /\ UNCHANGED <<pool, m_buffers, m_seqNum, m_seqNumAck, handling, unsent,
                   delivered, finished, provider, toClient, toProvider>>

\* Variant: the acknowledgement names the expected message, not the one before it.
FinishAckExpected(s, cleared) ==
    LET full == m_seqNum[s] >= m_seqNumAck[s] + AckWindow
        request == IF m_seqNum[s] <= cleared
                   THEN {MessageRequest(s, m_seqNum[s], cleared)} ELSE {}
        ack == IF full THEN {MessageAcknowledgement(s, m_seqNum[s])} ELSE {}
    IN  /\ Send(request \cup ack)
        /\ m_seqNumAck' = IF full THEN [m_seqNumAck EXCEPT ![s] = m_seqNum[s]]
                          ELSE m_seqNumAck
        /\ handling' = NoStream
        /\ UNCHANGED <<pool, m_buffers, m_seqNum, m_buffer, unsent, delivered,
                       finished, provider, toClient>>

\* clear() returns {cleared, false}: what lies between the expected and the pending
\* message is requested, a full window is acknowledged.
Finish(s, cleared) ==
    LET full == m_seqNum[s] >= m_seqNumAck[s] + AckWindow
        request == IF m_seqNum[s] <= cleared
                   THEN {MessageRequest(s, m_seqNum[s], cleared)} ELSE {}
        ack == IF full THEN {MessageAcknowledgement(s, m_seqNum[s] - 1)} ELSE {}
    IN  /\ Send(request \cup ack)
        /\ m_seqNumAck' = IF full THEN [m_seqNumAck EXCEPT ![s] = m_seqNum[s]]
                          ELSE m_seqNumAck
        /\ handling' = NoStream
        /\ UNCHANGED <<pool, m_buffers, m_seqNum, m_buffer, unsent, delivered,
                       finished, provider, toClient>>

\* Variant: the pending message is requested too.
FinishPendingInclusive(s) ==
    /\ handling = s
    /\ \E n \in SeqNum : n > m_seqNum[s] /\ IsTop(s, n) /\ Finish(s, n)

FinishPending(s) ==
    /\ handling = s
    /\ \E n \in SeqNum : n > m_seqNum[s] /\ IsTop(s, n) /\ Finish(s, n - 1)

FinishEmpty(s) ==
    /\ handling = s
    /\ Pending(s) = {}
    /\ Finish(s, Pred(m_seqNum[s]))

Handler(s) == ForwardTop(s) \/ ForwardEnd(s) \/ DropTop(s) \/ FinishPending(s)
              \/ FinishEmpty(s)

------------------------------------------------------------------------------
(* The periodic request.                                                   *)

\* Variant: only streams with pending messages are asked for.
GetPendingSequenceNumbers ==
    /\ pool = "connected"
    /\ handling = NoStream
    /\ unsent = {}
    /\ unsent' = {MessageRequest(s, m_seqNum[s], m_seqNum[s]) :
                     s \in {t \in m_buffers : Pending(t) # {}}}
    /\ UNCHANGED <<pool, buffers, handling, delivered, finished, provider,
                   toClient, toProvider>>

\* getStreamSequenceNumbers(), under the exclusive lock.
GetStreamSequenceNumbers ==
    /\ pool = "connected"
    /\ handling = NoStream
    /\ unsent = {}
    /\ unsent' = {MessageRequest(s, m_seqNum[s], m_seqNum[s]) : s \in m_buffers}
    /\ UNCHANGED <<pool, buffers, handling, delivered, finished, provider,
                   toClient, toProvider>>

\* One turn of periodicMessageRequest()'s loop, with no lock.
SendPeriodicRequest(r) ==
    /\ r \in unsent
    /\ unsent' = unsent \ {r}
    /\ Send({r})
    /\ UNCHANGED <<pool, buffers, handling, delivered, finished, provider,
                   toClient>>

------------------------------------------------------------------------------
(* The provider and the network.                                           *)

\* The provider puts the next message, perhaps the last one, into the stream.
StreamMessage(s, end) ==
    /\ pool = "connected"
    /\ s \notin closed
    /\ sent[s] < MaxSeq
    /\ sent' = [sent EXCEPT ![s] = @ + 1]
    /\ closed' = IF end THEN closed \cup {s} ELSE closed
    /\ toClient' = toClient \cup {<<s, sent[s]>>}
    /\ UNCHANGED <<pool, buffers, handling, unsent, delivered, finished, acked,
                   toProvider>>

Resend(r) ==
    /\ r \in toProvider
    /\ r.type = "request"
    /\ toProvider' = toProvider \ {r}
    /\ toClient' = toClient \cup
         {<<r.stream, n>> : n \in {m \in SeqNum : /\ r.lower <= m /\ m <= r.upper
                                                  /\ acked[r.stream] <= m
                                                  /\ m < sent[r.stream]}}
    /\ UNCHANGED <<pool, buffers, handling, unsent, delivered, finished, provider>>

Discard(a) ==
    /\ a \in toProvider
    /\ a.type = "ack"
    /\ toProvider' = toProvider \ {a}
    /\ acked' = [acked EXCEPT ![a.stream] = IF a.number < @ THEN @ ELSE a.number + 1]
    /\ UNCHANGED <<pool, buffers, handling, unsent, delivered, finished, sent,
                   closed, toClient>>

\* A connection breaks with a message on it.  (A loss on the way to the client while
\* the handler runs is the same as one before it, which the handler cannot see.)
Lose ==
    /\ \/ /\ handling = NoStream
          /\ \E m \in toClient : toClient' = toClient \ {m}
          /\ UNCHANGED toProvider
       \/ \E m \in toProvider : toProvider' = toProvider \ {m} /\ UNCHANGED toClient
    /\ UNCHANGED <<pool, buffers, handling, unsent, delivered, finished, provider>>

Next ==
    \/ Connect
    \/ \E s \in Stream : \/ \E n \in SeqNum : Receive(s, n)
                         \/ Handler(s)
                         \/ \E end \in BOOLEAN : StreamMessage(s, end)
    \/ GetStreamSequenceNumbers
    \/ \E r \in unsent : SendPeriodicRequest(r)
    \/ \E m \in toProvider : Resend(m) \/ Discard(m)
    \/ Lose

Spec == Init /\ [][Next]_vars

\* The periodic request for the expected message of s is answered; that message, as
\* resent, gets through.
ResendExpected(s) == Resend(MessageRequest(s, m_seqNum[s], m_seqNum[s]))
ReceiveExpected(s) == Receive(s, m_seqNum[s])

\* The scheduler runs the periodic job again and again and the lock on m_buffers
\* does not starve it; a handler that runs goes on; and the connections, which are
\* recreated for ever, let through what is sent again and again.
Fairness ==
    /\ SF_vars(GetStreamSequenceNumbers)
    /\ WF_vars(\E r \in unsent : SendPeriodicRequest(r))
    /\ \A s \in Stream : /\ WF_vars(Handler(s))
                         /\ SF_vars(ResendExpected(s)) /\ SF_vars(ReceiveExpected(s))

FairSpec == Spec /\ Fairness
------------------------------------------------------------------------------
(* Properties.                                                             *)

\* "onMessageCallback is called in the order set by the streamer": through loss,
\* duplication and reordering, a Buffer forwards 0, 1, 2, ... without gap or repeat.
InOrder ==
    \A s \in Stream : \A i \in 1..Len(delivered[s]) : delivered[s][i] = i - 1

\* Acknowledging is safe: whatever the provider has discarded on behalf of an
\* acknowledgement was forwarded by the client before.
DiscardedIsForwarded ==
    \A s \in Stream \ finished : acked[s] <= Len(delivered[s])

\* The request of the handler covers messages that exist and that the client has
\* neither forwarded nor in its buffer (in particular its bounds never wrap).
RequestsOnlyMissing ==
    [][\A r \in toProvider' \ toProvider :
         r.type = "request" /\ handling = r.stream /\ handling' = NoStream
         => /\ r.lower <= r.upper /\ r.upper < sent[r.stream]
            /\ \A n \in r.lower..r.upper : /\ n \notin Pending(r.stream)
                                          /\ n >= Len(delivered[r.stream])]_vars

\* A stream of which the client has seen one message is forwarded to its end,
\* whatever is lost: the periodic request asks for the expected message for ever.
Completes == \A s \in Stream : s \in m_buffers /\ s \in closed ~> s \in finished

\* The layer implements StreamDelivery.
forwarded == [s \in Stream |-> IF s \in finished THEN sent[s] ELSE Len(delivered[s])]
Delivery == INSTANCE StreamDelivery
                WITH Stream <- Stream, MaxSeq <- MaxSeq,
                     sent <- sent, closed <- closed, forwarded <- forwarded
DeliversStreams == Delivery!Spec

\* "Moreover sends message stream reset request for all server side streams":
\* after connect() the reset is on its way to the provider.
ConnectSendsReset == [][Connect => [type |-> "reset"] \in toProvider']_vars
==============================================================================
