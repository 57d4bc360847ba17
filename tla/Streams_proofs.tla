--------------------------- MODULE Streams_proofs ---------------------------
(***************************************************************************)
(* Theorems about message streams, for any streams, threads, window and    *)
(* number of messages.  From the provider (Sequencer): streams are         *)
(* forwarded in order, acknowledging is safe, requests name only missing   *)
(* messages, and the layer implements StreamDelivery.  To the provider     *)
(* (TypedStream): what it lacks stays available for resending.             *)
(***************************************************************************)
EXTENDS Streams, TLAPS

------------------------------------------------------------------------------
(* The inductive invariant.                                                *)

\* Nothing is under way or in a Buffer that the provider has not sent.
InFlight == \A m \in toClient : m[2] < sent[m[1]]
Buffered == \A s \in Stream, n \in SeqNum : m_buffer[s][n] > 0 => n < sent[s]

\* A Buffer has forwarded the messages below its expected number, and a stream
\* without a Buffer has, unless it is finished, forwarded nothing.
Forwarded == \A s \in m_buffers : Len(delivered[s]) = m_seqNum[s]
Fresh ==
    \A s \in Stream \ m_buffers :
        /\ m_seqNum[s] = 0 /\ m_seqNumAck[s] = 0
        /\ \A n \in SeqNum : m_buffer[s][n] = 0
        /\ s \notin finished => delivered[s] = <<>>

Counters == \A s \in Stream : m_seqNum[s] <= sent[s] /\ acked[s] <= sent[s]

\* An acknowledgement under way is for a forwarded message.
Acks ==
    \A a \in toProvider : a.type = "ack" =>
        /\ a.number < sent[a.stream]
        /\ a.stream \notin finished => a.number < Len(delivered[a.stream])

\* A handler works on a Buffer; as long as that one has forwarded nothing, it has
\* something in its queue, so that the expected number is not decremented below 0.
Handled ==
    handling # NoStream => /\ handling \in m_buffers
                           /\ m_seqNum[handling] = 0 => Pending(handling) # {}

Ended == finished \subseteq closed

IInv == /\ TypeOK /\ InFlight /\ Buffered /\ Forwarded /\ Fresh /\ Counters
        /\ Acks /\ Handled /\ Ended /\ InOrder /\ DiscardedIsForwarded

------------------------------------------------------------------------------
(* Sending.                                                                *)

\* What is added to toProvider by Send() is among the messages given to it.
LEMMA SendAdds ==
    ASSUME NEW msgs, Send(msgs)
    PROVE  /\ toProvider' \subseteq toProvider \cup msgs
           /\ \A m \in toProvider' : m \in toProvider \/ m \in msgs
BY Zenon DEF Send

\* Acknowledgements and requests are told apart by their type.
LEMMA MessageTypes ==
    /\ \A m \in Request : m.type = "request" /\ m.stream \in Stream
                          /\ m.lower \in Nat /\ m.upper \in Nat
    /\ \A m \in Acknowledgement : m.type = "ack" /\ m.stream \in Stream /\ m.number \in Nat
    /\ \A m \in Reset : m.type = "reset"
    /\ \A s \in Stream, n \in Nat : /\ MessageAcknowledgement(s, n) \in Acknowledgement
                                    /\ MessageAcknowledgement(s, n).stream = s
                                    /\ MessageAcknowledgement(s, n).number = n
    /\ \A s \in Stream, l \in Nat, u \in Nat : /\ MessageRequest(s, l, u) \in Request
                                               /\ MessageRequest(s, l, u).stream = s
                                               /\ MessageRequest(s, l, u).lower = l
                                               /\ MessageRequest(s, l, u).upper = u
BY Zenon DEF Request, Acknowledgement, Reset, MessageAcknowledgement, MessageRequest

\* Before the first message there are no Buffers and nothing is under way.
LEMMA InitIInv == Init => IInv
<1> SUFFICES ASSUME Init PROVE IInv
    BY Zenon
<1> USE MaxSeqAssumption, NoStreamAssumption
<1>1. TypeOK
  BY DEF Init, TypeOK, SeqNum
<1>2. InFlight /\ Buffered /\ Forwarded /\ Fresh /\ Counters
  BY DEF Init, InFlight, Buffered, Forwarded, Fresh, Counters, SeqNum
<1>3. Acks /\ Handled /\ Ended
  BY Zenon DEF Init, Acks, Handled, Ended
<1>4. InOrder /\ DiscardedIsForwarded
  BY DEF Init, InOrder, DiscardedIsForwarded
<1> QED
  BY <1>1, <1>2, <1>3, <1>4, Zenon DEF IInv

\* The types, stream by stream.
LEMMA Pointwise ==
    ASSUME TypeOK, NEW s \in Stream
    PROVE  /\ m_seqNum[s] \in Nat /\ m_seqNumAck[s] \in Nat
           /\ sent[s] \in Nat /\ acked[s] \in Nat
           /\ sent[s] <= MaxSeq
           /\ delivered[s] \in Seq(SeqNum)
           /\ Len(delivered[s]) \in Nat
           /\ \A n \in SeqNum : m_buffer[s][n] \in Nat
<1>1. /\ m_seqNum[s] \in 0..MaxSeq /\ m_seqNumAck[s] \in 0..MaxSeq
      /\ sent[s] \in 0..MaxSeq /\ acked[s] \in 0..MaxSeq
  BY Zenon DEF TypeOK, SeqNum
<1>2. delivered[s] \in Seq(SeqNum)
  BY Zenon DEF TypeOK
<1>3. \A n \in SeqNum : m_buffer[s][n] \in Nat
  BY DEF TypeOK
<1> QED
  BY <1>1, <1>2, <1>3, MaxSeqAssumption

\* What the invariant says of an acknowledgement under way.
LEMMA AckUnderWay ==
    ASSUME IInv, NEW a \in toProvider, a.type = "ack"
    PROVE  /\ a.stream \in Stream /\ a.number \in Nat
           /\ a.number < sent[a.stream]
           /\ a.stream \notin finished => a.number < Len(delivered[a.stream])
BY MessageTypes DEF IInv, TypeOK, Acks

------------------------------------------------------------------------------
(* Every action preserves the invariant.                                  *)

\* connect(): at most a reset is added to what is under way.
LEMMA ConnectStep ==
    ASSUME IInv, Connect
    PROVE  IInv'
<1>1. /\ pool' = "connected"
      /\ UNCHANGED <<m_buffers, m_seqNum, m_seqNumAck, m_buffer, handling, unsent,
                     delivered, finished, sent, closed, acked, toClient>>
  BY Zenon DEF Connect, buffers, provider
<1>2. \A m \in toProvider' : m \in toProvider \/ m \in Reset
  BY SendAdds DEF Connect, Reset
<1>3. TypeOK'
  BY <1>1, <1>2, Zenon DEF IInv, TypeOK
<1>4. Acks'
  BY <1>1, <1>2, MessageTypes, Zenon DEF IInv, Acks
<1>5. /\ InFlight' /\ Buffered' /\ Forwarded' /\ Fresh' /\ Counters' /\ Handled' /\ Ended'
      /\ InOrder' /\ DiscardedIsForwarded'
  BY <1>1 DEF IInv, InFlight, Buffered, Forwarded, Fresh, Counters, Handled, Pending, Ended,
              InOrder, DiscardedIsForwarded
<1> QED
  BY <1>3, <1>4, <1>5, Zenon DEF IInv

\* getStreamSequenceNumbers() reads the Buffers and computes well-formed requests.
LEMMA GetStreamSequenceNumbersStep ==
    ASSUME IInv, GetStreamSequenceNumbers
    PROVE  IInv'
<1>1. UNCHANGED <<pool, m_buffers, m_seqNum, m_seqNumAck, m_buffer, handling,
                  delivered, finished, sent, closed, acked, toClient, toProvider>>
  BY Zenon DEF GetStreamSequenceNumbers, buffers, provider
<1>2. (unsent \in SUBSET Request)'
  <2>1. m_buffers \in SUBSET Stream /\ \A s \in Stream : m_seqNum[s] \in Nat
    BY Pointwise, Zenon DEF IInv, TypeOK
  <2> QED
    BY <2>1, MessageTypes DEF GetStreamSequenceNumbers
<1>3. TypeOK'
  BY <1>1, <1>2, Zenon DEF IInv, TypeOK
<1>4. /\ InFlight' /\ Buffered' /\ Forwarded' /\ Fresh' /\ Counters' /\ Acks' /\ Handled'
      /\ Ended' /\ InOrder' /\ DiscardedIsForwarded'
  BY <1>1 DEF IInv, InFlight, Buffered, Forwarded, Fresh, Counters, Acks, Handled, Pending,
              Ended, InOrder, DiscardedIsForwarded
<1> QED
  BY <1>3, <1>4, Zenon DEF IInv

\* The periodic job adds a request, and no acknowledgement, to what is under way.
LEMMA SendPeriodicRequestStep ==
    ASSUME IInv, NEW r \in unsent, SendPeriodicRequest(r)
    PROVE  IInv'
<1>1. /\ unsent' \subseteq unsent
      /\ UNCHANGED <<pool, m_buffers, m_seqNum, m_seqNumAck, m_buffer, handling,
                     delivered, finished, sent, closed, acked, toClient>>
  BY Zenon DEF SendPeriodicRequest, buffers, provider
<1>2. \A m \in toProvider' : m \in toProvider \/ m \in Request
  BY SendAdds DEF SendPeriodicRequest, IInv, TypeOK
<1>3. TypeOK'
  BY <1>1, <1>2, Zenon DEF IInv, TypeOK
<1>4. Acks'
  BY <1>1, <1>2, MessageTypes, Zenon DEF IInv, Acks
<1>5. /\ InFlight' /\ Buffered' /\ Forwarded' /\ Fresh' /\ Counters' /\ Handled' /\ Ended'
      /\ InOrder' /\ DiscardedIsForwarded'
  BY <1>1 DEF IInv, InFlight, Buffered, Forwarded, Fresh, Counters, Handled, Pending, Ended,
              InOrder, DiscardedIsForwarded
<1> QED
  BY <1>3, <1>4, <1>5, Zenon DEF IInv

\* Losing messages leaves less to be true of.
LEMMA LoseStep ==
    ASSUME IInv, Lose
    PROVE  IInv'
<1>1. /\ toClient' \subseteq toClient /\ toProvider' \subseteq toProvider
      /\ UNCHANGED <<pool, m_buffers, m_seqNum, m_seqNumAck, m_buffer, handling, unsent,
                     delivered, finished, sent, closed, acked>>
  BY Zenon DEF Lose, buffers, provider
<1>2. TypeOK'
  BY <1>1, Zenon DEF IInv, TypeOK
<1>3. /\ InFlight' /\ Buffered' /\ Forwarded' /\ Fresh' /\ Counters' /\ Acks' /\ Handled'
      /\ Ended' /\ InOrder' /\ DiscardedIsForwarded'
  BY <1>1 DEF IInv, InFlight, Buffered, Forwarded, Fresh, Counters, Acks, Handled, Pending,
              Ended, InOrder, DiscardedIsForwarded
<1> QED
  BY <1>2, <1>3 DEF IInv

\* The provider resends only what it has sent before.
LEMMA ResendStep ==
    ASSUME IInv, NEW r \in toProvider, Resend(r)
    PROVE  IInv'
<1>1. /\ toProvider' \subseteq toProvider
      /\ UNCHANGED <<pool, m_buffers, m_seqNum, m_seqNumAck, m_buffer, handling, unsent,
                     delivered, finished, sent, closed, acked>>
  BY Zenon DEF Resend, buffers, provider
<1>2. r.stream \in Stream
  BY MessageTypes DEF IInv, TypeOK, Resend
<1>3. \A m \in toClient' : \/ m \in toClient
                           \/ \E n \in SeqNum : m = <<r.stream, n>> /\ n < sent[r.stream]
  BY Zenon DEF Resend
<1>4. toClient' \subseteq Stream \X SeqNum
  <2>1. toClient \subseteq Stream \X SeqNum
    BY Zenon DEF IInv, TypeOK
  <2>2. \A n \in SeqNum : <<r.stream, n>> \in Stream \X SeqNum
    BY <1>2, Zenon
  <2> QED
    BY <1>3, <2>1, <2>2, Zenon
<1>5. TypeOK'
  BY <1>1, <1>4, Zenon DEF IInv, TypeOK
<1>6. InFlight'
  BY <1>1, <1>3 DEF IInv, InFlight
<1>7. /\ Buffered' /\ Forwarded' /\ Fresh' /\ Counters' /\ Acks' /\ Handled' /\ Ended'
      /\ InOrder' /\ DiscardedIsForwarded'
  BY <1>1 DEF IInv, Buffered, Forwarded, Fresh, Counters, Acks, Handled, Pending, Ended,
              InOrder, DiscardedIsForwarded
<1> QED
  BY <1>5, <1>6, <1>7, Zenon DEF IInv

\* The provider discards forwarded messages, because acknowledgements are for such.
LEMMA DiscardStep ==
    ASSUME IInv, NEW a \in toProvider, Discard(a)
    PROVE  IInv'
<1>1. /\ toProvider' \subseteq toProvider
      /\ UNCHANGED <<pool, m_buffers, m_seqNum, m_seqNumAck, m_buffer, handling, unsent,
                     delivered, finished, sent, closed, toClient>>
  BY Zenon DEF Discard, buffers
<1>2. /\ a.stream \in Stream /\ a.number \in Nat
      /\ a.number < sent[a.stream]
      /\ a.stream \notin finished => a.number < Len(delivered[a.stream])
  BY AckUnderWay, Zenon DEF Discard
<1>3. acked \in [Stream -> SeqNum]
  BY Zenon DEF IInv, TypeOK
<1>4. PICK v : /\ v = acked[a.stream] \/ v = a.number + 1
               /\ acked' = [acked EXCEPT ![a.stream] = v]
  BY Zenon DEF Discard
<1>5. a.number + 1 \in SeqNum
  BY <1>2, Pointwise, MaxSeqAssumption DEF IInv, SeqNum
<1>6. (acked \in [Stream -> SeqNum])'
  BY <1>2, <1>3, <1>4, <1>5, Zenon
<1>7. TypeOK'
  BY <1>1, <1>6, Zenon DEF IInv, TypeOK
<1>8. \A s \in Stream : acked'[s] = acked[s] \/ (s = a.stream /\ acked'[s] = a.number + 1)
  BY <1>2, <1>3, <1>4, Zenon
<1>9. Counters' /\ DiscardedIsForwarded'
  <2>1. \A s \in Stream : sent[s] \in Nat /\ acked[s] \in Nat /\ Len(delivered[s]) \in Nat
    BY Pointwise, Zenon DEF IInv
  <2>2. Counters'
    BY <1>1, <1>2, <1>8, <2>1 DEF IInv, Counters
  <2>3. DiscardedIsForwarded'
    BY <1>1, <1>2, <1>8, <2>1 DEF IInv, DiscardedIsForwarded
  <2> QED
    BY <2>2, <2>3, Zenon
<1>10. /\ InFlight' /\ Buffered' /\ Forwarded' /\ Fresh' /\ Acks' /\ Handled' /\ Ended'
       /\ InOrder'
  BY <1>1 DEF IInv, InFlight, Buffered, Forwarded, Fresh, Acks, Handled, Pending, Ended,
              InOrder
<1> QED
  BY <1>7, <1>8, <1>9, <1>10, Zenon DEF IInv

\* More messages in a stream keep every bound by their number.
LEMMA StreamMessageStep ==
    ASSUME IInv, NEW s \in Stream, NEW end \in BOOLEAN, StreamMessage(s, end)
    PROVE  IInv'
<1> USE MaxSeqAssumption
<1>1. TypeOK'
  <2>1. (sent \in [Stream -> SeqNum])'
    <3>1. sent \in [Stream -> SeqNum] /\ sent[s] < MaxSeq /\ sent' = [sent EXCEPT ![s] = @ + 1]
      BY Zenon DEF IInv, TypeOK, StreamMessage
    <3>2. sent[s] + 1 \in SeqNum
      BY <3>1 DEF SeqNum
    <3> QED
      BY <3>1, <3>2, Zenon
  <2>2. (closed \in SUBSET Stream)'
    BY Zenon DEF IInv, TypeOK, StreamMessage
  <2>3. (toClient \in SUBSET (Stream \X SeqNum))'
    BY DEF IInv, TypeOK, StreamMessage
  <2> QED
    BY <2>1, <2>2, <2>3, Zenon DEF IInv, TypeOK, StreamMessage, buffers, provider
<1>2. /\ \A t \in Stream : /\ sent[t] \in Nat /\ sent'[t] \in Nat /\ sent[t] <= sent'[t]
                           /\ Len(delivered[t]) \in Nat
      /\ sent'[s] = sent[s] + 1
  <2>1. sent \in [Stream -> SeqNum] /\ sent' = [sent EXCEPT ![s] = sent[s] + 1]
    BY Zenon DEF IInv, TypeOK, StreamMessage
  <2>2. \A t \in Stream : Len(delivered[t]) \in Nat
    BY DEF IInv, TypeOK
  <2> QED
    BY <2>1, <2>2 DEF SeqNum
<1>3. UNCHANGED <<m_buffers, m_seqNum, m_seqNumAck, m_buffer, handling, unsent,
                  delivered, finished, acked, toProvider>>
  BY Zenon DEF StreamMessage, buffers
<1>4. InFlight'
  <2> SUFFICES ASSUME NEW m \in toClient' PROVE m[2] < sent'[m[1]]
      BY Zenon DEF InFlight
  <2>1. CASE m \in toClient
    <3>1. m[1] \in Stream /\ m[2] \in Nat /\ m[2] < sent[m[1]]
      BY <2>1 DEF IInv, TypeOK, InFlight, SeqNum
    <3> QED
      BY <1>2, <3>1
  <2>2. CASE m = <<s, sent[s]>>
    BY <1>2, <2>2
  <2> QED
    BY <2>1, <2>2, Zenon DEF StreamMessage
<1>5. Buffered'
  <2> SUFFICES ASSUME NEW t \in Stream, NEW n \in SeqNum, m_buffer[t][n] > 0
               PROVE  n < sent'[t]
      BY <1>3, Zenon DEF Buffered
  <2>1. n < sent[t] /\ n \in Nat
    BY DEF IInv, Buffered, SeqNum
  <2> QED
    BY <1>2, <2>1
<1>6. Forwarded' /\ Fresh' /\ DiscardedIsForwarded' /\ InOrder'
  BY <1>3, Zenon DEF IInv, Forwarded, Fresh, DiscardedIsForwarded, InOrder
<1>7. Counters'
  <2>1. \A t \in Stream : m_seqNum[t] \in Nat /\ acked[t] \in Nat
    BY DEF IInv, TypeOK, SeqNum
  <2> QED
    BY <1>2, <1>3, <2>1 DEF IInv, Counters
<1>8. Acks'
  <2> SUFFICES ASSUME NEW a \in toProvider, a.type = "ack"
               PROVE  /\ a.number < sent'[a.stream]
                      /\ a.stream \notin finished => a.number < Len(delivered[a.stream])
      BY <1>3, Zenon DEF Acks
  <2>1. a.stream \in Stream /\ a.number \in Nat
    BY MessageTypes, Zenon DEF IInv, TypeOK
  <2>2. /\ a.number < sent[a.stream]
        /\ a.stream \notin finished => a.number < Len(delivered[a.stream])
    BY Zenon DEF IInv, Acks
  <2> QED
    BY <1>2, <2>1, <2>2
<1>9. Handled'
  BY <1>3, Zenon DEF IInv, Handled, Pending
<1>10. Ended'
  BY Zenon DEF IInv, Ended, StreamMessage
<1> QED
  BY <1>1, <1>4, <1>5, <1>6, <1>7, <1>8, <1>9, <1>10, Zenon DEF IInv

\* push() takes a sent message; a new Buffer starts with no history, which is what the
\* stream has unless it was finished.
LEMMA ReceiveStep ==
    ASSUME IInv, NEW s \in Stream, NEW n \in SeqNum, Receive(s, n)
    PROVE  IInv'
<1>1. /\ toClient' \subseteq toClient
      /\ handling' = s /\ m_buffers' = m_buffers \cup {s}
      /\ UNCHANGED <<pool, m_seqNum, m_seqNumAck, unsent, finished, sent, closed, acked,
                     toProvider>>
  BY Zenon DEF Receive, provider
<1>2. n < sent[s]
  BY Zenon DEF IInv, InFlight, Receive
<1>3. /\ \A t \in Stream : \A k \in SeqNum :
           /\ m_buffer'[t][k] \in Nat
           /\ m_buffer'[t][k] = m_buffer[t][k] \/ (t = s /\ k = n)
      /\ n >= m_seqNum[s] => m_buffer'[s][n] = m_buffer[s][n] + 1
      /\ (m_buffer \in [Stream -> [SeqNum -> Nat]])'
  <2>1. m_buffer \in [Stream -> [SeqNum -> Nat]]
    BY Zenon DEF IInv, TypeOK
  <2>2. CASE n >= m_seqNum[s]
    <3> DEFINE b == [m_buffer[s] EXCEPT ![n] = m_buffer[s][n] + 1]
    <3>1. m_buffer' = [m_buffer EXCEPT ![s] = b]
      BY <2>2, Zenon DEF Receive
    <3>2. /\ b \in [SeqNum -> Nat] /\ b[n] = m_buffer[s][n] + 1
          /\ \A k \in SeqNum \ {n} : b[k] = m_buffer[s][k]
      BY <2>1
    <3> HIDE DEF b
    <3> QED
      BY <2>1, <3>1, <3>2, Zenon
  <2>3. CASE ~(n >= m_seqNum[s])
    <3>1. m_buffer' = m_buffer
      BY <2>3, Zenon DEF Receive
    <3>2. \A t \in Stream : \A k \in SeqNum : m_buffer[t][k] \in Nat
      BY <2>1, Zenon
    <3> QED
      BY <2>1, <2>3, <3>1, <3>2, Zenon
  <2> QED
    BY <2>2, <2>3, Zenon
\* A new Buffer starts with an empty history, which it is anyway unless the stream
\* has been finished before.
<1>4. /\ \A t \in Stream : \/ delivered'[t] = delivered[t]
                           \/ t = s /\ delivered'[t] = <<>> /\ s \notin m_buffers
      /\ s \notin m_buffers => delivered'[s] = <<>>
      /\ \A t \in Stream \ finished : delivered'[t] = delivered[t]
      /\ (delivered \in [Stream -> Seq(SeqNum)])'
  <2>1. delivered \in [Stream -> Seq(SeqNum)]
    BY Zenon DEF IInv, TypeOK
  <2>2. CASE s \in m_buffers
    BY <2>1, <2>2, Zenon DEF Receive
  <2>3. CASE s \notin m_buffers
    <3>1. delivered' = [delivered EXCEPT ![s] = <<>>]
      BY <2>3, Zenon DEF Receive
    <3>2. s \notin finished => delivered[s] = <<>>
      BY <2>3, Zenon DEF IInv, Fresh
    <3>3. <<>> \in Seq(SeqNum)
      OBVIOUS
    <3> QED
      BY <2>1, <2>3, <3>1, <3>2, <3>3, Zenon
  <2> QED
    BY <2>2, <2>3, Zenon
<1>5. TypeOK'
  BY <1>1, <1>3, <1>4, Zenon DEF IInv, TypeOK
<1>6. InFlight' /\ Counters' /\ Ended'
  BY <1>1, Zenon DEF IInv, InFlight, Counters, Ended
<1>7. Buffered'
  BY <1>1, <1>2, <1>3, Zenon DEF IInv, Buffered
<1>8. Forwarded'
  <2> SUFFICES ASSUME NEW t \in m_buffers' PROVE Len(delivered'[t]) = m_seqNum[t]
      BY <1>1, Zenon DEF Forwarded
  <2>1. t \in Stream
    BY <1>1, Zenon DEF IInv, TypeOK
  <2>2. CASE t \in m_buffers
    BY <1>4, <2>1, <2>2, Zenon DEF IInv, Forwarded
  <2>3. CASE t \notin m_buffers
    <3>1. t = s /\ delivered'[t] = <<>>
      BY <1>1, <1>4, <2>3, Zenon
    <3>2. m_seqNum[t] = 0
      BY <2>1, <2>3, Zenon DEF IInv, Fresh
    <3> QED
      BY <3>1, <3>2, Zenon
  <2> QED
    BY <2>2, <2>3, Zenon
<1>9. Fresh'
  <2> SUFFICES ASSUME NEW t \in Stream \ m_buffers'
               PROVE  /\ m_seqNum[t] = 0 /\ m_seqNumAck[t] = 0
                      /\ \A k \in SeqNum : m_buffer'[t][k] = 0
                      /\ t \notin finished => delivered'[t] = <<>>
      BY <1>1, Zenon DEF Fresh
  <2>1. t # s /\ t \notin m_buffers
    BY <1>1, Zenon
  <2>2. /\ m_seqNum[t] = 0 /\ m_seqNumAck[t] = 0
        /\ \A k \in SeqNum : m_buffer[t][k] = 0
        /\ t \notin finished => delivered[t] = <<>>
    BY <2>1, Zenon DEF IInv, Fresh
  <2>3. \A k \in SeqNum : m_buffer'[t][k] = m_buffer[t][k]
    BY <1>3, <2>1, Zenon
  <2> QED
    BY <1>4, <2>2, <2>3, Zenon
<1>10. Acks'
  BY <1>1, <1>4, AckUnderWay, Zenon DEF Acks
\* A Buffer that has forwarded nothing takes any message into its queue.
<1>11. Handled'
  <2>1. ASSUME m_seqNum[s] = 0 PROVE m_buffer'[s][n] > 0
    BY <1>3, <2>1, Pointwise DEF IInv, SeqNum
  <2> QED
    BY <1>1, <2>1, Zenon DEF Handled, Pending
<1>12. InOrder'
  <2>1. ASSUME NEW t \in Stream
        PROVE  \A i \in 1..Len(delivered'[t]) : delivered'[t][i] = i - 1
    <3>1. CASE delivered'[t] = delivered[t]
      BY <3>1, Zenon DEF IInv, InOrder
    <3>2. CASE delivered'[t] = <<>>
      BY <3>2
    <3> QED
      BY <1>4, <3>1, <3>2, Zenon
  <2> QED
    BY <2>1, Zenon DEF InOrder
<1>13. DiscardedIsForwarded'
  BY <1>1, <1>4, Zenon DEF IInv, DiscardedIsForwarded
<1> QED
  BY <1>5, <1>6, <1>7, <1>8, <1>9, <1>10, <1>11, <1>12, <1>13, Zenon DEF IInv

\* What forwarding appends to a stream.
LEMMA Forwarding ==
    ASSUME IInv, NEW s \in Stream, handling = s, IsTop(s, m_seqNum[s]),
           delivered' = [delivered EXCEPT ![s] = Append(delivered[s], m_seqNum[s])]
    PROVE  /\ s \in m_buffers
           /\ m_seqNum[s] \in SeqNum /\ m_seqNum[s] < sent[s]
           /\ Len(delivered[s]) = m_seqNum[s]
           /\ (delivered \in [Stream -> Seq(SeqNum)])'
           /\ Len(delivered'[s]) = m_seqNum[s] + 1
           /\ \A t \in Stream \ {s} : delivered'[t] = delivered[t]
           /\ InOrder'
<1>1. s \in m_buffers
  BY NoStreamAssumption, Zenon DEF IInv, Handled
<1>2. m_seqNum[s] \in SeqNum /\ m_seqNum[s] < sent[s]
  BY Zenon DEF IInv, Buffered, IsTop, Pending
<1>3. Len(delivered[s]) = m_seqNum[s]
  BY <1>1, Zenon DEF IInv, Forwarded
<1>4. delivered \in [Stream -> Seq(SeqNum)]
  BY Zenon DEF IInv, TypeOK
<1>5. delivered'[s] = Append(delivered[s], m_seqNum[s])
  BY <1>4, Zenon
<1>6. \A t \in Stream \ {s} : delivered'[t] = delivered[t]
  BY <1>4, Zenon
<1>7. delivered[s] \in Seq(SeqNum)
  BY <1>4, Zenon
<1>8. Append(delivered[s], m_seqNum[s]) \in Seq(SeqNum)
  BY <1>2, <1>7
<1>9. (delivered \in [Stream -> Seq(SeqNum)])'
  BY <1>4, <1>8, Zenon
<1>10. Len(delivered'[s]) = m_seqNum[s] + 1
  BY <1>2, <1>3, <1>5, <1>7
<1>11. InOrder'
  <2> SUFFICES ASSUME NEW t \in Stream, NEW i \in 1..Len(delivered'[t])
               PROVE  delivered'[t][i] = i - 1
      BY Zenon DEF InOrder
  <2>1. CASE t # s
    BY <1>6, <2>1 DEF IInv, InOrder
  <2>2. CASE t = s /\ i <= Len(delivered[s])
    <3>1. delivered'[s][i] = delivered[s][i]
      BY <1>2, <1>5, <1>7, <2>2
    <3> QED
      BY <2>2, <3>1 DEF IInv, InOrder
  <2>3. CASE t = s /\ i > Len(delivered[s])
    <3>1. i = m_seqNum[s] + 1
      BY <1>2, <1>3, <1>10, <2>3 DEF SeqNum
    <3>2. delivered'[s][i] = m_seqNum[s]
      BY <1>2, <1>3, <1>5, <1>7, <3>1
    <3> QED
      BY <1>2, <2>3, <3>1, <3>2 DEF SeqNum
  <2> QED
    BY <1>7, <2>1, <2>2, <2>3
<1> QED
  BY <1>1, <1>2, <1>3, <1>6, <1>9, <1>10, <1>11, Zenon

\* Forwarding the expected message moves the expected number and the history together.
LEMMA ForwardTopStep ==
    ASSUME IInv, NEW s \in Stream, ForwardTop(s)
    PROVE  IInv'
<1> DEFINE b == [m_buffer[s] EXCEPT ![m_seqNum[s]] = m_buffer[s][m_seqNum[s]] - 1]
<1>1. /\ handling = s /\ IsTop(s, m_seqNum[s])
      /\ m_buffer' = [m_buffer EXCEPT ![s] = b]
      /\ m_seqNum' = [m_seqNum EXCEPT ![s] = m_seqNum[s] + 1]
      /\ delivered' = [delivered EXCEPT ![s] = Append(delivered[s], m_seqNum[s])]
      /\ UNCHANGED <<pool, m_buffers, m_seqNumAck, handling, unsent, finished, sent, closed,
                     acked, toClient, toProvider>>
  BY Zenon DEF ForwardTop, Pop, provider
<1>2. /\ s \in m_buffers
      /\ m_seqNum[s] \in SeqNum /\ m_seqNum[s] < sent[s]
      /\ Len(delivered[s]) = m_seqNum[s]
      /\ (delivered \in [Stream -> Seq(SeqNum)])'
      /\ Len(delivered'[s]) = m_seqNum[s] + 1
      /\ \A t \in Stream \ {s} : delivered'[t] = delivered[t]
      /\ InOrder'
  BY <1>1, Forwarding, Zenon
<1>3. /\ m_seqNum[s] + 1 \in SeqNum /\ m_seqNum[s] + 1 \in Nat
      /\ m_seqNum[s] + 1 <= sent[s] /\ m_seqNum[s] + 1 # 0
  BY <1>2, Pointwise, MaxSeqAssumption DEF IInv, SeqNum
<1>4. /\ (m_seqNum \in [Stream -> SeqNum])'
      /\ m_seqNum'[s] = m_seqNum[s] + 1
      /\ \A t \in Stream \ {s} : m_seqNum'[t] = m_seqNum[t]
  <2>1. m_seqNum \in [Stream -> SeqNum]
    BY Zenon DEF IInv, TypeOK
  <2> QED
    BY <1>1, <1>3, <2>1, Zenon
<1>5. /\ b \in [SeqNum -> Nat]
      /\ \A k \in SeqNum : b[k] > 0 => m_buffer[s][k] > 0
  <2>1. m_buffer[s] \in [SeqNum -> Nat] /\ m_buffer[s][m_seqNum[s]] > 0
    BY <1>1, Zenon DEF IInv, TypeOK, IsTop, Pending
  <2> QED
    BY <1>2, <2>1
<1> HIDE DEF b
<1>6. /\ (m_buffer \in [Stream -> [SeqNum -> Nat]])'
      /\ m_buffer'[s] = b
      /\ \A t \in Stream \ {s} : m_buffer'[t] = m_buffer[t]
  <2>1. m_buffer \in [Stream -> [SeqNum -> Nat]]
    BY Zenon DEF IInv, TypeOK
  <2> QED
    BY <1>1, <1>5, <2>1, Zenon
<1>7. TypeOK'
  BY <1>1, <1>2, <1>4, <1>6, Zenon DEF IInv, TypeOK
<1>8. InFlight' /\ Ended'
  BY <1>1, Zenon DEF IInv, InFlight, Ended
<1>9. Buffered'
  BY <1>1, <1>5, <1>6, Zenon DEF IInv, Buffered
<1>10. Forwarded'
  <2>1. m_buffers \subseteq Stream
    BY Zenon DEF IInv, TypeOK
  <2> QED
    BY <1>1, <1>2, <1>4, <2>1, Zenon DEF IInv, Forwarded
<1>11. Fresh'
  BY <1>1, <1>2, <1>4, <1>6 DEF IInv, Fresh
<1>12. Counters'
  BY <1>1, <1>3, <1>4, Zenon DEF IInv, Counters
<1>13. Acks'
  <2> SUFFICES ASSUME NEW a \in toProvider, a.type = "ack"
               PROVE  /\ a.number < sent[a.stream]
                      /\ a.stream \notin finished => a.number < Len(delivered'[a.stream])
      BY <1>1, Zenon DEF Acks
  <2>1. /\ a.stream \in Stream /\ a.number \in Nat
        /\ a.number < sent[a.stream]
        /\ a.stream \notin finished => a.number < Len(delivered[a.stream])
    BY AckUnderWay, Zenon
  <2>2. CASE a.stream = s
    BY <1>2, <1>3, <2>1, <2>2 DEF SeqNum
  <2>3. CASE a.stream # s
    BY <1>2, <2>1, <2>3, Zenon
  <2> QED
    BY <2>2, <2>3, Zenon
<1>14. Handled'
  BY <1>1, <1>2, <1>3, <1>4, Zenon DEF Handled
<1>15. DiscardedIsForwarded'
  <2> SUFFICES ASSUME NEW t \in Stream \ finished PROVE acked[t] <= Len(delivered'[t])
      BY <1>1, Zenon DEF DiscardedIsForwarded
  <2>1. acked[t] <= Len(delivered[t]) /\ acked[t] \in Nat
    BY Pointwise, Zenon DEF IInv, DiscardedIsForwarded
  <2> QED
    BY <1>2, <2>1 DEF SeqNum
<1> QED
  BY <1>2, <1>7, <1>8, <1>9, <1>10, <1>11, <1>12, <1>13, <1>14, <1>15, Zenon DEF IInv

\* Forwarding the end erases the Buffer, and the stream is finished.
LEMMA ForwardEndStep ==
    ASSUME IInv, NEW s \in Stream, ForwardEnd(s)
    PROVE  IInv'
<1>1. /\ handling = s /\ IsTop(s, m_seqNum[s])
      /\ delivered' = [delivered EXCEPT ![s] = Append(delivered[s], m_seqNum[s])]
      /\ s \in closed /\ finished' = finished \cup {s}
      /\ m_buffers' = m_buffers \ {s}
      /\ m_seqNum' = [m_seqNum EXCEPT ![s] = 0]
      /\ m_seqNumAck' = [m_seqNumAck EXCEPT ![s] = 0]
      /\ m_buffer' = [m_buffer EXCEPT ![s] = [n \in SeqNum |-> 0]]
      /\ handling' = NoStream
      /\ UNCHANGED <<pool, unsent, sent, closed, acked, toClient>>
  BY Zenon DEF ForwardEnd, provider
<1>2. /\ s \in m_buffers
      /\ m_seqNum[s] \in SeqNum /\ m_seqNum[s] < sent[s]
      /\ (delivered \in [Stream -> Seq(SeqNum)])'
      /\ \A t \in Stream \ {s} : delivered'[t] = delivered[t]
      /\ InOrder'
  BY <1>1, Forwarding, Zenon
<1>3. \A m \in toProvider' : \/ m \in toProvider
                             \/ m = MessageAcknowledgement(s, m_seqNum[s])
  BY SendAdds DEF ForwardEnd
<1>4. (toProvider \in SUBSET (Request \cup Acknowledgement \cup Reset))'
  BY <1>2, <1>3, MessageTypes DEF IInv, TypeOK, SeqNum
<1>5. /\ (m_seqNum \in [Stream -> SeqNum])' /\ (m_seqNumAck \in [Stream -> SeqNum])'
      /\ m_seqNum'[s] = 0 /\ m_seqNumAck'[s] = 0
      /\ \A t \in Stream \ {s} : /\ m_seqNum'[t] = m_seqNum[t]
                                 /\ m_seqNumAck'[t] = m_seqNumAck[t]
  <2>1. m_seqNum \in [Stream -> SeqNum] /\ m_seqNumAck \in [Stream -> SeqNum]
    BY Zenon DEF IInv, TypeOK
  <2>2. 0 \in SeqNum
    BY MaxSeqAssumption DEF SeqNum
  <2> QED
    BY <1>1, <2>1, <2>2, Zenon
<1>6. /\ (m_buffer \in [Stream -> [SeqNum -> Nat]])'
      /\ \A n \in SeqNum : m_buffer'[s][n] = 0
      /\ \A t \in Stream \ {s} : m_buffer'[t] = m_buffer[t]
  <2>1. m_buffer \in [Stream -> [SeqNum -> Nat]]
    BY DEF IInv, TypeOK
  <2> DEFINE b == [n \in SeqNum |-> 0]
  <2>2. b \in [SeqNum -> Nat] /\ \A n \in SeqNum : b[n] = 0
    BY Zenon
  <2>3. m_buffer' = [m_buffer EXCEPT ![s] = b]
    BY <1>1, Zenon
  <2> HIDE DEF b
  <2> QED
    BY <2>1, <2>2, <2>3, Zenon
<1>7. TypeOK'
  BY <1>1, <1>2, <1>4, <1>5, <1>6, Zenon DEF IInv, TypeOK
<1>8. InFlight' /\ Ended'
  BY <1>1, Zenon DEF IInv, InFlight, Ended
<1>9. Buffered'
  <2> SUFFICES ASSUME NEW t \in Stream, NEW n \in SeqNum, m_buffer'[t][n] > 0
               PROVE  n < sent[t]
      BY <1>1, Zenon DEF Buffered
  <2>1. t # s
    BY <1>6
  <2>2. m_buffer[t][n] > 0
    BY <1>6, <2>1, Zenon
  <2> QED
    BY <2>2, Zenon DEF IInv, Buffered
<1>10. Forwarded'
  <2>1. m_buffers \subseteq Stream
    BY DEF IInv, TypeOK
  <2> QED
    BY <1>1, <1>2, <1>5, <2>1, Zenon DEF IInv, Forwarded
<1>11. Fresh'
  BY <1>1, <1>2, <1>5, <1>6, SMTT(40) DEF IInv, Fresh
<1>12. Counters'
  BY <1>1, <1>5, Pointwise, SMTT(40) DEF IInv, Counters
<1>13. Acks'
  <2> SUFFICES ASSUME NEW a \in toProvider', a.type = "ack"
               PROVE  /\ a.number < sent[a.stream]
                      /\ a.stream \notin finished' => a.number < Len(delivered'[a.stream])
      BY <1>1, Zenon DEF Acks
  <2>1. CASE a \in toProvider
    BY <1>1, <1>2, <2>1, AckUnderWay, Zenon
  <2>2. CASE a = MessageAcknowledgement(s, m_seqNum[s])
    <3>1. a.stream = s /\ a.number = m_seqNum[s]
      BY <2>2, Zenon DEF MessageAcknowledgement
    <3> QED
      BY <1>1, <1>2, <3>1, Zenon
  <2> QED
    BY <1>3, <2>1, <2>2, Zenon
<1>14. Handled'
  BY <1>1, Zenon DEF Handled
<1>15. DiscardedIsForwarded'
  BY <1>1, <1>2, Zenon DEF IInv, DiscardedIsForwarded
<1> QED
  BY <1>2, <1>7, <1>8, <1>9, <1>10, <1>11, <1>12, <1>13, <1>14, <1>15, Zenon DEF IInv

\* Dropping a copy leaves what has been forwarded; the expected number is not 0.
LEMMA DropTopStep ==
    ASSUME IInv, NEW s \in Stream, DropTop(s)
    PROVE  IInv'
<1>1. /\ handling = s
      /\ UNCHANGED <<pool, m_buffers, m_seqNum, m_seqNumAck, handling, unsent, delivered,
                     finished, sent, closed, acked, toClient, toProvider>>
  BY Zenon DEF DropTop, provider
<1>2. PICK n \in SeqNum : n < m_seqNum[s] /\ IsTop(s, n) /\ Pop(s, n)
  BY Zenon DEF DropTop
<1> DEFINE b == [m_buffer[s] EXCEPT ![n] = m_buffer[s][n] - 1]
<1>3. m_buffer \in [Stream -> [SeqNum -> Nat]] /\ m_buffer' = [m_buffer EXCEPT ![s] = b]
  BY <1>2, Zenon DEF IInv, TypeOK, Pop
<1>4. /\ b \in [SeqNum -> Nat]
      /\ \A k \in SeqNum : b[k] > 0 => m_buffer[s][k] > 0
  <2>1. m_buffer[s] \in [SeqNum -> Nat] /\ m_buffer[s][n] > 0
    BY <1>2, <1>3, Zenon DEF IsTop, Pending
  <2> QED
    BY <2>1
<1> HIDE DEF b
<1>5. /\ (m_buffer \in [Stream -> [SeqNum -> Nat]])'
      /\ m_buffer'[s] = b
      /\ \A t \in Stream \ {s} : m_buffer'[t] = m_buffer[t]
  BY <1>3, <1>4, Zenon
<1>6. s \in m_buffers /\ m_seqNum[s] # 0
  BY <1>1, <1>2, NoStreamAssumption DEF IInv, Handled, SeqNum
<1>7. TypeOK'
  BY <1>1, <1>5, Zenon DEF IInv, TypeOK
<1>8. Buffered'
  BY <1>1, <1>4, <1>5, Zenon DEF IInv, Buffered
<1>9. Fresh'
  <2>1. \A t \in Stream \ m_buffers : m_buffer'[t] = m_buffer[t]
    BY <1>5, <1>6, Zenon
  <2> QED
    BY <1>1, <2>1 DEF IInv, Fresh
<1>10. Handled'
  BY <1>1, <1>6, Zenon DEF Handled
<1>11. /\ InFlight' /\ Forwarded' /\ Counters' /\ Acks' /\ Ended' /\ InOrder'
       /\ DiscardedIsForwarded'
  BY <1>1, Zenon DEF IInv, InFlight, Forwarded, Counters, Acks, Ended, InOrder,
              DiscardedIsForwarded
<1> QED
  BY <1>7, <1>8, <1>9, <1>10, <1>11, Zenon DEF IInv

\* What a handler that finishes sends: a request if there is a gap, and an
\* acknowledgement of forwarded messages.
LEMMA FinishSends ==
    ASSUME IInv, NEW s \in Stream, handling = s, NEW cleared \in Nat, Finish(s, cleared)
    PROVE  \A m \in toProvider' :
             \/ m \in toProvider
             \/ m_seqNum[s] <= cleared /\ m = MessageRequest(s, m_seqNum[s], cleared)
             \/ m_seqNum[s] > 0 /\ m = MessageAcknowledgement(s, m_seqNum[s] - 1)
<1> DEFINE full == m_seqNum[s] >= m_seqNumAck[s] + AckWindow
           request == IF m_seqNum[s] <= cleared
                      THEN {MessageRequest(s, m_seqNum[s], cleared)} ELSE {}
           ack == IF full THEN {MessageAcknowledgement(s, m_seqNum[s] - 1)} ELSE {}
<1>1. Send(request \cup ack)
  BY Zenon DEF Finish
<1>2. full => m_seqNum[s] > 0
  BY Pointwise, AckWindowAssumption DEF IInv
<1>3. \A m \in request : m_seqNum[s] <= cleared /\ m = MessageRequest(s, m_seqNum[s], cleared)
  BY Zenon
<1>4. \A m \in ack : m_seqNum[s] > 0 /\ m = MessageAcknowledgement(s, m_seqNum[s] - 1)
  BY <1>2, Zenon
<1> HIDE DEF request, ack
<1> QED
  BY <1>1, <1>3, <1>4, SendAdds, Zenon

\* The acknowledgement a finishing handler sends is for a forwarded message.
LEMMA FinishStep ==
    ASSUME IInv, NEW s \in Stream, handling = s, NEW cleared \in Nat, Finish(s, cleared)
    PROVE  IInv'
<1>1. /\ handling' = NoStream
      /\ UNCHANGED <<pool, m_buffers, m_seqNum, m_buffer, unsent, delivered, finished, sent,
                     closed, acked, toClient>>
  BY Zenon DEF Finish, provider
<1>2. s \in m_buffers /\ m_seqNum[s] \in Nat
  BY Pointwise, NoStreamAssumption, Zenon DEF IInv, Handled
<1>3. /\ (m_seqNumAck \in [Stream -> SeqNum])'
      /\ \A t \in Stream \ {s} : m_seqNumAck'[t] = m_seqNumAck[t]
  <2>1. m_seqNumAck \in [Stream -> SeqNum] /\ m_seqNum[s] \in SeqNum
    BY Zenon DEF IInv, TypeOK
  <2>2. \/ m_seqNumAck' = m_seqNumAck
        \/ m_seqNumAck' = [m_seqNumAck EXCEPT ![s] = m_seqNum[s]]
    BY Zenon DEF Finish
  <2> QED
    BY <2>1, <2>2, Zenon
<1>4. (toProvider \in SUBSET (Request \cup Acknowledgement \cup Reset))'
  <2> SUFFICES ASSUME NEW m \in toProvider'
               PROVE  m \in Request \cup Acknowledgement \cup Reset
      BY Zenon
  <2>1. CASE m \in toProvider
    BY <2>1, Zenon DEF IInv, TypeOK
  <2>2. CASE m = MessageRequest(s, m_seqNum[s], cleared)
    BY <1>2, <2>2, MessageTypes, Zenon
  <2>3. CASE m_seqNum[s] > 0 /\ m = MessageAcknowledgement(s, m_seqNum[s] - 1)
    <3>1. m_seqNum[s] - 1 \in Nat
      BY <1>2, <2>3
    <3> QED
      BY <2>3, <3>1, MessageTypes, Zenon
  <2> QED
    BY <2>1, <2>2, <2>3, FinishSends, Zenon
<1>5. TypeOK'
  BY <1>1, <1>3, <1>4, Zenon DEF IInv, TypeOK
<1>6. Fresh'
  BY <1>1, <1>2, <1>3, Zenon DEF IInv, Fresh
<1>7. Acks'
  <2> SUFFICES ASSUME NEW a \in toProvider', a.type = "ack"
               PROVE  /\ a.number < sent[a.stream]
                      /\ a.stream \notin finished => a.number < Len(delivered[a.stream])
      BY <1>1, Zenon DEF Acks
  <2>1. CASE a \in toProvider
    BY <2>1, AckUnderWay, Zenon
  <2>2. CASE a = MessageRequest(s, m_seqNum[s], cleared)
    BY <2>2, Zenon DEF MessageRequest
  <2>3. CASE m_seqNum[s] > 0 /\ a = MessageAcknowledgement(s, m_seqNum[s] - 1)
    <3>1. a.stream = s /\ a.number = m_seqNum[s] - 1
      BY <2>3, Zenon DEF MessageAcknowledgement
    <3>2. Len(delivered[s]) = m_seqNum[s] /\ m_seqNum[s] <= sent[s] /\ sent[s] \in Nat
      BY <1>2, Pointwise, Zenon DEF IInv, Forwarded, Counters
    <3> QED
      BY <1>2, <3>1, <3>2
  <2> QED
    BY <2>1, <2>2, <2>3, FinishSends, Zenon
<1>8. Handled'
  BY <1>1, Zenon DEF Handled
<1>9. /\ InFlight' /\ Buffered' /\ Forwarded' /\ Counters' /\ Ended' /\ InOrder'
      /\ DiscardedIsForwarded'
  BY <1>1, Zenon DEF IInv, InFlight, Buffered, Forwarded, Counters, Ended, InOrder,
              DiscardedIsForwarded
<1> QED
  BY <1>5, <1>6, <1>7, <1>8, <1>9, Zenon DEF IInv

\* The bound that clear() returns to the handler is a natural number, and below the
\* expected number when the queue is empty.
LEMMA FinishEmptyIsFinish ==
    ASSUME IInv, NEW s \in Stream, FinishEmpty(s)
    PROVE  /\ handling = s /\ Pred(m_seqNum[s]) \in Nat /\ Finish(s, Pred(m_seqNum[s]))
           /\ Pred(m_seqNum[s]) < m_seqNum[s]
<1>1. handling = s /\ Finish(s, Pred(m_seqNum[s])) /\ Pending(s) = {}
  BY Zenon DEF FinishEmpty
<1>2. m_seqNum[s] # 0
  BY <1>1, NoStreamAssumption, Zenon DEF IInv, Handled
<1>3. m_seqNum[s] \in Nat
  BY Pointwise, Zenon DEF IInv
<1> QED
  BY <1>1, <1>2, <1>3 DEF Pred

\* Every step preserves the invariant.
LEMMA NextIInv ==
    ASSUME IInv, Next
    PROVE  IInv'
<1>1. ASSUME NEW s \in Stream, Handler(s) PROVE IInv'
  <2>1. CASE ForwardTop(s)
    BY <2>1, ForwardTopStep, Zenon
  <2>2. CASE ForwardEnd(s)
    BY <2>2, ForwardEndStep, Zenon
  <2>3. CASE DropTop(s)
    BY <2>3, DropTopStep
  <2>4. CASE FinishPending(s)
    <3>1. PICK n \in SeqNum : n > m_seqNum[s] /\ Finish(s, n - 1)
      BY <2>4, Zenon DEF FinishPending
    <3>2. n - 1 \in Nat /\ handling = s
      BY <2>4, <3>1, Pointwise DEF IInv, FinishPending, SeqNum
    <3> QED
      BY <3>1, <3>2, FinishStep, Zenon
  <2>5. CASE FinishEmpty(s)
    BY <2>5, FinishEmptyIsFinish, FinishStep, Zenon
  <2> QED
    BY <1>1, <2>1, <2>2, <2>3, <2>4, <2>5, Zenon DEF Handler
<1> QED
  BY <1>1, ConnectStep, ReceiveStep, StreamMessageStep, GetStreamSequenceNumbersStep,
     SendPeriodicRequestStep, ResendStep, DiscardStep, LoseStep, Zenon DEF Next

\* So does a step of the rest of the program.
LEMMA StutterIInv ==
    ASSUME IInv, UNCHANGED vars
    PROVE  IInv'
BY Zenon DEF IInv, TypeOK, InFlight, Buffered, Forwarded, Fresh, Counters, Acks, Handled, Pending,
       Ended, InOrder, DiscardedIsForwarded, vars, buffers, provider

------------------------------------------------------------------------------
(* The theorems.                                                           *)

\* The inductive invariant holds: whatever the network loses, repeats or reorders,
\* Buffers hold only sent messages and their counters agree with what they forwarded.
THEOREM Inductive == Spec => []IInv
<1>1. Init => IInv
  BY InitIInv, Zenon
<1>2. IInv /\ [Next]_vars => IInv'
  BY NextIInv, StutterIInv, Zenon
<1> QED
  BY <1>1, <1>2, PTL DEF Spec

\* The state of the Sequencer keeps its types; no expected or unacknowledged number
\* of a Buffer exceeds the number of messages in its stream.
THEOREM TypeCorrect == Spec => []TypeOK
<1>1. IInv => TypeOK
  BY Zenon DEF IInv
<1> QED
  BY <1>1, Inductive, PTL

\* onMessageCallback gets the messages of every stream in order, each once.
THEOREM ForwardsInOrder == Spec => []InOrder
<1>1. IInv => InOrder
  BY Zenon DEF IInv
<1> QED
  BY <1>1, Inductive, PTL

\* The provider discards nothing on an acknowledgement that has not been forwarded.
THEOREM AcknowledgesForwarded == Spec => []DiscardedIsForwarded
<1>1. IInv => DiscardedIsForwarded
  BY Zenon DEF IInv
<1> QED
  BY <1>1, Inductive, PTL

\* A request made by the message handler is for missing messages only.
THEOREM RequestsMissing == Spec => RequestsOnlyMissing
<1> DEFINE Missing ==
      \A r \in toProvider' \ toProvider :
         r.type = "request" /\ handling = r.stream /\ handling' = NoStream
         => /\ r.lower <= r.upper /\ r.upper < sent[r.stream]
            /\ \A n \in r.lower..r.upper : /\ n \notin Pending(r.stream)
                                          /\ n >= Len(delivered[r.stream])
<1>1. ASSUME IInv, IInv', Next PROVE Missing
  <2> SUFFICES ASSUME NEW r \in toProvider' \ toProvider,
                      r.type = "request", handling = r.stream, handling' = NoStream
               PROVE  /\ r.lower <= r.upper /\ r.upper < sent[r.stream]
                      /\ \A n \in r.lower..r.upper : /\ n \notin Pending(r.stream)
                                                    /\ n >= Len(delivered[r.stream])
      BY Zenon
  <2>1. handling \in Stream
    BY <1>1, MessageTypes, SMTT(40) DEF IInv, TypeOK
  <2>2. PICK s \in Stream : handling = s /\ (ForwardEnd(s) \/ FinishPending(s) \/ FinishEmpty(s))
    <3>1. handling' # handling
      BY <2>1, NoStreamAssumption, Zenon
    <3>2. ~(Connect \/ GetStreamSequenceNumbers \/ Lose)
      BY <3>1, Zenon DEF Connect, GetStreamSequenceNumbers, Lose
    <3>3. ~\E q \in unsent : SendPeriodicRequest(q)
      BY <3>1, Zenon DEF SendPeriodicRequest
    <3>4. ~\E m \in toProvider : Resend(m) \/ Discard(m)
      BY <3>1, Zenon DEF Resend, Discard
    <3>5. \A s \in Stream : /\ \A n \in SeqNum : ~Receive(s, n)
                            /\ \A end \in BOOLEAN : ~StreamMessage(s, end)
      BY <2>1, <3>1, NoStreamAssumption, Zenon DEF Receive, StreamMessage
    <3>6. PICK s \in Stream : Handler(s)
      BY <1>1, <3>2, <3>3, <3>4, <3>5, Zenon DEF Next
    <3>7. ~ForwardTop(s) /\ ~DropTop(s)
      BY <3>1, Zenon DEF ForwardTop, DropTop
    <3> QED
      BY <3>6, <3>7, Zenon DEF Handler, ForwardEnd, FinishPending, FinishEmpty
  <2>3. CASE ForwardEnd(s)
    <3>1. Send({MessageAcknowledgement(s, m_seqNum[s])})
      BY <2>3, Zenon DEF ForwardEnd
    <3>2. r = MessageAcknowledgement(s, m_seqNum[s])
      BY <3>1, Zenon DEF Send
    <3> QED
      BY <3>2, Zenon DEF MessageAcknowledgement
  <2>4. CASE FinishPending(s)
    <3>1. PICK n \in SeqNum : n > m_seqNum[s] /\ IsTop(s, n) /\ Finish(s, n - 1)
      BY <2>4, Zenon DEF FinishPending
    <3>2. /\ m_seqNum[s] \in Nat /\ n \in Nat /\ n - 1 \in Nat
          /\ n < sent[s] /\ sent[s] \in Nat
          /\ Len(delivered[s]) = m_seqNum[s]
      <4>1. m_seqNum[s] \in Nat /\ sent[s] \in Nat
        BY <1>1, Pointwise, Zenon DEF IInv
      <4>2. n < sent[s]
        BY <1>1, <3>1, Zenon DEF IInv, Buffered, IsTop, Pending
      <4>3. Len(delivered[s]) = m_seqNum[s]
        BY <1>1, <2>2, NoStreamAssumption, Zenon DEF IInv, Handled, Forwarded
      <4> QED
        BY <3>1, <4>1, <4>2, <4>3 DEF SeqNum
    <3>3. r = MessageRequest(s, m_seqNum[s], n - 1)
      <4>1. r # MessageAcknowledgement(s, m_seqNum[s] - 1)
        BY DEF MessageAcknowledgement
      <4> QED
        BY <1>1, <2>2, <3>1, <3>2, <4>1, FinishSends, Zenon
    <3>4. r.stream = s /\ r.lower = m_seqNum[s] /\ r.upper = n - 1
      BY <3>3, Zenon DEF MessageRequest
    <3>5. \A k \in Pending(s) : n <= k
      BY <3>1, Zenon DEF IsTop
    <3> QED
      BY <3>1, <3>2, <3>4, <3>5
  <2>5. CASE FinishEmpty(s)
    <3>1. /\ Pred(m_seqNum[s]) \in Nat /\ Finish(s, Pred(m_seqNum[s]))
          /\ Pred(m_seqNum[s]) < m_seqNum[s]
      BY <1>1, <2>5, FinishEmptyIsFinish, Zenon
    <3>2. m_seqNum[s] \in Nat
      BY <1>1, Pointwise, Zenon DEF IInv
    <3>3. r = MessageAcknowledgement(s, m_seqNum[s] - 1)
      BY <1>1, <2>2, <3>1, <3>2, FinishSends, SMTT(40)
    <3> QED
      BY <3>3, Zenon DEF MessageAcknowledgement
  <2> QED
    BY <2>2, <2>3, <2>4, <2>5, Zenon
<1>2. IInv /\ IInv' /\ [Next]_vars => [Missing]_vars
  BY <1>1, Zenon
<1> QED
  BY <1>2, Inductive, PTL DEF Spec, RequestsOnlyMissing

\* The messages forwarded from a stream, in the terms of StreamDelivery, change only
\* when the handler forwards.
LEMMA SameForwarded ==
    ASSUME UNCHANGED <<finished, sent, closed>>,
           \A s \in Stream \ finished : delivered'[s] = delivered[s]
    PROVE  UNCHANGED Delivery!vars
BY Zenon DEF Delivery!vars, forwarded

\* A forwarded message is a step of StreamDelivery unless the stream was forwarded
\* to its end before.
LEMMA ForwardRefines ==
    ASSUME IInv, NEW s \in Stream, ForwardTop(s) \/ ForwardEnd(s)
    PROVE  Delivery!Forward(s) \/ UNCHANGED Delivery!vars
<1>1. /\ handling = s /\ IsTop(s, m_seqNum[s])
      /\ delivered' = [delivered EXCEPT ![s] = Append(delivered[s], m_seqNum[s])]
      /\ UNCHANGED <<sent, closed>>
      /\ \/ finished' = finished
         \/ finished' = finished \cup {s} /\ m_seqNum[s] = sent[s] - 1
  BY Zenon DEF ForwardTop, ForwardEnd, provider
<1>2. /\ m_seqNum[s] \in SeqNum /\ m_seqNum[s] < sent[s]
      /\ Len(delivered[s]) = m_seqNum[s]
      /\ Len(delivered'[s]) = m_seqNum[s] + 1
      /\ \A t \in Stream \ {s} : delivered'[t] = delivered[t]
  BY <1>1, Forwarding, Zenon
<1>3. CASE s \in finished
  <2>1. finished' = finished
    BY <1>1, <1>3, Zenon
  <2> QED
    BY <1>1, <1>2, <1>3, <2>1, SameForwarded, Zenon
<1>4. CASE s \notin finished
  <2>1. forwarded[s] = m_seqNum[s] /\ forwarded[s] < sent[s]
    BY <1>2, <1>4, Zenon DEF forwarded
  <2>2. forwarded'[s] = m_seqNum[s] + 1
    <3>1. CASE finished' = finished
      BY <1>2, <1>4, <3>1, Zenon DEF forwarded
    <3>2. CASE finished' = finished \cup {s} /\ m_seqNum[s] = sent[s] - 1
      <4>1. forwarded'[s] = sent[s]
        BY <1>1, <3>2, Zenon DEF forwarded
      <4>2. sent[s] \in Nat
        BY Pointwise, Zenon DEF IInv
      <4> QED
        BY <3>2, <4>1, <4>2
    <3> QED
      BY <1>1, <3>1, <3>2, Zenon
  <2>3. \A t \in Stream \ {s} : forwarded'[t] = forwarded[t]
    BY <1>1, <1>2 DEF forwarded
  <2>4. forwarded' = [forwarded EXCEPT ![s] = forwarded[s] + 1]
    <3>1. /\ forwarded = [t \in Stream |-> forwarded[t]]
          /\ forwarded' = [t \in Stream |-> forwarded'[t]]
      BY Zenon DEF forwarded
    <3> QED
      BY <2>1, <2>2, <2>3, <3>1, Zenon
  <2> QED
    BY <1>1, <2>1, <2>4, Zenon DEF Delivery!Forward
<1> QED
  BY <1>3, <1>4, Zenon

\* The layer implements StreamDelivery: a stream is forwarded message by message, none
\* before it was sent, and its end completes it.
THEOREM Refinement == Spec => DeliversStreams
<1>1. Init => Delivery!Init
  BY DEF Init, Delivery!Init, forwarded
<1>2. ASSUME IInv, Next PROVE Delivery!Next \/ UNCHANGED Delivery!vars
  <2>1. CASE Connect \/ GetStreamSequenceNumbers \/ Lose
    BY <2>1, SameForwarded, Zenon DEF Connect, GetStreamSequenceNumbers, Lose, provider
  <2>2. CASE \E r \in unsent : SendPeriodicRequest(r)
    BY <2>2, SameForwarded, Zenon DEF SendPeriodicRequest, provider
  <2>3. CASE \E m \in toProvider : Resend(m) \/ Discard(m)
    BY <2>3, SameForwarded, Zenon DEF Resend, Discard, provider
  <2>4. ASSUME NEW s \in Stream, NEW n \in SeqNum, Receive(s, n)
        PROVE  UNCHANGED Delivery!vars
    <3>1. /\ UNCHANGED <<finished, sent, closed>>
          /\ delivered' = IF s \in m_buffers THEN delivered
                          ELSE [delivered EXCEPT ![s] = <<>>]
      BY <2>4, Zenon DEF Receive, provider
    <3>2. s \notin m_buffers /\ s \notin finished => delivered[s] = <<>>
      BY <1>2, Zenon DEF IInv, Fresh
    <3>3. delivered \in [Stream -> Seq(SeqNum)]
      BY <1>2, Zenon DEF IInv, TypeOK
    <3>4. \A t \in Stream \ finished : delivered'[t] = delivered[t]
      BY <3>1, <3>2, <3>3, Zenon
    <3> QED
      BY <3>1, <3>4, SameForwarded, Zenon
  <2>5. ASSUME NEW s \in Stream, NEW end \in BOOLEAN, StreamMessage(s, end)
        PROVE  Delivery!Send(s)
    <3>1. /\ s \notin closed /\ sent[s] < MaxSeq
          /\ sent' = [sent EXCEPT ![s] = sent[s] + 1]
          /\ closed' \in {closed, closed \cup {s}}
          /\ UNCHANGED <<delivered, finished>>
      BY <2>5, Zenon DEF StreamMessage
    <3>2. s \notin finished
      BY <1>2, <3>1, Zenon DEF IInv, Ended
    <3>3. sent \in [Stream -> SeqNum]
      BY <1>2, Zenon DEF IInv, TypeOK
    <3>4. UNCHANGED forwarded
      BY <3>1, <3>2, <3>3, Zenon DEF forwarded
    <3> QED
      BY <3>1, <3>4, Zenon DEF Delivery!Send
  <2>6. ASSUME NEW s \in Stream, Handler(s)
        PROVE  Delivery!Forward(s) \/ UNCHANGED Delivery!vars
    <3>1. CASE ForwardTop(s) \/ ForwardEnd(s)
      BY <1>2, <3>1, ForwardRefines, Zenon
    <3>2. CASE DropTop(s)
      BY <3>2, SameForwarded, Zenon DEF DropTop, provider
    <3>3. CASE FinishPending(s) \/ FinishEmpty(s)
      BY <3>3, SameForwarded, Zenon DEF FinishPending, FinishEmpty, Finish, provider
    <3> QED
      BY <2>6, <3>1, <3>2, <3>3, Zenon DEF Handler
  <2> QED
    BY <1>2, <2>1, <2>2, <2>3, <2>4, <2>5, <2>6, Zenon DEF Next, Delivery!Next
<1>3. ASSUME UNCHANGED vars PROVE UNCHANGED Delivery!vars
  BY <1>3, SameForwarded, Zenon DEF vars, provider
<1>4. IInv /\ [Next]_vars => [Delivery!Next]_(Delivery!vars)
  BY <1>2, <1>3, Zenon
<1> QED
  BY <1>1, <1>4, Inductive, PTL DEF Spec, DeliversStreams, Delivery!Spec

------------------------------------------------------------------------------
(* Streams to the provider: the inductive invariant.                       *)

Kept(n) == n \in Out!Retained \/ n \in received

\* An acknowledgement, under way or being handled, is for received messages.
AckOf(answer) == answer.op = "ack" => \A n \in Out!SeqNum : n <= answer.upper => n \in received
Acked == \A answer \in answers : AckOf(answer)

\* The handler has an answer to handle as long as it is not idle.
Handling == /\ phase # "idle" => task \in Out!Answer /\ AckOf(task)
            /\ it # None => phase = "popping"

\* What a thread has saved it may pass on: that is kept already.
Saved == \A t \in Thread : /\ stage[t] # "idle" => assigned[t] \in Out!SeqNum
                           /\ stage[t] = "saved" => Kept(assigned[t])

OutInv == Out!TypeOK /\ Acked /\ Handling /\ Saved /\ Out!OnlyReceivedAreForgotten

LEMMA InitOutInv == Out!Init => OutInv
<1> SUFFICES ASSUME Out!Init PROVE OutInv
    OBVIOUS
<1>1. Out!TypeOK
  BY MaxSeqAssumption DEF Out!Init, Out!TypeOK, Out!SeqNum
<1>2. Acked /\ Handling /\ Saved /\ Out!OnlyReceivedAreForgotten
  BY Zenon DEF Out!Init, Acked, Handling, Saved, Out!OnlyReceivedAreForgotten
<1> QED
  BY <1>1, <1>2, Zenon DEF OutInv

\* Where a number can be, spelled out.
LEMMA RetainedIn ==
    \A n : n \in Out!Retained <=> \/ n \in queue
                                  \/ \E i \in DOMAIN processed : processed[i] = n
                                  \/ n = it /\ it # None
BY Zenon DEF Out!Retained, Out!Range

\* Setting a number aside, and taking the first one back.
LEMMA AppendRange ==
    ASSUME NEW S, NEW s \in Seq(S), NEW n \in S
    PROVE  /\ \A i \in DOMAIN s : i \in DOMAIN Append(s, n) /\ Append(s, n)[i] = s[i]
           /\ \E i \in DOMAIN Append(s, n) : Append(s, n)[i] = n
<1>1. /\ Len(s) \in Nat /\ DOMAIN s = 1..Len(s)
      /\ DOMAIN Append(s, n) = 1..(Len(s) + 1)
      /\ Append(s, n)[Len(s) + 1] = n
      /\ \A i \in 1..Len(s) : Append(s, n)[i] = s[i]
  OBVIOUS
<1>2. Len(s) + 1 \in 1..(Len(s) + 1)
  BY <1>1
<1> QED
  BY <1>1, <1>2

LEMMA TailRange ==
    ASSUME NEW S, NEW s \in Seq(S), s # <<>>
    PROVE  /\ Head(s) \in S /\ Tail(s) \in Seq(S)
           /\ \A i \in DOMAIN s : s[i] = Head(s) \/ \E j \in DOMAIN Tail(s) : Tail(s)[j] = s[i]
<1>1. /\ Head(s) \in S /\ Tail(s) \in Seq(S) /\ Len(s) \in Nat /\ Head(s) = s[1]
      /\ DOMAIN s = 1..Len(s) /\ DOMAIN Tail(s) = 1..(Len(s) - 1)
      /\ \A j \in 1..(Len(s) - 1) : Tail(s)[j] = s[j + 1]
  OBVIOUS
<1>2. ASSUME NEW i \in DOMAIN s, i # 1
      PROVE  \E j \in DOMAIN Tail(s) : Tail(s)[j] = s[i]
  <2>1. i - 1 \in DOMAIN Tail(s) /\ (i - 1) + 1 = i
    BY <1>1, <1>2
  <2> QED
    BY <1>1, <2>1, Zenon
<1> QED
  BY <1>1, <1>2, Zenon

------------------------------------------------------------------------------
(* Nothing that is kept is lost.                                           *)

\* A step that leaves the queue, the handler's places and the provider's alone.
LEMMA SamePlaces ==
    ASSUME UNCHANGED <<queue, it, processed>>, received \subseteq received'
    PROVE  \A n : Kept(n) => Kept(n)'
BY Zenon DEF Kept, Out!Retained

\* A popped message is set aside, held, or was received.
LEMMA HandlerKeeps ==
    ASSUME None \notin Int, OutInv, Out!HandlerStep
    PROVE  /\ \A n : Kept(n) => Kept(n)'
           /\ UNCHANGED <<Out!stream, Out!senders, received, answers>>
           /\ \A n \in passed' : n \in passed \/ Kept(n)'
           /\ Out!TypeOK' /\ Handling'
<1> USE RetainedIn
<1>1. CASE Out!SetAside
  <2>1. PICK n \in queue : /\ Out!TryPop(n)
                           /\ processed' = Append(processed, n)
                           /\ UNCHANGED <<Out!stream, Out!senders, task, it, phase, due, Out!network>>
    BY <1>1, Zenon DEF Out!SetAside
  <2>2. queue' = queue \ {n} /\ n \in Out!SeqNum /\ processed \in Seq(Out!SeqNum)
    BY <2>1, Zenon DEF Out!TryPop, OutInv, Out!TypeOK
  <2>3. processed' \in Seq(Out!SeqNum)
    BY <2>1, <2>2
  <2>4. \A k : Kept(k) => Kept(k)'
    <3>1. /\ \A i \in DOMAIN processed : i \in DOMAIN processed' /\ processed'[i] = processed[i]
          /\ \E i \in DOMAIN processed' : processed'[i] = n
      BY <2>1, <2>2, AppendRange
    <3>2. UNCHANGED <<it, received>>
      BY <2>1, Zenon DEF Out!network
    <3> QED
      BY <2>2, <3>1, <3>2 DEF Kept, Out!Retained, Out!Range
  <2>5. Out!TypeOK' /\ Handling'
    BY <2>1, <2>2, <2>3, Zenon
       DEF OutInv, Out!TypeOK, Handling, AckOf, Out!stream, Out!senders, Out!network
  <2> QED
    BY <2>1, <2>4, <2>5, Zenon DEF Out!network
<1>2. CASE Out!Remove
  <2>1. PICK n \in queue : /\ Out!TryPop(n)
                           /\ task.op = "ack" /\ n <= task.upper
                           /\ due' = due \ {n}
                           /\ UNCHANGED <<Out!stream, Out!senders, task, it, processed, phase, Out!network>>
    BY <1>2, Zenon DEF Out!Remove
  <2>2. queue' = queue \ {n} /\ n \in Out!SeqNum /\ phase = "popping"
    BY <2>1, Zenon DEF Out!TryPop, OutInv, Out!TypeOK
  <2>3. n \in received
    BY <2>1, <2>2, Zenon DEF OutInv, Handling, AckOf
  <2>4. \A k : Kept(k) => Kept(k)'
    BY <2>1, <2>2, <2>3, Zenon DEF Kept, Out!Retained, Out!network
  <2>5. Out!TypeOK' /\ Handling'
    BY <2>1, <2>2, Zenon
       DEF OutInv, Out!TypeOK, Handling, AckOf, Out!stream, Out!senders, Out!network
  <2> QED
    BY <2>1, <2>4, <2>5, Zenon DEF Out!network
<1>3. CASE Out!PopLater
  <2>1. PICK n \in queue : /\ Out!TryPop(n)
                           /\ it' = n
                           /\ UNCHANGED <<Out!stream, Out!senders, task, processed, phase, due, Out!network>>
    BY <1>3, Zenon DEF Out!PopLater
  <2>2. /\ queue' = queue \ {n} /\ n \in Out!SeqNum /\ phase = "popping" /\ it = None
        /\ n # None
    BY <2>1 DEF Out!TryPop, OutInv, Out!TypeOK, Out!SeqNum
  <2>3. \A k : Kept(k) => Kept(k)'
    BY <2>1, <2>2, Zenon DEF Kept, Out!Retained, Out!network
  <2>4. Out!TypeOK' /\ Handling'
    BY <2>1, <2>2, Zenon
       DEF OutInv, Out!TypeOK, Handling, AckOf, Out!stream, Out!senders, Out!network
  <2> QED
    BY <2>1, <2>3, <2>4, Zenon DEF Out!network
<1>4. CASE Out!PutBack
  <2>1. /\ it # None
        /\ queue' = queue \cup {it}
        /\ it' = None
        /\ phase' = "returning"
        /\ UNCHANGED <<Out!stream, Out!senders, task, processed, due, Out!network>>
    BY <1>4, Zenon DEF Out!PutBack
  <2>2. it \in Out!SeqNum /\ phase = "popping"
    BY <2>1, Zenon DEF OutInv, Out!TypeOK, Handling
  <2>3. \A k : Kept(k) => Kept(k)'
    BY <2>1, Zenon DEF Kept, Out!Retained, Out!network
  <2>4. Out!TypeOK' /\ Handling'
    BY <2>1, <2>2, Zenon
       DEF OutInv, Out!TypeOK, Handling, AckOf, Out!stream, Out!senders, Out!network
  <2> QED
    BY <2>1, <2>3, <2>4, Zenon DEF Out!network
<1>5. CASE Out!PopNothing
  <2>1. /\ phase = "popping" /\ it = None
        /\ phase' = "returning"
        /\ UNCHANGED <<Out!stream, queue, Out!senders, task, it, processed, due, Out!network>>
    BY <1>5, Zenon DEF Out!PopNothing
  <2>2. \A k : Kept(k) => Kept(k)'
    BY <2>1, SamePlaces, Zenon DEF Out!network
  <2>3. Out!TypeOK' /\ Handling'
    BY <2>1, Zenon DEF OutInv, Out!TypeOK, Handling, AckOf, Out!stream, Out!senders, Out!network
  <2> QED
    BY <2>1, <2>2, <2>3, Zenon DEF Out!network
<1>6. CASE Out!Return
  <2> DEFINE n == Head(processed)
             requested == IF n >= task.lower THEN {n} ELSE {}
  <2>1. /\ phase = "returning" /\ processed # <<>>
        /\ queue' = queue \cup {n}
        /\ processed' = Tail(processed)
        /\ due' = due \ requested
        /\ passed' = passed \cup requested
        /\ outbound' = outbound \cup requested
        /\ UNCHANGED <<Out!stream, Out!senders, task, it, phase, received, answers>>
    BY <1>6, Zenon DEF Out!Return
  <2>2. /\ n \in Out!SeqNum /\ Tail(processed) \in Seq(Out!SeqNum)
        /\ \A i \in DOMAIN processed : \/ processed[i] = n
                                       \/ \E j \in DOMAIN Tail(processed) :
                                             Tail(processed)[j] = processed[i]
    BY <2>1, TailRange, Zenon DEF OutInv, Out!TypeOK
  <2>3. requested \subseteq {n}
    BY Zenon
  <2> HIDE DEF n, requested
  <2>4. \A k : Kept(k) => Kept(k)'
    <3>1. ASSUME NEW k, k \in Out!Retained
          PROVE  k \in queue' \/ (\E j \in DOMAIN processed' : processed'[j] = k) \/ k \in {it} \ {None}
      BY <3>1, <2>1, <2>2, Zenon
    <3>2. ASSUME NEW k, k \in Out!Retained
          PROVE  k \in Out!Retained'
      <4>1. /\ it' = it
            /\ k \in queue' \/ (\E j \in DOMAIN processed' : processed'[j] = k) \/ k \in {it} \ {None}
        BY <2>1, <3>1, <3>2, Zenon
      <4> QED
        BY <4>1, Zenon DEF Out!Retained, Out!Range
    <3> QED
      BY <2>1, <3>2, Zenon DEF Kept
  <2>5. \A k \in queue' : Kept(k)'
    BY Zenon DEF Kept, Out!Retained
  <2>6. Out!TypeOK'
    <3>1. /\ queue' \in SUBSET Out!SeqNum /\ due' \in SUBSET Out!SeqNum
          /\ passed' \in SUBSET Out!SeqNum /\ outbound' \in SUBSET Out!SeqNum
          /\ processed' \in Seq(Out!SeqNum)
      BY <2>1, <2>2, <2>3 DEF OutInv, Out!TypeOK
    <3>2. UNCHANGED <<m_sequenceId, life, stage, assigned, task, it, phase, received, answers>>
      BY <2>1, Zenon DEF Out!stream, Out!senders
    <3> QED
      BY <3>1, <3>2, Zenon DEF OutInv, Out!TypeOK
  <2>7. Handling'
    BY <2>1, Zenon DEF OutInv, Handling, AckOf
  <2> QED
    BY <2>1, <2>3, <2>4, <2>5, <2>6, <2>7, Zenon
<1>7. CASE Out!Done
  <2>1. /\ phase = "returning" /\ phase' = "idle"
        /\ task' = None
        /\ due' = {}
        /\ UNCHANGED <<Out!stream, queue, Out!senders, it, processed, Out!network>>
    BY <1>7, Zenon DEF Out!Done
  <2>2. \A k : Kept(k) => Kept(k)'
    BY <2>1, SamePlaces, Zenon DEF Out!network
  <2>3. Out!TypeOK' /\ Handling'
    BY <2>1, Zenon DEF OutInv, Out!TypeOK, Handling, Out!stream, Out!senders, Out!network
  <2> QED
    BY <2>1, <2>2, <2>3, Zenon DEF Out!network
<1> QED
  BY <1>1, <1>2, <1>3, <1>4, <1>5, <1>6, <1>7, Zenon DEF Out!HandlerStep

\* Every step keeps what is kept, and passes on nothing else.
LEMMA NextOutInv == OutInv /\ [Out!Next]_Out!vars => OutInv'
<1> None \notin Int
  BY OutAssumption, Zenon
<1> SUFFICES ASSUME OutInv, [Out!Next]_Out!vars PROVE OutInv'
    BY Zenon
<1> USE MaxSeqAssumption
<1>0. ASSUME \A n : Kept(n) => Kept(n)', \A n \in passed' : n \in passed \/ Kept(n)'
      PROVE  Out!OnlyReceivedAreForgotten'
  BY <1>0, Zenon DEF OutInv, Out!OnlyReceivedAreForgotten, Kept
<1>1. CASE Out!HandlerStep
  <2>1. /\ \A n : Kept(n) => Kept(n)'
        /\ UNCHANGED <<stage, assigned, received, answers>>
        /\ \A n \in passed' : n \in passed \/ Kept(n)'
        /\ Out!TypeOK' /\ Handling'
    BY <1>1, HandlerKeeps, Zenon DEF Out!senders
  <2>2. Acked'
    BY <2>1, Zenon DEF OutInv, Acked, AckOf
  <2>3. Saved'
    BY <2>1, Zenon DEF OutInv, Saved
  <2> QED
    BY <2>1, <2>2, <2>3, <1>0, Zenon DEF OutInv
<1>2. ASSUME NEW t \in Thread, Out!Send(t) \/ Out!Close(t) \/ Out!Destroy(t)
      PROVE  OutInv'
  <2>1. /\ m_sequenceId < MaxSeq
        /\ assigned' = [assigned EXCEPT ![t] = m_sequenceId]
        /\ m_sequenceId' = m_sequenceId + 1
        /\ stage' = [stage EXCEPT ![t] = "numbered"]
        /\ UNCHANGED <<queue, phase, task, it, processed, due, passed, outbound, received,
                       answers>>
        /\ life' \in {"open", "closed", "destroyed"}
    BY <1>2, Zenon
       DEF Out!Send, Out!Close, Out!Destroy, Out!TakeNumber, Out!handler, Out!network, OutInv, Out!TypeOK
  <2>2. m_sequenceId \in Out!SeqNum /\ m_sequenceId' \in 0..MaxSeq
    BY <2>1 DEF OutInv, Out!TypeOK, Out!SeqNum
  <2>3. Out!TypeOK'
    BY <2>1, <2>2, Zenon DEF OutInv, Out!TypeOK
  <2>4. \A n : Kept(n) => Kept(n)'
    BY <2>1, SamePlaces, Zenon
  <2>5. /\ assigned'[t] \in Out!SeqNum /\ stage'[t] = "numbered"
        /\ \A u \in Thread \ {t} : stage'[u] = stage[u] /\ assigned'[u] = assigned[u]
    BY <2>1, <2>2, Zenon DEF OutInv, Out!TypeOK
  <2>6. Saved'
    BY <2>4, <2>5, Zenon DEF OutInv, Saved
  <2>7. Acked' /\ Handling'
    BY <2>1, Zenon DEF OutInv, Acked, AckOf, Handling
  <2> QED
    BY <2>1, <2>3, <2>4, <2>6, <2>7, <1>0, Zenon DEF OutInv
<1>3. ASSUME NEW t \in Thread, Out!Save(t)
      PROVE  OutInv'
  <2>1. /\ stage[t] = "numbered"
        /\ queue' = queue \cup {assigned[t]}
        /\ stage' = [stage EXCEPT ![t] = "saved"]
        /\ UNCHANGED <<m_sequenceId, life, assigned, phase, task, it, processed, due, passed,
                       outbound, received, answers>>
    BY <1>3, Zenon DEF Out!Save, Out!stream, Out!handler, Out!network
  <2>2. assigned[t] \in Out!SeqNum
    BY <2>1, Zenon DEF OutInv, Saved
  <2>3. Out!TypeOK'
    BY <2>1, <2>2, Zenon DEF OutInv, Out!TypeOK
  <2>4. (\A n : Kept(n) => Kept(n)') /\ Kept(assigned[t])'
    BY <2>1, Zenon DEF Kept, Out!Retained
  <2>5. stage'[t] = "saved" /\ \A u \in Thread \ {t} : stage'[u] = stage[u]
    BY <2>1, Zenon DEF OutInv, Out!TypeOK
  <2>6. Saved'
    BY <2>1, <2>2, <2>4, <2>5, Zenon DEF OutInv, Saved
  <2>7. Acked' /\ Handling'
    BY <2>1, Zenon DEF OutInv, Acked, AckOf, Handling
  <2> QED
    BY <2>1, <2>3, <2>4, <2>6, <2>7, <1>0, Zenon DEF OutInv
<1>4. ASSUME NEW t \in Thread, Out!Pass(t)
      PROVE  OutInv'
  <2>1. /\ stage[t] = "saved"
        /\ passed' = passed \cup {assigned[t]}
        /\ outbound' = outbound \cup {assigned[t]}
        /\ stage' = [stage EXCEPT ![t] = "idle"]
        /\ assigned' = [assigned EXCEPT ![t] = None]
        /\ UNCHANGED <<m_sequenceId, life, queue, phase, task, it, processed, due, received,
                       answers>>
    BY <1>4, Zenon DEF Out!Pass, Out!stream, Out!handler
  <2>2. assigned[t] \in Out!SeqNum /\ Kept(assigned[t])
    BY <2>1, Zenon DEF OutInv, Saved
  <2>3. Out!TypeOK'
    BY <2>1, <2>2, Zenon DEF OutInv, Out!TypeOK
  <2>4. \A n : Kept(n) => Kept(n)'
    BY <2>1, SamePlaces, Zenon
  <2>5. /\ stage'[t] = "idle"
        /\ \A u \in Thread \ {t} : stage'[u] = stage[u] /\ assigned'[u] = assigned[u]
    BY <2>1, Zenon DEF OutInv, Out!TypeOK
  <2>6. Saved'
    BY <2>4, <2>5, Zenon DEF OutInv, Saved
  <2>7. Acked' /\ Handling'
    BY <2>1, Zenon DEF OutInv, Acked, AckOf, Handling
  <2> QED
    BY <2>1, <2>2, <2>3, <2>4, <2>6, <2>7, <1>0, Zenon DEF OutInv
<1>5. ASSUME NEW answer \in answers, Out!Dispatch(answer)
      PROVE  OutInv'
  <2>1. /\ phase = "idle"
        /\ answers' = answers \ {answer}
        /\ UNCHANGED <<m_sequenceId, life, queue, stage, assigned, passed, outbound, received>>
        /\ UNCHANGED <<it, processed>>
        /\ \/ UNCHANGED <<task, phase, due>>
           \/ task' = answer /\ phase' = "popping" /\ due' \subseteq queue
    BY <1>5, Zenon DEF Out!Dispatch, Out!stream, Out!senders, Out!handler
  <2>2. Out!TypeOK'
    BY <2>1, Zenon DEF OutInv, Out!TypeOK
  <2>3. \A n : Kept(n) => Kept(n)'
    BY <2>1, SamePlaces, Zenon
  <2>4. Saved'
    BY <2>1, <2>3, Zenon DEF OutInv, Saved
  <2>5. Acked' /\ Handling'
    BY <2>1, Zenon DEF OutInv, Out!TypeOK, Acked, AckOf, Handling
  <2> QED
    BY <2>1, <2>2, <2>3, <2>4, <2>5, <1>0, Zenon DEF OutInv
<1>6. ASSUME NEW n \in outbound, Out!Receive(n)
      PROVE  OutInv'
  <2>1. /\ received' = received \cup {n}
        /\ outbound' = outbound \ {n}
        /\ UNCHANGED <<m_sequenceId, life, queue, stage, assigned, phase, task, it, processed,
                       due, passed, answers>>
    BY <1>6, Zenon DEF Out!Receive, Out!stream, Out!senders, Out!handler
  <2>2. Out!TypeOK'
    BY <2>1, Zenon DEF OutInv, Out!TypeOK
  <2>3. \A k : Kept(k) => Kept(k)'
    BY <2>1, SamePlaces, Zenon
  <2>4. Saved'
    BY <2>1, <2>3, Zenon DEF OutInv, Saved
  <2>5. Acked' /\ Handling'
    BY <2>1, Zenon DEF OutInv, Acked, AckOf, Handling
  <2> QED
    BY <2>1, <2>2, <2>3, <2>4, <2>5, <1>0, Zenon DEF OutInv
<1>7. CASE Out!ProviderAnswer \/ Out!Lose \/ UNCHANGED Out!vars
  <2>1. UNCHANGED <<m_sequenceId, life, queue, stage, assigned, phase, task, it, processed,
                    due, passed, received>>
    BY <1>7, Zenon
       DEF Out!ProviderAnswer, Out!Lose, Out!vars, Out!stream, Out!senders, Out!handler, Out!network
  <2>2. /\ outbound' \subseteq outbound
        /\ \A a \in answers' : a \in answers \/ (a \in Out!Answer /\ AckOf(a))
    <3>1. CASE Out!ProviderAnswer
      <4>1. PICK n \in 0..MaxSeq : Out!Expected(n) /\
               \/ n > 0 /\ answers' = answers \cup {[op |-> "ack", lower |-> 0, upper |-> n - 1]}
               \/ \E upper \in {n} \cup {m - 1 : m \in {r \in received : r > n}} :
                    /\ n < MaxSeq
                    /\ answers' = answers \cup {[op |-> "request", lower |-> n, upper |-> upper]}
        BY <3>1, Zenon DEF Out!ProviderAnswer
      <4>2. UNCHANGED outbound
        BY <3>1, Zenon DEF Out!ProviderAnswer
      <4>3. CASE n > 0 /\ answers' = answers \cup {[op |-> "ack", lower |-> 0, upper |-> n - 1]}
        <5> DEFINE a == [op |-> "ack", lower |-> 0, upper |-> n - 1]
        <5>1. a \in Out!Answer
          BY <4>3 DEF Out!Answer, Out!SeqNum
        <5>2. \A k \in Out!SeqNum : k <= n - 1 => k \in received
          BY <4>1 DEF Out!Expected, Out!SeqNum
        <5>3. AckOf(a)
          BY <5>2, Zenon DEF AckOf
        <5> QED
          BY <4>2, <4>3, <5>1, <5>3, Zenon
      <4>4. ASSUME NEW upper \in {n} \cup {m - 1 : m \in {r \in received : r > n}},
                   n < MaxSeq,
                   answers' = answers \cup {[op |-> "request", lower |-> n, upper |-> upper]}
            PROVE  /\ outbound' \subseteq outbound
                   /\ \A a \in answers' : a \in answers \/ (a \in Out!Answer /\ AckOf(a))
        <5>1. n \in Out!SeqNum /\ upper \in Out!SeqNum
          BY <4>4 DEF OutInv, Out!TypeOK, Out!SeqNum
        <5> DEFINE a == [op |-> "request", lower |-> n, upper |-> upper]
        <5>2. a \in Out!Answer /\ AckOf(a)
          BY <5>1, Zenon DEF Out!Answer, AckOf
        <5> QED
          BY <4>2, <4>4, <5>2, Zenon
      <4> QED
        BY <4>1, <4>3, <4>4, Zenon
    <3>2. CASE Out!Lose \/ UNCHANGED Out!vars
      BY <3>2, Zenon DEF Out!Lose, Out!vars, Out!network
    <3> QED
      BY <1>7, <3>1, <3>2, Zenon
  <2>3. Out!TypeOK'
    BY <2>1, <2>2, Zenon DEF OutInv, Out!TypeOK
  <2>4. \A n : Kept(n) => Kept(n)'
    BY <2>1, SamePlaces, Zenon
  <2>5. Saved'
    BY <2>1, <2>4, Zenon DEF OutInv, Saved
  <2>6. Acked' /\ Handling'
    BY <2>1, <2>2, Zenon DEF OutInv, Acked, AckOf, Handling
  <2> QED
    BY <2>1, <2>3, <2>4, <2>5, <2>6, <1>0, Zenon DEF OutInv
<1> QED
  BY <1>1, <1>2, <1>3, <1>4, <1>5, <1>6, <1>7, Zenon DEF Out!Next

\* A message that was passed to the communicator can be sent again until the provider has it,
\* whatever number of threads send while requests and acknowledgements are handled
\* (saveAndPass(), handleMessageRequest(), handleMessageAcknowledgement()).
THEOREM Resendable == Out!Spec => []OnlyReceivedAreForgotten
<1>1. OutInv => OnlyReceivedAreForgotten
  BY Zenon DEF OutInv, OnlyReceivedAreForgotten
<1> QED
  BY InitOutInv, NextOutInv, <1>1, PTL DEF Out!Spec
==============================================================================
