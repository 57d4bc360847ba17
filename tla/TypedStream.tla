------------------------------ MODULE TypedStream ------------------------------
(***************************************************************************)
(* An outgoing message stream (src/helpers/src/communication/streaming/    *)
(* typedStream.h) and the dispatch of the provider's answers to it         *)
(* (streamManager.h).                                                      *)
(*                                                                         *)
(* Every message gets the next sequence number, is saved in m_buffer and   *)
(* passed to the communicator.  The provider asks for what it misses and   *)
(* acknowledges what it has processed; both are handled one at a time, on  *)
(* the pool's thread, and at the same time as further sends: the mutex is  *)
(* only ever taken shared, so the queue operations of the threads          *)
(* interleave.  A number is in at most one place, for the atomic counter   *)
(* gives it out once and every emplace puts back what was popped, so       *)
(* m_buffer is a set.                                                      *)
(*                                                                         *)
(* Outside src/: the provider, which reorders nothing it forwards but      *)
(* needs what the network lost.                                            *)
(***************************************************************************)
EXTENDS Integers, FiniteSets, Sequences, Functions

CONSTANTS
    Thread,      \* the threads that send
    None,        \* no message
    MaxSeq,      \* bound of the model: messages of the stream
    MaxAnswers   \* bound of the model: provider's answers under way

SeqNum == 0..(MaxSeq - 1)
Answer == [op : {"request", "ack"}, lower : SeqNum, upper : SeqNum]

VARIABLES
    m_sequenceId, \* the next sequence number
    m_buffer,     \* numbers in the priority queue
    stage,        \* per thread: "idle", "numbered" or "saved": where it is in send()
    assigned,     \* per thread: the number of the message it sends
    life,         \* "open", "closed" (close() called) or "destroyed"
    phase,        \* the pool's thread is "idle", "popping" (in the loop over the queue)
                  \*   or "returning" (what it has set aside)
    task,         \* the answer it handles, or None
    it,           \* the later message it popped, or None
    processed,    \* messages set aside by handleMessageRequest()
    due,          \* history: numbers in the queue when the answer came that it asks to
                  \*   resend or remove, and that still await it
    passed,       \* history: numbers passed to the communicator
    toProvider,   \* numbers under way
    received,     \* numbers the provider has
    toClient      \* answers under way

stream == <<m_sequenceId, life>>
handler == <<phase, task, it, processed, due>>
senders == <<stage, assigned>>
network == <<passed, toProvider, received, toClient>>
vars == <<stream, m_buffer, senders, handler, network>>

TypeOK ==
    /\ m_sequenceId \in 0..MaxSeq
    /\ m_buffer \in SUBSET SeqNum
    /\ stage \in [Thread -> {"idle", "numbered", "saved"}]
    /\ assigned \in [Thread -> SeqNum \cup {None}]
    /\ life \in {"open", "closed", "destroyed"}
    /\ phase \in {"idle", "popping", "returning"}
    /\ task \in Answer \cup {None}
    /\ it \in SeqNum \cup {None}
    /\ processed \in Seq(SeqNum)
    /\ due \in SUBSET SeqNum
    /\ passed \in SUBSET SeqNum
    /\ toProvider \in SUBSET SeqNum
    /\ received \in SUBSET SeqNum
    /\ toClient \in SUBSET Answer

Init ==
    /\ m_sequenceId = 0 /\ life = "open"
    /\ m_buffer = {}
    /\ stage = [t \in Thread |-> "idle"]
    /\ assigned = [t \in Thread |-> None]
    /\ phase = "idle" /\ task = None /\ it = None /\ processed = <<>> /\ due = {}
    /\ passed = {} /\ toProvider = {} /\ received = {} /\ toClient = {}

------------------------------------------------------------------------------
(* Sending.                                                                *)

\* send() takes a number.
TakeNumber(t) ==
    /\ stage[t] = "idle"
    /\ m_sequenceId < MaxSeq
    /\ assigned' = [assigned EXCEPT ![t] = m_sequenceId]
    /\ m_sequenceId' = m_sequenceId + 1
    /\ stage' = [stage EXCEPT ![t] = "numbered"]
    /\ UNCHANGED <<m_buffer, handler, network>>

Send(t) ==
    /\ life = "open"
    /\ TakeNumber(t)
    /\ UNCHANGED life

\* close(), called by the owner of the stream (~EventCommunicator), its last message.
Close(t) ==
    /\ life = "open"
    /\ TakeNumber(t)
    /\ life' = "closed"

\* The destructor closes the stream.  The owner destroys it when nothing uses it.
Destroy(t) ==
    /\ life # "destroyed"
    /\ \A u \in Thread : stage[u] = "idle"
    /\ phase = "idle"
    /\ TakeNumber(t)
    /\ life' = "destroyed"

\* saveAndPass(): the copy is saved before the message is passed on.
Save(t) ==
    /\ stage[t] = "numbered"
    /\ m_buffer' = m_buffer \cup {assigned[t]}
    /\ stage' = [stage EXCEPT ![t] = "saved"]
    /\ UNCHANGED <<stream, assigned, handler, network>>

Pass(t) ==
    /\ stage[t] = "saved"
    /\ passed' = passed \cup {assigned[t]}
    /\ toProvider' = toProvider \cup {assigned[t]}
    /\ stage' = [stage EXCEPT ![t] = "idle"]
    /\ assigned' = [assigned EXCEPT ![t] = None]
    /\ UNCHANGED <<stream, m_buffer, handler, received, toClient>>

------------------------------------------------------------------------------
(* Handling the provider's answers.                                        *)

Concerns(answer, n) == n <= answer.upper /\ (answer.op = "request" => n >= answer.lower)

\* StreamManager finds the stream and calls its handler.
Dispatch(answer) ==
    /\ phase = "idle"
    /\ answer \in toClient
    /\ toClient' = toClient \ {answer}
    /\ IF life = "destroyed" THEN UNCHANGED handler
       ELSE /\ task' = answer
            /\ phase' = "popping"
            /\ due' = {n \in m_buffer : Concerns(answer, n)}
            /\ UNCHANGED <<it, processed>>
    /\ UNCHANGED <<stream, m_buffer, senders, passed, toProvider, received>>

\* The queue's order, StreamLess: try_pop() takes the largest number.
Top(n) == n \in m_buffer /\ \A m \in m_buffer : m <= n

TryPop(n) ==
    /\ phase = "popping" /\ it = None
    /\ Top(n)
    /\ m_buffer' = m_buffer \ {n}

\* handleMessageRequest(): a message not after the requested ones is set aside.
SetAside ==
    \E n \in m_buffer :
        /\ TryPop(n)
        /\ task.op = "request" /\ n <= task.upper
        /\ processed' = Append(processed, n)
        /\ UNCHANGED <<stream, senders, task, it, phase, due, network>>

\* handleMessageAcknowledgement(): an acknowledged message is dropped.
Remove ==
    \E n \in m_buffer :
        /\ TryPop(n)
        /\ task.op = "ack" /\ n <= task.upper
        /\ due' = due \ {n}
        /\ UNCHANGED <<stream, senders, task, it, processed, phase, network>>

\* Both: a later message is popped, and then put back; the loop ends.
PopLater ==
    \E n \in m_buffer :
        /\ TryPop(n)
        /\ n > task.upper
        /\ it' = n
        /\ UNCHANGED <<stream, senders, task, processed, phase, due, network>>

\* Variant of PutBack: the loop goes on.
PutBackWithoutBreak ==
    /\ it # None
    /\ m_buffer' = m_buffer \cup {it}
    /\ it' = None
    /\ UNCHANGED <<stream, senders, task, processed, phase, due, network>>

PutBack ==
    /\ it # None
    /\ m_buffer' = m_buffer \cup {it}
    /\ it' = None
    /\ phase' = "returning"
    /\ UNCHANGED <<stream, senders, task, processed, due, network>>

\* The loop ends on an empty queue.
PopNothing ==
    /\ phase = "popping" /\ it = None
    /\ m_buffer = {}
    /\ phase' = "returning"
    /\ UNCHANGED <<stream, m_buffer, senders, task, it, processed, due, network>>

\* Variant of Return: what is passed on again is not saved.
ReturnWithoutSave ==
    LET n == Head(processed)
        requested == IF n >= task.lower THEN {n} ELSE {}
    IN  /\ phase = "returning" /\ processed # <<>>
        /\ m_buffer' = m_buffer \cup ({n} \ requested)
        /\ processed' = Tail(processed)
        /\ due' = due \ requested
        /\ passed' = passed \cup requested
        /\ toProvider' = toProvider \cup requested
        /\ UNCHANGED <<stream, senders, task, it, phase, received, toClient>>

\* What was set aside is put back, and passed on again when it was requested.
Return ==
    LET n == Head(processed)
        requested == IF n >= task.lower THEN {n} ELSE {}
    IN  /\ phase = "returning" /\ processed # <<>>
        /\ m_buffer' = m_buffer \cup {n}
        /\ processed' = Tail(processed)
        /\ due' = due \ requested
        /\ passed' = passed \cup requested
        /\ toProvider' = toProvider \cup requested
        /\ UNCHANGED <<stream, senders, task, it, phase, received, toClient>>

\* The handler returns.
Done ==
    /\ phase = "returning" /\ processed = <<>>
    /\ phase' = "idle"
    /\ task' = None
    /\ due' = {}
    /\ UNCHANGED <<stream, m_buffer, senders, it, processed, network>>

HandlerStep == SetAside \/ Remove \/ PopLater \/ PutBack \/ PopNothing
               \/ Return \/ Done

------------------------------------------------------------------------------
(* The provider and the network, outside src/.                             *)

\* Every number below the expected one is received.
Expected(n) == n \notin received /\ \A m \in 0..(n - 1) : m \in received

Receive(n) ==
    /\ n \in toProvider
    /\ received' = received \cup {n}
    /\ toProvider' = toProvider \ {n}
    /\ UNCHANGED <<stream, m_buffer, senders, handler, passed, toClient>>

\* The provider acknowledges what it has without a gap, asks for the gap before a
\* message it has, and asks again for the number it expects.
ProviderAnswer ==
    /\ Cardinality(toClient) < MaxAnswers
    /\ received # {}
    /\ \E n \in 0..MaxSeq : Expected(n) /\
         \/ n > 0 /\ toClient' = toClient \cup {[op |-> "ack", lower |-> 0, upper |-> n - 1]}
         \/ \E upper \in {n} \cup {m - 1 : m \in {r \in received : r > n}} :
              /\ n < MaxSeq
              /\ toClient' = toClient \cup {[op |-> "request", lower |-> n, upper |-> upper]}
    /\ UNCHANGED <<stream, m_buffer, senders, handler, passed, toProvider, received>>

Lose ==
    /\ \/ \E n \in toProvider : toProvider' = toProvider \ {n} /\ UNCHANGED toClient
       \/ \E a \in toClient : toClient' = toClient \ {a} /\ UNCHANGED toProvider
    /\ UNCHANGED <<stream, m_buffer, senders, handler, passed, received>>

Next ==
    \/ \E t \in Thread : Send(t) \/ Close(t) \/ Destroy(t) \/ Save(t) \/ Pass(t)
    \/ HandlerStep
    \/ \E answer \in toClient : Dispatch(answer)
    \/ \E n \in toProvider : Receive(n)
    \/ ProviderAnswer \/ Lose

Spec == Init /\ [][Next]_vars

\* The thread of the pool runs.
Fairness == WF_vars(HandlerStep)

FairSpec == Spec /\ Fairness

------------------------------------------------------------------------------
(* Properties.                                                             *)

Retained == m_buffer \cup Range(processed) \cup ({it} \ {None})

\* What the provider does not have can be resent: a number passed to the communicator
\* leaves the queue for good only when the provider has received it, however requests,
\* acknowledgements and sends interleave.
OnlyReceivedAreForgotten == \A n \in passed : n \in Retained \/ n \in received

\* The loops of the handlers end, whatever is sent meanwhile: a handler returns.
HandlersReturn == phase # "idle" ~> phase = "idle"

\* "Resends messages requested by the remote party" and "removes already processed
\* messages from an internal buffer": when a handler returns, every message that was
\* requested, or acknowledged, and was in the queue has been passed on, or is gone.
AnswersTakeEffect == [][task # None /\ task' = None => due = {}]_vars
==============================================================================
