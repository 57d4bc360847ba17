------------------------------- MODULE Messaging -------------------------------
(***************************************************************************)
(* Requests and their answers: the Translator, the Inbox and the           *)
(* BinaryTranslator (src/helpers/src/communication/layers), over what      *)
(* ConnectionPool shows of the layers below: a send() that waits for an    *)
(* idle connection, brings the message to the provider up to once for      *)
(* every attempt, and calls its callback at most once.                     *)
(*                                                                         *)
(* A call is one communicate() of a thread: with a future, for which the   *)
(* thread waits, or with a callback.  Incoming messages are handled one    *)
(* after the other on the thread of the pool's io_service; they come over  *)
(* several connections, in no order.                                       *)
(*                                                                         *)
(* Outside src/: the provider, which answers what it has received, once    *)
(* for every time it has received it, late or never.                       *)
(***************************************************************************)
EXTENDS Messages, HashMaps

CONSTANTS
    Call,      \* calls of communicate()
    Requests,  \* call -> its request
    Values,    \* call -> the body of the answer it hopes for
    IdSpaces,  \* numbers of different message ids, of which one is taken
    Retries    \* retries given to communicate()

ASSUME IdAssumption == IdSpaces \subseteq Nat \ {0} /\ Retries \in Nat

\* Answers are bodies of server messages, and the requests are those whose answers are taken
\* with a look at their status.
ASSUME CallAssumption ==
    /\ "none" \notin Call
    /\ \A c \in Call : /\ DOMAIN Values[c] = {"kind", "status", "field", "value"}
                       /\ Requests[c].request \notin {"create_storage_test_file", "get_configuration"}

VARIABLES
    inbox,    \* ids: how many there are, next: m_nextMsgId, callbacks: m_callbacks, held: the id whose accessor
              \*   the handler has
    call,     \* each call: whether it has a callback, its thread, its id, its promise and the errno it ends with
    send,     \* LowerLayer::send() of each call: "none", "waiting" for a connection,
              \*   "sending" or "over"
    attempts, \* copies of each message that reached the provider, while it is being sent
    todo,     \* copies the provider has not answered
    handler,  \* the pool's thread: the message it handles, if any
    idle      \* m_idleConnections has a connection

vars == <<inbox, call, send, attempts, todo, handler, idle>>

Message(id, for, body) == [id |-> id, for |-> for, body |-> body]

\* Bytes that are no message.
Garbage == Body("garbage", "ok", "none", 0)

Refusal(c) == [Values[c] EXCEPT !.status = "enoent"]

Init ==
    /\ \E ids \in IdSpaces : inbox = [ids |-> ids, next |-> 0, callbacks |-> EmptyMap, held |-> {}]
    /\ \E future \in [Call -> BOOLEAN] :
         call = [c \in Call |-> [future |-> future[c], pc |-> "idle", id |-> 0, promise |-> {}, settled |-> 0,
                                 errno |-> 0]]
    /\ send = [c \in Call |-> "none"]
    /\ attempts = [c \in Call |-> 0]
    /\ todo = [c \in Call |-> 0]
    /\ handler = {}
    /\ idle = TRUE

\* ------------------------------------------------- Translator: futures and callbacks
\* The callback of call c is called: it sets the promise, or is the caller's own.
Settled(entries, c, result, from) ==
    [entries EXCEPT ![c].promise = {[result |-> result, from |-> from]}, ![c].settled = @ + 1]

\* The callback of c is destroyed without a call; a future that depends on it throws.
Broken(entries, c) ==
    IF ~entries[c].future THEN entries
    ELSE [entries EXCEPT ![c].promise =
             {[result |-> Throws(Exception("future_error")), from |-> "none"]}]

\* -------------------------------------------------------- Inbox::communicate()
Number(c) ==
    /\ call[c].pc = "idle"
    /\ call' = [call EXCEPT ![c].pc = "numbered", ![c].id = inbox.next]
    /\ inbox' = [inbox EXCEPT !.next = (@ + 1) % inbox.ids]
    /\ UNCHANGED <<send, attempts, todo, handler, idle>>

\* The entry is taken over when the id is still in use; then send() is called.
Insert(c) ==
    LET id == call[c].id
        old == IF id \in DOMAIN inbox.callbacks THEN Broken(call, inbox.callbacks[id]) ELSE call
    IN  /\ call[c].pc = "numbered"
        /\ id \notin inbox.held
        /\ inbox' = [inbox EXCEPT !.callbacks = Put(@, id, c)]
        /\ call' = [old EXCEPT ![c].pc = "sending"]
        /\ send' = [send EXCEPT ![c] = "waiting"]
        /\ UNCHANGED <<attempts, todo, handler, idle>>

\* send() has waited for a connection, without a timeout; communicate() returns.
Pop(c) ==
    /\ send[c] = "waiting"
    /\ idle
    /\ send' = [send EXCEPT ![c] = "sending"]
    /\ call' = [call EXCEPT ![c].pc = IF call[c].future THEN "waiting" ELSE "returned"]
    /\ UNCHANGED <<inbox, attempts, todo, handler, idle>>

\* The first attempt, or a retry, reaches the provider.
Arrive(c) ==
    /\ send[c] = "sending"
    /\ attempts[c] <= Retries
    /\ attempts' = [attempts EXCEPT ![c] = @ + 1]
    /\ todo' = [todo EXCEPT ![c] = @ + 1]
    /\ UNCHANGED <<inbox, call, send, handler, idle>>

\* The sendCallback is called with success, or never (notify() had lost it).
SendEnds(c) ==
    /\ send[c] = "sending"
    /\ send' = [send EXCEPT ![c] = "over"]
    /\ attempts' = [attempts EXCEPT ![c] = 0]
    /\ UNCHANGED <<inbox, call, todo, handler, idle>>

\* The errors of send(): a stream that ended, a connection that was gone.
SendErrors == {EndOfFile, GenericError("ENOTCONN")}

\* Variant: the callback is called, but its entry stays.
SendFailsKeepingEntry(c) ==
    LET id == call[c].id
    IN  /\ send[c] = "sending"
        /\ id \notin inbox.held
        /\ send' = [send EXCEPT ![c] = "over"]
        /\ attempts' = [attempts EXCEPT ![c] = 0]
        /\ IF id \in DOMAIN inbox.callbacks
           THEN \E error \in SendErrors :
                  call' = Settled(call, inbox.callbacks[id], Throws(error), "none")
           ELSE UNCHANGED call
        /\ UNCHANGED <<inbox, todo, handler, idle>>

\* The last attempt has failed: the sendCallback is called with the error.
SendFails(c) ==
    LET id == call[c].id
    IN  /\ send[c] = "sending"
        /\ id \notin inbox.held
        /\ send' = [send EXCEPT ![c] = "over"]
        /\ attempts' = [attempts EXCEPT ![c] = 0]
        /\ IF id \in DOMAIN inbox.callbacks
           THEN /\ \E error \in SendErrors :
                     call' = Settled(call, inbox.callbacks[id], Throws(error), "none")
                /\ inbox' = [inbox EXCEPT !.callbacks = Drop(@, id)]
           ELSE UNCHANGED <<call, inbox>>
        /\ UNCHANGED <<todo, handler, idle>>

\* No connection is ready: the provider cannot be reached, or retries have caught the threads
\* of the connections in pop().  This may end, and may last for ever.
Outage ==
    /\ idle
    /\ idle' = FALSE
    /\ UNCHANGED <<inbox, call, send, attempts, todo, handler>>

Reconnects ==
    /\ ~idle
    /\ idle' = TRUE
    /\ UNCHANGED <<inbox, call, send, attempts, todo, handler>>

\* -------------------------------------------------- Inbox, on the pool's thread
\* A frame has been read and parses: find() takes the accessor, which is held while the
\* subscriptions are asked.
TakeMessage(c) ==
    /\ handler = {}
    /\ todo[c] > 0
    /\ todo' = [todo EXCEPT ![c] = @ - 1]
    /\ \E body \in {Values[c], Refusal(c)} : handler' = {Message(call[c].id, c, body)}
    /\ inbox' = [inbox EXCEPT !.held = {call[c].id} \cap DOMAIN inbox.callbacks]
    /\ UNCHANGED <<call, send, attempts, idle>>

\* An answer that does not parse, or is lost with its connection.
DropMessage(c) ==
    /\ handler = {}
    /\ todo[c] > 0
    /\ todo' = [todo EXCEPT ![c] = @ - 1]
    /\ UNCHANGED <<inbox, call, send, attempts, handler, idle>>

\* The callback is moved out, the entry erased, the callback called.
Answer ==
    \E m \in handler :
        LET c == inbox.callbacks[m.id]
        IN  /\ handler' = {}
            /\ IF inbox.held # {}
               THEN /\ call' = Settled(call, c, AnswerTo(Requests[c], m.body), m.for)
                    /\ inbox' = [inbox EXCEPT !.callbacks = Drop(@, m.id), !.held = {}]
               ELSE UNCHANGED <<call, inbox>>
            /\ UNCHANGED <<send, attempts, todo, idle>>

\* ------------------------------------------------------- wait(), on a FUSE thread
\* Ends the call; the future goes.
Return(c, errno) ==
    /\ call[c].pc = "waiting"
    /\ call' = [call EXCEPT ![c].pc = "returned", ![c].errno = errno]
    /\ UNCHANGED <<inbox, send, attempts, todo, handler, idle>>

\* Variant: a future that is not ready in time is no error.
WaitTimesOutSilently(c) == call[c].promise = {} /\ Return(c, 0)

\* Variant: wait() without a timeout.
WaitForever(c) == call[c].promise # {} /\ Return(c, ErrnoOf(The(call[c].promise).result))

WaitTimesOut(c) == call[c].promise = {} /\ Return(c, Errc.ETIMEDOUT)

WaitInterrupted(c) == Return(c, Errc.ECANCELED)

WaitReturns(c) == call[c].promise # {} /\ Return(c, ErrnoOf(The(call[c].promise).result))

WaitStep(c) == WaitTimesOut(c) \/ WaitReturns(c)

CallStep(c) ==
    \/ Number(c) \/ Insert(c) \/ Pop(c) \/ WaitStep(c) \/ WaitInterrupted(c)
    \/ Arrive(c) \/ SendEnds(c) \/ SendFails(c)
    \/ TakeMessage(c) \/ DropMessage(c)

Next == Outage \/ Reconnects \/ Answer \/ \E c \in Call : CallStep(c)

\* The threads go on and a wait ends at its timeout.  pop() serves the waiting threads in the
\* order they came, so a thread gets a connection if there is one again and again; nothing is
\* asked of the provider and of the network.
Fairness ==
    /\ \A c \in Call : WF_vars(Insert(c)) /\ SF_vars(Pop(c)) /\ WF_vars(WaitStep(c))
    /\ WF_vars(Answer)

Spec == Init /\ [][Next]_vars /\ Fairness

\* ---------------------------------------------------------------- properties
\* Another call has the id of c: m_nextMsgId has come around.
Shared(c) == \E d \in Call \ {c} : call[d].pc # "idle" /\ call[d].id = call[c].id

\* The answer that ends a call is the provider's answer to that very request, whatever was
\* retried, lost or late, and a call ends only once: ids keep apart the calls, and entry and
\* callback go together (inbox.h).  The exception is an id that is given out again.
AnswersAreOwn ==
    \A c \in Call : ~Shared(c) =>
        /\ call[c].settled <= 1
        /\ \A p \in call[c].promise : p.from \in {c, "none"}

\* The calls whose answers carry the id of c: c, and others when m_nextMsgId has come around.
Namesakes(c) == {d \in Call : d = c \/ (call[d].pc # "idle" /\ call[d].id = call[c].id)}

\* A file operation succeeds only when the provider has accepted its request: no timeout,
\* interrupt, failed write, unreadable or late answer makes a success of a failure (inbox.h,
\* translator.h).  Only when its id was given out again may the accepted request be that of
\* another call with this id.  "No such file" comes from the provider in the same way, or from
\* the end of the stream, as fsOperations.cc drops the category of the error.
SuccessIsProviders ==
    \A c \in Call : call[c].future /\ call[c].pc = "returned" =>
        /\ call[c].errno = 0 =>
             \E p \in call[c].promise : /\ p.from \in Namesakes(c)
                                       /\ p.result = AnswerTo(Requests[c], Values[p.from])
        /\ call[c].errno = Errc.ENOENT =>
             \E p \in call[c].promise : p.from \in Namesakes(c) \/ p.result.error = EndOfFile

\* As long as connections become ready again and again, every call returns: with an answer, an
\* error or its timeout, although answers get lost (inbox.h, wait() of translator.h).  send()
\* itself has no timeout, so nothing is said of a call while no connection is ready.
CallsReturn ==
    []<>idle => \A c \in Call : call[c].pc = "numbered" ~> call[c].pc = "returned"
================================================================================
