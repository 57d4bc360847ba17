---------------------------- MODULE ConnectionPool ----------------------------
(***************************************************************************)
(* The lower part of the communication stack: ConnectionPool with its      *)
(* PersistentConnections, and the Retrier layer on top of them             *)
(* (src/helpers/src/communication/connectionPool.cc,                       *)
(* persistentConnection.cc, layers/retrier.h).                             *)
(*                                                                         *)
(* Every connection has one thread of its own, on which all its handlers   *)
(* run.  Senders wait in m_idleConnections.pop(); when a send fails, the   *)
(* Retrier's callback sends again from the thread of the failed connection *)
(* and so waits in pop() there.  A message is one call of Retrier::send().  *)
(*                                                                         *)
(* Outside src/: the sockets, which may connect, answer the handshake,     *)
(* complete writes in order, and fail at any moment.                       *)
(***************************************************************************)
EXTENDS Integers, Sequences

CONSTANTS
    Conn,         \* the connections of the pool
    Msg,          \* the messages the application sends
    NoConn,       \* no connection: an application thread
    NoMsg,        \* an empty m_callback
    HandshakeDone,\* the onHandshakeDone callback
    Retries,      \* retries given to Retrier::send()
    MaxFailures   \* bound of the model: I/O errors

ASSUME RetriesAssumption == Retries \in Nat /\ MaxFailures \in Nat
ASSUME NoneAssumption == /\ NoConn \notin Conn
                         /\ NoMsg \notin Msg /\ HandshakeDone \notin Msg
                         /\ NoMsg # HandshakeDone

VARIABLES
    pool,       \* "created", "connected" (m_connected), "stopping", "stopped"
                \*   or "crashed" (a destroyed connection was used)
    m_idleConnections, \* the queue of ready connections
    state,      \* per connection: "down" (closed, to be recreated), "connecting",
                \*   "handshake", "connected" (m_connected) or "destroyed"
    m_callback, \* per connection: a message's callback, HandshakeDone or NoMsg
    posted,     \* per connection: sends posted to its thread
    writes,     \* per connection: writes in progress on the present socket
    closing,    \* connections whose thread has yet to run close() in onError()
    stage,      \* per message: "new", "popping", "posted", "writing", "settled"
    caller,     \* per message: whose thread is in ConnectionPool::send()
    retries,    \* per message: retries left
    calls,      \* per message: calls of the sender's callback
    outcome,    \* per message: "none", or what the callback was told
    written,    \* history: messages written completely
    failures    \* I/O errors so far

connections == <<state, m_callback, posted, writes, closing>>
messages == <<stage, caller, retries, calls, outcome>>
vars == <<pool, m_idleConnections, connections, messages, written, failures>>

Init ==
    /\ pool = "created"
    /\ m_idleConnections = <<>>
    /\ state = [c \in Conn |-> "down"]
    /\ m_callback = [c \in Conn |-> HandshakeDone]
    /\ posted = [c \in Conn |-> <<>>]
    /\ writes = [c \in Conn |-> <<>>]
    /\ closing = {}
    /\ stage = [m \in Msg |-> "new"]
    /\ caller = [m \in Msg |-> NoConn]
    /\ retries = [m \in Msg |-> Retries]
    /\ calls = [m \in Msg |-> 0]
    /\ outcome = [m \in Msg |-> "none"]
    /\ written = {}
    /\ failures = 0

------------------------------------------------------------------------------
(* Threads.                                                                *)

\* The thread of c waits in pop(), called by a retry.
Blocked(c) == \E m \in Msg : stage[m] = "popping" /\ caller[m] = c

\* The thread of c may run its next handler.
Free(c) == state[c] # "destroyed" /\ ~Blocked(c)

\* The callback of m is called with success or with an error that is not retried.
Settle(m, result) ==
    /\ stage' = [stage EXCEPT ![m] = "settled"]
    /\ calls' = [calls EXCEPT ![m] = @ + 1]
    /\ outcome' = [outcome EXCEPT ![m] = result]
    /\ UNCHANGED <<caller, retries>>

\* The Retrier's callback gets an error on the thread of c.  ConnectionPool::send()
\* returns without calling anyone when the pool is being stopped.
SendFailed(m, c) ==
    IF retries[m] = 0 THEN Settle(m, "error")
    ELSE /\ retries' = [retries EXCEPT ![m] = @ - 1]
         /\ stage' = [stage EXCEPT ![m] = IF pool = "connected" THEN "popping" ELSE "settled"]
         /\ caller' = [caller EXCEPT ![m] = c]
         /\ UNCHANGED <<calls, outcome>>

------------------------------------------------------------------------------
(* ConnectionPool.                                                         *)

Connect ==
    /\ pool = "created"
    /\ pool' = "connected"
    /\ state' = [c \in Conn |-> "connecting"]
    /\ UNCHANGED <<m_idleConnections, m_callback, posted, writes, closing, messages,
                   written, failures>>

\* send() of an application thread, up to the wait in pop().
Send(m) ==
    /\ stage[m] = "new"
    /\ stage' = [stage EXCEPT ![m] = IF pool = "connected" THEN "popping" ELSE "settled"]
    /\ UNCHANGED <<pool, m_idleConnections, connections, caller, retries, calls, outcome,
                   written, failures>>

\* pop() returns and the send is posted to the thread of that connection; a thread
\* that was in onError() goes on with close().
Pop(m) ==
    LET conn == Head(m_idleConnections)
        c == caller[m]
    IN  /\ stage[m] = "popping"
        /\ m_idleConnections # <<>>
        /\ state[conn] # "destroyed"
        /\ m_idleConnections' = Tail(m_idleConnections)
        /\ posted' = [posted EXCEPT ![conn] = Append(@, m)]
        /\ stage' = [stage EXCEPT ![m] = "posted"]
        /\ caller' = [caller EXCEPT ![m] = NoConn]
        /\ closing' = closing \ {c}
        /\ state' = [d \in Conn |-> IF d = c /\ d \in closing THEN "down" ELSE state[d]]
        /\ writes' = [d \in Conn |-> IF d = c /\ d \in closing THEN <<>> ELSE writes[d]]
        /\ UNCHANGED <<pool, m_callback, retries, calls, outcome, written,
                       failures>>

\* pop() returns a connection that stop() has destroyed.
PopDestroyed(m) ==
    /\ stage[m] = "popping"
    /\ m_idleConnections # <<>>
    /\ state[Head(m_idleConnections)] = "destroyed"
    /\ pool' = "crashed"
    /\ stage' = [stage EXCEPT ![m] = "settled"]
    /\ UNCHANGED <<m_idleConnections, connections, caller, retries, calls, outcome, written, failures>>

\* stop(), in three steps.  The destructor of a connection joins its thread.
StopBegin ==
    /\ pool = "connected"
    /\ pool' = "stopping"
    /\ UNCHANGED <<m_idleConnections, connections, messages, written, failures>>

Destroy(c) ==
    /\ pool = "stopping"
    /\ Free(c)
    /\ state' = [state EXCEPT ![c] = "destroyed"]
    /\ posted' = [posted EXCEPT ![c] = <<>>]
    /\ writes' = [writes EXCEPT ![c] = <<>>]
    /\ m_callback' = [m_callback EXCEPT ![c] = NoMsg]
    /\ UNCHANGED <<pool, m_idleConnections, closing, messages, written, failures>>

\* abort() releases the threads that are waiting in pop() by then.
StopEnd ==
    /\ pool = "stopping"
    /\ \A c \in Conn : state[c] = "destroyed"
    /\ pool' = "stopped"
    /\ \E released \in SUBSET {m \in Msg : stage[m] = "popping"} :
         stage' = [m \in Msg |-> IF m \in released THEN "settled" ELSE stage[m]]
    /\ UNCHANGED <<m_idleConnections, connections, caller, retries, calls, outcome, written, failures>>

------------------------------------------------------------------------------
(* PersistentConnection: handlers on the thread of c.                      *)

\* The function posted by send().
RunSend(c) ==
    LET m == Head(posted[c])
    IN  /\ Free(c)
        /\ posted[c] # <<>>
        /\ posted' = [posted EXCEPT ![c] = Tail(@)]
        /\ IF state[c] # "connected"
           THEN SendFailed(m, c) /\ UNCHANGED <<m_callback, writes>>
           ELSE /\ m_callback' = [m_callback EXCEPT ![c] = m]
                /\ writes' = [writes EXCEPT ![c] = Append(@, m)]
                /\ stage' = [stage EXCEPT ![m] = "writing"]
                /\ UNCHANGED <<caller, retries, calls, outcome>>
        /\ UNCHANGED <<pool, m_idleConnections, state, closing, written, failures>>

\* Variant of NotifySuccess: the callback is copied, not moved out of m_callback.
NotifySuccessCopies(c) ==
    /\ UNCHANGED m_callback
    /\ IF m_callback[c] \in Msg THEN Settle(m_callback[c], "ok") ELSE UNCHANGED messages

\* notify() with success: the stored callback is called once.
NotifySuccess(c) ==
    /\ m_callback' = [m_callback EXCEPT ![c] = NoMsg]
    /\ IF m_callback[c] \in Msg THEN Settle(m_callback[c], "ok") ELSE UNCHANGED messages

\* Variant of OnSent: onReady is not called.
OnSentNotReady(c) ==
    /\ Free(c)
    /\ state[c] = "connected"
    /\ writes[c] # <<>>
    /\ writes' = [writes EXCEPT ![c] = Tail(@)]
    /\ written' = written \cup {Head(writes[c])}
    /\ NotifySuccess(c)
    /\ UNCHANGED <<pool, m_idleConnections, state, posted, closing, failures>>

\* onSent(): a write on the present socket completes.  What it sent is undefined when
\* another send has replaced m_outData meanwhile.
OnSent(c) ==
    /\ Free(c)
    /\ state[c] = "connected"
    /\ writes[c] # <<>>
    /\ writes' = [writes EXCEPT ![c] = Tail(@)]
    /\ \E sent \in SUBSET {Head(writes[c])} :
          /\ Len(writes[c]) = 1 => sent # {}
          /\ written' = written \cup sent
    /\ NotifySuccess(c)
    /\ m_idleConnections' = Append(m_idleConnections, c)
    /\ UNCHANGED <<pool, state, posted, closing, failures>>

\* onConnect(): the handshake is sent and its answer awaited.
OnConnect(c) ==
    /\ Free(c)
    /\ state[c] = "connecting"
    /\ state' = [state EXCEPT ![c] = "handshake"]
    /\ UNCHANGED <<pool, m_idleConnections, m_callback, posted, writes, closing, messages,
                   written, failures>>

\* start(), after a good handshake response.
Start(c) ==
    /\ Free(c)
    /\ state[c] = "handshake"
    /\ NotifySuccess(c)
    /\ state' = [state EXCEPT ![c] = "connected"]
    /\ m_idleConnections' = Append(m_idleConnections, c)
    /\ UNCHANGED <<pool, posted, writes, closing, written, failures>>

\* onError(): the timer is armed, the stored callback is called with the error, and
\* then, unless that callback waits in pop() now, the socket is closed.
OnError(c) ==
    LET m == m_callback[c]
        waits == m \in Msg /\ retries[m] > 0 /\ pool = "connected"
    IN  /\ Free(c)
        /\ failures < MaxFailures
        /\ state[c] \in {"connecting", "handshake", "connected"}
        /\ failures' = failures + 1
        /\ m_callback' = [m_callback EXCEPT ![c] = NoMsg]
        /\ IF m \in Msg THEN SendFailed(m, c) ELSE UNCHANGED messages
        /\ IF waits
           THEN closing' = closing \cup {c} /\ UNCHANGED <<state, writes>>
           ELSE /\ state' = [state EXCEPT ![c] = "down"]
                /\ writes' = [writes EXCEPT ![c] = <<>>]
                /\ UNCHANGED closing
        /\ UNCHANGED <<pool, m_idleConnections, posted, written>>

\* Variant of Recreate: a connection comes back only when something is to be sent.
RecreateOnDemand(c) ==
    /\ Free(c)
    /\ pool # "created"
    /\ state[c] = "down"
    /\ posted[c] # <<>>
    /\ state' = [state EXCEPT ![c] = "connecting"]
    /\ UNCHANGED <<pool, m_idleConnections, m_callback, posted, writes, closing, messages,
                   written, failures>>

\* The timer of onError() fires and connect() is called again.
Recreate(c) ==
    /\ Free(c)
    /\ pool # "created"
    /\ state[c] = "down"
    /\ state' = [state EXCEPT ![c] = "connecting"]
    /\ UNCHANGED <<pool, m_idleConnections, m_callback, posted, writes, closing, messages,
                   written, failures>>

Next ==
    \/ Connect \/ StopBegin \/ StopEnd
    \/ \E m \in Msg : Send(m) \/ Pop(m) \/ PopDestroyed(m)
    \/ \E c \in Conn : Destroy(c) \/ RunSend(c) \/ OnSent(c) \/ OnConnect(c) \/ Start(c)
                       \/ OnError(c) \/ Recreate(c)

Spec == Init /\ [][Next]_vars

\* The connections' threads run their handlers, the sockets answer, the timers fire,
\* and stop(), once called, goes on.
Fairness ==
    /\ \A m \in Msg : WF_vars(Pop(m)) /\ WF_vars(PopDestroyed(m))
    /\ \A c \in Conn : /\ WF_vars(RunSend(c)) /\ WF_vars(OnSent(c)) /\ WF_vars(OnConnect(c))
                       /\ WF_vars(Start(c)) /\ WF_vars(Recreate(c)) /\ WF_vars(Destroy(c))
    /\ WF_vars(StopEnd)

FairSpec == Spec /\ Fairness
------------------------------------------------------------------------------
(* Properties.                                                             *)

\* No connection is lost to the pool: a connected one that is neither writing nor
\* about to handle a posted send, and whose thread is free, is in the idle queue.
ReadyConnectionIsIdle ==
    \A c \in Conn :
        state[c] = "connected" /\ Free(c) /\ writes[c] = <<>> /\ posted[c] = <<>>
        => \E i \in 1..Len(m_idleConnections) : m_idleConnections[i] = c

\* However often a send is retried and the connections fail, the sender's callback
\* is called at most once (notify() takes it away before calling it), nothing the
\* sender was told is taken back, and a message is given up with an error only when
\* all its retries have failed.
CallbacksAreFinal ==
    [][\A m \in Msg : /\ calls'[m] <= 1
                      /\ outcome[m] # "none" => outcome'[m] = outcome[m]
                      /\ outcome[m] # "error" /\ outcome'[m] = "error" => retries[m] = 0]_vars

\* A closed connection comes back, unless its thread is caught in a retry: the timer
\* armed in onError() leads to connect().
Reconnects ==
    \A c \in Conn : pool = "connected" /\ state[c] = "down"
                    ~> state[c] # "down" \/ Blocked(c)

\* "Callback called when the message is successfuly sent or failed with error":
\* a sender is told of success only after its message was written.
OkMeansSent == \A m \in Msg : outcome[m] = "ok" => m \in written

\* "This method exists to break the wait of any threads waiting in send": stop()
\* comes to its end.
StopReturns == pool = "stopping" ~> pool # "stopping"

\* "There might be a case that the connection has failed between inserting it into
\* ready queue and popping it here; that's ok": a popped connection still exists.
PoppedConnectionExists == pool # "crashed"
==============================================================================
