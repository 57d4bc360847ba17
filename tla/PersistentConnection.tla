------------------------- MODULE PersistentConnection -------------------------
(***************************************************************************)
(* One connection to the provider in detail: PersistentConnection over     *)
(* TLSSockets (src/helpers/src/communication/persistentConnection.cc,      *)
(* src/helpers/etls/c_src/src/tlsSocket.cpp).  ConnectionPool takes its    *)
(* handlers as atomic; here every asynchronous operation on a socket is    *)
(* one of "ops", completed or aborted some time later, also when the       *)
(* connection has moved on to another socket.  All handlers run on the     *)
(* one thread of m_app, so each is one step.                               *)
(*                                                                         *)
(* The bytes of a frame are its header, the length, and as many units of   *)
(* the message.  A message is a number.  Outside src/: the network and the *)
(* provider, which answers the handshake and then sends messages.          *)
(***************************************************************************)
EXTENDS Integers, Sequences, FiniteSets

CONSTANTS
    Outgoing,    \* the messages to send
    Handshake,   \* the handshake message
    Garbled,     \* a frame with bytes of two messages
    SizeOf,      \* length of the messages of the provider, the handshake's answer first
    MaxSockets   \* bound of the model: sockets created (one more than errors)

VARIABLES
    conn,      \* the members of the connection (see Init)
    sockets,   \* per socket: open, units to be read, frames the provider got and sent
    ops,       \* asynchronous operations begun and not yet completed
    posted,    \* sends posted to the thread
    sending,   \* per message: "new", "posted", "writing", "told" (its callback was called)
    delivered, \* history: per socket, what m_onMessage was called with
    overlapped \* history: sockets on which a send began before the last one was written

vars == <<conn, sockets, ops, posted, sending, delivered, overlapped>>

Sockets == 1..MaxSockets

\* m_socket is 0 when empty; ready counts the entries of the connection in the pool's
\* queue, to which m_onReady adds one.
Init ==
    /\ conn = [m_socket |-> 0, m_connectionId |-> 0, m_connected |-> FALSE,
               m_callback |-> {Handshake}, m_inHeader |-> 0, m_inData |-> <<>>, m_outData |-> {},
               timer |-> TRUE, ready |-> 0, created |-> 0]
    /\ sockets = [s \in Sockets |-> [open |-> TRUE, in |-> <<>>, got |-> <<>>, sent |-> 0]]
    /\ ops = {}
    /\ posted = <<>>
    /\ sending = [m \in Outgoing |-> "new"]
    /\ delivered = [s \in Sockets |-> <<>>]
    /\ overlapped = {}

\* An operation with the callback made by createCallback(), which keeps the id.
Op(op, s, next, arg) ==
    [op |-> op, sock |-> s, id |-> conn.m_connectionId, next |-> next, arg |-> arg]

\* Variant of Own: callbacks do not check the id.
OwnAlways(o) == conn.m_socket # 0

\* The check of createCallback()'s callbacks.
Own(o) == o.id = conn.m_connectionId

Replace(o, new) == ops' = (ops \ {o}) \cup new

------------------------------------------------------------------------------
(* Effects on the members of the connection.                               *)

\* notify(): the stored callback is taken and called.
Told == [m \in Outgoing |-> IF m \in conn.m_callback THEN "told" ELSE sending[m]]

\* asyncRead(): the header first; "next" is what follows the body.
AsyncRead(s, next) == Op("header", s, next, 1)

ReadLoop == AsyncRead(conn.m_socket, "message")

\* prepareOutBuffer(): the only buffer there is, of this and of unfinished writes.
PrepareOutBuffer(c, message) == [c EXCEPT !.m_outData = {message}]

\* close(); the closing of the socket is posted.
Close(c) == [c EXCEPT !.m_connectionId = @ + 1, !.m_connected = FALSE, !.m_socket = 0]

\* onError(): timer, notify(), close().
OnError(o) ==
    /\ conn' = Close([conn EXCEPT !.timer = TRUE, !.m_callback = {}])
    /\ sending' = Told
    /\ Replace(o, {Op("close", conn.m_socket, "none", 0)})

\* start(): notify(), connected, reading, ready.
Start(o) ==
    /\ conn' = [conn EXCEPT !.m_callback = {}, !.m_connected = TRUE, !.ready = @ + 1]
    /\ sending' = Told
    /\ Replace(o, {ReadLoop})

OnHandshakeSent(o) ==
    /\ Replace(o, {AsyncRead(conn.m_socket, "handshake")})
    /\ UNCHANGED <<conn, sending>>

\* The provider accepts the handshake or refuses it.
OnHandshakeReceived(o) == Start(o) \/ (conn.created < MaxSockets /\ OnError(o))

OnSent(o) ==
    /\ conn' = [conn EXCEPT !.m_callback = {}, !.ready = @ + 1]
    /\ sending' = Told
    /\ Replace(o, {})

------------------------------------------------------------------------------
(* TLSSocket: operations complete.                                         *)

\* connect(), by the pool and by the timer of onError(); a posted close comes first.
Connect ==
    /\ conn.timer
    /\ \A o \in ops : o.op # "close"
    /\ conn' = [conn EXCEPT !.timer = FALSE, !.created = @ + 1, !.m_socket = conn.created + 1]
    /\ ops' = ops \cup {Op("resolve", conn.created + 1, "none", 0)}
    /\ UNCHANGED <<sockets, posted, sending, delivered, overlapped>>

\* connectAsync(): resolving, connecting, the TLS handshake, onConnect().
ConnectAsync(o) ==
    /\ o.op \in {"resolve", "connect"}
    /\ Replace(o, {[o EXCEPT !.op = IF o.op = "resolve" THEN "connect" ELSE "tls"]})
    /\ UNCHANGED <<conn, sockets, posted, sending, delivered, overlapped>>

OnConnect(o) ==
    /\ o.op = "tls"
    /\ Own(o)
    /\ conn' = PrepareOutBuffer(conn, Handshake)
    /\ Replace(o, {Op("write", conn.m_socket, "onHandshakeSent", Handshake)})
    /\ UNCHANGED <<sockets, posted, sending, delivered, overlapped>>

\* sendAsync() completes: the provider has what m_outData held while it was written.
Written(o) ==
    /\ o.op = "write"
    /\ sockets[o.sock].open
    /\ sockets' = [sockets EXCEPT ![o.sock].got =
                      Append(@, IF conn.m_outData = {o.arg} /\ o.sock \notin overlapped
                                THEN o.arg ELSE Garbled)]
    /\ CASE ~Own(o) -> Replace(o, {}) /\ UNCHANGED <<conn, sending>>
         [] Own(o) /\ o.next = "onHandshakeSent" -> OnHandshakeSent(o)
         [] Own(o) /\ o.next = "onSent" -> OnSent(o)
    /\ UNCHANGED <<posted, delivered, overlapped>>

\* recvAsync() of the header completes: the body is read into m_inData.
HeaderRead(o) ==
    /\ o.op = "header"
    /\ sockets[o.sock].open
    /\ sockets[o.sock].in # <<>>
    /\ sockets' = [sockets EXCEPT ![o.sock].in = Tail(@)]
    /\ conn' = [conn EXCEPT !.m_inHeader = Head(sockets[o.sock].in)]
    /\ Replace(o, IF Own(o) THEN {Op("body", conn.m_socket, o.next, conn'.m_inHeader)} ELSE {})
    /\ UNCHANGED <<posted, sending, delivered, overlapped>>

\* recvAsync() of the body completes: onHandshakeReceived(), or the message is given
\* to m_onMessage and readLoop() goes on.
BodyRead(o) ==
    LET in == sockets[o.sock].in
        data == SubSeq(in, 1, o.arg)
    IN  /\ o.op = "body"
        /\ sockets[o.sock].open
        /\ Len(in) >= o.arg
        /\ sockets' = [sockets EXCEPT ![o.sock].in = SubSeq(in, o.arg + 1, Len(in))]
        /\ CASE ~Own(o) ->
                  /\ conn' = [conn EXCEPT !.m_inData = data]
                  /\ Replace(o, {})
                  /\ UNCHANGED <<sending, delivered>>
             [] Own(o) /\ o.next = "handshake" -> OnHandshakeReceived(o) /\ UNCHANGED delivered
             [] Own(o) /\ o.next = "message" ->
                  /\ delivered' = [delivered EXCEPT ![conn.m_socket] = Append(@, data)]
                  /\ Replace(o, {ReadLoop})
                  /\ UNCHANGED <<conn, sending>>
        /\ UNCHANGED <<posted, overlapped>>

\* An operation fails, or is aborted because its socket was closed.
Fails(o) ==
    /\ o.op # "close"
    /\ sockets[o.sock].open => conn.created < MaxSockets
    /\ IF Own(o) THEN OnError(o) ELSE Replace(o, {}) /\ UNCHANGED <<conn, sending>>
    /\ UNCHANGED <<sockets, posted, delivered, overlapped>>

\* closeAsync(), as posted by close().
CloseAsync(o) ==
    /\ o.op = "close"
    /\ sockets' = [sockets EXCEPT ![o.sock].open = FALSE]
    /\ Replace(o, {})
    /\ UNCHANGED <<conn, posted, sending, delivered, overlapped>>

------------------------------------------------------------------------------
(* Sends.                                                                  *)

\* The pool hands over a message for an entry of its queue.
Send(m) ==
    /\ sending[m] = "new"
    /\ conn.ready > 0
    /\ conn' = [conn EXCEPT !.ready = @ - 1]
    /\ posted' = Append(posted, m)
    /\ sending' = [sending EXCEPT ![m] = "posted"]
    /\ UNCHANGED <<sockets, ops, delivered, overlapped>>

\* The function posted by send().
RunSend ==
    LET m == Head(posted)
        s == conn.m_socket
    IN  /\ posted # <<>>
        /\ posted' = Tail(posted)
        /\ IF ~conn.m_connected \/ s = 0
           THEN /\ sending' = [sending EXCEPT ![m] = "told"]
                /\ UNCHANGED <<conn, ops, overlapped>>
           ELSE /\ conn' = PrepareOutBuffer([conn EXCEPT !.m_callback = {m}], m)
                /\ sending' = [sending EXCEPT ![m] = "writing"]
                /\ ops' = ops \cup {Op("write", s, "onSent", m)}
                /\ overlapped' = IF \E o \in ops : o.op = "write" /\ o.sock = s
                                 THEN overlapped \cup {s} ELSE overlapped
        /\ UNCHANGED <<sockets, delivered>>

\* The provider sends its next message: first the answer to a handshake it got.
ProviderSends(s) ==
    LET k == sockets[s].sent + 1
    IN  /\ sockets[s].open
        /\ sockets[s].got # <<>>
        /\ k \in DOMAIN SizeOf
        /\ sockets' = [sockets EXCEPT ![s].sent = k,
                                      ![s].in = @ \o <<SizeOf[k]>> \o [i \in 1..SizeOf[k] |-> k]]
        /\ UNCHANGED <<conn, ops, posted, sending, delivered, overlapped>>

Completes ==
    \E o \in ops : ConnectAsync(o) \/ OnConnect(o) \/ Written(o) \/ HeaderRead(o) \/ BodyRead(o)
                   \/ CloseAsync(o) \/ (~sockets[o.sock].open /\ Fails(o))

Next ==
    \/ Connect \/ RunSend \/ Completes
    \/ \E o \in ops : Fails(o)
    \/ \E m \in Outgoing : Send(m)
    \/ \E s \in Sockets : ProviderSends(s)

------------------------------------------------------------------------------
(* Properties.                                                             *)

\* What m_onMessage is called with are the provider's messages, whole, in order and
\* none twice, and never what was read from another socket; what the provider gets on
\* a socket begins with the handshake, and its frames are whole unless the pool's queue
\* held the connection twice and two sends overlapped.
FramesAreMessages ==
    \A s \in Sockets :
        /\ \A i \in DOMAIN delivered[s] :
               delivered[s][i] = [j \in 1..SizeOf[i + 1] |-> i + 1]
        /\ sockets[s].got # <<>> => Head(sockets[s].got) = Handshake
        /\ s \notin overlapped =>
               \A i \in DOMAIN sockets[s].got : sockets[s].got[i] # Garbled

\* Late callbacks of an abandoned socket do nothing: a connection is given up only for
\* an error of the socket it has.
ClosedForOwnError ==
    [][conn.m_socket # 0 /\ conn'.m_socket = 0
       => \E o \in ops \ ops' : o.sock = conn.m_socket]_vars

\* A posted send is answered, with success or an error, unless the callback of an
\* overlapping send took the place of its own.
SendsAreAnswered ==
    \A m \in Outgoing : sending[m] = "posted" ~> sending[m] = "told" \/ overlapped # {}
==============================================================================
