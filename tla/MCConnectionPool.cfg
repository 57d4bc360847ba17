\* Two connections (the default of the client) and two messages; or one connection
\* with two sockets, one after the other.
CONSTANTS
    Conn = {c1, c2}
    Msg = {m1, m2}
    NoConn = NoConn
    NoMsg = NoMsg
    HandshakeDone = HandshakeDone
    Retries = 1
    MaxFailures = 3
    Outgoing = {11, 12}
    Handshake = 10
    Garbled = 0
    SizeOf <- MCSizeOf
    MaxSockets = 2
SPECIFICATION ConnectionsSpec
INVARIANTS
    ReadyConnectionIsIdle
PROPERTIES
    CallbacksAreFinal
    Recovers
    SocketsAreOwn
\* The pool may be stopped.
CHECK_DEADLOCK FALSE
