----------------------------- MODULE Connections ------------------------------
(***************************************************************************)
(* The connections to the provider at two levels: the pool, to which a     *)
(* handler of a connection is one step, or one connection of it with the   *)
(* operations on its sockets.  "level" says which of them is looked at.    *)
(***************************************************************************)
EXTENDS ConnectionPool

CONSTANTS Outgoing, Handshake, Garbled, SizeOf, MaxSockets

VARIABLES level, conn, sockets, ops, queued, sending, delivered, overlapped

Detail == INSTANCE PersistentConnection WITH posted <- queued

detailVars == <<conn, sockets, ops, queued, sending, delivered, overlapped>>

ConnectionsInit == level \in {"pool", "connection"} /\ Init /\ Detail!Init

ConnectionsNext ==
    \/ level = "pool" /\ Next /\ UNCHANGED <<detailVars, level>>
    \/ level = "connection" /\ Detail!Next /\ UNCHANGED <<vars, level>>

\* The fairness of ConnectionPool; operations on sockets complete, or fail with them.
ConnectionsSpec ==
    /\ ConnectionsInit
    /\ [][ConnectionsNext]_<<vars, detailVars, level>>
    /\ Fairness
    /\ WF_detailVars(level = "connection" /\ Detail!Completes /\ UNCHANGED <<vars, level>>)
    /\ WF_detailVars(level = "connection" /\ Detail!Connect /\ UNCHANGED <<vars, level>>)
    /\ WF_detailVars(level = "connection" /\ Detail!RunSend /\ UNCHANGED <<vars, level>>)

\* Callbacks that come after their socket was given up do nothing: the messages of a
\* socket are delivered and written as whole frames, and a connection is closed only
\* for an error of its own socket (see PersistentConnection).
SocketsAreOwn == []Detail!FramesAreMessages /\ Detail!ClosedForOwnError

\* After an error the work goes on: a closed connection comes back and a send that was
\* posted to a connection is answered (see ConnectionPool and PersistentConnection).
Recovers == Reconnects /\ Detail!SendsAreAnswered
==============================================================================
