--------------------------- MODULE MCConnectionPool ---------------------------
(* Model-checking instance of Connections.                                     *)
EXTENDS Connections

\* The provider answers the handshake and then sends two messages.
MCSizeOf == <<1, 2, 1>>
==============================================================================
