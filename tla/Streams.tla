------------------------------- MODULE Streams --------------------------------
(***************************************************************************)
(* Message streams in both directions: from the provider, through the      *)
(* Sequencer, and to the provider, through a TypedStream.  They share      *)
(* nothing but the connections, which lose and reorder for both, so what   *)
(* one does leaves the other alone.                                        *)
(***************************************************************************)
EXTENDS Sequencer

CONSTANTS Thread, None, MaxAnswers

ASSUME OutAssumption == None \notin Int /\ MaxAnswers \in Nat

VARIABLES
    m_sequenceId, stage, assigned, life, phase, task, it, processed, due, passed, received,
    queue,        \* TypedStream's m_buffer
    outbound,     \* TypedStream's toProvider
    answers       \* TypedStream's toClient

Out == INSTANCE TypedStream
                WITH m_buffer <- queue, toProvider <- outbound, toClient <- answers

outVars == <<m_sequenceId, stage, assigned, life, phase, task, it, processed, due, passed,
             received, queue, outbound, answers>>

\* Streams to the provider, while it sends none.
OutSpec ==
    /\ Init /\ Out!Init
    /\ [][Out!Next /\ UNCHANGED vars]_<<vars, outVars>>
    /\ Out!Fairness

\* Outgoing messages can be sent again as long as the provider lacks them (see TypedStream).
OnlyReceivedAreForgotten == Out!OnlyReceivedAreForgotten

\* The loops of handleMessageRequest() and handleMessageAcknowledgement() end (see TypedStream).
HandlersReturn == Out!HandlersReturn
===============================================================================
