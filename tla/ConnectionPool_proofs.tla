------------------------ MODULE ConnectionPool_proofs ------------------------
(***************************************************************************)
(* Theorems about the pool, its connections and the Retrier, for any       *)
(* connections, messages, retries and failures: a sender's callback is     *)
(* called at most once and what it was told is final, and no connection is *)
(* lost to the pool.                                                       *)
(***************************************************************************)
EXTENDS ConnectionPool, TLAPS

------------------------------------------------------------------------------
(* The inductive invariant.                                                *)

\* A message that is posted to a connection is posted there once and nowhere else.
Posted == \A c \in Conn : \A i \in 1..Len(posted[c]) : stage[posted[c][i]] = "posted"
PostedOnce ==
    \A c, d \in Conn : \A i \in 1..Len(posted[c]), j \in 1..Len(posted[d]) :
        posted[c][i] = posted[d][j] => c = d /\ i = j

\* A stored callback is that of a message being written, and is stored once.
Stored == \A c \in Conn : m_callback[c] \in Msg => stage[m_callback[c]] = "writing"
StoredOnce ==
    \A c, d \in Conn : m_callback[c] \in Msg /\ m_callback[c] = m_callback[d] => c = d

\* Nobody was called for a message under way, and for the other ones at most once.
Unsettled ==
    \A m \in Msg : /\ calls[m] <= 1
                   /\ stage[m] # "settled" => calls[m] = 0 /\ outcome[m] = "none"

\* A connected connection with nothing to do is queued, whether or not its thread is free.
Idle(c) == \E i \in 1..Len(m_idleConnections) : m_idleConnections[i] = c
Queued ==
    \A c \in Conn : state[c] = "connected" /\ writes[c] = <<>> /\ posted[c] = <<>> => Idle(c)

ConnTypes ==
    /\ m_idleConnections \in Seq(Conn)
    /\ state \in [Conn -> {"down", "connecting", "handshake", "connected", "destroyed"}]
    /\ m_callback \in [Conn -> Msg \cup {NoMsg, HandshakeDone}]
    /\ posted \in [Conn -> Seq(Msg)]
    /\ writes \in [Conn -> Seq(Msg)]

MsgTypes ==
    /\ stage \in [Msg -> {"new", "popping", "posted", "writing", "settled"}]
    /\ caller \in [Msg -> Conn \cup {NoConn}]
    /\ retries \in [Msg -> 0..Retries]
    /\ calls \in [Msg -> Nat]
    /\ outcome \in [Msg -> {"none", "ok", "error"}]

IInv == /\ ConnTypes /\ MsgTypes /\ Posted /\ PostedOnce /\ Stored /\ StoredOnce
        /\ Unsettled /\ Queued

\* What a step may do to what the senders are told: the action of CallbacksAreFinal.
Final ==
    \A m \in Msg : /\ calls'[m] <= 1
                   /\ outcome[m] # "none" => outcome'[m] = outcome[m]
                   /\ outcome[m] # "error" /\ outcome'[m] = "error" => retries[m] = 0

\* What a step that changes the state of message m only has to keep.
Moves(m) == /\ MsgTypes' /\ Unsettled' /\ Final
            /\ \A n \in Msg \ {m} : stage'[n] = stage[n]

LEMMA InitIInv == Init => IInv
<1> SUFFICES ASSUME Init PROVE IInv
    BY Zenon
<1>1. ConnTypes /\ MsgTypes
  BY RetriesAssumption DEF Init, ConnTypes, MsgTypes
<1>2. Posted /\ PostedOnce
  BY DEF Init, Posted, PostedOnce
<1>3. Stored /\ StoredOnce
  BY NoneAssumption, Zenon DEF Init, Stored, StoredOnce
<1>4. Unsettled /\ Queued
  BY DEF Init, Unsettled, Queued
<1> QED
  BY <1>1, <1>2, <1>3, <1>4, Zenon DEF IInv

------------------------------------------------------------------------------
(* Messages.                                                               *)

\* A callback is called: for a message under way that is the first time.
LEMMA SettleMoves ==
    ASSUME MsgTypes, Unsettled, NEW m \in Msg, NEW result \in {"ok", "error"},
           stage[m] # "settled", result = "error" => retries[m] = 0, Settle(m, result)
    PROVE  Moves(m) /\ stage'[m] = "settled"
<1>1. /\ stage' = [stage EXCEPT ![m] = "settled"]
      /\ calls' = [calls EXCEPT ![m] = @ + 1]
      /\ outcome' = [outcome EXCEPT ![m] = result]
      /\ UNCHANGED <<caller, retries>>
  BY Zenon DEF Settle
<1>2. calls[m] = 0 /\ outcome[m] = "none"
  BY Zenon DEF Unsettled
<1>3. MsgTypes'
  BY <1>1 DEF MsgTypes
<1>4. \A n \in Msg \ {m} : stage'[n] = stage[n] /\ calls'[n] = calls[n] /\ outcome'[n] = outcome[n]
  BY <1>1, Zenon DEF MsgTypes
<1>5. calls'[m] = 1 /\ stage'[m] = "settled" /\ outcome'[m] = result
  BY <1>1, <1>2 DEF MsgTypes
<1>6. Unsettled' /\ Final
  BY <1>2, <1>4, <1>5 DEF Unsettled, Final
<1> QED
  BY <1>3, <1>4, <1>5, <1>6, Zenon DEF Moves

\* A failed send is retried, or its callback is called when there are no retries left.
LEMMA SendFailedMoves ==
    ASSUME MsgTypes, Unsettled, NEW m \in Msg, NEW c \in Conn,
           stage[m] # "settled", SendFailed(m, c)
    PROVE  Moves(m) /\ stage'[m] \in {"popping", "settled"}
<1>1. CASE retries[m] = 0
  BY <1>1, SettleMoves, Zenon DEF SendFailed
<1>2. CASE retries[m] # 0
  <2>1. /\ retries' = [retries EXCEPT ![m] = @ - 1]
        /\ \E to \in {"popping", "settled"} : stage' = [stage EXCEPT ![m] = to]
        /\ caller' = [caller EXCEPT ![m] = c]
        /\ UNCHANGED <<calls, outcome>>
    BY <1>2, Zenon DEF SendFailed
  <2>2. retries[m] - 1 \in 0..Retries
    BY <1>2, RetriesAssumption DEF MsgTypes
  <2>3. MsgTypes'
    BY <2>1, <2>2 DEF MsgTypes
  <2>4. /\ \A n \in Msg \ {m} : stage'[n] = stage[n]
        /\ stage'[m] \in {"popping", "settled"}
    BY <2>1, Zenon DEF MsgTypes
  <2>5. Unsettled' /\ Final
    BY <2>1, <2>4, Zenon DEF Unsettled, Final
  <2> QED
    BY <2>3, <2>4, <2>5, Zenon DEF Moves
<1> QED
  BY <1>1, <1>2, Zenon

\* A step of the state of a message calls nobody.
LEMMA StageMoves ==
    ASSUME MsgTypes, Unsettled, NEW m \in Msg, stage[m] # "settled",
           NEW to \in {"new", "popping", "posted", "writing", "settled"},
           stage' = [stage EXCEPT ![m] = to],
           caller' \in [Msg -> Conn \cup {NoConn}], UNCHANGED <<retries, calls, outcome>>
    PROVE  Moves(m) /\ stage'[m] = to
<1>1. MsgTypes'
  BY Zenon DEF MsgTypes
<1>2. /\ \A n \in Msg \ {m} : stage'[n] = stage[n]
      /\ stage'[m] = to
  BY Zenon DEF MsgTypes
<1>3. Unsettled' /\ Final
  BY <1>2, Zenon DEF Unsettled, Final
<1> QED
  BY <1>1, <1>2, <1>3, Zenon DEF Moves

\* Nor does a step that leaves the messages alone.
LEMMA NothingMoves ==
    ASSUME MsgTypes, Unsettled, UNCHANGED messages
    PROVE  MsgTypes' /\ Unsettled' /\ Final /\ UNCHANGED stage
<1>1. UNCHANGED <<stage, caller, retries, calls, outcome>>
  BY Zenon DEF messages
<1> QED
  BY <1>1, Zenon DEF MsgTypes, Unsettled, Final

------------------------------------------------------------------------------
(* Posted sends and stored callbacks.                                      *)

\* They are not disturbed by a message that is neither posted nor has its callback stored.
LEMMA ElsewhereKeeps ==
    ASSUME IInv, UNCHANGED <<m_callback, posted>>, NEW m \in Msg,
           stage[m] \notin {"posted", "writing"},
           \A n \in Msg \ {m} : stage'[n] = stage[n]
    PROVE  Posted' /\ PostedOnce' /\ Stored' /\ StoredOnce'
<1>1. \A c \in Conn : \A i \in 1..Len(posted[c]) : posted[c][i] \in Msg
  BY DEF IInv, ConnTypes
<1>2. Posted'
  BY <1>1 DEF IInv, Posted
<1>3. Stored'
  BY Zenon DEF IInv, Stored
<1>4. PostedOnce' /\ StoredOnce'
  BY DEF IInv, PostedOnce, StoredOnce
<1> QED
  BY <1>2, <1>3, <1>4, Zenon

------------------------------------------------------------------------------
(* Every action preserves the invariant and is final.                      *)

\* connect() and the first step of stop().
LEMMA ConnectStep ==
    ASSUME IInv, Connect \/ StopBegin
    PROVE  IInv' /\ Final
<1>1. UNCHANGED <<m_idleConnections, m_callback, posted, writes, messages>>
  BY Zenon DEF Connect, StopBegin, connections
<1>2. state' = [c \in Conn |-> "connecting"] \/ UNCHANGED state
  BY Zenon DEF Connect, StopBegin, connections
<1>3. MsgTypes' /\ Unsettled' /\ Final /\ UNCHANGED stage
  BY <1>1, NothingMoves, Zenon DEF IInv
<1>4. ConnTypes'
  BY <1>1, <1>2, Zenon DEF IInv, ConnTypes
<1>5. Posted' /\ PostedOnce' /\ Stored' /\ StoredOnce'
  BY <1>1, <1>3 DEF IInv, Posted, PostedOnce, Stored, StoredOnce
<1>6. Queued'
  BY <1>1, <1>2, Zenon DEF IInv, Queued, Idle
<1> QED
  BY <1>3, <1>4, <1>5, <1>6, Zenon DEF IInv

\* send() of an application thread, and pop() of a destroyed connection.
LEMMA SendStep ==
    ASSUME IInv, NEW m \in Msg, Send(m) \/ PopDestroyed(m)
    PROVE  IInv' /\ Final
<1>1. /\ UNCHANGED <<m_idleConnections, state, m_callback, posted, writes, caller, retries,
                     calls, outcome>>
      /\ \E to \in {"popping", "settled"} : stage' = [stage EXCEPT ![m] = to]
      /\ stage[m] \in {"new", "popping"}
  BY Zenon DEF Send, PopDestroyed, connections
<1>2. Moves(m)
  BY <1>1, StageMoves, Zenon DEF IInv, MsgTypes
<1>3. Posted' /\ PostedOnce' /\ Stored' /\ StoredOnce'
  BY <1>1, <1>2, ElsewhereKeeps, Zenon DEF Moves
<1>4. ConnTypes' /\ Queued'
  BY <1>1, Zenon DEF IInv, ConnTypes, Queued, Idle
<1> QED
  BY <1>2, <1>3, <1>4, Zenon DEF IInv, Moves

\* pop(): the message is posted to the connection that leaves the queue.
LEMMA PopStep ==
    ASSUME IInv, NEW m \in Msg, Pop(m)
    PROVE  IInv' /\ Final
<1> DEFINE conn == Head(m_idleConnections)
<1>1. /\ stage[m] = "popping"
      /\ m_idleConnections # <<>>
      /\ m_idleConnections' = Tail(m_idleConnections)
      /\ posted' = [posted EXCEPT ![conn] = Append(@, m)]
      /\ stage' = [stage EXCEPT ![m] = "posted"]
      /\ caller' = [caller EXCEPT ![m] = NoConn]
      /\ UNCHANGED <<m_callback, retries, calls, outcome>>
  BY Zenon DEF Pop
<1>2. /\ state' = [d \in Conn |-> IF d = caller[m] /\ d \in closing THEN "down" ELSE state[d]]
      /\ writes' = [d \in Conn |-> IF d = caller[m] /\ d \in closing THEN <<>> ELSE writes[d]]
  BY Zenon DEF Pop
<1>3. m_idleConnections \in Seq(Conn) /\ conn \in Conn /\ Tail(m_idleConnections) \in Seq(Conn)
  BY <1>1 DEF IInv, ConnTypes
<1> HIDE DEF conn
<1>4. Moves(m) /\ stage'[m] = "posted"
  <2>1. caller' \in [Msg -> Conn \cup {NoConn}]
    BY <1>1, Zenon DEF IInv, MsgTypes
  <2> QED
    BY <1>1, <2>1, StageMoves, Zenon DEF IInv
<1>5. /\ posted[conn] \in Seq(Msg)
      /\ posted'[conn] = Append(posted[conn], m)
      /\ \A d \in Conn \ {conn} : posted'[d] = posted[d]
  BY <1>1, <1>3, Zenon DEF IInv, ConnTypes
<1>6. /\ Len(posted'[conn]) = Len(posted[conn]) + 1
      /\ posted'[conn][Len(posted[conn]) + 1] = m
      /\ \A i \in 1..Len(posted[conn]) : posted'[conn][i] = posted[conn][i]
      /\ posted'[conn] # <<>>
  BY <1>5
<1>7. \A c \in Conn : \A i \in 1..Len(posted[c]) : posted[c][i] \in Msg /\ posted[c][i] # m
  BY <1>1 DEF IInv, ConnTypes, Posted
<1> DEFINE Old(c, i) == i \in 1..Len(posted[c]) /\ posted'[c][i] = posted[c][i]
           New(c, i) == c = conn /\ i = Len(posted[conn]) + 1 /\ posted'[c][i] = m
<1>8. \A c \in Conn : \A i \in 1..Len(posted'[c]) : Old(c, i) \/ New(c, i)
  <2> SUFFICES ASSUME NEW c \in Conn, NEW i \in 1..Len(posted'[c])
               PROVE  Old(c, i) \/ New(c, i)
    BY Zenon
  <2>1. CASE c # conn
    BY <2>1, <1>5, Zenon
  <2>2. CASE c = conn /\ i = Len(posted[conn]) + 1
    BY <2>2, <1>6, Zenon
  <2>3. CASE c = conn /\ i # Len(posted[conn]) + 1
    <3>1. i \in 1..Len(posted[conn])
      <4>1. Len(posted[conn]) \in Nat /\ i \in 1..(Len(posted[conn]) + 1)
        BY <1>5, <1>6, <2>3
      <4> QED
        BY <4>1, <2>3
    <3> QED
      BY <3>1, <2>3, <1>6, Zenon
  <2> QED
    BY <2>1, <2>2, <2>3, Zenon
<1>9. ConnTypes'
  <2>1. posted' \in [Conn -> Seq(Msg)]
    BY <1>1, <1>3 DEF IInv, ConnTypes
  <2>2. /\ state' \in [Conn -> {"down", "connecting", "handshake", "connected", "destroyed"}]
        /\ writes' \in [Conn -> Seq(Msg)]
    BY <1>2 DEF IInv, ConnTypes
  <2> QED
    BY <1>1, <1>3, <2>1, <2>2, Zenon DEF IInv, ConnTypes
<1>10. Posted'
  <2> SUFFICES ASSUME NEW c \in Conn, NEW i \in 1..Len(posted'[c])
               PROVE  stage'[posted'[c][i]] = "posted"
    BY Zenon DEF Posted
  <2>1. Old(c, i) \/ New(c, i)
    BY <1>8, Zenon
  <2>2. CASE New(c, i)
    BY <2>2, <1>4, Zenon
  <2>3. CASE Old(c, i)
    <3>1. posted[c][i] \in Msg \ {m} /\ stage[posted[c][i]] = "posted"
      BY <2>3, <1>7, Zenon DEF IInv, Posted
    <3> QED
      BY <3>1, <2>3, <1>4, Zenon DEF Moves
  <2> QED
    BY <2>1, <2>2, <2>3, Zenon
<1>11. PostedOnce'
  <2> SUFFICES ASSUME NEW c \in Conn, NEW d \in Conn,
                      NEW i \in 1..Len(posted'[c]), NEW j \in 1..Len(posted'[d]),
                      posted'[c][i] = posted'[d][j]
               PROVE  c = d /\ i = j
    BY Zenon DEF PostedOnce
  <2>1. Old(c, i) \/ New(c, i)
    BY <1>8, Zenon
  <2>2. Old(d, j) \/ New(d, j)
    BY <1>8, Zenon
  <2>3. CASE posted'[c][i] = m
    <3>1. ~Old(c, i) /\ ~Old(d, j)
      BY <2>3, <1>7, Zenon
    <3> QED
      BY <3>1, <2>1, <2>2, Zenon
  <2>4. CASE posted'[c][i] # m
    <3>1. Old(c, i) /\ Old(d, j)
      BY <2>4, <2>1, <2>2, Zenon
    <3>2. posted[c][i] = posted[d][j]
      BY <3>1, Zenon
    <3> QED
      BY <3>1, <3>2 DEF IInv, PostedOnce
  <2> QED
    BY <2>3, <2>4, Zenon
<1>12. Stored' /\ StoredOnce'
  BY <1>1, <1>4 DEF IInv, Stored, StoredOnce, Moves
<1>13. Queued'
  <2> SUFFICES ASSUME NEW c \in Conn, state'[c] = "connected", writes'[c] = <<>>,
                      posted'[c] = <<>>
               PROVE  Idle(c)'
    BY Zenon DEF Queued
  <2>1. c # conn /\ posted[c] = <<>>
    BY <1>5, <1>6, Zenon
  <2>2. state[c] = "connected" /\ writes[c] = <<>>
    BY <1>2, Zenon
  <2>3. PICK i \in 1..Len(m_idleConnections) : m_idleConnections[i] = c
    BY <2>1, <2>2, Zenon DEF IInv, Queued, Idle
  <2>4. i # 1
    BY <2>1, <2>3, <1>1, <1>3 DEF conn
  <2>5. i - 1 \in 1..Len(m_idleConnections') /\ m_idleConnections'[i - 1] = c
    BY <2>3, <2>4, <1>1, <1>3
  <2> QED
    BY <2>5, Zenon DEF Idle
<1> QED
  BY <1>4, <1>9, <1>10, <1>11, <1>12, <1>13, Zenon DEF IInv, Moves

\* ~PersistentConnection() and the end of stop().
LEMMA StopStep ==
    ASSUME IInv, (\E c \in Conn : Destroy(c)) \/ StopEnd
    PROVE  IInv' /\ Final
<1>1. ASSUME NEW c \in Conn, Destroy(c)
      PROVE  IInv' /\ Final
  <2>1. /\ state' = [state EXCEPT ![c] = "destroyed"]
        /\ posted' = [posted EXCEPT ![c] = <<>>]
        /\ writes' = [writes EXCEPT ![c] = <<>>]
        /\ m_callback' = [m_callback EXCEPT ![c] = NoMsg]
        /\ UNCHANGED <<m_idleConnections, messages>>
    BY <1>1, Zenon DEF Destroy
  <2>2. MsgTypes' /\ Unsettled' /\ Final /\ UNCHANGED stage
    BY <2>1, NothingMoves, Zenon DEF IInv
  <2>3. ConnTypes'
    BY <2>1 DEF IInv, ConnTypes
  <2>4. /\ posted'[c] = <<>> /\ m_callback'[c] = NoMsg /\ state'[c] = "destroyed"
        /\ \A d \in Conn \ {c} : /\ posted'[d] = posted[d] /\ m_callback'[d] = m_callback[d]
                                 /\ state'[d] = state[d] /\ writes'[d] = writes[d]
    BY <2>1, Zenon DEF IInv, ConnTypes
  <2>5. \A d \in Conn : d # c \/ 1..Len(posted'[d]) = {}
    BY <2>4
  <2>6. Posted'
    BY <2>2, <2>4, <2>5 DEF IInv, Posted
  <2>7. PostedOnce'
    BY <2>4, <2>5 DEF IInv, PostedOnce
  <2>8. Stored' /\ StoredOnce'
    BY <2>2, <2>4, NoneAssumption DEF IInv, Stored, StoredOnce
  <2>9. Queued'
    BY <2>1, <2>4 DEF IInv, Queued, Idle
  <2> QED
    BY <2>2, <2>3, <2>6, <2>7, <2>8, <2>9, Zenon DEF IInv
<1>2. ASSUME StopEnd
      PROVE  IInv' /\ Final
  <2>1. PICK released \in SUBSET {m \in Msg : stage[m] = "popping"} :
            stage' = [m \in Msg |-> IF m \in released THEN "settled" ELSE stage[m]]
    BY <1>2, Zenon DEF StopEnd
  <2>2. UNCHANGED <<m_idleConnections, state, m_callback, posted, writes, caller, retries,
                    calls, outcome>>
    BY <1>2, Zenon DEF StopEnd, connections
  <2>3. \A m \in Msg : stage'[m] = stage[m] \/ stage[m] = "popping"
    BY <2>1, Zenon
  <2>4. MsgTypes'
    BY <2>1, <2>2, Zenon DEF IInv, MsgTypes
  <2>5. Unsettled' /\ Final
    BY <2>2, <2>3, Zenon DEF IInv, Unsettled, Final
  <2>6. \A c \in Conn : \A i \in 1..Len(posted[c]) : posted[c][i] \in Msg
    BY DEF IInv, ConnTypes
  <2>7. Posted' /\ Stored'
    BY <2>2, <2>3, <2>6 DEF IInv, Posted, Stored
  <2>8. PostedOnce' /\ StoredOnce' /\ ConnTypes' /\ Queued'
    BY <2>2 DEF IInv, PostedOnce, StoredOnce, ConnTypes, Queued, Idle
  <2> QED
    BY <2>4, <2>5, <2>7, <2>8, Zenon DEF IInv
<1> QED
  BY <1>1, <1>2, Zenon

\* A connection is made, up to its handshake.
LEMMA ReconnectStep ==
    ASSUME IInv, NEW c \in Conn, OnConnect(c) \/ Recreate(c)
    PROVE  IInv' /\ Final
<1>1. /\ UNCHANGED <<m_idleConnections, m_callback, posted, writes, messages>>
      /\ \E to \in {"connecting", "handshake"} : state' = [state EXCEPT ![c] = to]
  BY Zenon DEF OnConnect, Recreate
<1>2. MsgTypes' /\ Unsettled' /\ Final /\ UNCHANGED stage
  BY <1>1, NothingMoves, Zenon DEF IInv
<1>3. ConnTypes'
  BY <1>1, Zenon DEF IInv, ConnTypes
<1>4. Posted' /\ PostedOnce' /\ Stored' /\ StoredOnce'
  BY <1>1, <1>2 DEF IInv, Posted, PostedOnce, Stored, StoredOnce
<1>5. Queued'
  BY <1>1, Zenon DEF IInv, ConnTypes, Queued, Idle
<1> QED
  BY <1>2, <1>3, <1>4, <1>5, Zenon DEF IInv

\* A callback that is moved out of m_callback leaves the others alone.
LEMMA TakenKeeps ==
    ASSUME IInv, NEW c \in Conn, m_callback' = [m_callback EXCEPT ![c] = NoMsg],
           UNCHANGED posted, \A n \in Msg : n # m_callback[c] => stage'[n] = stage[n]
    PROVE  /\ Posted' /\ PostedOnce' /\ Stored' /\ StoredOnce'
           /\ m_callback' \in [Conn -> Msg \cup {NoMsg, HandshakeDone}]
<1>1. \A d \in Conn : \A i \in 1..Len(posted[d]) :
          posted[d][i] \in Msg /\ posted[d][i] # m_callback[c]
  BY DEF IInv, ConnTypes, Posted, Stored
<1>2. Posted' /\ PostedOnce'
  BY <1>1 DEF IInv, Posted, PostedOnce
<1>3. /\ m_callback'[c] = NoMsg
      /\ \A d \in Conn \ {c} : m_callback'[d] = m_callback[d]
      /\ m_callback' \in [Conn -> Msg \cup {NoMsg, HandshakeDone}]
  BY Zenon DEF IInv, ConnTypes
<1>4. Stored' /\ StoredOnce'
  BY <1>3, NoneAssumption DEF IInv, Stored, StoredOnce
<1> QED
  BY <1>2, <1>3, <1>4, Zenon

\* notify() with success.
LEMMA NotifySuccessKeeps ==
    ASSUME IInv, NEW c \in Conn, NotifySuccess(c), UNCHANGED posted
    PROVE  /\ MsgTypes' /\ Unsettled' /\ Final
           /\ Posted' /\ PostedOnce' /\ Stored' /\ StoredOnce'
           /\ m_callback' \in [Conn -> Msg \cup {NoMsg, HandshakeDone}]
<1>1. m_callback' = [m_callback EXCEPT ![c] = NoMsg]
  BY Zenon DEF NotifySuccess
<1>2. /\ MsgTypes' /\ Unsettled' /\ Final
      /\ \A n \in Msg : n # m_callback[c] => stage'[n] = stage[n]
  <2>1. CASE m_callback[c] \in Msg
    <3>1. stage[m_callback[c]] = "writing" /\ Settle(m_callback[c], "ok")
      BY <2>1, Zenon DEF IInv, Stored, NotifySuccess
    <3>2. Moves(m_callback[c])
      BY <2>1, <3>1, SettleMoves, Zenon DEF IInv
    <3> QED
      BY <3>2, Zenon DEF Moves
  <2>2. CASE m_callback[c] \notin Msg
    BY <2>2, NothingMoves, Zenon DEF IInv, NotifySuccess
  <2> QED
    BY <2>1, <2>2, Zenon
<1> QED
  BY <1>1, <1>2, TakenKeeps, Zenon

\* onReady() queues a connection and leaves the others in the queue.
LEMMA QueueGrows ==
    ASSUME m_idleConnections \in Seq(Conn), NEW c \in Conn,
           m_idleConnections' = Append(m_idleConnections, c)
    PROVE  /\ m_idleConnections' \in Seq(Conn)
           /\ Idle(c)'
           /\ \A d \in Conn : Idle(d) => Idle(d)'
<1>1. /\ m_idleConnections' \in Seq(Conn)
      /\ Len(m_idleConnections') = Len(m_idleConnections) + 1
      /\ Len(m_idleConnections) \in Nat
  OBVIOUS
<1>2. /\ m_idleConnections'[Len(m_idleConnections) + 1] = c
      /\ \A i \in 1..Len(m_idleConnections) : m_idleConnections'[i] = m_idleConnections[i]
  OBVIOUS
<1>3. Len(m_idleConnections) + 1 \in 1..Len(m_idleConnections')
  BY <1>1
<1>4. Idle(c)'
  BY <1>2, <1>3, Zenon DEF Idle
<1>5. \A d \in Conn : Idle(d) => Idle(d)'
  BY <1>1, <1>2 DEF Idle
<1> QED
  BY <1>1, <1>4, <1>5, Zenon

\* A write completes.
LEMMA OnSentStep ==
    ASSUME IInv, NEW c \in Conn, OnSent(c)
    PROVE  IInv' /\ Final
<1>1. /\ writes[c] # <<>>
      /\ writes' = [writes EXCEPT ![c] = Tail(@)]
      /\ NotifySuccess(c)
      /\ m_idleConnections' = Append(m_idleConnections, c)
      /\ UNCHANGED <<state, posted>>
  BY Zenon DEF OnSent
<1>2. /\ MsgTypes' /\ Unsettled' /\ Final
      /\ Posted' /\ PostedOnce' /\ Stored' /\ StoredOnce'
      /\ m_callback' \in [Conn -> Msg \cup {NoMsg, HandshakeDone}]
  BY <1>1, NotifySuccessKeeps, Zenon
<1>3. /\ m_idleConnections' \in Seq(Conn) /\ Idle(c)'
      /\ \A d \in Conn : Idle(d) => Idle(d)'
  BY <1>1, QueueGrows, Zenon DEF IInv, ConnTypes
<1>4. ConnTypes'
  <2>1. writes[c] \in Seq(Msg) /\ Tail(writes[c]) \in Seq(Msg)
    BY <1>1 DEF IInv, ConnTypes
  <2>2. writes' \in [Conn -> Seq(Msg)]
    BY <1>1, <2>1, Zenon DEF IInv, ConnTypes
  <2> QED
    BY <1>1, <1>2, <1>3, <2>2, Zenon DEF IInv, ConnTypes
<1>5. Queued'
  <2>1. \A d \in Conn \ {c} : writes'[d] = writes[d]
    BY <1>1, Zenon DEF IInv, ConnTypes
  <2> QED
    BY <1>1, <1>3, <2>1, Zenon DEF IInv, Queued
<1> QED
  BY <1>2, <1>4, <1>5, Zenon DEF IInv

\* A handshake is answered well.
LEMMA StartStep ==
    ASSUME IInv, NEW c \in Conn, Start(c)
    PROVE  IInv' /\ Final
<1>1. /\ NotifySuccess(c)
      /\ state' = [state EXCEPT ![c] = "connected"]
      /\ m_idleConnections' = Append(m_idleConnections, c)
      /\ UNCHANGED <<posted, writes>>
  BY Zenon DEF Start
<1>2. /\ MsgTypes' /\ Unsettled' /\ Final
      /\ Posted' /\ PostedOnce' /\ Stored' /\ StoredOnce'
      /\ m_callback' \in [Conn -> Msg \cup {NoMsg, HandshakeDone}]
  BY <1>1, NotifySuccessKeeps, Zenon
<1>3. /\ m_idleConnections' \in Seq(Conn) /\ Idle(c)'
      /\ \A d \in Conn : Idle(d) => Idle(d)'
  BY <1>1, QueueGrows, Zenon DEF IInv, ConnTypes
<1>4. ConnTypes'
  BY <1>1, <1>2, <1>3, Zenon DEF IInv, ConnTypes
<1>5. Queued'
  <2>1. \A d \in Conn \ {c} : state'[d] = state[d]
    BY <1>1, Zenon DEF IInv, ConnTypes
  <2> QED
    BY <1>1, <1>3, <2>1, Zenon DEF IInv, Queued
<1> QED
  BY <1>2, <1>4, <1>5 DEF IInv

\* The first of the posted sends is taken off.
LEMMA TakeOff ==
    ASSUME IInv, NEW c \in Conn, posted[c] # <<>>,
           posted' = [posted EXCEPT ![c] = Tail(@)],
           \A n \in Msg \ {Head(posted[c])} : stage'[n] = stage[n]
    PROVE  /\ posted' \in [Conn -> Seq(Msg)] /\ Posted' /\ PostedOnce'
           /\ Head(posted[c]) \in Msg /\ stage[Head(posted[c])] = "posted"
           /\ \A d \in Conn \ {c} : posted'[d] = posted[d]
<1> DEFINE m == Head(posted[c])
<1>1. posted[c] \in Seq(Msg) /\ Len(posted[c]) \in Nat /\ 1 \in 1..Len(posted[c])
  BY DEF IInv, ConnTypes
<1>2. m \in Msg /\ m = posted[c][1] /\ stage[m] = "posted"
  BY <1>1 DEF IInv, Posted
<1> HIDE DEF m
<1>3. Tail(posted[c]) \in Seq(Msg)
  BY <1>1
<1>4. /\ posted' \in [Conn -> Seq(Msg)]
      /\ posted'[c] = Tail(posted[c])
      /\ \A d \in Conn \ {c} : posted'[d] = posted[d]
  BY <1>3, Zenon DEF IInv, ConnTypes
<1>5. /\ Len(posted'[c]) = Len(posted[c]) - 1
      /\ \A i \in 1..Len(posted'[c]) : posted'[c][i] = posted[c][i + 1]
  BY <1>1, <1>4
<1> DEFINE Before(d, i) == IF d = c THEN i + 1 ELSE i
<1>6. \A d \in Conn : \A i \in 1..Len(posted'[d]) :
          /\ Before(d, i) \in 1..Len(posted[d])
          /\ posted'[d][i] = posted[d][Before(d, i)]
          /\ d = c => Before(d, i) # 1
  BY <1>1, <1>4, <1>5
<1>7. \A d \in Conn : \A i, j \in 1..Len(posted'[d]) : Before(d, i) = Before(d, j) => i = j
  <2>1. \A d \in Conn : \A i \in 1..Len(posted'[d]) : i \in Int
    OBVIOUS
  <2> QED
    BY <2>1
<1>8. \A d \in Conn : \A i \in 1..Len(posted'[d]) : posted'[d][i] \in Msg \ {m}
  <2> SUFFICES ASSUME NEW d \in Conn, NEW i \in 1..Len(posted'[d])
               PROVE  posted'[d][i] \in Msg \ {m}
    BY Zenon
  <2> DEFINE b == Before(d, i)
  <2>1. /\ b \in 1..Len(posted[d]) /\ posted'[d][i] = posted[d][b]
        /\ d = c => b # 1
    BY <1>6, Zenon
  <2> HIDE DEF b
  <2>2. posted[d][b] \in Msg
    BY <2>1 DEF IInv, ConnTypes
  <2>3. posted[d][b] # m
    BY <2>1, <1>1, <1>2 DEF IInv, PostedOnce
  <2> QED
    BY <2>1, <2>2, <2>3, Zenon
<1>9. Posted'
  <2> SUFFICES ASSUME NEW d \in Conn, NEW i \in 1..Len(posted'[d])
               PROVE  stage'[posted'[d][i]] = "posted"
    BY Zenon DEF Posted
  <2>1. stage'[posted'[d][i]] = stage[posted'[d][i]]
    BY <1>8, Zenon DEF m
  <2>2. stage[posted[d][Before(d, i)]] = "posted"
    BY <1>6 DEF IInv, Posted
  <2> QED
    BY <2>1, <2>2, <1>6
<1>10. PostedOnce'
  <2> SUFFICES ASSUME NEW d \in Conn, NEW e \in Conn,
                      NEW i \in 1..Len(posted'[d]), NEW j \in 1..Len(posted'[e]),
                      posted'[d][i] = posted'[e][j]
               PROVE  d = e /\ i = j
    BY Zenon DEF PostedOnce
  <2>1. /\ Before(d, i) \in 1..Len(posted[d]) /\ Before(e, j) \in 1..Len(posted[e])
        /\ posted[d][Before(d, i)] = posted[e][Before(e, j)]
    BY <1>6
  <2>2. PostedOnce
    BY Zenon DEF IInv
  <2>3. d = e /\ Before(d, i) = Before(e, j)
    <3> HIDE DEF Before
    <3> QED
      BY <2>1, <2>2 DEF PostedOnce
  <2> QED
    BY <2>3, <1>7, Zenon
<1> QED
  BY <1>2, <1>4, <1>9, <1>10, Zenon DEF m

\* The function posted by send().
LEMMA RunSendStep ==
    ASSUME IInv, NEW c \in Conn, RunSend(c)
    PROVE  IInv' /\ Final
<1> DEFINE m == Head(posted[c])
<1>1. /\ posted[c] # <<>>
      /\ posted' = [posted EXCEPT ![c] = Tail(@)]
      /\ UNCHANGED <<m_idleConnections, state>>
  BY Zenon DEF RunSend
<1>2. m \in Msg /\ stage[m] = "posted"
  BY <1>1 DEF IInv, ConnTypes, Posted
<1>3. CASE state[c] # "connected"
  <2>1. SendFailed(m, c) /\ UNCHANGED <<m_callback, writes>>
    BY <1>3, Zenon DEF RunSend
  <2>2. Moves(m) /\ stage'[m] \in {"popping", "settled"}
    BY <2>1, <1>2, SendFailedMoves, Zenon DEF IInv
  <2>3. /\ posted' \in [Conn -> Seq(Msg)] /\ Posted' /\ PostedOnce'
        /\ \A d \in Conn \ {c} : posted'[d] = posted[d]
    BY <1>1, <2>2, TakeOff, Zenon DEF Moves
  <2>4. Stored' /\ StoredOnce'
    BY <1>2, <2>1, <2>2, Zenon DEF IInv, Stored, StoredOnce, Moves
  <2>5. ConnTypes' /\ Queued'
    BY <1>1, <1>3, <2>1, <2>3, Zenon DEF IInv, ConnTypes, Queued, Idle
  <2> QED
    BY <2>2, <2>3, <2>4, <2>5, Zenon DEF IInv, Moves
<1>4. CASE state[c] = "connected"
  <2>1. /\ m_callback' = [m_callback EXCEPT ![c] = m]
        /\ writes' = [writes EXCEPT ![c] = Append(@, m)]
        /\ stage' = [stage EXCEPT ![m] = "writing"]
        /\ UNCHANGED <<caller, retries, calls, outcome>>
    BY <1>4, Zenon DEF RunSend
  <2>2. Moves(m) /\ stage'[m] = "writing"
    <3>1. caller' \in [Msg -> Conn \cup {NoConn}]
      BY <2>1, Zenon DEF IInv, MsgTypes
    <3> QED
      BY <2>1, <3>1, <1>2, StageMoves, Zenon DEF IInv
  <2>3. /\ posted' \in [Conn -> Seq(Msg)] /\ Posted' /\ PostedOnce'
        /\ \A d \in Conn \ {c} : posted'[d] = posted[d]
    BY <1>1, <2>2, TakeOff, Zenon DEF Moves
  <2>4. /\ m_callback'[c] = m
        /\ \A d \in Conn \ {c} : m_callback'[d] = m_callback[d] /\ m_callback[d] # m
    BY <1>2, <2>1, Zenon DEF IInv, ConnTypes, Stored
  <2>5. Stored' /\ StoredOnce'
    BY <2>2, <2>4 DEF IInv, Stored, StoredOnce, Moves
  <2>6. /\ writes' \in [Conn -> Seq(Msg)] /\ writes'[c] # <<>>
        /\ \A d \in Conn \ {c} : writes'[d] = writes[d]
    <3> HIDE DEF m
    <3>1. writes[c] \in Seq(Msg)
      BY Zenon DEF IInv, ConnTypes
    <3>2. Append(writes[c], m) \in Seq(Msg) /\ Append(writes[c], m) # <<>>
      BY <1>2, <3>1
    <3> QED
      BY <2>1, <3>2, Zenon DEF IInv, ConnTypes
  <2>7. ConnTypes'
    BY <1>1, <1>2, <2>1, <2>3, <2>6, Zenon DEF IInv, ConnTypes
  <2>8. Queued'
    BY <1>1, <2>3, <2>6, Zenon DEF IInv, Queued, Idle
  <2> QED
    BY <2>2, <2>3, <2>5, <2>7, <2>8, Zenon DEF IInv, Moves
<1> QED
  BY <1>3, <1>4, Zenon

\* An I/O error.
LEMMA OnErrorStep ==
    ASSUME IInv, NEW c \in Conn, OnError(c)
    PROVE  IInv' /\ Final
<1> DEFINE m == m_callback[c]
<1>1. /\ m_callback' = [m_callback EXCEPT ![c] = NoMsg]
      /\ UNCHANGED <<m_idleConnections, posted>>
      /\ IF m \in Msg THEN SendFailed(m, c) ELSE UNCHANGED messages
  BY Zenon DEF OnError
<1>2. \/ UNCHANGED <<state, writes>>
      \/ /\ state' = [state EXCEPT ![c] = "down"]
         /\ writes' = [writes EXCEPT ![c] = <<>>]
  BY Zenon DEF OnError
<1>3. /\ MsgTypes' /\ Unsettled' /\ Final
      /\ \A n \in Msg : n # m => stage'[n] = stage[n]
  <2>1. CASE m \in Msg
    <3>1. stage[m] = "writing" /\ SendFailed(m, c)
      BY <1>1, <2>1, Zenon DEF IInv, Stored
    <3> HIDE DEF m
    <3>2. Moves(m)
      BY <2>1, <3>1, SendFailedMoves, Zenon DEF IInv
    <3> QED
      BY <3>2, Zenon DEF Moves
  <2>2. CASE m \notin Msg
    BY <1>1, <2>2, NothingMoves, Zenon DEF IInv
  <2> QED
    BY <2>1, <2>2, Zenon
<1>4. /\ Posted' /\ PostedOnce' /\ Stored' /\ StoredOnce'
      /\ m_callback' \in [Conn -> Msg \cup {NoMsg, HandshakeDone}]
  BY <1>1, <1>3, TakenKeeps, Zenon
<1>5. ConnTypes'
  <2>1. /\ state' \in [Conn -> {"down", "connecting", "handshake", "connected", "destroyed"}]
        /\ writes' \in [Conn -> Seq(Msg)]
    <3>1. <<>> \in Seq(Msg)
      BY SMT
    <3> QED
      BY <1>2, <3>1, Zenon DEF IInv, ConnTypes
  <2> QED
    BY <1>1, <1>4, <2>1, Zenon DEF IInv, ConnTypes
<1>6. Queued'
  BY <1>1, <1>2, Zenon DEF IInv, ConnTypes, Queued, Idle
<1> QED
  BY <1>3, <1>4, <1>5, <1>6, Zenon DEF IInv

------------------------------------------------------------------------------
(* Theorems.                                                               *)

\* Every step preserves the invariant and takes back nothing a sender was told.
LEMMA NextIInv == IInv /\ [Next]_vars => IInv' /\ [Final]_vars
<1> SUFFICES ASSUME IInv, [Next]_vars PROVE IInv' /\ [Final]_vars
    BY Zenon
<1>1. CASE Connect \/ StopBegin
  BY <1>1, ConnectStep, Zenon
<1>2. CASE StopEnd \/ \E c \in Conn : Destroy(c)
  BY <1>2, StopStep, Zenon
<1>3. ASSUME NEW m \in Msg, Send(m) \/ Pop(m) \/ PopDestroyed(m)
      PROVE  IInv' /\ Final
  BY <1>3, SendStep, PopStep, Zenon
<1>4. ASSUME NEW c \in Conn, RunSend(c) \/ OnSent(c) \/ OnConnect(c) \/ Start(c) \/ OnError(c)
                             \/ Recreate(c)
      PROVE  IInv' /\ Final
  BY <1>4, RunSendStep, OnSentStep, ReconnectStep, StartStep, OnErrorStep, Zenon
<1>5. CASE UNCHANGED vars
  <2>1. UNCHANGED <<m_idleConnections, state, m_callback, posted, writes, stage, caller,
                    retries, calls, outcome>>
    BY <1>5, Zenon DEF vars, connections, messages
  <2>2. ConnTypes' /\ MsgTypes' /\ Unsettled' /\ Queued'
    BY <2>1, Zenon DEF IInv, ConnTypes, MsgTypes, Unsettled, Queued, Idle
  <2>3. Posted' /\ PostedOnce' /\ Stored' /\ StoredOnce'
    BY <2>1 DEF IInv, Posted, PostedOnce, Stored, StoredOnce
  <2> QED
    BY <1>5, <2>2, <2>3, Zenon DEF IInv
<1> QED
  BY <1>1, <1>2, <1>3, <1>4, <1>5, Zenon DEF Next

LEMMA Invariance == Spec => []IInv
<1>1. IInv /\ [Next]_vars => IInv'
  BY NextIInv, Zenon
<1> QED
  BY InitIInv, <1>1, PTL DEF Spec

\* However the connections fail and however often a send is retried, its callback is called
\* at most once, the answer is never replaced, and an error means that no retry was left
\* (PersistentConnection::notify(), Retrier::send()).
THEOREM CallbacksFinal == Spec => CallbacksAreFinal
<1>1. IInv /\ [Next]_vars => [Final]_vars
  BY NextIInv, Zenon
<1> QED
  BY Invariance, <1>1, PTL DEF Spec, CallbacksAreFinal, Final

\* No connection that could serve a send is missing from the idle queue, whatever failed
\* before (the calls of onReady() in start() and onSent()).
THEOREM NoConnectionIsLost == Spec => []ReadyConnectionIsIdle
<1>1. IInv => ReadyConnectionIsIdle
  BY Zenon DEF IInv, Queued, Idle, ReadyConnectionIsIdle
<1> QED
  BY Invariance, <1>1, PTL
==============================================================================
