--------------------------- MODULE Messaging_proofs ---------------------------
(***************************************************************************)
(* For any calls, any number of message ids and of retries: the answer     *)
(* that ends a call is the answer to its request, it ends once, and it     *)
(* ends with success only when the provider's answer is one.               *)
(***************************************************************************)
EXTENDS Messaging, TLAPS

------------------------------------------------------------------------------
(* The inductive invariant.                                                *)

Fields == {"future", "pc", "id", "promise", "settled", "errno"}

Shape == /\ DOMAIN call = Call
         /\ \A c \in Call : Fields \subseteq DOMAIN call[c]
         /\ {"ids", "next", "callbacks", "held"} \subseteq DOMAIN inbox
         /\ DOMAIN send = Call
         /\ todo \in [Call -> Nat]

\* Inbox::communicate() of the call has made its entry.
Started(c) == call[c].pc \notin {"idle", "numbered"}

Fresh(c) == call[c].settled = 0 /\ call[c].promise = {}

\* Nothing has come of a call that has no entry yet.
Unstarted == \A c \in Call : ~Started(c) => Fresh(c) /\ send[c] = "none" /\ todo[c] = 0

\* An entry is that of a call with its id, whose callback has not been called: the entry is
\* erased with the call of the callback, and overwritten only by an insertion.
Entries ==
    \A i \in DOMAIN inbox.callbacks :
        /\ inbox.callbacks[i] \in Call
        /\ Started(inbox.callbacks[i])
        /\ Fresh(inbox.callbacks[i])
        /\ call[inbox.callbacks[i]].id = i

\* The message being handled answers a call with its id; the entry the handler has found stays
\* while it holds the accessor.
Handled ==
    /\ inbox.held \subseteq DOMAIN inbox.callbacks
    /\ \A m \in handler : /\ m.for \in Call
                          /\ Started(m.for)
                          /\ m.id = call[m.for].id
                          /\ inbox.held \subseteq {m.id}

\* A callback is called once, and with the answer to the call or to one that has its id.
Own == \A c \in Call : /\ call[c].settled \in {0, 1}
                       /\ \A p \in call[c].promise : p.from \in Namesakes(c) \cup {"none"}

IInv == Shape /\ Unstarted /\ Entries /\ Handled /\ Own

LEMMA InitIInv == Init => IInv
<1> SUFFICES ASSUME Init PROVE IInv
    BY Zenon
<1>1. Shape
  BY Zenon DEF Init, Shape, Fields
<1>2. \A c \in Call : ~Started(c) /\ Fresh(c)
  BY DEF Init, Started, Fresh
<1>3. DOMAIN inbox.callbacks = {} /\ inbox.held = {}
  BY DEF Init, EmptyMap
<1> QED
  BY <1>1, <1>2, <1>3, Zenon DEF Init, IInv, Unstarted, Entries, Handled, Own, Fresh

------------------------------------------------------------------------------
(* Steps that settle no call.                                              *)

\* Calls that share an id go on doing so.
LEMMA NamesakesStay ==
    ASSUME \A c \in Call : call'[c].id = call[c].id /\ (call[c].pc # "idle" => call'[c].pc # "idle")
    PROVE  \A c \in Call : Namesakes(c) \subseteq Namesakes(c)'
BY Zenon DEF Namesakes

\* The entries of the inbox and the calls stay, up to where their threads are.
LEMMA QuietStep ==
    ASSUME IInv, Shape', UNCHANGED inbox,
           \A c \in Call : /\ call'[c].id = call[c].id
                           /\ call'[c].settled = call[c].settled
                           /\ call'[c].promise = call[c].promise
                           /\ Started(c) => Started(c)'
                           /\ ~Started(c) => call'[c].pc = call[c].pc
    PROVE  /\ Entries'
           /\ Own'
           /\ \A c \in Call : Started(c)' <=> Started(c)
           /\ UNCHANGED handler => Handled'
<1>1. \A c \in Call : Started(c)' <=> Started(c)
  BY Zenon DEF Started
<1>2. \A c \in Call : Fresh(c)' <=> Fresh(c)
  BY Zenon DEF Fresh
<1>3. Entries'
  BY <1>1, <1>2 DEF IInv, Entries
<1>4. \A c \in Call : Namesakes(c) \subseteq Namesakes(c)'
  BY NamesakesStay, Zenon DEF Started
<1>5. Own'
  BY <1>4, Zenon DEF IInv, Own
<1>6. UNCHANGED handler => Handled'
  BY <1>1, Zenon DEF IInv, Handled
<1> QED
  BY <1>1, <1>3, <1>5, <1>6, Zenon

\* Pop() and the ends of a wait.
LEMMA ThreadStep ==
    ASSUME IInv, NEW c \in Call, Pop(c) \/ WaitStep(c) \/ WaitInterrupted(c)
    PROVE  IInv'
<1>1. Started(c)
  <2>1. CASE Pop(c)
    BY <2>1, Zenon DEF Pop, IInv, Unstarted
  <2>2. CASE WaitStep(c) \/ WaitInterrupted(c)
    BY <2>2, Zenon DEF WaitStep, WaitInterrupted, WaitTimesOut, WaitReturns, Return, Started
  <2> QED
    BY <2>1, <2>2, Zenon
<1>2. /\ UNCHANGED <<inbox, todo, handler>>
      /\ \E e : /\ call' = [call EXCEPT ![c] = e]
                /\ Fields \subseteq DOMAIN e
                /\ e.id = call[c].id /\ e.promise = call[c].promise /\ e.settled = call[c].settled
                /\ e.pc \notin {"idle", "numbered"}
      /\ DOMAIN send' = Call /\ \A d \in Call \ {c} : send'[d] = send[d]
  <2>1. CASE Pop(c)
    <3> DEFINE e == [call[c] EXCEPT !.pc = IF call[c].future THEN "waiting" ELSE "returned"]
    <3>1. call' = [call EXCEPT ![c] = e]
      BY <2>1, Zenon DEF Pop
    <3>2. /\ Fields \subseteq DOMAIN e
          /\ e.id = call[c].id /\ e.promise = call[c].promise /\ e.settled = call[c].settled
          /\ e.pc \notin {"idle", "numbered"}
      BY Zenon DEF IInv, Shape, Fields
    <3>3. DOMAIN send' = Call /\ \A d \in Call \ {c} : send'[d] = send[d]
      BY <2>1, Zenon DEF Pop, IInv, Shape
    <3> HIDE DEF e
    <3> QED
      BY <2>1, <3>1, <3>2, <3>3, Zenon DEF Pop
  <2>2. CASE WaitStep(c) \/ WaitInterrupted(c)
    <3>1. PICK errno : Return(c, errno)
      BY <2>2, Zenon DEF WaitStep, WaitInterrupted, WaitTimesOut, WaitReturns
    <3> DEFINE e == [call[c] EXCEPT !.pc = "returned", !.errno = errno]
    <3>2. call' = [call EXCEPT ![c] = e]
      BY <3>1, Zenon DEF Return, IInv, Shape
    <3>3. /\ Fields \subseteq DOMAIN e
          /\ e.id = call[c].id /\ e.promise = call[c].promise /\ e.settled = call[c].settled
          /\ e.pc \notin {"idle", "numbered"}
      BY Zenon DEF IInv, Shape, Fields
    <3>4. UNCHANGED <<inbox, todo, handler, send>> /\ DOMAIN send = Call
      BY <3>1, Zenon DEF Return, IInv, Shape
    <3> HIDE DEF e
    <3> QED
      BY <3>2, <3>3, <3>4, Zenon
  <2> QED
    BY <2>1, <2>2, Zenon
<1>3. PICK e : /\ call' = [call EXCEPT ![c] = e]
               /\ Fields \subseteq DOMAIN e
               /\ e.id = call[c].id /\ e.promise = call[c].promise /\ e.settled = call[c].settled
               /\ e.pc \notin {"idle", "numbered"}
  BY <1>2, Zenon
<1>5. call'[c] = e /\ \A d \in Call \ {c} : call'[d] = call[d]
  BY <1>3, Zenon DEF IInv, Shape
<1>6. Shape'
  BY <1>2, <1>3, <1>5, Zenon DEF IInv, Shape
<1>7. \A d \in Call : /\ call'[d].id = call[d].id
                      /\ call'[d].settled = call[d].settled
                      /\ call'[d].promise = call[d].promise
                      /\ Started(d) => Started(d)'
                      /\ ~Started(d) => call'[d].pc = call[d].pc
  BY <1>1, <1>3, <1>5, Zenon DEF Started
<1>8. Entries' /\ Own' /\ Handled' /\ \A d \in Call : Started(d)' <=> Started(d)
  BY <1>2, <1>6, <1>7, QuietStep, Zenon
<1>9. Unstarted'
  BY <1>1, <1>2, <1>5, <1>7, <1>8 DEF IInv, Unstarted, Fresh
<1> QED
  BY <1>6, <1>8, <1>9, Zenon DEF IInv

\* What the network and the provider do.
LEMMA WireStep ==
    ASSUME IInv, NEW c \in Call, Arrive(c) \/ SendEnds(c) \/ DropMessage(c)
    PROVE  IInv'
<1>1. UNCHANGED <<inbox, call, handler>>
  BY Zenon DEF Arrive, SendEnds, DropMessage
<1>2. Started(c)
  BY DEF Arrive, SendEnds, DropMessage, IInv, Unstarted
<1>4. todo' \in [Call -> Nat] /\ \A d \in Call \ {c} : todo'[d] = todo[d]
  BY DEF Arrive, SendEnds, DropMessage, IInv, Shape
<1>5. DOMAIN send' = Call /\ \A d \in Call \ {c} : send'[d] = send[d]
  BY Zenon DEF Arrive, SendEnds, DropMessage, IInv, Shape
<1>6. Shape'
  BY <1>1, <1>4, <1>5, Zenon DEF IInv, Shape
<1>7. Entries' /\ Own' /\ Handled' /\ \A d \in Call : Started(d)' <=> Started(d)
  BY <1>1, <1>6, QuietStep, Zenon DEF Started
<1>8. Unstarted'
  BY <1>1, <1>2, <1>4, <1>5, <1>7, Zenon DEF IInv, Unstarted, Fresh
<1> QED
  BY <1>6, <1>7, <1>8, Zenon DEF IInv

LEMMA NumberStep ==
    ASSUME IInv, NEW c \in Call, Number(c)
    PROVE  IInv'
<1> DEFINE e == [call[c] EXCEPT !.pc = "numbered", !.id = inbox.next]
<1>1. /\ call[c].pc = "idle" /\ call' = [call EXCEPT ![c] = e]
      /\ UNCHANGED <<send, todo, handler>>
  BY Zenon DEF Number, IInv, Shape
<1>2. /\ Fields \subseteq DOMAIN e /\ e.pc = "numbered"
      /\ e.settled = call[c].settled /\ e.promise = call[c].promise
  BY Zenon DEF IInv, Shape, Fields
<1> HIDE DEF e
<1>3. call'[c] = e /\ \A d \in Call \ {c} : call'[d] = call[d]
  BY <1>1, Zenon DEF IInv, Shape
<1>4. /\ {"ids", "next", "callbacks", "held"} \subseteq DOMAIN inbox'
      /\ inbox'.callbacks = inbox.callbacks /\ inbox'.held = inbox.held
  BY Zenon DEF Number, IInv, Shape
<1>5. ~Started(c) /\ Fresh(c) /\ ~Started(c)' /\ Fresh(c)'
  BY <1>1, <1>2, <1>3, Zenon DEF IInv, Unstarted, Started, Fresh
<1>6. \A d \in Call \ {c} : (Started(d)' <=> Started(d)) /\ (Fresh(d)' <=> Fresh(d))
  BY <1>3, Zenon DEF Started, Fresh
<1>7. Shape'
  BY <1>1, <1>2, <1>3, <1>4, Zenon DEF IInv, Shape
<1>8. Unstarted'
  BY <1>1, <1>5, <1>6, Zenon DEF IInv, Unstarted
<1>9. Entries'
  BY <1>3, <1>4, <1>5, <1>6 DEF IInv, Entries
<1>10. Handled'
  BY <1>1, <1>3, <1>4, <1>5, <1>6, Zenon DEF IInv, Handled
<1>11. Own'
  <2>1. \A d \in Call \ {c} : Namesakes(d) \subseteq Namesakes(d)'
    BY <1>1, <1>3, Zenon DEF Namesakes
  <2> QED
    BY <1>3, <1>5, <2>1, Zenon DEF IInv, Own, Fresh
<1> QED
  BY <1>7, <1>8, <1>9, <1>10, <1>11, Zenon DEF IInv

LEMMA TakeStep ==
    ASSUME IInv, NEW c \in Call, TakeMessage(c)
    PROVE  IInv'
<1>1. UNCHANGED <<call, send>> /\ todo[c] > 0 /\ todo' = [todo EXCEPT ![c] = @ - 1]
  BY Zenon DEF TakeMessage
<1>2. Started(c)
  BY <1>1 DEF IInv, Unstarted
<1>3. PICK body : handler' = {Message(call[c].id, c, body)}
  BY Zenon DEF TakeMessage
<1>4. /\ {"ids", "next", "callbacks", "held"} \subseteq DOMAIN inbox'
      /\ inbox'.callbacks = inbox.callbacks
      /\ inbox'.held = {call[c].id} \cap DOMAIN inbox.callbacks
  BY Zenon DEF TakeMessage, IInv, Shape
<1>5. todo' \in [Call -> Nat] /\ \A d \in Call \ {c} : todo'[d] = todo[d]
  BY <1>1 DEF IInv, Shape
<1>6. Shape'
  BY <1>1, <1>4, <1>5, Zenon DEF IInv, Shape
<1>7. Unstarted'
  BY <1>1, <1>2, <1>5, Zenon DEF IInv, Unstarted, Started, Fresh
<1>8. Entries'
  BY <1>1, <1>4 DEF IInv, Entries, Started, Fresh
<1>9. Handled'
  BY <1>1, <1>2, <1>3, <1>4 DEF Handled, Started, Message
<1>10. Own'
  BY <1>1, Zenon DEF IInv, Own, Namesakes
<1> QED
  BY <1>6, <1>7, <1>8, <1>9, <1>10 DEF IInv

------------------------------------------------------------------------------
(* Insertion and the call of a callback.                                   *)

LEMMA InsertStep ==
    ASSUME IInv, NEW c \in Call, Insert(c)
    PROVE  IInv'
<1> DEFINE id == call[c].id
           old == IF id \in DOMAIN inbox.callbacks THEN Broken(call, inbox.callbacks[id]) ELSE call
<1>1. /\ call[c].pc = "numbered" /\ id \notin inbox.held
      /\ call' = [old EXCEPT ![c].pc = "sending"]
      /\ send' = [send EXCEPT ![c] = "waiting"]
      /\ UNCHANGED <<todo, handler>>
  BY Zenon DEF Insert
<1>2. /\ {"ids", "next", "callbacks", "held"} \subseteq DOMAIN inbox'
      /\ inbox'.held = inbox.held
      /\ inbox'.callbacks = Put(inbox.callbacks, id, c)
  BY Zenon DEF Insert, IInv, Shape
<1>3. /\ DOMAIN old = Call
      /\ \A d \in Call : /\ Fields \subseteq DOMAIN old[d]
                         /\ old[d].id = call[d].id /\ old[d].pc = call[d].pc
                         /\ old[d].settled = call[d].settled
                         /\ \/ old[d].promise = call[d].promise
                            \/ /\ id \in DOMAIN inbox.callbacks /\ d = inbox.callbacks[id]
                               /\ \A p \in old[d].promise : p.from = "none"
  <2>1. CASE old = call
    BY <2>1, Zenon DEF IInv, Shape
  <2>2. CASE id \in DOMAIN inbox.callbacks /\ old # call
    <3> DEFINE d == inbox.callbacks[id]
               e == [call[d] EXCEPT !.promise = {[result |-> Throws(Exception("future_error")), from |-> "none"]}]
    <3>1. d \in Call
      BY <2>2, Zenon DEF IInv, Entries
    <3>2. old = [call EXCEPT ![d] = e]
      BY <2>2, Zenon DEF Broken
    <3>3. /\ Fields \subseteq DOMAIN e /\ e.id = call[d].id /\ e.pc = call[d].pc
          /\ e.settled = call[d].settled /\ \A p \in e.promise : p.from = "none"
      BY <3>1 DEF IInv, Shape, Fields
    <3> HIDE DEF d, e
    <3>4. old[d] = e /\ \A x \in Call \ {d} : old[x] = call[x]
      BY <3>1, <3>2, Zenon DEF IInv, Shape
    <3>5. DOMAIN old = Call
      BY <3>2, Zenon DEF IInv, Shape
    <3>6. \A x \in Call : Fields \subseteq DOMAIN call[x]
      BY Zenon DEF IInv, Shape
    <3>7. d = inbox.callbacks[id]
      BY Zenon DEF d
    <3> HIDE DEF old
    <3> QED
      BY <2>2, <3>3, <3>4, <3>5, <3>6, <3>7, Zenon
  <2> QED
    BY <2>1, <2>2, Zenon
<1> DEFINE e == [old[c] EXCEPT !.pc = "sending"]
<1>4. call' = [old EXCEPT ![c] = e]
  BY <1>1, Zenon
<1> HIDE DEF old
<1>5. /\ Fields \subseteq DOMAIN e /\ e.pc = "sending" /\ e.id = call[c].id
      /\ e.settled = call[c].settled /\ e.promise = old[c].promise
  BY <1>3, Zenon DEF Fields
<1> HIDE DEF e
<1>6. call'[c] = e /\ DOMAIN call' = Call /\ \A d \in Call \ {c} : call'[d] = old[d]
  BY <1>3, <1>4, Zenon
<1>7. Fresh(c) /\ ~Started(c)
  BY <1>1, Zenon DEF IInv, Unstarted, Started
<1>8. \A i \in DOMAIN inbox.callbacks : inbox.callbacks[i] # c
  BY <1>7, Zenon DEF IInv, Entries
<1>9. Started(c)' /\ Fresh(c)'
  BY <1>3, <1>5, <1>6, <1>7, <1>8, Zenon DEF Started, Fresh
<1>10. \A d \in Call : call'[d].id = call[d].id
  BY <1>3, <1>5, <1>6, Zenon
<1>11. \A d \in Call \ {c} : /\ Started(d)' <=> Started(d)
                             /\ Fresh(d) /\ ~Fresh(d)' =>
                                  id \in DOMAIN inbox.callbacks /\ d = inbox.callbacks[id]
  BY <1>3, <1>6 DEF Started, Fresh
<1>12. /\ DOMAIN inbox'.callbacks = DOMAIN inbox.callbacks \cup {id}
       /\ inbox'.callbacks[id] = c
       /\ \A i \in DOMAIN inbox.callbacks \ {id} : inbox'.callbacks[i] = inbox.callbacks[i]
  BY <1>2, Zenon DEF Put
<1>13. Shape'
  BY <1>1, <1>2, <1>3, <1>5, <1>6, Zenon DEF IInv, Shape
<1>14. Unstarted'
  <2> SUFFICES ASSUME NEW d \in Call, ~Started(d)'
               PROVE  (Fresh(d) /\ send[d] = "none" /\ todo[d] = 0)'
    BY Zenon DEF Unstarted
  <2>1. d # c /\ ~Started(d)
    BY <1>9, <1>11, Zenon
  <2>2. Fresh(d) /\ send[d] = "none" /\ todo[d] = 0
    BY <2>1, Zenon DEF IInv, Unstarted
  <2>3. Fresh(d)'
    BY <1>11, <2>1, <2>2, Zenon DEF IInv, Entries
  <2> QED
    BY <1>1, <2>1, <2>2, <2>3, Zenon DEF IInv, Shape
<1>15. Entries'
  <2>1. ASSUME NEW i \in DOMAIN inbox'.callbacks
        PROVE  \E d \in Call : inbox'.callbacks[i] = d /\ Started(d)' /\ Fresh(d)' /\ call'[d].id = i
    <3>1. CASE i = id
      BY <1>9, <1>10, <1>12, <3>1, Zenon
    <3>2. CASE i # id
      <4>1. i \in DOMAIN inbox.callbacks
        BY <1>12, <3>2, Zenon
      <4>2. PICK d \in Call : d = inbox.callbacks[i]
        BY <4>1, Zenon DEF IInv, Entries
      <4>3. d # c /\ Started(d) /\ Fresh(d) /\ call[d].id = i
        BY <1>8, <4>1, <4>2, Zenon DEF IInv, Entries
      <4>4. id \in DOMAIN inbox.callbacks => d # inbox.callbacks[id]
        BY <3>2, <4>3, Zenon DEF IInv, Entries
      <4>5. Started(d)' /\ Fresh(d)'
        BY <1>11, <4>3, <4>4, Zenon
      <4> QED
        BY <1>10, <1>12, <3>2, <4>1, <4>2, <4>3, <4>5, Zenon
    <3> QED
      BY <3>1, <3>2, Zenon
  <2> QED
    BY <2>1, Zenon DEF Entries
<1>16. Handled'
  BY <1>1, <1>2, <1>9, <1>10, <1>11, <1>12, Zenon DEF IInv, Handled
<1>17. Own'
  <2>1. \A d \in Call : Namesakes(d) \subseteq Namesakes(d)'
    <3>1. \A d \in Call : call[d].pc # "idle" => call'[d].pc # "idle"
      BY <1>3, <1>5, <1>6, Zenon
    <3> QED
      BY <1>10, <3>1, NamesakesStay, Zenon
  <2>2. \A d \in Call \ {c} : \A p \in call'[d].promise : p.from \in Namesakes(d) \cup {"none"}
    BY <1>3, <1>6 DEF IInv, Own
  <2>3. \A d \in Call \ {c} : call'[d].settled \in {0, 1}
    BY <1>3, <1>6 DEF IInv, Own
  <2> QED
    BY <1>9, <2>1, <2>2, <2>3, Zenon DEF Own, Fresh
<1> QED
  BY <1>13, <1>14, <1>15, <1>16, <1>17 DEF IInv

\* The callback in the entry of an id is called, and the entry erased.
LEMMA SettleStep ==
    ASSUME IInv, NEW i \in DOMAIN inbox.callbacks, NEW c, c = inbox.callbacks[i],
           NEW result, NEW from, from = "none" \/ (from \in Call /\ Started(from) /\ call[from].id = i),
           call' = Settled(call, c, result, from),
           {"ids", "next", "callbacks", "held"} \subseteq DOMAIN inbox',
           inbox'.callbacks = Drop(inbox.callbacks, i), inbox'.held \subseteq inbox.held \ {i},
           handler' \subseteq handler, UNCHANGED todo,
           DOMAIN send' = Call, \A d \in Call : ~Started(d) => send'[d] = send[d]
    PROVE  IInv'
<1>1. c \in Call /\ Started(c) /\ Fresh(c) /\ call[c].id = i
  BY Zenon DEF IInv, Entries
<1> DEFINE e == [call[c] EXCEPT !.promise = {[result |-> result, from |-> from]}, !.settled = @ + 1]
<1>2. call' = [call EXCEPT ![c] = e]
  BY <1>1, Zenon DEF Settled, IInv, Shape
<1>3. /\ Fields \subseteq DOMAIN e /\ e.pc = call[c].pc /\ e.id = call[c].id
      /\ e.settled = 1 /\ \A p \in e.promise : p.from = from
  BY <1>1 DEF IInv, Shape, Fields, Fresh
<1> HIDE DEF e
<1>4. call'[c] = e /\ DOMAIN call' = Call /\ \A d \in Call \ {c} : call'[d] = call[d]
  BY <1>1, <1>2, Zenon DEF IInv, Shape
<1>5. \A d \in Call : call'[d].id = call[d].id /\ call'[d].pc = call[d].pc
  BY <1>3, <1>4, Zenon
<1>6. \A d \in Call : Started(d)' <=> Started(d)
  BY <1>5, Zenon DEF Started
<1>7. \A d \in Call \ {c} : Fresh(d)' <=> Fresh(d)
  BY <1>4, Zenon DEF Fresh
<1>8. /\ DOMAIN inbox'.callbacks = DOMAIN inbox.callbacks \ {i}
      /\ \A k \in DOMAIN inbox'.callbacks : inbox'.callbacks[k] = inbox.callbacks[k]
  BY Zenon DEF Drop, Restrict
<1>9. Shape'
  BY <1>3, <1>4, Zenon DEF IInv, Shape
<1>10. Unstarted'
  BY <1>1, <1>6, <1>7, Zenon DEF IInv, Unstarted
<1>11. Entries'
  <2>1. ASSUME NEW k \in DOMAIN inbox'.callbacks
        PROVE  \E d \in Call : inbox'.callbacks[k] = d /\ Started(d)' /\ Fresh(d)' /\ call'[d].id = k
    <3>1. k \in DOMAIN inbox.callbacks /\ k # i
      BY <1>8, Zenon
    <3>2. PICK d \in Call : d = inbox.callbacks[k]
      BY <3>1, Zenon DEF IInv, Entries
    <3>3. Started(d) /\ Fresh(d) /\ call[d].id = k
      BY <3>1, <3>2, Zenon DEF IInv, Entries
    <3>4. d # c
      BY <1>1, <3>1, <3>3, Zenon
    <3> QED
      BY <1>5, <1>6, <1>7, <1>8, <3>2, <3>3, <3>4, Zenon
  <2> QED
    BY <2>1 DEF Entries
<1>12. Handled'
  <2>1. inbox'.held \subseteq DOMAIN inbox'.callbacks
    BY <1>8, Zenon DEF IInv, Handled
  <2>2. ASSUME NEW m \in handler'
        PROVE  m.for \in Call /\ Started(m.for) /\ m.id = call[m.for].id /\ inbox'.held \subseteq {m.id}
    BY <2>2, Zenon DEF IInv, Handled
  <2>3. ASSUME NEW m \in handler'
        PROVE  Started(m.for)' /\ m.id = call'[m.for].id
    BY <1>5, <1>6, <2>2
  <2> QED
    BY <2>1, <2>2, <2>3, Zenon DEF Handled
<1>13. Own'
  <2>1. \A d \in Call : Namesakes(d) \subseteq Namesakes(d)'
    BY <1>5, NamesakesStay, Zenon
  <2>2. from \in Namesakes(c) \cup {"none"}
    BY <1>1, Zenon DEF Namesakes, Started
  <2>3. \A d \in Call : call'[d].settled \in {0, 1}
    BY <1>3, <1>4 DEF IInv, Own
  <2>4. \A d \in Call : \A p \in call'[d].promise : p.from \in Namesakes(d) \cup {"none"}
    BY <1>3, <1>4, <2>2 DEF IInv, Own
  <2> QED
    BY <2>1, <2>3, <2>4, Zenon DEF Own
<1> QED
  BY <1>9, <1>10, <1>11, <1>12, <1>13, Zenon DEF IInv

LEMMA FailStep ==
    ASSUME IInv, NEW c \in Call, SendFails(c)
    PROVE  IInv'
<1> DEFINE id == call[c].id
<1>1. /\ send[c] = "sending" /\ send' = [send EXCEPT ![c] = "over"]
      /\ id \notin inbox.held /\ UNCHANGED <<todo, handler>>
  BY Zenon DEF SendFails
<1>2. Started(c)
  BY <1>1, Zenon DEF IInv, Unstarted
<1>3. DOMAIN send' = Call /\ \A d \in Call \ {c} : send'[d] = send[d]
  BY <1>1, Zenon DEF IInv, Shape
<1>4. CASE id \in DOMAIN inbox.callbacks
  <2>1. PICK error : call' = Settled(call, inbox.callbacks[id], Throws(error), "none")
    BY <1>4, Zenon DEF SendFails
  <2>2. /\ {"ids", "next", "callbacks", "held"} \subseteq DOMAIN inbox'
        /\ inbox'.callbacks = Drop(inbox.callbacks, id)
        /\ inbox'.held = inbox.held
    BY <1>4, Zenon DEF SendFails, IInv, Shape
  <2> HIDE DEF id
  <2> QED
    BY <1>1, <1>2, <1>3, <1>4, <2>1, <2>2, SettleStep, Zenon
<1>5. CASE id \notin DOMAIN inbox.callbacks
  <2>1. UNCHANGED <<call, inbox>>
    BY <1>5, Zenon DEF SendFails
  <2>2. Shape'
    BY <1>1, <1>3, <2>1, Zenon DEF IInv, Shape
  <2>3. Entries' /\ Own' /\ Handled' /\ \A d \in Call : Started(d)' <=> Started(d)
    BY <1>1, <2>1, <2>2, QuietStep, Zenon DEF Started
  <2>4. Unstarted'
    BY <1>1, <1>2, <1>3, <2>1, <2>3, Zenon DEF IInv, Unstarted, Fresh
  <2> QED
    BY <2>2, <2>3, <2>4, Zenon DEF IInv
<1> QED
  BY <1>4, <1>5, Zenon

LEMMA AnswerStep ==
    ASSUME IInv, Answer
    PROVE  IInv'
<1>1. PICK m \in handler :
        /\ handler' = {}
        /\ IF inbox.held # {}
           THEN /\ call' = Settled(call, inbox.callbacks[m.id],
                                   AnswerTo(Requests[inbox.callbacks[m.id]], m.body), m.for)
                /\ inbox' = [inbox EXCEPT !.callbacks = Drop(@, m.id), !.held = {}]
           ELSE UNCHANGED <<call, inbox>>
        /\ UNCHANGED <<send, todo>>
  BY Zenon DEF Answer
<1>2. CASE inbox.held # {}
  <2>1. m.id \in DOMAIN inbox.callbacks /\ m.for \in Call /\ Started(m.for) /\ call[m.for].id = m.id
    BY <1>2, Zenon DEF IInv, Handled
  <2>2. /\ {"ids", "next", "callbacks", "held"} \subseteq DOMAIN inbox'
        /\ inbox'.callbacks = Drop(inbox.callbacks, m.id)
        /\ inbox'.held = {}
    BY <1>1, <1>2, Zenon DEF IInv, Shape
  <2>3. /\ call' = Settled(call, inbox.callbacks[m.id],
                           AnswerTo(Requests[inbox.callbacks[m.id]], m.body), m.for)
        /\ handler' = {} /\ UNCHANGED <<send, todo>>
    BY <1>1, <1>2, Zenon
  <2>4. DOMAIN send' = Call
    BY <2>3, Zenon DEF IInv, Shape
  <2> QED
    BY <2>1, <2>2, <2>3, <2>4, SettleStep, Zenon
<1>3. CASE inbox.held = {}
  <2>1. UNCHANGED <<call, inbox, send, todo>> /\ handler' = {}
    BY <1>1, <1>3, Zenon
  <2>2. Shape'
    BY <2>1, Zenon DEF IInv, Shape
  <2>3. Entries' /\ Own'
    BY <2>1, <2>2, QuietStep, Zenon DEF Started
  <2>4. Unstarted'
    BY <2>1, Zenon DEF IInv, Unstarted, Started, Fresh
  <2>5. Handled'
    BY <2>1, Zenon DEF IInv, Handled
  <2> QED
    BY <2>2, <2>3, <2>4, <2>5, Zenon DEF IInv
<1> QED
  BY <1>2, <1>3, Zenon

LEMMA NextIInv == IInv /\ [Next]_vars => IInv'
<1> SUFFICES ASSUME IInv, [Next]_vars PROVE IInv'
    BY Zenon
<1>1. ASSUME UNCHANGED <<inbox, call, send, todo, handler>>
      PROVE  IInv'
  <2>1. Shape'
    BY <1>1, Zenon DEF IInv, Shape
  <2>2. Entries' /\ Own' /\ Handled'
    BY <1>1, <2>1, QuietStep, Zenon DEF Started
  <2>3. Unstarted'
    BY <1>1, Zenon DEF IInv, Unstarted, Started, Fresh
  <2> QED
    BY <2>1, <2>2, <2>3, Zenon DEF IInv
<1>2. CASE UNCHANGED vars
  BY <1>1, <1>2, Zenon DEF vars
<1>3. CASE Outage \/ Reconnects
  BY <1>1, <1>3, Zenon DEF Outage, Reconnects
<1>4. CASE Answer
  BY <1>4, AnswerStep, Zenon
<1>5. ASSUME NEW c \in Call, CallStep(c)
      PROVE  IInv'
  BY <1>5, NumberStep, InsertStep, ThreadStep, WireStep, FailStep, TakeStep, Zenon DEF CallStep
<1> QED
  BY <1>2, <1>3, <1>4, <1>5, Zenon DEF Next

------------------------------------------------------------------------------
(* What a call ends with.                                                  *)

Failed(result) == result.ok = FALSE /\ Wrap(result.error) # 0

\* A promise is broken, or the send failed; or the provider answered some call.
Given(c, p) ==
    \/ /\ p.from = "none"
       /\ \E error \in SendErrors \cup {Exception("future_error")} : p.result = Throws(error)
    \/ /\ p.from \in Call
       /\ \E body \in {Values[p.from], Refusal(p.from)} : p.result = AnswerTo(Requests[c], body)

\* A promise is what was given for it, and so is the message being handled.
Promised ==
    /\ \A c \in Call : \A p \in call[c].promise : Given(c, p)
    /\ \A m \in handler : m.for \in Call /\ m.body \in {Values[m.for], Refusal(m.for)}

\* The end of a wait: its timeout, an interrupt or the promise, which then stays what it is.
Ended ==
    \A c \in Call : call[c].future /\ call[c].pc = "returned" =>
        \/ call[c].errno \in {Errc.ETIMEDOUT, Errc.ECANCELED}
        \/ \E p \in call[c].promise : call[c].errno = ErrnoOf(p.result)

LEMMA EnoentIsNoSuccess == Status("enoent") = 2
<1>1. <<"enoent", 2>> \in Range(Pairs)
  <2>1. 3 \in DOMAIN Pairs /\ Pairs[3] = <<"enoent", 2>>
    BY DEF Pairs
  <2> QED
    BY <2>1, Zenon DEF Range
<1>2. \A v : <<"enoent", v>> \in Range(Pairs) => v = 2
  <2> SUFFICES ASSUME NEW v, <<"enoent", v>> \in Range(Pairs) PROVE v = 2
    BY Zenon
  <2>1. PICK i \in DOMAIN Pairs : Pairs[i] = <<"enoent", v>>
    BY Zenon DEF Range
  <2>2. i \in 1..9
    BY DEF Pairs
  <2>3. Pairs[i][1] = "enoent" /\ Pairs[i][2] = v
    BY <2>1
  <2> QED
    BY <2>2, <2>3 DEF Pairs
<1>3. "enoent" \in {p[1] : p \in Range(Pairs)} /\ 2 \in {p[2] : p \in Range(Pairs)}
  BY <1>1
<1>4. (CHOOSE v \in {p[2] : p \in Range(Pairs)} : <<"enoent", v>> \in Range(Pairs)) = 2
  BY <1>1, <1>2, <1>3, Zenon
<1>5. "enoent" \in DOMAIN Translation /\ Translation["enoent"] = 2
  BY <1>3, <1>4, Zenon DEF Translation
<1> QED
  BY <1>5, Zenon DEF Status

\* No request takes a refusal for a success.
LEMMA RefusalFails ==
    ASSUME NEW c \in Call, NEW d \in Call
    PROVE  Failed(AnswerTo(Requests[c], Refusal(d)))
<1> DEFINE m == Refusal(d)
<1>1. m.status = "enoent"
  BY CallAssumption, Zenon DEF Refusal
<1>2. Failed(ProtocolError)
  BY DEF Failed, ProtocolError, Throws, GenericError, Errc, Wrap
<1>3. Failed(ThrowOnError(Status(m.status)))
  BY <1>1, EnoentIsNoSuccess DEF Failed, ThrowOnError, Throws, Wrap
<1> HIDE DEF m
<1>4. Failed(FuseResponse(m)) /\ Failed(ProxyIOResponse(m))
  BY <1>2, <1>3, Zenon DEF FuseResponse, ProxyIOResponse
<1>5. \A field : FuseField(m, field) = FuseResponse(m)
  BY <1>4, Zenon DEF FuseField, Then, Failed
<1>6. Failed(FileAttr(m)) /\ Failed(FileChildren(m)) /\ Failed(FileRenamed(m))
  BY <1>4, <1>5 DEF FileAttr, FileChildren, FileRenamed, Failed
<1>7. Failed(FileLocation(m)) /\ Failed(HelperParams(m))
  BY <1>4, <1>5 DEF FileLocation, HelperParams, Failed
<1>8. Failed(RemoteData(m)) /\ Failed(RemoteWriteResult(m))
  BY <1>4, Zenon DEF RemoteData, RemoteWriteResult, Then, Failed
<1>9. Failed(Checksum(m))
  <2>1. CASE m.kind = "fuse_response"
    <3>1. StatusOf(m, "fuse_response") = Status(m.status)
      BY <2>1, Zenon DEF StatusOf
    <3> QED
      BY <1>3, <3>1, Zenon DEF Checksum, Then, Failed
  <2>2. CASE m.kind # "fuse_response"
    <3>1. FieldOf(m, "fuse_response", "checksum") = ProtocolError
      BY <2>2, Zenon DEF FieldOf
    <3>2. Status("ok") = 0 \/ Failed(ThrowOnError(Status("ok")))
      BY Zenon DEF ThrowOnError, Failed, Throws, Wrap
    <3> QED
      BY <1>2, <2>2, <3>1, <3>2, Zenon DEF Checksum, StatusOf, Then, Failed, ThrowOnError, Value
  <2> QED
    BY <2>1, <2>2, Zenon
<1>10. Failed(AnswerTo(Requests[c], m))
  BY <1>4, <1>6, <1>7, <1>8, <1>9, CallAssumption, Zenon DEF AnswerTo
<1> QED
  BY <1>10, Zenon DEF m

\* A promise is set once, and a call ends as it does.
Goes(d) ==
    /\ call'[d].future = call[d].future
    /\ \/ call'[d].promise = call[d].promise
       \/ call[d].promise = {} /\ \A p \in call'[d].promise : Given(d, p)
    /\ call'[d].future /\ call'[d].pc = "returned" =>
        \/ call[d].pc = "returned" /\ call'[d].errno = call[d].errno
        \/ call'[d].errno \in {Errc.ETIMEDOUT, Errc.ECANCELED}
        \/ \E p \in call[d].promise : call'[d].errno = ErrnoOf(p.result)

LEMMA EndStep ==
    ASSUME Promised, Ended, \A d \in Call : Goes(d),
           \A m \in handler' \ handler : m.for \in Call /\ m.body \in {Values[m.for], Refusal(m.for)}
    PROVE  Promised' /\ Ended'
<1>1. ASSUME NEW d \in Call, NEW p \in call'[d].promise
      PROVE  Given(d, p)
  BY <1>1, Zenon DEF Goes, Promised
<1>2. Promised'
  BY <1>1, Zenon DEF Promised
<1>3. ASSUME NEW d \in Call, call'[d].future, call'[d].pc = "returned"
      PROVE  \/ call'[d].errno \in {Errc.ETIMEDOUT, Errc.ECANCELED}
             \/ \E p \in call'[d].promise : call'[d].errno = ErrnoOf(p.result)
  <2>1. call[d].future = call'[d].future
    BY Zenon DEF Goes
  <2>2. \/ call'[d].errno \in {Errc.ETIMEDOUT, Errc.ECANCELED}
        \/ \E p \in call[d].promise : call'[d].errno = ErrnoOf(p.result)
    BY <1>3, <2>1 DEF Goes, Ended
  <2>3. \A p \in call[d].promise : p \in call'[d].promise
    BY Zenon DEF Goes
  <2> QED
    BY <2>2, <2>3, Zenon
<1>4. Ended'
  BY <1>3, Zenon DEF Ended
<1> QED
  BY <1>2, <1>4, Zenon

\* A callback is called: with an error of send() or with what was answered.
LEMMA SettleGives ==
    ASSUME IInv, NEW i \in DOMAIN inbox.callbacks, NEW c, c = inbox.callbacks[i],
           NEW result, NEW from, call' = Settled(call, c, result, from),
           Given(c, [result |-> result, from |-> from])
    PROVE  \A d \in Call : Goes(d)
<1>1. c \in Call /\ Fresh(c)
  BY Zenon DEF IInv, Entries
<1> DEFINE e == [call[c] EXCEPT !.promise = {[result |-> result, from |-> from]}, !.settled = @ + 1]
<1>2. call' = [call EXCEPT ![c] = e]
  BY <1>1, Zenon DEF Settled, IInv, Shape
<1>3. /\ e.future = call[c].future /\ e.pc = call[c].pc /\ e.errno = call[c].errno
      /\ e.promise = {[result |-> result, from |-> from]}
  BY <1>1, Zenon DEF IInv, Shape, Fields
<1> HIDE DEF e
<1>4. call'[c] = e /\ \A d \in Call \ {c} : call'[d] = call[d]
  BY <1>1, <1>2, Zenon DEF IInv, Shape
<1>5. Goes(c)
  BY <1>1, <1>3, <1>4 DEF Goes, Fresh
<1>6. \A d \in Call \ {c} : Goes(d)
  BY <1>4, Zenon DEF Goes
<1> QED
  BY <1>5, <1>6, Zenon

\* One call goes on; its promise stays.
LEMMA OneGoes ==
    ASSUME IInv, NEW c \in Call, NEW e, call' = [call EXCEPT ![c] = e],
           e.future = call[c].future, e.promise = call[c].promise,
           e.future /\ e.pc = "returned" =>
             \/ call[c].pc = "returned" /\ e.errno = call[c].errno
             \/ e.errno \in {Errc.ETIMEDOUT, Errc.ECANCELED}
             \/ \E p \in call[c].promise : e.errno = ErrnoOf(p.result)
    PROVE  \A d \in Call : Goes(d)
<1>1. call'[c] = e /\ \A d \in Call \ {c} : call'[d] = call[d]
  BY Zenon DEF IInv, Shape
<1> QED
  BY <1>1 DEF Goes

LEMMA WaitGoes ==
    ASSUME IInv, NEW c \in Call, WaitStep(c) \/ WaitInterrupted(c)
    PROVE  \A d \in Call : Goes(d)
<1>1. PICK errno : /\ Return(c, errno)
                   /\ \/ errno \in {Errc.ETIMEDOUT, Errc.ECANCELED}
                      \/ call[c].promise # {} /\ errno = ErrnoOf(The(call[c].promise).result)
  BY Zenon DEF WaitStep, WaitInterrupted, WaitTimesOut, WaitReturns
<1>2. call[c].promise # {} => The(call[c].promise) \in call[c].promise
  BY Zenon DEF The
<1>3. \/ errno \in {Errc.ETIMEDOUT, Errc.ECANCELED}
      \/ \E p \in call[c].promise : errno = ErrnoOf(p.result)
  BY <1>1, <1>2, Zenon
<1> DEFINE e == [call[c] EXCEPT !.pc = "returned", !.errno = errno]
<1>4. call' = [call EXCEPT ![c] = e]
  BY <1>1, Zenon DEF Return, IInv, Shape
<1>5. e.future = call[c].future /\ e.promise = call[c].promise /\ e.errno = errno
  BY Zenon DEF IInv, Shape, Fields
<1> HIDE DEF e
<1> QED
  BY <1>3, <1>4, <1>5, OneGoes, Zenon

LEMMA StartGoes ==
    ASSUME IInv, NEW c \in Call, Number(c) \/ Pop(c)
    PROVE  \A d \in Call : Goes(d)
<1>1. CASE Number(c)
  <2> DEFINE e == [call[c] EXCEPT !.pc = "numbered", !.id = inbox.next]
  <2>1. call' = [call EXCEPT ![c] = e]
    BY <1>1, Zenon DEF Number, IInv, Shape
  <2>2. e.future = call[c].future /\ e.promise = call[c].promise /\ e.pc = "numbered"
    BY Zenon DEF IInv, Shape, Fields
  <2> HIDE DEF e
  <2> QED
    BY <2>1, <2>2, OneGoes, Zenon
<1>2. CASE Pop(c)
  <2> DEFINE e == [call[c] EXCEPT !.pc = IF call[c].future THEN "waiting" ELSE "returned"]
  <2>1. call' = [call EXCEPT ![c] = e]
    BY <1>2, Zenon DEF Pop
  <2>2. /\ e.future = call[c].future /\ e.promise = call[c].promise
        /\ e.pc = IF call[c].future THEN "waiting" ELSE "returned"
    BY Zenon DEF IInv, Shape, Fields
  <2> HIDE DEF e
  <2> QED
    BY <2>1, <2>2, OneGoes, Zenon
<1> QED
  BY <1>1, <1>2, Zenon

\* The promise of the call whose entry is taken over is broken.
LEMMA InsertGoes ==
    ASSUME IInv, NEW c \in Call, Insert(c)
    PROVE  \A d \in Call : Goes(d)
<1> DEFINE id == call[c].id
           old == IF id \in DOMAIN inbox.callbacks THEN Broken(call, inbox.callbacks[id]) ELSE call
           broken == [result |-> Throws(Exception("future_error")), from |-> "none"]
<1>1. call' = [old EXCEPT ![c].pc = "sending"]
  BY Zenon DEF Insert
<1>2. Given(c, broken) /\ \A d \in Call : Given(d, broken)
  BY Zenon DEF Given
<1>3. /\ DOMAIN old = Call
      /\ \A d \in Call : /\ Fields \subseteq DOMAIN old[d]
                         /\ old[d].future = call[d].future /\ old[d].pc = call[d].pc
                         /\ old[d].errno = call[d].errno
                         /\ \/ old[d].promise = call[d].promise
                            \/ call[d].promise = {} /\ old[d].promise = {broken}
  <2>1. CASE old = call
    BY <2>1, Zenon DEF IInv, Shape
  <2>2. CASE id \in DOMAIN inbox.callbacks /\ old # call
    <3> DEFINE d == inbox.callbacks[id]
               e == [call[d] EXCEPT !.promise = {broken}]
    <3>1. d \in Call /\ call[d].promise = {}
      BY <2>2, Zenon DEF IInv, Entries, Fresh
    <3>2. old = [call EXCEPT ![d] = e]
      BY <2>2, Zenon DEF Broken
    <3>3. /\ Fields \subseteq DOMAIN e /\ e.future = call[d].future /\ e.pc = call[d].pc
          /\ e.errno = call[d].errno /\ e.promise = {broken}
      BY <3>1, Zenon DEF IInv, Shape, Fields
    <3> HIDE DEF d, e, broken
    <3>4. old[d] = e /\ \A x \in Call \ {d} : old[x] = call[x]
      BY <3>1, <3>2, Zenon DEF IInv, Shape
    <3>5. DOMAIN old = Call /\ \A x \in Call : Fields \subseteq DOMAIN call[x]
      BY <3>2, Zenon DEF IInv, Shape
    <3> HIDE DEF old
    <3> QED
      BY <3>1, <3>3, <3>4, <3>5, Zenon
  <2> QED
    BY <2>1, <2>2, Zenon
<1> HIDE DEF old, broken
<1> DEFINE e == [old[c] EXCEPT !.pc = "sending"]
<1>4. call' = [old EXCEPT ![c] = e]
  BY <1>1, Zenon
<1>5. e.future = old[c].future /\ e.promise = old[c].promise /\ e.pc = "sending"
  BY <1>3, Zenon DEF Fields
<1> HIDE DEF e
<1>6. call'[c] = e /\ \A d \in Call \ {c} : call'[d] = old[d]
  BY <1>3, <1>4, Zenon
<1>7. Goes(c)
  BY <1>2, <1>3, <1>5, <1>6 DEF Goes
<1>8. \A d \in Call \ {c} : Goes(d)
  BY <1>2, <1>3, <1>6 DEF Goes
<1> QED
  BY <1>7, <1>8, Zenon

LEMMA NextEnded == IInv /\ Promised /\ Ended /\ [Next]_vars => Promised' /\ Ended'
<1> SUFFICES ASSUME IInv, Promised, Ended, [Next]_vars PROVE Promised' /\ Ended'
    BY Zenon
<1>1. ASSUME UNCHANGED call PROVE \A d \in Call : Goes(d)
  BY <1>1, Zenon DEF Goes
<1>2. CASE UNCHANGED vars
  BY <1>1, <1>2, EndStep, Zenon DEF vars
<1>3. CASE Outage \/ Reconnects
  BY <1>1, <1>3, EndStep, Zenon DEF Outage, Reconnects
<1>4. CASE Answer
  <2>1. PICK m \in handler :
          /\ handler' = {}
          /\ IF inbox.held # {}
             THEN call' = Settled(call, inbox.callbacks[m.id],
                                  AnswerTo(Requests[inbox.callbacks[m.id]], m.body), m.for)
             ELSE UNCHANGED call
    BY <1>4, Zenon DEF Answer
  <2>2. CASE inbox.held # {}
    <3>1. m.id \in DOMAIN inbox.callbacks
      BY <2>2, Zenon DEF IInv, Handled
    <3>2. PICK c : c = inbox.callbacks[m.id]
      BY Zenon
    <3>3. Given(c, [result |-> AnswerTo(Requests[c], m.body), from |-> m.for])
      BY Zenon DEF Given, Promised
    <3>4. \A d \in Call : Goes(d)
      BY <2>1, <2>2, <3>1, <3>2, <3>3, SettleGives, Zenon
    <3> QED
      BY <2>1, <3>4, EndStep, Zenon
  <2>3. CASE inbox.held = {}
    BY <1>1, <2>1, <2>3, EndStep, Zenon
  <2> QED
    BY <2>2, <2>3, Zenon
<1>5. ASSUME NEW c \in Call, CallStep(c)
      PROVE  Promised' /\ Ended'
  <2>1. CASE Number(c) \/ Pop(c)
    <3>1. UNCHANGED handler
      BY <2>1, Zenon DEF Number, Pop
    <3> QED
      BY <2>1, <3>1, StartGoes, EndStep, Zenon
  <2>2. CASE Insert(c)
    <3>1. UNCHANGED handler
      BY <2>2, Zenon DEF Insert
    <3> QED
      BY <2>2, <3>1, InsertGoes, EndStep, Zenon
  <2>3. CASE WaitStep(c) \/ WaitInterrupted(c)
    <3>1. UNCHANGED handler
      BY <2>3, Zenon DEF WaitStep, WaitInterrupted, WaitTimesOut, WaitReturns, Return
    <3> QED
      BY <2>3, <3>1, WaitGoes, EndStep, Zenon
  <2>4. CASE Arrive(c) \/ SendEnds(c) \/ DropMessage(c)
    <3>1. UNCHANGED <<call, handler>>
      BY <2>4, Zenon DEF Arrive, SendEnds, DropMessage
    <3> QED
      BY <1>1, <3>1, EndStep, Zenon
  <2>5. CASE SendFails(c)
    <3> DEFINE id == call[c].id
    <3>1. UNCHANGED handler
      BY <2>5, Zenon DEF SendFails
    <3>2. CASE id \in DOMAIN inbox.callbacks
      <4>1. PICK error \in SendErrors : call' = Settled(call, inbox.callbacks[id], Throws(error), "none")
        BY <2>5, <3>2, Zenon DEF SendFails
      <4>2. \A d : Given(d, [result |-> Throws(error), from |-> "none"])
        BY Zenon DEF Given
      <4> HIDE DEF id
      <4>3. \A d \in Call : Goes(d)
        BY <3>2, <4>1, <4>2, SettleGives, Zenon
      <4> QED
        BY <3>1, <4>3, EndStep, Zenon
    <3>3. CASE id \notin DOMAIN inbox.callbacks
      BY <1>1, <2>5, <3>1, <3>3, EndStep, Zenon DEF SendFails
    <3> QED
      BY <3>2, <3>3, Zenon
  <2>6. CASE TakeMessage(c)
    <3>1. UNCHANGED call
      BY <2>6, Zenon DEF TakeMessage
    <3>2. PICK body \in {Values[c], Refusal(c)} : handler' = {Message(call[c].id, c, body)}
      BY <2>6, Zenon DEF TakeMessage
    <3>3. \A m \in handler' : m.for = c /\ m.body = body
      BY <3>2 DEF Message
    <3> QED
      BY <1>1, <3>1, <3>3, EndStep, Zenon
  <2> QED
    BY <1>5, <2>1, <2>2, <2>3, <2>4, <2>5, <2>6, Zenon DEF CallStep
<1> QED
  BY <1>2, <1>3, <1>4, <1>5, Zenon DEF Next

------------------------------------------------------------------------------
(* Theorems.                                                               *)

\* For any number of concurrent calls, ids and retries: the callback of a communicate() is
\* called at most once, and the answer that ends the call is the answer to its own request,
\* unless another call was given the same id (Inbox, Translator).
THEOREM AnswersReachTheirCalls == Spec => []AnswersAreOwn
<1>1. ASSUME IInv, NEW c \in Call, ~Shared(c)
      PROVE  call[c].settled \in {0, 1} /\ \A p \in call[c].promise : p.from \in {c, "none"}
  BY <1>1, Zenon DEF IInv, Own, Shared, Namesakes
<1>2. IInv => AnswersAreOwn
  BY <1>1 DEF AnswersAreOwn
<1> QED
  BY InitIInv, NextIInv, <1>2, PTL DEF Spec

\* For any requests whose answers are taken by their status, and any answers: a file operation
\* that waits for its answer succeeds only when the provider has accepted its request or, when
\* its id was given out again, one with the same id; and "no such file" is the provider's word
\* on such a request or the end of the stream (Translator::communicate(), wait(),
\* fsOperations.cc).
THEOREM SuccessComesFromTheProvider == Spec => []SuccessIsProviders
<1>1. Init => Promised /\ Ended
  BY DEF Init, Promised, Ended
<1>2. ASSUME IInv, Promised, Ended, NEW c \in Call, call[c].future, call[c].pc = "returned"
      PROVE  /\ call[c].errno = 0 =>
                  \E p \in call[c].promise : /\ p.from \in Namesakes(c)
                                            /\ p.result = AnswerTo(Requests[c], Values[p.from])
             /\ call[c].errno = Errc.ENOENT =>
                  \E p \in call[c].promise : p.from \in Namesakes(c) \/ p.result.error = EndOfFile
  <2>1. CASE call[c].errno \in {Errc.ETIMEDOUT, Errc.ECANCELED}
    BY <2>1 DEF Errc
  <2>2. ASSUME NEW p \in call[c].promise, call[c].errno = ErrnoOf(p.result)
        PROVE  /\ call[c].errno = 0 => /\ p.from \in Namesakes(c)
                                       /\ p.result = AnswerTo(Requests[c], Values[p.from])
               /\ call[c].errno = Errc.ENOENT => p.from \in Namesakes(c) \/ p.result.error = EndOfFile
    <3>1. CASE p.from = "none"
      <4>1. PICK error \in SendErrors \cup {Exception("future_error")} : p.result = Throws(error)
        BY <1>2, <3>1, CallAssumption, Zenon DEF Promised, Given
      <4>2. p.result.ok = FALSE /\ p.result.error = error
        BY <4>1 DEF Throws
      <4>3. Wrap(error) \in {2, 107, 5} /\ (Wrap(error) = 2 => error = EndOfFile)
        BY DEF SendErrors, Exception, EndOfFile, GenericError, Errc, Wrap
      <4> QED
        BY <2>2, <4>2, <4>3 DEF ErrnoOf, Errc
    <3>2. CASE p.from # "none"
      <4>1. PICK body \in {Values[p.from], Refusal(p.from)} : p.result = AnswerTo(Requests[c], body)
        BY <1>2, <3>2, Zenon DEF Promised, Given
      <4>2. p.from \in Call
        BY <1>2, <3>2, Zenon DEF Promised, Given
      <4>3. p.from \in Namesakes(c)
        BY <1>2, <3>2, Zenon DEF IInv, Own
      <4>4. CASE body = Refusal(p.from)
        <5>1. Failed(p.result)
          BY <4>1, <4>2, <4>4, RefusalFails, Zenon
        <5> QED
          BY <2>2, <4>3, <5>1, Zenon DEF Failed, ErrnoOf
      <4> QED
        BY <4>1, <4>3, <4>4, Zenon
    <3> QED
      BY <3>1, <3>2, Zenon
  <2> QED
    BY <1>2, <2>1, <2>2, Zenon DEF Ended
<1>3. IInv /\ Promised /\ Ended => SuccessIsProviders
  BY <1>2, Zenon DEF SuccessIsProviders
<1> QED
  BY InitIInv, NextIInv, NextEnded, <1>1, <1>3, PTL DEF Spec
===============================================================================
