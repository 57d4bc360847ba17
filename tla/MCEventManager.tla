---------------------------- MODULE MCEventManager ----------------------------
(***************************************************************************)
(* A small instance of the event streams, and their properties.            *)
(***************************************************************************)
EXTENDS EventManager

MCBlocks == {<<0, 2>>}

MCUpdates ==
    {[stream |-> "fileAttr", fileUuid |-> "f", wrapped |-> 1],
     [stream |-> "fileLocation", fileUuid |-> "f", wrapped |-> 1],
     [stream |-> "permissionChanged", fileUuid |-> "f"],
     [stream |-> "fileRemoval", fileUuid |-> "f"],
     [stream |-> "quotaExeeded", spaces |-> {"space"}],
     [stream |-> "fileRenamed", topEntry |-> [oldUuid |-> "f", newUuid |-> "g"],
      childEntries |-> <<>>]}

Sub(st, id, counter, time, size) ==
    [stream |-> st, id |-> id, counterThreshold |-> counter,
     timeThreshold |-> time, sizeThreshold |-> size]

MCServerSubs ==
    {Sub("write", 1, {2}, {}, {}), Sub("write", 2, {}, {5}, {}), Sub("write", 3, {}, {4}, {4}),
     Sub("read", 4, {}, {5}, {3}), Sub("fileAccessed", 5, {2}, {5}, {})}

MCCancelled == {1, 2, 4}

Uses(container, names, events, server, client) ==
    [container |-> container, streams |-> names, events |-> events, server |-> server,
     client |-> client]

MCWorkloads ==
    {Uses({Sub("write", 1, {2}, {}, {})}, {"write"}, 3, 1, 0),
     Uses({Sub("write", 1, {2}, {}, {})}, {"write"}, 1, 2, 0),
     Uses({}, {"read"}, 2, 2, 0),
     Uses({Sub("fileAccessed", 6, {}, {5}, {})}, {"fileAccessed"}, 2, 1, 0),
     Uses({}, {"fileAttr", "fileLocation"}, 2, 0, 2),
     Uses({}, {"permissionChanged", "fileRemoval", "quotaExeeded", "fileRenamed"}, 1, 0, 1)}

\* Every event accepted by a buffer is still in it or was emitted, once, however
\* subscriptions come and go (EventBufferMap flushes when it is replaced); and what
\* the provider sends is handled when it is processed, never held back, since the
\* client's own subscriptions have threshold one.
EventsConserved ==
    /\ \A st \in Streams \ {"quotaExeeded"} :
        accepted[st] = Batch(streams[st].buffer) + streams[st].emitted
    /\ \A st \in Streams \ SentToProvider : DOMAIN streams[st].buffer = {}

\* The unsubscribe handlers that did not run yet: registered, or in a queue.
Handlers(st) ==
    {registry[id] : id \in {i \in DOMAIN registry : registry[i].stream = st}}

Undo(st) ==
    {i \in DOMAIN streams[st].queue : streams[st].queue[i].job = "unsubscribe"}

Owners(st, owns(_)) ==
    Cardinality({h \in Handlers(st) : owns(h.sub)})
    + Cardinality({i \in Undo(st) : owns(streams[st].queue[i].handler.sub)})

Owned(st, bag, thresholds(_)) ==
    \A t \in BagToSet(bag) \cup UNION {thresholds(h.sub) : h \in Handlers(st)} :
        CopiesIn(t, bag) = Owners(st, LAMBDA sub : t \in thresholds(sub))

\* Every threshold in a layer belongs to exactly one unsubscribe handler that has
\* yet to run, so that the erase of a threshold always finds it.
ThresholdsHaveOwners ==
    \A st \in Streams :
        LET s == streams[st] IN
        /\ Owned(st, s.counterThresholds, LAMBDA sub : sub.counterThreshold)
        /\ Owned(st, s.sizeThresholds, LAMBDA sub : sub.sizeThreshold)
        /\ Owned(st, s.timeThresholds, LAMBDA sub : sub.timeThreshold)

\* As long as some subscription has a time threshold, a trigger is on its way: an
\* armed timer, an expired one, or a job of the worker.
TriggerPending ==
    \A st \in Streams :
        LET s == streams[st]
        IN s.timeThresholds # EmptyBag =>
            \/ s.timer # {}
            \/ s.expired > 0
            \/ \E i \in DOMAIN s.queue : s.queue[i].job = "trigger"

\* What the provider knows of a file, once it gets the buffered events too, has
\* the size and every byte written by the accepted writes and truncations.
WritesReported ==
    \A f \in DOMAIN truth :
        LET known == ToldAll(view, streams["write"].buffer)[f]
        IN known.size = truth[f].size /\ truth[f].bytes \subseteq known.bytes

\* A client subscription is cancelled at the provider at most once, and is gone
\* from the stream by then.
CancelledOnce ==
    \A st \in Streams :
        LET s == streams[st] IN
        \A i, j \in DOMAIN s.notes :
            ("cancels" \in DOMAIN s.notes[i] /\ "cancels" \in DOMAIN s.notes[j]
             /\ s.notes[i].cancels = s.notes[j].cancels)
            => i = j /\ s.notes[i].cancels \notin DOMAIN s.subscriptions

\* Whatever order subscriptions and cancellations of both sides come in, what a
\* subscription set up is there until its own handler undoes it, once.
SubscriptionsAreKept == ThresholdsHaveOwners /\ TriggerPending /\ CancelledOnce

\* Buffered events do not stay for ever while a time threshold is subscribed.
BufferedIsEmitted ==
    \A st \in SentToProvider :
        (DOMAIN streams[st].buffer # {} /\ streams[st].timeThresholds # EmptyBag)
        ~> (DOMAIN streams[st].buffer = {} \/ streams[st].timeThresholds = EmptyBag)
===============================================================================
