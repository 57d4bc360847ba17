----------------------------- MODULE EventManager -----------------------------
(***************************************************************************)
(* The event streams of the client (src/src/events).  A stream is one      *)
(* worker thread with a queue of jobs and the layers its jobs run through: *)
(* counter, size and time aggregation, the subscriptions, the buffer that  *)
(* aggregates events by key, and the handler of emitted events.            *)
(*                                                                         *)
(* FUSE threads post the events they emit; the connection pool's thread    *)
(* dispatches the provider's events, subscriptions and cancellations; the  *)
(* scheduler's threads run the timers.  All streams share one registry of  *)
(* unsubscribe handlers.                                                   *)
(***************************************************************************)
EXTENDS EventTypes, HashMaps, Bags, SequencesExt

CONSTANTS
    Files,       \* the files that FUSE threads use
    Blocks,      \* the <<offset, size>> that they read and write
    Sizes,       \* the sizes to which they truncate
    Updates,     \* the messages with events that the provider may send
    ServerSubs,  \* the messages with subscriptions that the provider may send
    Cancelled,   \* the subscription ids that the provider may cancel
    Workloads,   \* the subscriptions of the configuration message, the streams the
                 \* environment uses, and bounds on what it does
    MaxQueue,    \* bound on a worker's queue, for the jobs of the environment
    MaxExpired   \* bound on timers that expired and did not run yet

Streams == {"read", "write", "fileAttr", "fileLocation", "permissionChanged",
                "fileRemoval", "quotaExeeded", "fileRenamed", "fileAccessed"}

\* Only reads and writes are aggregated by size.
SizeAggregated == {"read", "write"}

\* The streams whose handler sends the emitted events to the provider.
SentToProvider == {"read", "write", "fileAccessed"}

VARIABLES
    streams,     \* stream -> its worker's queue and the state of its layers
    registry,    \* m_handlers: subscription id -> its unsubscribe handler
    nextId,      \* m_subscriptionId
    configured,  \* FsLogic has passed on the configuration's subscriptions
    truth,       \* history: file -> the effect of the accepted write events
    view,        \* history: file -> what the emitted write events told the provider
    accepted,    \* history: stream -> number of events put into a buffer
    workload     \* what the environment may still do

vars == <<streams, registry, nextId, configured, truth, view, accepted, workload>>

SumOver(f(_), S) == FoldSet(LAMBDA x, acc : f(x) + acc, 0, S)

\* ------------------------------------------------- EventHandler and its buffer
Aggregate(st, e, event) ==
    CASE st = "read"                           -> ReadAggregate(e, event)
      [] st = "write"                          -> WriteAggregate(e, event)
      [] st \in {"fileAttr", "fileLocation"}   -> UpdateAggregate(e, event)
      [] st = "permissionChanged"              -> PermissionChangedAggregate(e, event)
      [] st = "fileRemoval"                    -> FileRemovalAggregate(e, event)
      [] st = "quotaExeeded"                   -> QuotaExeededAggregate(e, event)
      [] st = "fileRenamed"                    -> FileRenamedAggregate(e, event)
      [] st = "fileAccessed"                   -> FileAccessedAggregate(e, event)

Push(st, s, event) ==
    IF s.buffering
    THEN [s EXCEPT !.buffer =
            Put(@, event.fileUuid,
                IF event.fileUuid \in DOMAIN @
                THEN Aggregate(st, @[event.fileUuid], event)
                ELSE event)]
    ELSE s

\* The messages with subscriptions and their cancellation on the stream.
Note(s, message) == [s EXCEPT !.notes = Append(@, message)]

\* Clearing the buffer hands its events to the handler, which sends or applies them.
Batch(events) == SumOver(LAMBDA f : events[f].counter, DOMAIN events)

Clear(s) ==
    [s EXCEPT !.emitted = @ + Batch(s.buffer),
              !.reports = IF DOMAIN s.buffer = {} THEN @ ELSE s.buffer,
              !.buffer  = EmptyMap]

\* Variant: the replaced buffer is dropped with its events.
SetEventBufferDropping(s, buffering) == [s EXCEPT !.buffer = EmptyMap, !.buffering = buffering]

SetEventBuffer(s, buffering) == [Clear(s) EXCEPT !.buffering = buffering]

\* ------------------------------------------------------------ time aggregation
Lowest(bag) == Min(BagToSet(bag))

ResetPeriodicTrigger(s) ==
    [s EXCEPT !.timer = IF s.timeThresholds = EmptyBag THEN {}
                        ELSE {Lowest(s.timeThresholds)}]

\* Emission resets the timer and the counters of the layers above.
Trigger(s) == [ResetPeriodicTrigger(Clear(s)) EXCEPT !.size = 0, !.counter = 0]

TimeSubscribe(s, sub) ==
    LET added == [s EXCEPT !.timeThresholds = @ (+) SetToBag(sub.timeThreshold)]
    IN IF \E t \in sub.timeThreshold :
            s.timeThresholds = EmptyBag \/ t < Lowest(s.timeThresholds)
       THEN ResetPeriodicTrigger(added)
       ELSE added

TimeUnsubscribe(s, h) ==
    LET rest == s.timeThresholds (-) SetToBag(h.sub.timeThreshold)
    IN [s EXCEPT !.timeThresholds = rest,
                 !.timer = IF h.sub.timeThreshold # {} /\ rest = EmptyBag THEN {} ELSE @]

\* ------------------------------------------------------------ size aggregation
SizeProcess(st, s, event) ==
    LET size == s.size + (IF st \in SizeAggregated THEN event.size ELSE 0)
        pushed == Push(st, [s EXCEPT !.size = size], event)
    IN IF s.sizeThresholds # EmptyBag /\ Lowest(s.sizeThresholds) <= size
       THEN Trigger(pushed)
       ELSE pushed

SizeSubscribe(s, sub) ==
    LET added == [s EXCEPT !.sizeThresholds = @ (+) SetToBag(sub.sizeThreshold)]
    IN IF \E t \in sub.sizeThreshold : t <= s.size THEN Trigger(added) ELSE added

SizeUnsubscribe(s, h) ==
    LET rest == s.sizeThresholds (-) SetToBag(h.sub.sizeThreshold)
    IN [s EXCEPT !.sizeThresholds = rest,
                 !.size = IF h.sub.sizeThreshold # {} /\ rest = EmptyBag THEN 0 ELSE @]

\* --------------------------------------------------------- counter aggregation
CounterProcess(st, s, event) ==
    LET counter == s.counter + event.counter
        counted == [s EXCEPT !.counter = counter]
    IN IF s.counterThresholds # EmptyBag /\ Lowest(s.counterThresholds) <= counter
       THEN Trigger(Push(st, counted, event))
       ELSE SizeProcess(st, counted, event)

CounterSubscribe(s, sub) ==
    LET added == [s EXCEPT !.counterThresholds = @ (+) SetToBag(sub.counterThreshold)]
    IN IF \E t \in sub.counterThreshold : t <= s.counter THEN Trigger(added) ELSE added

CounterUnsubscribe(s, h) ==
    LET rest == s.counterThresholds (-) SetToBag(h.sub.counterThreshold)
    IN [s EXCEPT !.counterThresholds = rest,
                 !.counter = IF h.sub.counterThreshold # {} /\ rest = EmptyBag THEN 0 ELSE @]

\* -------------------------------------------------------- subscription handler
\* A subscription without thresholds or with a known id is not added.
Adds(s, id, sub) == ~Empty(sub) /\ id \notin DOMAIN s.subscriptions

HandlerSubscribe(s, id, sub) ==
    IF ~Adds(s, id, sub) THEN s
    ELSE LET ready == IF DOMAIN s.subscriptions = {} THEN SetEventBuffer(s, TRUE) ELSE s
         IN [ready EXCEPT !.subscriptions = Put(@, id, sub)]

HandlerUnsubscribe(s, h) ==
    IF ~h.erases THEN s
    ELSE LET rest   == Drop(s.subscriptions, h.id)
             erased == [s EXCEPT !.subscriptions = rest]
             left   == IF DOMAIN rest = {} THEN SetEventBuffer(erased, FALSE) ELSE erased
         IN IF h.id < 0 THEN Note(left, SubscriptionCancellationSerialize(h.id)) ELSE left

\* The layers in the order in which a subscription passes them.
LayersSubscribe(s, id, sub) ==
    HandlerSubscribe(TimeSubscribe(SizeSubscribe(CounterSubscribe(s, sub), sub), sub), id, sub)

LayersUnsubscribe(s, h) ==
    HandlerUnsubscribe(TimeUnsubscribe(SizeUnsubscribe(CounterUnsubscribe(s, h), h), h), h)

\* ---------------------------------------------------------------- EventWorker
ProcessJob(event) == [job |-> "process", event |-> event]
SubscribeJob(id, sub) == [job |-> "subscribe", id |-> id, sub |-> sub]
UnsubscribeJob(h) == [job |-> "unsubscribe", handler |-> h]
TriggerJob == [job |-> "trigger"]

Post(s, job) == [s EXCEPT !.queue = Append(@, job)]

\* ------------------------------------------------------- effect of write events
\* External: what the provider knows of a file after a report.
Told(known, report) ==
    LET bytes == UNION {g.offset..(g.offset + g.size - 1) : g \in report.blocks}
        size  == IF report.fileSize # {} THEN Max(report.fileSize)
                 ELSE Max({known.size} \cup {b + 1 : b \in bytes})
    IN [size |-> size, bytes |-> (known.bytes \cup bytes) \cap Range0(size)]

ToldAll(known, batch) ==
    [f \in DOMAIN known |->
        IF f \in DOMAIN batch THEN Told(known[f], WriteSerialize(batch[f])) ELSE known[f]]

\* External: what a write or a truncation does to the file itself.
Written(file, event) ==
    IF event.fileSize # {}
    THEN LET n == Max(event.fileSize)
         IN [size |-> n, bytes |-> file.bytes \cap Range0(n)]
    ELSE [size |-> Max({file.size, LastByte(event.blocks) + 1}),
          bytes |-> file.bytes \cup DOMAIN event.blocks]

\* A step of a stream; "reports" are the write events it emits.
Step(st, new) ==
    \E s \in {new} :
        /\ streams' = [streams EXCEPT ![st] = [s EXCEPT !.reports = EmptyMap]]
        /\ view' = IF st = "write" THEN ToldAll(view, s.reports) ELSE view

\* ------------------------------------------------------------------ the worker
RunProcess(st) ==
    LET s == streams[st] IN
    /\ s.queue # <<>>
    /\ Head(s.queue).job = "process"
    /\ LET event == Head(s.queue).event IN
        /\ Step(st, CounterProcess(st, [s EXCEPT !.queue = Tail(@)], event))
        /\ accepted' = IF s.buffering THEN [accepted EXCEPT ![st] = @ + 1] ELSE accepted
        /\ truth' = IF s.buffering /\ st = "write"
                    THEN [truth EXCEPT ![event.fileUuid] = Written(@, event)]
                    ELSE truth
    /\ UNCHANGED <<registry, nextId, configured, workload>>

\* Variant: the handler of a second subscription with the same id is forgotten.
RunSubscribeIgnoringDuplicate(st) ==
    LET s == streams[st] IN
    /\ s.queue # <<>>
    /\ Head(s.queue).job = "subscribe"
    /\ LET id  == Head(s.queue).id
           sub == Head(s.queue).sub
           h   == [stream |-> st, id |-> id, sub |-> sub, erases |-> Adds(s, id, sub)]
       IN /\ Step(st, LayersSubscribe([s EXCEPT !.queue = Tail(@)], id, sub))
          /\ registry' = IF id \in DOMAIN registry THEN registry ELSE Put(registry, id, h)
    /\ UNCHANGED <<nextId, configured, truth, accepted, workload>>

\* Registering a handler for an id that has one runs the new handler.
AddUnsubscribeHandler(st, id, h, new) ==
    IF id \in DOMAIN registry
    THEN /\ Step(st, Post(new, UnsubscribeJob(h)))
         /\ UNCHANGED registry
    ELSE /\ Step(st, new)
         /\ registry' = Put(registry, id, h)

RunSubscribe(st) ==
    LET s == streams[st] IN
    /\ s.queue # <<>>
    /\ Head(s.queue).job = "subscribe"
    /\ LET id  == Head(s.queue).id
           sub == Head(s.queue).sub
           h   == [stream |-> st, id |-> id, sub |-> sub, erases |-> Adds(s, id, sub)]
           new == LayersSubscribe([s EXCEPT !.queue = Tail(@)], id, sub)
       IN AddUnsubscribeHandler(st, id, h, new)
    /\ UNCHANGED <<nextId, configured, truth, accepted, workload>>

RunUnsubscribe(st) ==
    LET s == streams[st] IN
    /\ s.queue # <<>>
    /\ Head(s.queue).job = "unsubscribe"
    /\ Step(st, LayersUnsubscribe([s EXCEPT !.queue = Tail(@)], Head(s.queue).handler))
    /\ UNCHANGED <<registry, nextId, configured, truth, accepted, workload>>

RunTrigger(st) ==
    LET s == streams[st] IN
    /\ s.queue # <<>>
    /\ Head(s.queue).job = "trigger"
    /\ Step(st, Trigger([s EXCEPT !.queue = Tail(@)]))
    /\ UNCHANGED <<registry, nextId, configured, truth, accepted, workload>>

\* ------------------------------------------------------------------ the timers
\* The handler of an expired timer runs even when the timer is reset meanwhile.
TimerExpires(st) ==
    /\ streams[st].timer # {}
    /\ streams[st].expired < MaxExpired
    /\ Step(st, [streams[st] EXCEPT !.timer = {}, !.expired = @ + 1])
    /\ UNCHANGED <<registry, nextId, configured, truth, accepted, workload>>

\* Variant: the handler of the timer does not post the trigger.
TimerRunsWithoutPost(st) ==
    /\ streams[st].expired > 0
    /\ Step(st, [streams[st] EXCEPT !.expired = @ - 1])
    /\ UNCHANGED <<registry, nextId, configured, truth, accepted, workload>>

TimerRuns(st) ==
    /\ streams[st].expired > 0
    /\ Step(st, [Post(streams[st], TriggerJob) EXCEPT !.expired = @ - 1])
    /\ UNCHANGED <<registry, nextId, configured, truth, accepted, workload>>

\* ------------------------------------------------- the interface of EventManager
Spend(what, st) ==
    /\ st \in workload.streams
    /\ Len(streams[st].queue) < MaxQueue
    /\ workload[what] > 0
    /\ workload' = [workload EXCEPT ![what] = @ - 1]

EmitEvent(st, event) ==
    /\ Spend("events", st)
    /\ Step(st, Post(streams[st], ProcessJob(event)))
    /\ UNCHANGED <<registry, nextId, configured, truth, accepted>>

EmitReadEvent(f, b) == EmitEvent("read", ReadEvent(b[1], b[2], f, "storage", "file"))

EmitWriteEvent(f, b) == EmitEvent("write", WriteEvent(b[1], b[2], f, "storage", "file"))

EmitTruncateEvent(f, size) == EmitEvent("write", TruncateEvent(0, 0, size, f))

EmitFileRemovalEvent(f) == EmitEvent("fileRemoval", FileRemovalEvent([fileUuid |-> f]))

EmitFileOpenedEvent(f) == EmitEvent("fileAccessed", FileAccessedEvent(f, 1, 0))

EmitFileReleasedEvent(f) == EmitEvent("fileAccessed", FileAccessedEvent(f, 0, 1))

\* The client's side of a subscription is posted, the provider's is sent with its id.
Subscribe(st, clientSubscription, serverMessage) ==
    /\ Spend("client", st)
    /\ nextId' = nextId + 1
    /\ LET posted == Post(streams[st], SubscribeJob(-nextId, clientSubscription))
       IN Step(st, Note(posted, serverMessage))
    /\ UNCHANGED <<registry, configured, truth, accepted>>

SubscribeFileAttr(f) ==
    LET sub == FileAttrSubscription(f, 1)
    IN Subscribe("fileAttr", sub, FileAttrSubscriptionSerialize(-nextId, sub))

SubscribeFileLocation(f) ==
    LET sub == FileLocationSubscription(f, 1)
    IN Subscribe("fileLocation", sub, FileLocationSubscriptionSerialize(-nextId, sub))

SubscribePermissionChanged(f) ==
    LET sub == PermissionChangedSubscription(f)
    IN Subscribe("permissionChanged", sub, PermissionChangedSubscriptionSerialize(-nextId, sub))

SubscribeFileRemoval(f) ==
    LET sub == FileRemovalSubscription(f)
    IN Subscribe("fileRemoval", sub, FileRemovalSubscriptionSerialize(-nextId, sub))

SubscribeFileRenamed(f) ==
    LET sub == FileRenamedSubscription(f)
    IN Subscribe("fileRenamed", sub, FileRenamedSubscriptionSerialize(-nextId, sub))

SubscribeQuota == Subscribe("quotaExeeded", QuotaSubscription, QuotaSubscriptionSerialize(-nextId))

\* SubscriptionRegistry::removeSubscription: the handler posts to its stream.
RemoveSubscription(id) ==
    /\ id \in DOMAIN registry
    /\ registry' = Drop(registry, id)
    /\ LET h == registry[id] IN Step(h.stream, Post(streams[h.stream], UnsubscribeJob(h)))

Unsubscribe(id) ==
    /\ RemoveSubscription(id)
    /\ UNCHANGED <<nextId, configured, truth, accepted, workload>>

\* SubscriptionContainer::add for a subscription of the configuration message.
ContainerAdd(m) ==
    CASE m.stream = "read"         -> ReadSubscription(m)
      [] m.stream = "write"        -> WriteSubscription(m)
      [] m.stream = "fileAccessed" -> FileAccessedSubscription(m)

\* EventManager::subscribe(SubscriptionContainer) of the FsLogic constructor.
SubscribeContainer ==
    /\ ~configured
    /\ configured' = TRUE
    /\ streams' = [st \in Streams |->
                     FoldSet(LAMBDA m, s : Post(s, SubscribeJob(m.id, ContainerAdd(m))),
                             streams[st], {m \in workload.container : m.stream = st})]
    /\ UNCHANGED <<registry, nextId, truth, view, accepted, workload>>

\* ------------------------------------- the messages of the provider, in any order
EventOf(m) ==
    CASE m.stream = "fileAttr"          -> FileAttrUpdate(m)
      [] m.stream = "fileLocation"      -> FileLocationUpdate(m)
      [] m.stream = "permissionChanged" -> PermissionChangedEvent(m)
      [] m.stream = "fileRemoval"       -> FileRemovalEvent(m)
      [] m.stream = "quotaExeeded"      -> QuotaExeededEvent(m)
      [] m.stream = "fileRenamed"       -> FileRenamedEvent(m)

HandleEvents(m) ==
    /\ Spend("events", m.stream)
    /\ Step(m.stream, Post(streams[m.stream], ProcessJob(EventOf(m))))
    /\ UNCHANGED <<registry, nextId, configured, truth, accepted>>

\* The thresholds of a subscription for accesses are not taken from its message.
HandleSubscription(m) ==
    /\ Spend("server", m.stream)
    /\ LET sub == CASE m.stream = "read"         -> ReadSubscription(m)
                    [] m.stream = "write"        -> WriteSubscription(m)
                    [] m.stream = "fileAccessed" -> Subscription({}, {}, {})
       IN Step(m.stream, Post(streams[m.stream], SubscribeJob(m.id, sub)))
    /\ UNCHANGED <<registry, nextId, configured, truth, accepted>>

\* A cancellation of an unknown id has no effect.
HandleCancellation(id) ==
    /\ RemoveSubscription(id)
    /\ UNCHANGED <<nextId, configured, truth, accepted, workload>>

\* ---------------------------------------------------------------- specification
InitialStream ==
    [queue |-> <<>>, counter |-> 0, counterThresholds |-> EmptyBag,
     size |-> 0, sizeThresholds |-> EmptyBag, timeThresholds |-> EmptyBag,
     timer |-> {}, expired |-> 0, subscriptions |-> EmptyMap,
     buffering |-> FALSE, buffer |-> EmptyMap, emitted |-> 0, reports |-> EmptyMap, notes |-> <<>>]

UnknownFiles == [f \in Files |-> [size |-> 0, bytes |-> {}]]

Init ==
    /\ streams = [st \in Streams |-> InitialStream]
    /\ registry = EmptyMap
    /\ nextId = 1
    /\ configured = FALSE
    /\ truth = UnknownFiles
    /\ view = UnknownFiles
    /\ accepted = [st \in Streams |-> 0]
    /\ workload \in Workloads

Worker(st) == RunProcess(st) \/ RunSubscribe(st) \/ RunUnsubscribe(st) \/ RunTrigger(st)

Next ==
    \/ \E st \in Streams :
        \/ RunProcess(st) \/ RunSubscribe(st) \/ RunUnsubscribe(st) \/ RunTrigger(st)
        \/ TimerExpires(st) \/ TimerRuns(st)
    \/ \E f \in Files :
        \/ \E b \in Blocks : EmitReadEvent(f, b) \/ EmitWriteEvent(f, b)
        \/ \E size \in Sizes : EmitTruncateEvent(f, size)
        \/ EmitFileRemovalEvent(f) \/ EmitFileOpenedEvent(f) \/ EmitFileReleasedEvent(f)
        \/ SubscribeFileAttr(f) \/ SubscribeFileLocation(f) \/ SubscribePermissionChanged(f)
        \/ SubscribeFileRemoval(f) \/ SubscribeFileRenamed(f)
    \/ SubscribeQuota
    \/ \E id \in {i \in DOMAIN registry : i < 0} : Unsubscribe(id)
    \/ SubscribeContainer
    \/ \E m \in Updates : HandleEvents(m)
    \/ \E m \in ServerSubs : HandleSubscription(m)
    \/ \E id \in Cancelled : HandleCancellation(id)

Spec ==
    /\ Init /\ [][Next]_vars
    /\ WF_vars(\E st \in Streams : Worker(st))
    /\ WF_vars(\E st \in Streams : TimerExpires(st))
    /\ WF_vars(\E st \in Streams : TimerRuns(st))
===============================================================================
