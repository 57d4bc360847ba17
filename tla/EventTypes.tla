------------------------------ MODULE EventTypes ------------------------------
(***************************************************************************)
(* The events of the client, their aggregation and their conversion to and *)
(* from messages, and the subscriptions for them (src/src/events/types,    *)
(* src/src/events/subscriptions, src/src/messages/fuse/fileBlock.h).       *)
(*                                                                         *)
(* An interval map of file blocks is a function from byte offsets to       *)
(* blocks; an optional value is a set with at most one element.            *)
(***************************************************************************)
EXTENDS Integers, FiniteSets, FiniteSetsExt, Sequences

Range0(n) == 0..(n - 1)

\* ------------------------------------------------------------- file blocks
FileBlock(storageId, fileId) == [storageId |-> storageId, fileId |-> fileId]

NoBlock == FileBlock("", "")

PlusBlock(block, other) ==
    IF block.storageId = "" \/ block.fileId = "" THEN other ELSE block

Interval(offset, size, block) == [b \in offset..(offset + size - 1) |-> block]

PlusBlocks(blocks, other) ==
    [b \in DOMAIN blocks \cup DOMAIN other |->
        CASE b \notin DOMAIN other  -> blocks[b]
          [] b \notin DOMAIN blocks -> other[b]
          [] OTHER                  -> PlusBlock(blocks[b], other[b])]

CutBlocks(blocks, size) == [b \in DOMAIN blocks \cap Range0(size) |-> blocks[b]]

LastByte(blocks) == Max(DOMAIN blocks)

\* The maximal runs of bytes with one block, as the interval map joins them.
Segments(blocks) ==
    LET Run(i, j) == /\ i..j \subseteq DOMAIN blocks
                     /\ \A b \in i..j : blocks[b] = blocks[i]
        ends == {e \in (DOMAIN blocks) \X (DOMAIN blocks) :
                    /\ e[1] <= e[2]
                    /\ Run(e[1], e[2])
                    /\ ~Run(e[1] - 1, e[2])
                    /\ ~Run(e[1], e[2] + 1)}
    IN {[offset |-> e[1], size |-> e[2] - e[1] + 1, block |-> blocks[e[1]]] : e \in ends}

\* ------------------------------------------------------------------ events
ReadEvent(offset, size, fileUuid, storageId, fileId) ==
    [fileUuid |-> fileUuid, counter |-> 1, size |-> size,
     blocks |-> Interval(offset, size, FileBlock(storageId, fileId))]

ReadAggregate(e, event) ==
    [e EXCEPT !.counter = @ + event.counter,
              !.size    = @ + event.size,
              !.blocks  = PlusBlocks(@, event.blocks)]

ReadSerialize(e) ==
    [fileUuid |-> e.fileUuid, counter |-> e.counter, size |-> e.size,
     blocks |-> Segments(e.blocks)]

WriteEvent(offset, size, fileUuid, storageId, fileId) ==
    [fileUuid |-> fileUuid, counter |-> 1, size |-> size, fileSize |-> {},
     blocks |-> Interval(offset, size, FileBlock(storageId, fileId))]

TruncateEvent(offset, size, fileSize, fileUuid) ==
    [fileUuid |-> fileUuid, counter |-> 1, size |-> size, fileSize |-> {fileSize},
     blocks |-> Interval(offset, size, NoBlock)]

\* Variant: a write after a truncation does not extend the reported size.
WriteAggregateKeepingSize(e, event) ==
    [e EXCEPT !.counter  = @ + event.counter,
              !.size     = @ + event.size,
              !.fileSize = IF event.fileSize # {} THEN event.fileSize ELSE @,
              !.blocks   = PlusBlocks(@, event.blocks)]

WriteAggregate(e, event) ==
    [e EXCEPT !.counter  = @ + event.counter,
              !.size     = @ + event.size,
              !.fileSize = IF event.fileSize # {}
                           THEN event.fileSize
                           ELSE {Max({s, LastByte(event.blocks) + 1}) : s \in @},
              !.blocks   = PlusBlocks(@, event.blocks)]

WriteSerialize(e) ==
    [fileUuid |-> e.fileUuid, counter |-> e.counter, size |-> e.size,
     fileSize |-> e.fileSize,
     blocks |-> Segments(IF e.fileSize = {} THEN e.blocks
                         ELSE CutBlocks(e.blocks, Max(e.fileSize)))]

FileAccessedEvent(fileUuid, openCount, releaseCount) ==
    [fileUuid |-> fileUuid, counter |-> 1, openCount |-> openCount,
     releaseCount |-> releaseCount]

FileAccessedAggregate(e, event) ==
    [e EXCEPT !.counter      = @ + event.counter,
              !.openCount    = @ + event.openCount,
              !.releaseCount = @ + event.releaseCount]

FileAccessedSerialize(e) ==
    [fileUuid |-> e.fileUuid, counter |-> e.counter, openCount |-> e.openCount,
     releaseCount |-> e.releaseCount]

\* The update of attributes or of a location; "wrapped" is the new value.
FileAttrUpdate(message) ==
    [fileUuid |-> message.fileUuid, counter |-> 1, wrapped |-> message.wrapped]

FileLocationUpdate(message) ==
    [fileUuid |-> message.fileUuid, counter |-> 1, wrapped |-> message.wrapped]

UpdateAggregate(e, event) ==
    [e EXCEPT !.counter = @ + event.counter, !.wrapped = event.wrapped]

PermissionChangedEvent(message) == [fileUuid |-> message.fileUuid, counter |-> 1]

PermissionChangedAggregate(e, event) == [e EXCEPT !.counter = @ + event.counter]

FileRemovalEvent(message) == [fileUuid |-> message.fileUuid, counter |-> 1]

FileRemovalAggregate(e, event) == [e EXCEPT !.counter = @ + event.counter]

\* All quota events have one key.
QuotaExeededEvent(message) ==
    [fileUuid |-> "quota", counter |-> 1, spaces |-> message.spaces]

QuotaExeededAggregate(e, event) == [e EXCEPT !.spaces = event.spaces]

FileRenamedEvent(message) ==
    [fileUuid |-> message.topEntry.oldUuid, counter |-> 1,
     topEntry |-> message.topEntry, childEntries |-> message.childEntries]

FileRenamedAggregate(e, event) == [e EXCEPT !.counter = @ + event.counter]

\* ----------------------------------------------------------- subscriptions
Subscription(counterThreshold, timeThreshold, sizeThreshold) ==
    [counterThreshold |-> counterThreshold, timeThreshold |-> timeThreshold,
     sizeThreshold |-> sizeThreshold, fileUuid |-> {}]

Empty(s) == s.counterThreshold \cup s.timeThreshold \cup s.sizeThreshold = {}

ReadSubscription(message) ==
    Subscription(message.counterThreshold, message.timeThreshold, message.sizeThreshold)

WriteSubscription(message) ==
    Subscription(message.counterThreshold, message.timeThreshold, message.sizeThreshold)

FileAccessedSubscription(message) ==
    Subscription(message.counterThreshold, message.timeThreshold, {})

\* What the client asks of its own streams and, with an id, of the provider.
FileAttrSubscription(fileUuid, counterThreshold) ==
    [Subscription({counterThreshold}, {}, {}) EXCEPT !.fileUuid = {fileUuid}]

FileAttrSubscriptionSerialize(id, s) ==
    [subscribes |-> id, to |-> "fileAttr", fileUuid |-> s.fileUuid,
     counterThreshold |-> s.counterThreshold, timeThreshold |-> s.timeThreshold]

FileLocationSubscription(fileUuid, counterThreshold) ==
    [Subscription({counterThreshold}, {}, {}) EXCEPT !.fileUuid = {fileUuid}]

FileLocationSubscriptionSerialize(id, s) ==
    [subscribes |-> id, to |-> "fileLocation", fileUuid |-> s.fileUuid,
     counterThreshold |-> s.counterThreshold, timeThreshold |-> s.timeThreshold]

PermissionChangedSubscription(fileUuid) ==
    [Subscription({1}, {}, {}) EXCEPT !.fileUuid = {fileUuid}]

PermissionChangedSubscriptionSerialize(id, s) ==
    [subscribes |-> id, to |-> "permissionChanged", fileUuid |-> s.fileUuid]

FileRemovalSubscription(fileUuid) ==
    [Subscription({1}, {}, {}) EXCEPT !.fileUuid = {fileUuid}]

FileRemovalSubscriptionSerialize(id, s) ==
    [subscribes |-> id, to |-> "fileRemoval", fileUuid |-> s.fileUuid]

FileRenamedSubscription(fileUuid) ==
    [Subscription({1}, {}, {}) EXCEPT !.fileUuid = {fileUuid}]

FileRenamedSubscriptionSerialize(id, s) ==
    [subscribes |-> id, to |-> "fileRenamed", fileUuid |-> s.fileUuid]

QuotaSubscription == Subscription({1}, {}, {})

QuotaSubscriptionSerialize(id) == [subscribes |-> id, to |-> "quotaExeeded"]

SubscriptionCancellationSerialize(id) == [cancels |-> id]
===============================================================================
