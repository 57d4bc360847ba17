------------------------------ MODULE BufferAgent ------------------------------
(***************************************************************************)
(* One open file behind the buffers of src/helpers/src/buffering: writes   *)
(* are collected in WriteBuffer and pushed with ash_multiwrite(), reads go *)
(* through ReadCache, which downloads ahead.  The storage below is an      *)
(* object store that keeps a file in blocks ("kv": AmazonS3, Swift), Ceph, *)
(* or a provider asked over the network ("proxy").                         *)
(*                                                                         *)
(* Threads: "fuse" serves the operations of the file one after another,    *)
(* "timer" is the scheduler's thread with the delayed flush; each push and *)
(* each download in flight is a job of the storage's own threads.  The     *)
(* sections that hold WriteBuffer's m_mutex are single steps.              *)
(***************************************************************************)
EXTENDS KeyValueAdapter, FiniteSets

CONSTANTS
    Kinds,          \* the storages to consider
    Programs,       \* sequences of operations of the file's user
    InitialSize,    \* size of the file when it is opened; its bytes are Old
    BlockSize,      \* m_blockSize of KeyValueAdapter
    MinChunk,       \* m_minWriteChunkSize
    MaxChunk,       \* m_maxWriteChunkSize
    ConfirmFactor,  \* chunks that may wait for confirmation (6 in the code)
    Bandwidths,     \* what a push may measure
    ReadChunk,      \* size of a download ahead
    MaxFaults       \* bound: failures of the storage, and answers lost

VARIABLES
    kind, objects,
    pushes,         \* writes sent and not answered, in the order of sending
    wb,             \* WriteBuffer
    rc,             \* ReadCache; readFrom is where the bytes of lastRead really come from
    pc,             \* thread -> where it is
    todo,           \* operations left; the first one is in progress unless pc["fuse"] is ready
    hist            \* what the user was promised

vars == <<kind, objects, pushes, wb, rc, pc, todo, hist>>

Old == 9
Flat == 100     \* block size that holds any file of the model
StoreBlock == IF kind = "kv" THEN BlockSize ELSE Flat

WriteOp(offset, size) == [op |-> "write", offset |-> offset, size |-> size]
ReadOp(offset, size) == [op |-> "read", offset |-> offset, size |-> size]
PlainOp(op) == [op |-> op, offset |-> 0, size |-> 0]

Op == Head(todo)
\* Each write has a byte of its own.
Data == [i \in 1..Op.size |-> Len(todo)]

Stored ==
    LET size == GetObjectsSize(objects, StoreBlock)
    IN [i \in 1..size |->
          GetBlock(objects, GetBlockId(i - 1, StoreBlock), GetBlockOffset(i - 1, StoreBlock), <<0>>)[1]]

\* ----------------------------------------------------------------- what is promised
Covers(buf, x) == x > buf.offset /\ x <= buf.offset + Len(buf.data)

BytesAt(bufs, x) == {b.data[x - b.offset] : b \in {c \in Range(bufs) : Covers(c, x)}}

\* Byte x of a file, counted from 1, after a write and after a push over those in flight.
ExpectWrite(expect, offset, data) ==
    [x \in DOMAIN expect \cup {offset + i : i \in DOMAIN data} |->
        IF x - offset \in DOMAIN data THEN {data[x - offset]} ELSE expect[x]]

ExpectPush(expect, bufs) ==
    [x \in DOMAIN expect |->
        expect[x] \cup (IF BytesAt(bufs, x) = {} THEN {}
                        ELSE UNION {BytesAt(p.bufs, x) : p \in Range(pushes)})]

\* ----------------------------------------------------------------------- WriteBuffer
NextOffset(buf) == buf.offset + Len(buf.data)

BufferWrite(buffers, offset, data) ==
    IF buffers = <<>> \/ NextOffset(Last(buffers)) # offset
    THEN Append(buffers, [offset |-> offset, data |-> data])
    ELSE [buffers EXCEPT ![Len(buffers)].data = @ \o data]

SizeOf(buffers) == FoldLeft(LAMBDA size, buffer : size + Len(buffer.data), 0, buffers)

FlushThreshold == Smaller(MaxChunk, Larger(MinChunk, 2 * wb.bps))
ConfirmThreshold == ConfirmFactor * FlushThreshold

Job(bufs) ==
    [bufs |-> bufs, size |-> SizeOf(bufs), left |-> Tail(bufs), fetched |-> {}, state |-> "run",
     parts |-> WriteParts(Head(bufs).offset, Head(bufs).data, StoreBlock)]

Sent(bufs) == [wb EXCEPT !.buffers = <<>>, !.pending = @ + SizeOf(bufs)]

\* connect() of a Ceph context: one of its calls to the cluster fails.
ConnectFails == kind = "ceph" /\ hist.faults < MaxFaults

\* pushBuffer() up to its wait.  A Ceph client that cannot connect calls back there and
\* then, and the callback waits for the mutex that its own thread holds.
PushBuffer(t, bufs, expect) ==
    /\ wb' = Sent(bufs)
    /\ \/ /\ pushes' = Append(pushes, Job(bufs))
          /\ pc' = [pc EXCEPT ![t] = "confirm"]
          /\ hist' = [hist EXCEPT !.last = {}, !.expect = ExpectPush(expect, bufs)]
       \/ /\ ConnectFails
          /\ pushes' = Append(pushes, [Job(bufs) EXCEPT !.state = "lost"])
          /\ pc' = [pc EXCEPT ![t] = "stuck"]
          /\ hist' = [hist EXCEPT !.last = {}, !.expect = expect, !.faults = @ + 1]

Stuck == \E t \in DOMAIN pc : pc[t] = "stuck"

\* -------------------------------------------------------- the operations of BufferAgent
\* What IStorageHelper does for an operation its helper does not implement.
DefaultCode(op) == IF op \in {"access", "open", "release", "flush", "fsync"} THEN "ok" ELSE "ENOSYS"

\* The operation in progress ends, with a result for the user; the last word has the
\* helper's own sh_flush(), sh_fsync() or sh_release().
Ends(data) ==
    /\ todo' = Tail(todo)
    /\ pc' = [pc EXCEPT !["fuse"] = "ready"]
    /\ hist' = [hist EXCEPT !.last =
         {[op |-> Op.op, offset |-> Op.offset, data |-> data,
           code |-> IF Op.op \in {"read", "write"} THEN "ok" ELSE DefaultCode(Op.op)]}]

\* throwLastError(): the user is told, and what was written before is no longer promised.
ThrowLastError ==
    /\ wb.lastError
    /\ wb' = [wb EXCEPT !.lastError = FALSE]
    /\ todo' = Tail(todo)
    /\ pc' = [pc EXCEPT !["fuse"] = "ready"]
    /\ hist' = [hist EXCEPT !.last = {}, !.expect = EmptyMap]
    /\ UNCHANGED <<kind, objects, pushes, rc>>

FailsAtOnce ==
    /\ ~Stuck
    /\ pc["fuse"] = "ready"
    /\ todo # <<>>
    /\ Op.op \in {"read", "write", "flush", "fsync", "release"}
    /\ ThrowLastError

Begins(ops) ==
    /\ ~Stuck
    /\ pc["fuse"] = "ready"
    /\ todo # <<>>
    /\ Op.op \in ops
    /\ ~wb.lastError

\* ash_getattr(), ash_mkdir(), ...: handed to the helper, past the buffers and their errors.
Passes ==
    /\ ~Stuck
    /\ pc["fuse"] = "ready"
    /\ todo # <<>>
    /\ Op.op \notin {"read", "write", "flush", "fsync", "release"}
    /\ Ends(<<>>)
    /\ UNCHANGED <<kind, objects, pushes, wb, rc>>

\* sh_write()
Write ==
    /\ Begins({"write"})
    /\ LET buffers == BufferWrite(wb.buffers, Op.offset, Data)
           expect == ExpectWrite(hist.expect, Op.offset, Data)
       IN IF SizeOf(buffers) > FlushThreshold
          THEN PushBuffer("fuse", buffers, expect) /\ UNCHANGED todo
          ELSE /\ wb' = [wb EXCEPT !.buffers = buffers]
               /\ todo' = Tail(todo)
               /\ hist' = [hist EXCEPT !.last = {}, !.expect = expect]
               /\ UNCHANGED <<pushes, pc>>
    /\ UNCHANGED <<kind, objects, rc>>

\* flush(): the push of sh_flush(); with nothing to push the operation is over.
Flush ==
    /\ Begins({"flush"})
    /\ IF wb.buffers # <<>>
       THEN PushBuffer("fuse", wb.buffers, hist.expect) /\ UNCHANGED <<rc, todo>>
       ELSE Ends(<<>>) /\ rc' = [rc EXCEPT !.clear = TRUE] /\ UNCHANGED <<wb, pushes>>
    /\ UNCHANGED <<kind, objects>>

\* fsync(): the push of sh_read(), sh_fsync() and sh_release().
Fsync ==
    /\ Begins({"read", "fsync", "release"})
    /\ IF wb.buffers # <<>>
       THEN PushBuffer("fuse", wb.buffers, hist.expect)
       ELSE /\ pc' = [pc EXCEPT !["fuse"] = "drain"]
            /\ hist' = [hist EXCEPT !.last = {}]
            /\ UNCHANGED <<wb, pushes>>
    /\ UNCHANGED <<kind, objects, rc, todo>>

\* The wait at the end of pushBuffer() is over.
Confirmed ==
    /\ ~Stuck
    /\ pc["fuse"] = "confirm"
    /\ wb.lastError \/ wb.pending <= ConfirmThreshold
    /\ CASE Op.op = "write" -> Ends(<<>>) /\ UNCHANGED rc
         [] Op.op = "flush" -> Ends(<<>>) /\ rc' = [rc EXCEPT !.clear = TRUE]
         [] OTHER           -> /\ pc' = [pc EXCEPT !["fuse"] = "drain"]
                               /\ UNCHANGED <<rc, todo, hist>>
    /\ UNCHANGED <<kind, objects, pushes, wb>>

\* The wait of fsync() is over: with an error, or with all that was pushed confirmed.
FsyncFails ==
    /\ ~Stuck
    /\ pc["fuse"] = "drain"
    /\ ThrowLastError

Fsynced ==
    /\ ~Stuck
    /\ pc["fuse"] = "drain"
    /\ ~wb.lastError
    /\ wb.pending = 0
    /\ CASE Op.op = "read"    -> /\ pc' = [pc EXCEPT !["fuse"] = "cached"]
                                 /\ UNCHANGED <<rc, todo, hist>>
         [] Op.op = "fsync"   -> Ends(<<>>) /\ rc' = [rc EXCEPT !.clear = TRUE]
         [] Op.op = "release" -> Ends(<<>>) /\ UNCHANGED rc
    /\ UNCHANGED <<kind, objects, pushes, wb>>

\* Variant: a wait that times out goes on waiting.
TimedOutSilently(t) == UNCHANGED wb

TimedOut(t) == wb' = [wb EXCEPT !.lastError = TRUE]

\* A wait of two minutes for a confirmation ends.
Timeout(t) ==
    /\ ~Stuck
    /\ ~wb.lastError
    /\ \/ pc[t] = "confirm" /\ wb.pending > ConfirmThreshold
       \/ pc[t] = "drain" /\ wb.pending > 0
    /\ TimedOut(t)
    /\ UNCHANGED <<kind, objects, pushes, rc, pc, todo, hist>>

\* The delayed flush on the scheduler's thread.
TimerPushes ==
    /\ ~Stuck
    /\ pc["timer"] = "ready"
    /\ wb.buffers # <<>>
    /\ PushBuffer("timer", wb.buffers, hist.expect)
    /\ UNCHANGED <<kind, objects, rc, todo>>

TimerConfirmed ==
    /\ ~Stuck
    /\ pc["timer"] = "confirm"
    /\ wb.lastError \/ wb.pending <= ConfirmThreshold
    /\ pc' = [pc EXCEPT !["timer"] = "ready"]
    /\ UNCHANGED <<kind, objects, pushes, wb, rc, todo, hist>>

\* -------------------------------------------------------------- a push at the storage
Locked(block) ==
    \E i \in DOMAIN pushes : pushes[i].fetched # {} /\ Head(pushes[i].parts).block = block

Partial(part) == kind = "kv" /\ Len(part.data) # BlockSize

Object(block) == IF block \in DOMAIN objects THEN objects[block] ELSE <<>>

\* wrapCallback(): the next buffer is written once the last one is; then the callback runs,
\* and at once, with no error, when fewer bytes were written than wanted.
Advanced(job, short) ==
    IF Len(job.parts) > 1 THEN [job EXCEPT !.parts = Tail(@), !.fetched = {}]
    ELSE IF job.left # <<>> /\ ~short
    THEN [job EXCEPT !.fetched = {}, !.left = Tail(@),
                     !.parts = WriteParts(Head(job.left).offset, Head(job.left).data, StoreBlock)]
    ELSE [job EXCEPT !.parts = <<>>, !.fetched = {}, !.state = "clear"]

\* Variant: the block is fetched without its lock.
FetchUnlocked(i) ==
    /\ pushes[i].state = "run"
    /\ pushes[i].fetched = {}
    /\ Partial(Head(pushes[i].parts))
    /\ pushes' = [pushes EXCEPT ![i].fetched = {Object(Head(pushes[i].parts).block)}]
    /\ UNCHANGED <<kind, objects, wb, rc, pc, todo, hist>>

\* A block that is written in part is locked and fetched first.
Fetch(i) ==
    /\ pushes[i].state = "run"
    /\ pushes[i].fetched = {}
    /\ Partial(Head(pushes[i].parts))
    /\ ~Locked(Head(pushes[i].parts).block)
    /\ pushes' = [pushes EXCEPT ![i].fetched = {Object(Head(pushes[i].parts).block)}]
    /\ UNCHANGED <<kind, objects, wb, rc, pc, todo, hist>>

PutObject(i) ==
    /\ kind = "kv"
    /\ pushes[i].state = "run"
    /\ LET part == Head(pushes[i].parts)
       IN \E fetched \in IF Partial(part) THEN pushes[i].fetched ELSE {<<>>} :
             /\ Partial(part) \/ ~Locked(part.block)
             /\ objects' = Put(objects, part.block, MergeBlock(fetched, part, StoreBlock))
    /\ pushes' = [pushes EXCEPT ![i] = Advanced(@, FALSE)]
    /\ UNCHANGED <<kind, wb, rc, pc, todo, hist>>

\* Ceph writes a buffer at a time, and so does the provider, which got them all at once.  Like
\* KeyValueAdapter, Ceph reports the whole buffer or an error.
WritesBuffer(i) ==
    /\ kind \in {"ceph", "proxy"}
    /\ pushes[i].state = "run"
    /\ objects' = Put(objects, 0, MergeBlock(Object(0), Head(pushes[i].parts), Flat))
    /\ pushes' = [pushes EXCEPT ![i] = Advanced(@, FALSE)]
    /\ UNCHANGED <<kind, wb, rc, pc, todo, hist>>

\* The provider reports fewer bytes than it was sent (result->wrote()): the callback of the
\* push counts them for the bandwidth and takes the push for done.
WritesShort(i) ==
    LET missing == <<Head(pushes[i].parts)>> \o pushes[i].left
    IN
    /\ kind = "proxy"
    /\ hist.faults < MaxFaults
    /\ pushes[i].state = "run"
    /\ pushes' = [pushes EXCEPT ![i] = Advanced(@, TRUE)]
    /\ hist' = [hist EXCEPT !.faults = @ + 1, !.short = TRUE,
                            !.expect = RestrictDomain(@, LAMBDA x : BytesAt(missing, x) = {})]
    /\ UNCHANGED <<kind, objects, wb, rc, pc, todo>>

PushFails(i) ==
    /\ hist.faults < MaxFaults
    /\ pushes[i].state = "run"
    /\ pushes' = [pushes EXCEPT ![i].state = "failed", ![i].fetched = {}]
    /\ hist' = [hist EXCEPT !.faults = @ + 1]
    /\ UNCHANGED <<kind, objects, wb, rc, pc, todo>>

\* The provider's answer never comes, whether it wrote or not.
AnswerLost(i) ==
    /\ kind = "proxy"
    /\ hist.faults < MaxFaults
    /\ pushes[i].state \in {"run", "clear"}
    /\ pushes' = [pushes EXCEPT ![i].state = "lost"]
    /\ hist' = [hist EXCEPT !.faults = @ + 1]
    /\ UNCHANGED <<kind, objects, wb, rc, pc, todo>>

\* ------------------------------------------------- the callback of a push, in two steps
Bps == {wb.bps} \cup {(wb.bps + 2 * b) \div 3 : b \in Bandwidths}

AnsweredOf(job) ==
    [wb EXCEPT !.pending = @ - job.size, !.lastError = @ \/ job.state = "failed"]

\* On success the read cache is told to forget before the push counts as confirmed.
ClearsCache(i) ==
    /\ ~Stuck
    /\ pushes[i].state = "clear"
    /\ \E bps \in Bps : wb' = [wb EXCEPT !.bps = bps]
    /\ rc' = [rc EXCEPT !.clear = TRUE]
    /\ pushes' = [pushes EXCEPT ![i].state = "done"]
    /\ UNCHANGED <<kind, objects, pc, todo, hist>>

Confirms(i) ==
    /\ ~Stuck
    /\ pushes[i].state \in {"done", "failed"}
    /\ wb' = AnsweredOf(pushes[i])
    /\ pushes' = RemoveAt(pushes, i)
    /\ UNCHANGED <<kind, objects, rc, pc, todo, hist>>

\* --------------------------------------------------------------------------- ReadCache
Download(offset, size) ==
    {[offset |-> offset, size |-> size, buf |-> <<>>, parts |-> <<>>, state |-> "size"]}

Arrived(d, parts, buf) ==
    [d EXCEPT !.parts = parts, !.buf = buf, !.state = IF parts = <<>> THEN "ok" ELSE "run"]

\* ash_read() of the two downloads.  KeyValueAdapter asks for the size of the file first,
\* then reads block by block.
AsksSize(slot) ==
    /\ kind = "kv"
    /\ \E d \in rc[slot] :
          /\ d.state = "size"
          /\ LET fileSize == GetObjectsSize(objects, BlockSize)
                 size == Larger(0, Smaller(d.size, fileSize - d.offset))
             IN rc' = [rc EXCEPT ![slot] =
                         {Arrived(d, ReadParts(fileSize, d.offset, d.size, BlockSize), Zeros(size))}]
    /\ UNCHANGED <<kind, objects, pushes, wb, pc, todo, hist>>

ReadsBlock(slot) ==
    /\ \E d \in rc[slot] :
          /\ d.state = "run"
          /\ ~Locked(Head(d.parts).block)
          /\ rc' = [rc EXCEPT ![slot] =
                      {Arrived(d, Tail(d.parts), ReadPart(objects, d.buf, Head(d.parts)))}]
    /\ UNCHANGED <<kind, objects, pushes, wb, pc, todo, hist>>

\* Ceph and the provider read at once, up to the end of the file.
ReadsAtOnce(slot) ==
    /\ kind \in {"ceph", "proxy"}
    /\ \E d \in rc[slot] :
          /\ d.state = "size"
          /\ rc' = [rc EXCEPT ![slot] =
                      {Arrived(d, <<>>, SubSeq(Object(0), d.offset + 1,
                                               Smaller(Len(Object(0)), d.offset + d.size)))}]
    /\ UNCHANGED <<kind, objects, pushes, wb, pc, todo, hist>>

DownloadEnds(slot, state) ==
    /\ hist.faults < MaxFaults
    /\ \E d \in rc[slot] :
          /\ d.state \in {"size", "run"}
          /\ rc' = [rc EXCEPT ![slot] = {[d EXCEPT !.state = state]}]
    /\ hist' = [hist EXCEPT !.faults = @ + 1]
    /\ UNCHANGED <<kind, objects, pushes, wb, pc, todo>>

DownloadFails(slot) == DownloadEnds(slot, "failed")

\* The provider's answer never comes.
DownloadLost(slot) == kind = "proxy" /\ DownloadEnds(slot, "lost")

\* asio::buffer_copy() of what the cache holds from an offset on.
Copied(c, offset) ==
    SubSeq(c.lastRead, offset - c.lastReadOffset + 1,
           Smaller(Len(c.lastRead), offset - c.lastReadOffset + Op.size))

Hit(c) == c.lastReadOffset <= Op.offset /\ Op.offset < c.lastReadOffset + Len(c.lastRead)

\* Nothing fits: a download of what was asked for, and one of what follows.
Asks(c) ==
    [c EXCEPT !.future = Download(Op.offset, Op.size),
              !.pendingOffset = Op.offset + Op.size,
              !.pending = Download(Op.offset + Op.size, ReadChunk),
              !.lastReadOffset = Op.offset]

\* Variant: the download that is under way survives a clear.
KeepsPending(c) == [c EXCEPT !.lastRead = <<>>, !.clear = FALSE]

Forgets(c) == [c EXCEPT !.lastRead = <<>>, !.pending = {}, !.clear = FALSE]

\* read(), up to the first wait; "old" when the last refresh is over five seconds ago.
ReadCached ==
    /\ pc["fuse"] = "cached"
    /\ \E old \in BOOLEAN :
         LET c == IF rc.clear \/ old THEN Forgets(rc) ELSE rc
         IN CASE Hit(c) ->
                   /\ rc' = c
                   /\ Ends(Copied(c, Op.offset))
              [] ~Hit(c) /\ c.pending # {} /\ c.pendingOffset <= Op.offset ->
                   /\ rc' = [c EXCEPT !.lastReadOffset = c.pendingOffset]
                   /\ pc' = [pc EXCEPT !["fuse"] = "ahead"]
                   /\ UNCHANGED <<todo, hist>>
              [] OTHER ->
                   /\ rc' = Asks(c)
                   /\ pc' = [pc EXCEPT !["fuse"] = "first"]
                   /\ UNCHANGED <<todo, hist>>
    /\ UNCHANGED <<kind, objects, pushes, wb>>

\* The download ahead is there; it may still end before what is asked for.
AheadArrives ==
    /\ pc["fuse"] = "ahead"
    /\ \E d \in rc.pending :
         /\ d.state = "ok"
         /\ LET next == rc.lastReadOffset + Len(d.buf)
                c == [rc EXCEPT !.lastRead = d.buf, !.readFrom = d.offset,
                                !.pendingOffset = next, !.pending = Download(next, ReadChunk)]
            IN IF Op.offset < next
               THEN rc' = c /\ Ends(Copied(c, Op.offset))
               ELSE /\ rc' = Asks(c)
                    /\ pc' = [pc EXCEPT !["fuse"] = "first"]
                    /\ UNCHANGED <<todo, hist>>
    /\ UNCHANGED <<kind, objects, pushes, wb>>

FirstArrives ==
    /\ pc["fuse"] = "first"
    /\ \E d \in rc.future :
         /\ d.state = "ok"
         /\ rc' = [rc EXCEPT !.lastRead = d.buf, !.readFrom = d.offset, !.future = {}]
         /\ Ends(SubSeq(d.buf, 1, Smaller(Len(d.buf), Op.size)))
    /\ UNCHANGED <<kind, objects, pushes, wb>>

\* readFuture() throws: the download failed, or it was waited for too long, in which case
\* the download ahead stays.  By then lastReadOffset is new and lastRead is not.
ReadFails ==
    /\ \/ /\ pc["fuse"] = "ahead"
          /\ \E d \in rc.pending :
                /\ d.state # "ok"
                /\ rc' = [rc EXCEPT !.pending = IF d.state = "failed" THEN {} ELSE @]
       \/ /\ pc["fuse"] = "first"
          /\ \E d \in rc.future : d.state # "ok"
          /\ rc' = [rc EXCEPT !.future = {}]
    /\ todo' = Tail(todo)
    /\ pc' = [pc EXCEPT !["fuse"] = "ready"]
    /\ hist' = [hist EXCEPT !.last = {}]
    /\ UNCHANGED <<kind, objects, pushes, wb>>

\* ------------------------------------------------------------------------ specification
NoReads == [lastReadOffset |-> 0, lastRead |-> <<>>, pendingOffset |-> 0, pending |-> {},
            future |-> {}, clear |-> FALSE, readFrom |-> 0]

\* sh_open() makes an empty WriteBuffer and an empty ReadCache.
Init ==
    /\ kind \in Kinds
    /\ objects = LET parts == WriteParts(0, [i \in 1..InitialSize |-> Old], StoreBlock)
                 IN [b \in {p.block : p \in Range(parts)} |->
                        (CHOOSE p \in Range(parts) : p.block = b).data]
    /\ pushes = <<>>
    /\ wb = [buffers |-> <<>>, pending |-> 0, lastError |-> FALSE, bps |-> 0]
    /\ rc = NoReads
    /\ pc = [t \in {"fuse", "timer"} |-> "ready"]
    /\ todo \in Programs
    /\ hist = [expect |-> [x \in 1..InitialSize |-> {Old}], last |-> {}, faults |-> 0, short |-> FALSE]

Fuse ==
    FailsAtOnce \/ Passes \/ Write \/ Flush \/ Fsync \/ Confirmed \/ FsyncFails \/ Fsynced
    \/ ReadCached \/ AheadArrives \/ FirstArrives

Storage ==
    \/ \E i \in DOMAIN pushes : Fetch(i)
    \/ \E i \in DOMAIN pushes : PutObject(i)
    \/ \E i \in DOMAIN pushes : WritesBuffer(i)
    \/ \E i \in DOMAIN pushes : ClearsCache(i)
    \/ \E i \in DOMAIN pushes : Confirms(i)
    \/ \E slot \in {"future", "pending"} : AsksSize(slot)
    \/ \E slot \in {"future", "pending"} : ReadsBlock(slot)
    \/ \E slot \in {"future", "pending"} : ReadsAtOnce(slot)

Faults ==
    \/ \E i \in DOMAIN pushes : PushFails(i)
    \/ \E i \in DOMAIN pushes : AnswerLost(i)
    \/ \E i \in DOMAIN pushes : WritesShort(i)
    \/ \E slot \in {"future", "pending"} : DownloadFails(slot)
    \/ \E slot \in {"future", "pending"} : DownloadLost(slot)

Next ==
    \/ Fuse \/ Storage \/ Faults \/ ReadFails
    \/ \E t \in {"fuse", "timer"} : Timeout(t)
    \/ TimerPushes \/ TimerConfirmed

Spec == Init /\ [][Next]_vars

\* Each thread keeps running, a wait ends by its timeout at the latest, and the storage
\* works on what it was sent.
FairSpec ==
    /\ Spec
    /\ WF_vars(Fuse \/ ReadFails)
    /\ WF_vars(Storage)
    /\ WF_vars(\E t \in {"fuse", "timer"} : Timeout(t))
    /\ WF_vars(TimerConfirmed)

\* --------------------------------------------------------------------------- properties
\* What an operation reported a success for, and nothing since withdrew.
Right(offset, data) ==
    /\ \A i \in DOMAIN data : offset + i \in DOMAIN hist.expect => data[i] \in hist.expect[offset + i]
    /\ data = <<>> => offset + 1 \notin DOMAIN hist.expect

\* A read returns what was written before it, from the buffer, from pushes in flight and from
\* downloads made before the write included (sh_read): the cache is cleared before a push is
\* confirmed.  Where pushes in flight overlapped, any of them may have come last; and a cache
\* whose last download failed is not trusted, see OwnWritesAreRead.
ReadsOwnWrites ==
    \A l \in hist.last : (l.op = "read" /\ rc.readFrom = rc.lastReadOffset) => Right(l.offset, l.data)

\* "Push all changes so we'll always read data that we just wrote" (bufferAgent.h:110): of
\* every read that succeeds.
OwnWritesAreRead ==
    \A l \in hist.last : l.op = "read" => Right(l.offset, l.data)

\* A fsync or a release that succeeds finds everything written since the last reported error at
\* the storage, whatever the pushes in flight did to each other's blocks (sh_fsync, sh_release),
\* except the bytes a provider left out without an error (WritesShort, see ShortWritesAreTold);
\* and m_pendingConfirmation is the size of the pushes that were not answered: it never wraps
\* below zero and never holds back more than what is in flight (pushBuffer).
SyncedIsStored ==
    /\ wb.pending = SizeOf(FlattenSeq([i \in DOMAIN pushes |-> pushes[i].bufs]))
    /\ \A l \in hist.last : (l.op \in {"fsync", "release"} /\ l.code = "ok") =>
        \A x \in DOMAIN hist.expect : x \in DOMAIN Stored /\ Stored[x] \in hist.expect[x]

\* Not met: a push of which the provider wrote a part only is reported as an error by the next
\* operation that looks for one (the callback of pushBuffer drops the count).
ShortWritesAreTold ==
    \A l \in hist.last : (l.op \in {"fsync", "release"} /\ l.code = "ok") => ~hist.short

ByteAt(blocks, x) ==
    GetBlock(blocks, GetBlockId(x - 1, BlockSize), GetBlockOffset(x - 1, BlockSize), <<0>>)[1]

ReadAll(buf, parts) == FoldLeft(LAMBDA read, part : ReadPart(objects, read, part), buf, parts)

\* S3 lists any number of blocks.  Swift asks for MAX_LIST_OBJECTS first, drops this limit with
\* the next page and takes a page of another length for the last one (listObjects).
Lists(store, n) == store = "s3" \/ n <= MaxList + ServerList

\* A file in blocks is one file.  On both stores cutting it, growing it and removing it does
\* what it does to plain bytes, whatever writes left holes and short blocks before, and with
\* listings and deletions of several pages (ash_truncate, ash_unlink); the size they report is
\* that of the file (getObjectsSize), and any part of it is read as it is stored (ash_read).
\* Excepted is what Swift does not list: see SwiftListsAll.
BlocksAreOneFile ==
    (kind = "kv" /\ pushes = <<>>) => \A store \in {"s3", "swift"} :
        /\ S3ObjectsSize(objects, BlockSize) = Len(Stored)
        /\ SwiftObjectsSize(objects, BlockSize) = Len(Stored)
        /\ Lists(store, Cardinality(DOMAIN objects)) => Unlink(store, objects) = EmptyMap
        /\ \A offset \in 0..(Len(Stored) - 1), n \in 1..Len(Stored) :
              LET length == Smaller(n, Len(Stored) - offset)
              IN ReadAll(Zeros(length), ReadParts(Len(Stored), offset, n, BlockSize))
                     = SubSeq(Stored, offset + 1, offset + length)
        /\ \A n \in 0..(Len(Stored) + BlockSize + 1) :
              Lists(store, Cardinality(TruncateDeletes(objects, n, BlockSize))) =>
              LET cut == Truncate(store, objects, n, BlockSize)
              IN /\ GetObjectsSize(cut, BlockSize) = n
                 /\ \A x \in 1..n : ByteAt(cut, x) = IF x <= Len(Stored) THEN Stored[x] ELSE 0

\* Not met: a file on Swift of more than MAX_LIST_OBJECTS blocks and a page of the server is
\* removed with all its blocks (ash_unlink, listObjects).
SwiftListsAll == (kind = "kv" /\ pushes = <<>>) => Unlink("swift", objects) = EmptyMap

\* Every operation on the file returns, with lost answers and failed storage too, because each
\* wait has a timeout that ends it; unless a thread waits for its own mutex (PushBuffer).
OperationsReturn == <>(todo = <<>> \/ Stuck)
================================================================================
