------------------------------- MODULE FsLogic -------------------------------
(***************************************************************************)
(* The file system of the client (src/src/fsLogic.cc) with the caches it   *)
(* coordinates: metadata, expiration, subscriptions (src/src/              *)
(* fsSubscriptions.cc), file contexts, files forced to the proxy, and the  *)
(* storage helpers its open files are read and written through.            *)
(*                                                                         *)
(* A call of a cache is one step; between two calls of an operation the    *)
(* other FUSE threads, the handlers of events and the expiration tick run. *)
(* The locks inside the metadata cache are the subject of MetadataCache.   *)
(* A file is a sequence of blocks, and the data of a block is a number.    *)
(* An optional value is a set with at most one element.                    *)
(***************************************************************************)
EXTENDS Integers, Sequences, FiniteSets, FiniteSetsExt, HashMaps

CONSTANTS
    Thread, Uuid, Handle,
    Parent,     \* path -> its parent_path()
    InitSize,   \* external: the size of the provider's files at first
    InitBlocks, \* external: the blocks of theirs that are on the storage
    Order,      \* external: path -> its place among the children the provider lists
    ChunkSize,  \* chunkSize: children that readdir asks for at a time
    Workloads,  \* the provider's files at first, and what every thread runs
    MaxFaults   \* bound: requests that the provider or the storage refuses

VARIABLES
    fs,      \* the client: meta, paths, the expiration helpers attr and loc, subs,
             \* contexts, forced (m_forceProxyIOCache), disabled (spaces)
    thread,  \* thread -> its operations, the steps left of the first one, its locals
    status,  \* "aborted" once an assertion or an invalid iterator struck
    world,   \* external: the provider, the kernel and the storage
    hist     \* history for the properties

vars == <<fs, thread, status, world, hist>>

Expiration == INSTANCE ExpirationTracking WITH Key <- Uuid, entries <- fs.attr

\* ----------------------------------------------------------- operations and steps
OpenFile == <<"createCtx", "emitOpened", "pinLoc", "pinAttr", "opened">>
Mknod == <<"attrOfPath", "createFile">>

\* The calls of an operation, in their order.
Steps(op) ==
    CASE op = "getattr"     -> <<"attrOfPath", "markAttr">>
      [] op = "open"        -> <<"attrOfPath", "location", "getHelper">> \o OpenFile
      [] op = "create"      -> Mknod \o OpenFile
      [] op = "mknod"       -> Mknod
      [] op = "mkdir"       -> <<"attrOfPath", "createDir">>
      [] op = "readdir"     -> <<"attrOfPath", "list">>
      [] op = "read"        -> <<"attr", "location", "plan", "getHelper", "helperCtx", "shRead">>
      [] op = "write"       -> <<"attr", "location", "quota", "getHelper", "helperCtx", "shWrite",
                                 "emitWrite", "growAttr", "growLocation">>
      [] op = "truncate"    -> <<"truncate", "cutLocation">>
      [] op = "release"     -> <<"attrOfPath", "unpinLoc", "unpinAttr", "getHelper", "shRelease",
                                 "sendRelease">>
      [] op = "unlink"      -> <<"delete">>
      [] op = "rename"      -> <<"rename">>
      [] op = "fileRemoval" -> <<"markRemoved">>
      [] op = "fileRenamed" -> <<"markRenamed">>
      [] op = "fileAttr"    -> <<"resized", "fileAttr">>
      [] op = "chmodByOthers" -> <<"touched", "fileAttr">>
      [] op = "permission"  -> <<"granted", "unforce", "unsubscribe">>
      [] op = "tick"        -> <<"tickLoc", "tickAttr">>
      [] op \in {"exeeded", "detected"} -> <<op>>

Idle == [steps |-> <<>>, uuid |-> "", path |-> "", size |-> 0, blocks |-> {}, helper |-> "",
         synced |-> FALSE, listed |-> 0, entries |-> <<>>, changes |-> <<>>]

Op(t) == Head(thread[t].ops)
Local(t) == thread[t].local
U(t) == Local(t).uuid
Ctx(t) == fs.contexts[Op(t).fh]

Running == status = "running"
At(t, step) == Running /\ Local(t).steps # <<>> /\ Head(Local(t).steps) = step

Goes(t, l) ==
    thread' = IF l.steps = <<>>
              THEN [thread EXCEPT ![t] = [ops |-> Tail(@.ops), local |-> Idle]]
              ELSE [thread EXCEPT ![t].local = l]

Then(l, steps) == [l EXCEPT !.steps = steps]
Advance(t, l) == Goes(t, Then(l, Tail(l.steps)))
Return(t) == Goes(t, Idle)
Quiet == UNCHANGED <<status, world, hist>>

\* FUSE calls read, write and release for open files, and release once.
NeedsHandle == {"read", "write", "release"}
IsOpen(fh) == fh \in DOMAIN fs.contexts /\ fs.contexts[fh].open

\* external: the kernel hides an open file that is removed, by renaming it.
OpenAt(p) == {fh \in Handle : IsOpen(fh) /\ fs.contexts[fh].path = p}
RemoveSteps(p) == Steps(IF OpenAt(p) # {} THEN "rename" ELSE "unlink")

Begin(t) ==
    LET handled == Op(t).op \in NeedsHandle
        l == [Idle EXCEPT !.uuid = IF handled THEN Ctx(t).uuid ELSE Op(t).uuid,
                          !.path = IF Op(t).op = "release" THEN Ctx(t).path ELSE Op(t).path]
        steps == IF Op(t).op = "unlink" THEN RemoveSteps(Op(t).path) ELSE Steps(Op(t).op)
    IN
    /\ Running
    /\ thread[t].ops # <<>>
    /\ Local(t).steps = <<>>
    /\ IF handled /\ ~IsOpen(Op(t).fh)
       THEN Return(t) /\ UNCHANGED fs
       ELSE /\ Goes(t, Then(l, steps))
            /\ fs' = IF Op(t).op = "release" THEN [fs EXCEPT !.contexts[Op(t).fh].open = FALSE]
                     ELSE fs
    /\ Quiet

\* ------------------------------------------------------------------ metadata cache
Entry == [size |-> {}, blocks |-> {}, handleId |-> {}, path |-> {}, state |-> "normal"]

MetaOf(u) == IF u \in DOMAIN fs.meta THEN fs.meta[u] ELSE Entry

\* The outcomes of a request about a file: an answer, or an exception that erases
\* the entry.
Asked(u, answered) ==
    LET fails == [ok |-> FALSE, meta |-> Drop(fs.meta, u), faults |-> world.faults] IN
    IF u \notin Range(world.paths) THEN {fails}
    ELSE {[ok |-> TRUE, meta |-> Put(fs.meta, u, answered), faults |-> world.faults]}
         \cup {[fails EXCEPT !.faults = @ + 1] : f \in {world.faults} \cap 0..(MaxFaults - 1)}

\* getAttr(uuid) and getLocation(uuid, flags)
GetAttr(u) ==
    IF MetaOf(u).size # {} THEN {[ok |-> TRUE, meta |-> fs.meta, faults |-> world.faults]}
    ELSE Asked(u, [MetaOf(u) EXCEPT !.size = {world.size[u]}])

GetLocation(u) ==
    IF MetaOf(u).blocks # {} THEN {[ok |-> TRUE, meta |-> fs.meta, faults |-> world.faults]}
    ELSE Asked(u, [MetaOf(u) EXCEPT !.blocks = {world.blocks[u]}, !.handleId = {world.ids}])

\* What a request leaves behind in the world and in the history.
Noted(o, u) ==
    /\ world' = [world EXCEPT !.faults = o.faults,
                              !.ids = IF o.ok /\ o.meta[u].handleId = {@} THEN @ + 1 ELSE @]
    /\ hist' = [hist EXCEPT !.failed = IF o.ok THEN @ ELSE @ \cup {u}]

\* The path that the operation looks up; release gets the present path of the file.
Looked(t) == {IF Op(t).op \in {"create", "mknod", "mkdir"} THEN Parent[Op(t).path] ELSE Local(t).path}

\* getAttr(path): a path that is not mapped is resolved, and attributes are stored
\* if the file was not cached.
LookUp(ps) ==
    LET none == [ok |-> FALSE, fs |-> fs, uuid |-> "", faults |-> world.faults]
        cached == {fs.paths[p] : p \in ps \cap DOMAIN fs.paths}
        found == {world.paths[p] : p \in ps \cap DOMAIN world.paths}
        New(u) == [Entry EXCEPT !.size = {world.size[u]}]
        Resolved(u) ==
            [fs EXCEPT !.paths = Put(@, CHOOSE p \in ps : TRUE, u),
                       !.meta = Put(@, u, [IF u \in DOMAIN @ THEN @[u] ELSE New(u)
                                           EXCEPT !.path = ps])]
        Failing == {[none EXCEPT !.faults = @ + 1] : f \in {world.faults} \cap 0..(MaxFaults - 1)}
    IN CASE cached # {} -> UNION {{[ok |-> o.ok, fs |-> [fs EXCEPT !.meta = o.meta], uuid |-> u,
                                    faults |-> o.faults] : o \in GetAttr(u)} : u \in cached}
         [] cached = {} /\ found # {} ->
               {[none EXCEPT !.ok = TRUE, !.fs = Resolved(u), !.uuid = u] : u \in found}
               \cup Failing
         [] OTHER -> {none}

\* The attributes of an entry that only has a location are missing after a look-up.
Missing(o) == o.ok /\ o.fs.meta[o.uuid].size = {}

\* An exception ends the operation; the handler of renames ignores that of the rename.
Fails(t) == IF Op(t).op = "fileRenamed" THEN Advance(t, Local(t)) ELSE Return(t)

FailsLookUp(t, o) ==
    /\ ~o.ok
    /\ fs' = o.fs
    /\ world' = [world EXCEPT !.faults = o.faults]
    /\ hist' = [hist EXCEPT !.failed = @ \cup {o.uuid}]
    /\ Fails(t)
    /\ UNCHANGED status

Aborts == status' = "aborted" /\ UNCHANGED <<fs, thread, world, hist>>

AttrOfPath(t) ==
    /\ At(t, "attrOfPath")
    /\ \E o \in LookUp(Looked(t)) :
        \/ FailsLookUp(t, o)
        \/ Missing(o) /\ Aborts
        \/ /\ o.ok /\ ~Missing(o)
           /\ fs' = o.fs
           /\ Advance(t, [Local(t) EXCEPT !.uuid = o.uuid, !.size = Max(o.fs.meta[o.uuid].size)])
           /\ UNCHANGED <<status, world, hist>>

Attr(t) ==
    /\ At(t, "attr")
    /\ \E o \in GetAttr(U(t)) :
        /\ fs' = [fs EXCEPT !.meta = o.meta]
        /\ IF o.ok THEN Advance(t, [Local(t) EXCEPT !.size = Max(o.meta[U(t)].size)]) ELSE Return(t)
        /\ Noted(o, U(t))
    /\ UNCHANGED status

Location(t) ==
    /\ At(t, "location")
    /\ \E o \in GetLocation(U(t)) :
        /\ fs' = [fs EXCEPT !.meta = o.meta]
        /\ IF o.ok THEN Advance(t, [Local(t) EXCEPT !.blocks = UNION o.meta[U(t)].blocks])
           ELSE Return(t)
        /\ Noted(o, U(t))
    /\ UNCHANGED status

\* ---------------------------------------------------- expiration and subscriptions
\* The subscriptions that the cache() callbacks of the two helpers make.
SubscriptionsOf(kind, u) ==
    IF kind = "loc" THEN {<<"fileLocation", u>>}
    ELSE {"fileAttr", "fileRemoval", "fileRenamed"} \X {u}

QuotaSubscription == {<<"quota", "">>}

\* add...Subscription(): one that the file has already is not sent again.
AddSubscriptions(subs, new) == subs \cup new

\* remove...Subscription(): one that the file has is cancelled.
RemoveSubscriptions(subs, old) == subs \ old

\* markInteresting() or pin(): cache() asks for the file and subscribes, unless the
\* file is tracked already; if it throws, an entry stays that nothing stands behind.
Track(t, kind, after(_, _)) ==
    LET u == U(t) IN
    IF u \in DOMAIN fs[kind]
    THEN /\ fs' = [fs EXCEPT ![kind] = after(@, u)]
         /\ Advance(t, Local(t))
         /\ UNCHANGED <<world, hist>>
    ELSE \E o \in IF kind = "loc" THEN GetLocation(u) ELSE GetAttr(u) :
         /\ IF o.ok
            THEN /\ fs' = [fs EXCEPT !.meta = o.meta, ![kind] = after(@, u),
                                     !.subs = AddSubscriptions(@, SubscriptionsOf(kind, u))]
                 /\ Advance(t, Local(t))
            ELSE /\ fs' = [fs EXCEPT !.meta = o.meta, ![kind] = Expiration!Interest(@, u)]
                 /\ Return(t)
         /\ Noted(o, u)

MarkAttr(t) == At(t, "markAttr") /\ Track(t, "attr", Expiration!Interest) /\ UNCHANGED status

\* Variant: the location of an open file is only marked as interesting.
PinLocInteresting(t) == At(t, "pinLoc") /\ Track(t, "loc", Expiration!Interest) /\ UNCHANGED status

PinLoc(t) == At(t, "pinLoc") /\ Track(t, "loc", Expiration!Pinned) /\ UNCHANGED status

PinAttr(t) == At(t, "pinAttr") /\ Track(t, "attr", Expiration!Pinned) /\ UNCHANGED status

\* open returns: FUSE has the handle now.
Opened(t) ==
    /\ At(t, "opened")
    /\ fs' = [fs EXCEPT !.contexts[Op(t).fh].open = TRUE]
    /\ Advance(t, Local(t))
    /\ Quiet

\* unpin() asserts that the file is tracked and pinned.
Unpin(t, kind) ==
    /\ IF U(t) \in DOMAIN fs[kind] /\ fs[kind][U(t)] > 0
       THEN /\ fs' = [fs EXCEPT ![kind] = Expiration!Unpinned(@, U(t))]
            /\ Advance(t, Local(t))
            /\ UNCHANGED status
       ELSE status' = "aborted" /\ UNCHANGED <<fs, thread>>
    /\ UNCHANGED <<world, hist>>

UnpinLoc(t) == At(t, "unpinLoc") /\ Unpin(t, "loc")
UnpinAttr(t) == At(t, "unpinAttr") /\ Unpin(t, "attr")

\* remove(uuid) of the metadata cache, for every file of a set
Removed(c, us) ==
    [c EXCEPT !.meta  = RestrictDomain(@, LAMBDA u : u \notin us),
              !.paths = RestrictDomain(@, LAMBDA p : \A u \in us \cap DOMAIN c.meta :
                                                         p \notin c.meta[u].path)]

\* Variant: subscriptions are cancelled before it is known that the file is purged.
TickUnsubscribing(t, kind) ==
    /\ \E us \in SUBSET {u \in DOMAIN fs[kind] : fs[kind][u] = 0} :
        fs' = [fs EXCEPT !.subs = RemoveSubscriptions(@, UNION {SubscriptionsOf(kind, u) : u \in us})]
    /\ Advance(t, Local(t))
    /\ Quiet

\* A tick purges some of the files that are not pinned.
Tick(t, kind) ==
    /\ \E us \in SUBSET {u \in DOMAIN fs[kind] : fs[kind][u] = 0} :
        fs' = [Removed(fs, us) EXCEPT
                  ![kind] = RestrictDomain(@, LAMBDA u : u \notin us),
                  !.subs  = RemoveSubscriptions(@, UNION {SubscriptionsOf(kind, u) : u \in us})]
    /\ Advance(t, Local(t))
    /\ Quiet

TickLoc(t) == At(t, "tickLoc") /\ Tick(t, "loc")
TickAttr(t) == At(t, "tickAttr") /\ Tick(t, "attr")

\* The expiration of attributes follows a file to its new uuid; its location does not.
\* cache() moves the subscriptions, unless the new uuid is tracked already.
RenameAttr(t) ==
    LET old == Head(Local(t).changes).old
        new == Head(Local(t).changes).new
        next == [Local(t) EXCEPT !.changes = Tail(@)]
        renamed == [fs EXCEPT !.attr = Expiration!Renamed(@, old, new)]
        left == RemoveSubscriptions(fs.subs, SubscriptionsOf("attr", old))
    IN
    /\ At(t, "renameAttr")
    /\ IF new = old \/ old \notin DOMAIN fs.attr
       THEN Advance(t, next) /\ UNCHANGED <<fs, world, hist>>
       ELSE IF new \in DOMAIN fs.attr
       THEN fs' = renamed /\ Advance(t, next) /\ UNCHANGED <<world, hist>>
       ELSE \E o \in GetAttr(new) :
            /\ fs' = IF o.ok
                     THEN [renamed EXCEPT !.meta = o.meta,
                                          !.subs = AddSubscriptions(left, SubscriptionsOf("attr", new))]
                     ELSE [fs EXCEPT !.meta = o.meta, !.subs = left,
                                     !.attr = Expiration!Interest(@, new)]
            /\ IF o.ok THEN Advance(t, next) ELSE Return(t)
            /\ world' = [world EXCEPT !.faults = o.faults]
            /\ hist' = [hist EXCEPT !.failed = IF o.ok THEN @ ELSE @ \cup {old, new}]
    /\ UNCHANGED status

\* ------------------------------------------------------------ creating and opening
\* A request that may fail: the world after it, or an exception.
Refused == world.faults < MaxFaults /\ world' = [world EXCEPT !.faults = @ + 1]

Requests(t, after) ==
    \/ world' = after /\ Advance(t, Local(t))
    \/ Refused /\ Return(t)

\* createFile(): the provider makes the file and map() stores its location.
CreateFile(t) ==
    LET u == Op(t).uuid
        p == Op(t).path
    IN
    /\ At(t, "createFile")
    /\ IF p \in DOMAIN world.paths \/ u \in Range(world.paths)
       THEN Return(t) /\ UNCHANGED <<fs, world>>
       ELSE \/ /\ world' = [world EXCEPT !.paths = Put(@, p, u), !.size[u] = 0,
                                         !.blocks[u] = {}, !.ids = @ + 1]
               /\ fs' = [fs EXCEPT !.paths = Put(@, p, u),
                                   !.meta = Put(@, u, [MetaOf(u) EXCEPT !.blocks = {{}},
                                                          !.handleId = {world.ids}, !.path = {p}])]
               /\ Advance(t, [Local(t) EXCEPT !.uuid = u])
            \/ Refused /\ Return(t) /\ UNCHANGED fs
    /\ UNCHANGED <<status, hist>>

CreateDir(t) ==
    /\ At(t, "createDir")
    /\ IF Op(t).path \in DOMAIN world.paths THEN Return(t) /\ UNCHANGED world
       ELSE Requests(t, [world EXCEPT !.paths = Put(@, Op(t).path, Op(t).uuid)])
    /\ UNCHANGED <<fs, status, hist>>

\* readdir asks for the children in chunks, and maps the children of one (the path, no
\* attributes) before it asks for the next; a chunk that is not full is the last one.
List(t) ==
    LET children == {p \in DOMAIN world.paths : Parent[p] = Local(t).path}
        Index(p) == Cardinality({q \in children : Order[q] < Order[p]})
        chunk == {p \in children : Index(p) \in Local(t).listed .. (Local(t).listed + ChunkSize - 1)}
        PathsOf(u) == {p \in chunk : world.paths[p] = u}
    IN
    /\ At(t, "list")
    /\ \/ /\ fs' = [fs EXCEPT
                !.paths = [p \in DOMAIN @ \cup chunk |-> IF p \in chunk THEN world.paths[p] ELSE @[p]],
                !.meta  = [u \in DOMAIN @ \cup {world.paths[p] : p \in chunk} |->
                              IF PathsOf(u) # {} THEN [MetaOf(u) EXCEPT !.path = PathsOf(u)] ELSE @[u]]]
          /\ IF Cardinality(chunk) < ChunkSize THEN Advance(t, Local(t))
             ELSE Goes(t, [Local(t) EXCEPT !.listed = @ + ChunkSize])
          /\ UNCHANGED world
       \/ Refused /\ Return(t) /\ UNCHANGED fs
    /\ UNCHANGED <<status, hist>>

\* getHelper(): a file forced to the proxy never gets the helper of the storage.
GetHelper(t) ==
    LET helper == IF U(t) \in fs.forced THEN "proxy" ELSE world.access IN
    /\ At(t, "getHelper")
    /\ \/ Advance(t, [Local(t) EXCEPT !.helper = helper]) /\ UNCHANGED world
       \/ Refused /\ Return(t)
    /\ UNCHANGED <<fs, status, hist>>

FileContext(u, p, handleId) ==
    [uuid |-> u, path |-> p, handleId |-> handleId, ctx |-> EmptyMap, open |-> FALSE]

\* The context takes the handle id out of the location; it stays when that fails.
CreateCtx(t) ==
    LET u == U(t)
        p == Op(t).path
    IN
    /\ At(t, "createCtx")
    /\ \E o \in GetLocation(u) :
        /\ IF o.ok
           THEN /\ fs' = [fs EXCEPT
                    !.meta = [o.meta EXCEPT ![u].handleId = {}],
                    !.contexts = Put(@, Op(t).fh, FileContext(u, p, o.meta[u].handleId))]
                /\ Advance(t, Local(t))
           ELSE /\ fs' = [fs EXCEPT !.meta = o.meta,
                                    !.contexts = Put(@, Op(t).fh, FileContext("", p, {}))]
                /\ Return(t)
        /\ Noted(o, u)
    /\ UNCHANGED status

EmitOpened(t) ==
    /\ At(t, "emitOpened")
    /\ world' = [world EXCEPT !.opened[U(t)] = @ + 1]
    /\ Advance(t, Local(t))
    /\ UNCHANGED <<fs, status, hist>>

\* ------------------------------------------------------------- reading and writing
Requested(t) == Op(t).offset .. (Op(t).offset + Op(t).size - 1)
Wanted(t) == Requested(t) \cap 0..(Local(t).size - 1)

\* The part of a range from its offset on that lies in one block (or one gap).
Run(blocks, range) ==
    {b \in range : \A c \in Min(range)..b : (c \in blocks) <=> (Min(range) \in blocks)}

Merged(data, buffer) ==
    [b \in DOMAIN data \cup DOMAIN buffer |-> IF b \in DOMAIN buffer THEN buffer[b] ELSE data[b]]

\* read() is done when nothing of the file is wanted, and asks the provider for data
\* that is not on the storage.
Plan(t) ==
    /\ At(t, "plan")
    /\ IF Wanted(t) = {} THEN Return(t)
       ELSE IF Op(t).offset \in Local(t).blocks THEN Advance(t, Local(t))
       ELSE Goes(t, [Local(t) EXCEPT !.synced = TRUE,
                        !.steps = <<"sync", "await", "relocate">> \o Tail(@)])
    /\ UNCHANGED fs
    /\ Quiet

\* The checksum that the request returns is compared after the read.
Sync(t) ==
    /\ At(t, "sync")
    /\ Requests(t, [world EXCEPT !.blocks[U(t)] = @ \cup Wanted(t), !.pending = @ \cup {U(t)},
                                 !.data[world.file[U(t)]] = Merged([b \in Wanted(t) |-> 0], @)])
    /\ UNCHANGED <<fs, status, hist>>

\* waitForNewLocation() polls the location, which is asked for when it has left the cache,
\* for the first byte of the range; it may give up after any look.
Await(t) ==
    /\ At(t, "await")
    /\ \E o \in GetLocation(U(t)) :
        /\ fs' = [fs EXCEPT !.meta = o.meta]
        /\ IF o.ok /\ Min(Wanted(t)) \in UNION o.meta[U(t)].blocks THEN Advance(t, Local(t))
           ELSE Return(t) \/ (o.ok /\ UNCHANGED thread)
        /\ Noted(o, U(t))
    /\ UNCHANGED status

\* The location is read again; a block that has left it since is the end iterator.
Relocate(t) ==
    /\ At(t, "relocate")
    /\ \E o \in GetLocation(U(t)) :
        /\ fs' = [fs EXCEPT !.meta = o.meta]
        /\ status' = IF o.ok /\ Op(t).offset \notin UNION o.meta[U(t)].blocks
                     THEN "aborted" ELSE status
        /\ IF o.ok THEN Advance(t, [Local(t) EXCEPT !.blocks = UNION o.meta[U(t)].blocks])
           ELSE Return(t)
        /\ Noted(o, U(t))

\* getHelperCtx(): the first use of a file on the storage opens it with the helper of
\* that moment; a context whose file could not be opened stays.
HelperCtx(t) ==
    LET f == world.file[U(t)]
        denied == Local(t).helper = "direct" /\ U(t) \in world.denied
    IN
    /\ At(t, "helperCtx")
    /\ IF f \in DOMAIN Ctx(t).ctx THEN Advance(t, Local(t)) /\ UNCHANGED fs
       ELSE /\ fs' = [fs EXCEPT !.contexts[Op(t).fh].ctx =
                        Put(@, f, [kind |-> Local(t).helper, buffer |-> EmptyMap, error |-> FALSE])]
            /\ IF denied THEN Return(t) ELSE Advance(t, Local(t))
    /\ Quiet

\* What the helper at hand makes of the context: a context of another helper is
\* replaced by a temporary one, for this call only.
Context(t) == Ctx(t).ctx[world.file[U(t)]]
Buffered(t) == Local(t).helper = "proxy" /\ Context(t).kind = "proxy"
Denied(t) == Local(t).helper = "direct" /\ U(t) \in world.denied

Again(t) == Goes(t, Then([Idle EXCEPT !.uuid = U(t)], Steps(Op(t).op)))

\* Variant: the file is not remembered as one for the proxy.
ForceProxyForgetting(t, c) == Again(t) /\ fs' = c

\* A refused operation (EPERM or EACCES) is tried once more through the proxy.
ForceProxy(t, c) ==
    IF U(t) \in c.forced
    THEN Return(t) /\ fs' = c
    ELSE /\ fs' = [c EXCEPT !.forced = @ \cup {U(t)}]
         /\ Goes(t, Then(Local(t), <<"subscribe">>))

Subscribe(t) ==
    /\ At(t, "subscribe")
    /\ fs' = [fs EXCEPT !.subs = AddSubscriptions(@, {<<"permission", U(t)>>})]
    /\ Again(t)
    /\ Quiet

\* pushBuffer(): the buffer of a context reaches the storage, or is lost and leaves
\* an error behind (m_lastError), which the next operation on the context throws.
FlushTo(w, f, buffer) == [w EXCEPT !.data[f] = Merged(@, buffer)]
Pushed(ctx, failed) == [ctx EXCEPT !.buffer = EmptyMap, !.error = @ \/ failed]
WithCtx(c, fh, f, ctx) == [c EXCEPT !.contexts[fh].ctx[f] = ctx]

\* throwLastError()
Thrown(ctx) == [ctx EXCEPT !.error = FALSE]

\* WriteBuffer::fsync(), what follows it included: its outcomes.
Fsync(ctx, f) ==
    IF ctx.error THEN {[ok |-> FALSE, world |-> world, ctx |-> Thrown(ctx)]}
    ELSE {[ok |-> TRUE, world |-> FlushTo(world, f, ctx.buffer), ctx |-> Pushed(ctx, FALSE)]}
         \cup {[ok |-> FALSE, world |-> [world EXCEPT !.faults = n + 1], ctx |-> Pushed(ctx, FALSE)] :
                  n \in {world.faults} \cap 0..(MaxFaults - 1)}

\* An error of the helper is thrown by read() or write(), or taken for a refusal.
Throws(t, c) ==
    \/ /\ Return(t) /\ fs' = c
       /\ hist' = [hist EXCEPT !.told = @ \cup {Op(t).fh}]
    \/ /\ U(t) \notin c.forced /\ ForceProxy(t, c)
       /\ hist' = [hist EXCEPT !.retried = @ \cup {Op(t).fh}]

\* Variant: the proxy is read without what is still buffered.
ShReadUnflushed(t) ==
    LET f == world.file[U(t)] IN
    /\ At(t, "shRead")
    /\ Return(t)
    /\ hist' = [hist EXCEPT !.stale = @ \cup
         {Op(t).fh : b \in {b \in DOMAIN hist.own[Op(t).fh] \cap Requested(t) :
                                \/ b \notin DOMAIN world.data[f]
                                \/ world.data[f][b] # hist.own[Op(t).fh][b]}}]
    /\ UNCHANGED <<fs, status, world>>

\* dataCorrupted(): data that was just synchronised is checked against the provider's
\* checksum, which differs when the storage is behind; the model leaves that open.
DataCorrupted(t) == IF Local(t).helper = "direct" /\ Local(t).synced THEN BOOLEAN ELSE {FALSE}

\* sh_read through a buffering helper first writes its buffer out.  A read of corrupted
\* data is repeated.
ShRead(t) ==
    LET f == world.file[U(t)]
        fh == Op(t).fh
        range == Run(Local(t).blocks, Wanted(t))
        Differs(b, data) == b \notin DOMAIN data \/ data[b] # hist.own[fh][b]
        Reads(data) ==
            [hist EXCEPT
               !.switched = IF Local(t).helper = Context(t).kind THEN @ ELSE @ \cup {fh},
               !.stale = IF \E b \in range \cap DOMAIN hist.own[fh] : Differs(b, data)
                         THEN @ \cup {fh} ELSE @]
    IN
    /\ At(t, "shRead")
    /\ \/ Denied(t) /\ ForceProxy(t, fs) /\ UNCHANGED <<world, hist>>
       \/ /\ Buffered(t)
          /\ \E o \in Fsync(Context(t), f) :
               LET c == WithCtx(fs, fh, f, o.ctx) IN
               /\ world' = o.world
               /\ IF o.ok THEN fs' = c /\ Return(t) /\ hist' = Reads(o.world.data[f])
                  ELSE Throws(t, c)
       \/ /\ ~Denied(t) /\ ~Buffered(t)
          /\ \E corrupted \in DataCorrupted(t) :
               IF corrupted THEN Again(t) /\ UNCHANGED hist
               ELSE Return(t) /\ hist' = Reads(world.data[f])
          /\ UNCHANGED <<fs, world>>
       \/ ~Denied(t) /\ ~Buffered(t) /\ Refused /\ Throws(t, fs)
    /\ UNCHANGED status

Quota(t) ==
    /\ At(t, "quota")
    /\ IF fs.disabled THEN Return(t) ELSE Advance(t, Local(t))
    /\ UNCHANGED fs
    /\ Quiet

\* Blocks of a file that other handles hold back: their order of arrival is open.
Foreign(fh, f) ==
    UNION {DOMAIN fs.contexts[h].ctx[f].buffer :
              h \in {h \in DOMAIN fs.contexts \ {fh} : f \in DOMAIN fs.contexts[h].ctx}}

\* sh_write stores in the buffer of the context, or on the storage.  Local blocks are
\* those of the location read before; the rest of the operation is about "range".
ShWrite(t) ==
    LET f == world.file[U(t)]
        fh == Op(t).fh
        ctx == Context(t)
        range == Run(Local(t).blocks, Requested(t))
        written == [b \in range |-> Op(t).value]
        Accepted ==
            /\ hist' = [hist EXCEPT
                 !.own = [h \in DOMAIN @ |-> IF h = fh THEN Merged(@[h], Restrict(written, range \ Foreign(fh, f)))
                                             ELSE RestrictDomain(@[h], LAMBDA b :
                                                    b \notin range \/ fs.contexts[h].uuid # U(t))],
                 !.switched = IF Local(t).helper = ctx.kind THEN @ ELSE @ \cup {fh}]
            /\ Advance(t, [Local(t) EXCEPT !.blocks = range])
    IN
    /\ At(t, "shWrite")
    /\ \/ Denied(t) /\ ForceProxy(t, fs) /\ UNCHANGED <<world, hist>>
       \/ /\ Buffered(t) /\ ctx.error
          /\ Throws(t, WithCtx(fs, fh, f, Thrown(ctx))) /\ UNCHANGED world
       \/ /\ Buffered(t) /\ ~ctx.error
          /\ fs' = WithCtx(fs, fh, f, [ctx EXCEPT !.buffer = Merged(@, written)])
          /\ Accepted /\ UNCHANGED world
       \/ /\ ~Denied(t) /\ ~Buffered(t)
          /\ world' = FlushTo(world, f, written)
          /\ Accepted /\ UNCHANGED fs
       \/ ~Denied(t) /\ ~Buffered(t) /\ Refused /\ Throws(t, fs)
    /\ UNCHANGED status

\* The write event reaches the provider some time later.
EmitWrite(t) ==
    /\ At(t, "emitWrite")
    /\ world' = [world EXCEPT !.unreported[U(t)] = @ \cup Local(t).blocks]
    /\ Advance(t, Local(t))
    /\ UNCHANGED <<fs, status, hist>>

GrowAttr(t) ==
    LET end == Max(Local(t).blocks) + 1 IN
    /\ At(t, "growAttr")
    /\ \E o \in GetAttr(U(t)) :
        IF o.ok
        THEN LET size == Max(o.meta[U(t)].size \cup {end}) IN
             /\ fs' = [fs EXCEPT !.meta = [o.meta EXCEPT ![U(t)].size = {size}]]
             /\ hist' = [hist EXCEPT !.grown = Put(@, U(t), size)]
             /\ world' = [world EXCEPT !.faults = o.faults]
             /\ Advance(t, Local(t))
        ELSE fs' = [fs EXCEPT !.meta = o.meta] /\ Noted(o, U(t)) /\ Return(t)
    /\ UNCHANGED status

\* Changes the blocks of the location, which is asked for again when it has gone.
ChangeBlocks(t, change(_)) ==
    /\ \E o \in GetLocation(U(t)) :
        /\ IF o.ok
           THEN /\ fs' = [fs EXCEPT !.meta = [o.meta EXCEPT ![U(t)].blocks = {change(UNION @)}]]
                /\ Advance(t, Local(t))
           ELSE fs' = [fs EXCEPT !.meta = o.meta] /\ Return(t)
        /\ Noted(o, U(t))
    /\ UNCHANGED status

GrowLocation(t) ==
    At(t, "growLocation") /\ ChangeBlocks(t, LAMBDA blocks : blocks \cup Local(t).blocks)

CutLocation(t) ==
    At(t, "cutLocation") /\ ChangeBlocks(t, LAMBDA blocks : blocks \cap 0..(Op(t).size - 1))

\* Blocks from n on are gone, for everybody.
Cut(w, u, n) ==
    [w EXCEPT !.size[u] = n,
              !.blocks[u] = @ \cap 0..(n - 1),
              !.unreported[u] = @ \cap 0..(n - 1),
              !.data[w.file[u]] = RestrictDomain(@, LAMBDA b : b < n)]

Forgotten(h, u, n) ==
    [h EXCEPT !.own = [fh \in DOMAIN @ |->
        RestrictDomain(@[fh], LAMBDA b : b < n \/ fs.contexts[fh].uuid # u)]]

\* A request made with the entry of the path locked: what it changes when it succeeds,
\* and what is undone when it does not.
Locked(t, asks(_), succeeds(_), undone(_)) ==
    \E o \in LookUp(Looked(t)) :
        LET gone == o.uuid \notin Range(world.paths) IN
        \/ FailsLookUp(t, [o EXCEPT !.fs = undone(@)])
        \/ Missing(o) /\ Aborts
        \/ /\ o.ok /\ ~Missing(o)
           /\ asks(o) => ~gone
           /\ succeeds(o)
           /\ UNCHANGED status
        \/ /\ o.ok /\ ~Missing(o) /\ asks(o)
           /\ gone \/ world.faults < MaxFaults
           /\ fs' = undone(o.fs)
           /\ world' = [world EXCEPT !.faults = IF gone THEN @ ELSE @ + 1]
           /\ Fails(t)
           /\ UNCHANGED <<status, hist>>

\* truncate: the provider agrees before the cached size changes.
Truncate(t) ==
    LET n == Op(t).size
        Agreed(o) == /\ world' = Cut(world, o.uuid, n)
                     /\ fs' = [o.fs EXCEPT !.meta[o.uuid].size = {n}]
                     /\ hist' = [Forgotten(hist, o.uuid, n) EXCEPT !.grown = Drop(@, o.uuid)]
                     /\ Advance(t, [Local(t) EXCEPT !.uuid = o.uuid])
    IN At(t, "truncate") /\ Locked(t, LAMBDA o : TRUE, Agreed, LAMBDA c : c)

\* ------------------------------------------------------------------------- release
\* What is recorded of a release: a context of another helper, an exception for the caller,
\* a write that is not in the storage when the contexts are gone.
ReleaseNoted(fh, ctx, helper, failing, data) ==
    LET Arrived(f) == \A b \in DOMAIN hist.own[fh] :
                         b \in DOMAIN data[f] /\ data[f][b] = hist.own[fh][b]
    IN [hist EXCEPT !.switched = @ \cup {h \in {fh} : \E f \in DOMAIN ctx : ctx[f].kind # helper},
                    !.told = @ \cup {h \in {fh} : failing # {}},
                    !.lost = @ \cup {h \in {fh} : \E f \in DOMAIN ctx : ~Arrived(f)}]

\* Variant: the buffers are dropped with the contexts.
ShReleaseUnflushed(t) ==
    /\ At(t, "shRelease")
    /\ hist' = ReleaseNoted(Op(t).fh, Ctx(t).ctx, Local(t).helper, {}, world.data)
    /\ Advance(t, Local(t))
    /\ UNCHANGED <<fs, status, world>>

\* sh_release of every context, with the helper of this moment: a context of another one is
\* not flushed.  One that fails does not keep the others from being released; the last
\* exception is thrown when release() is done (lastReleaseException).
ShRelease(t) ==
    LET fh == Op(t).fh
        ctx == Ctx(t).ctx
        helper == Local(t).helper
        Proxied(f) == ctx[f].kind = "proxy" /\ helper = "proxy"
        due == {f \in DOMAIN ctx : Proxied(f) /\ ctx[f].error}
        After(failing) ==
            [world EXCEPT !.faults = IF failing = due THEN @ ELSE @ + 1,
                          !.data = [f \in DOMAIN @ |-> IF f \in (DOMAIN ctx) \ failing /\ Proxied(f)
                                                       THEN Merged(@[f], ctx[f].buffer) ELSE @[f]]]
    IN
    /\ At(t, "shRelease")
    /\ fs' = [fs EXCEPT !.contexts[fh].ctx = [f \in DOMAIN @ |->
                 IF f \in due THEN Thrown(@[f]) ELSE IF Proxied(f) THEN Pushed(@[f], FALSE) ELSE @[f]]]
    /\ \E failing \in SUBSET DOMAIN ctx :
         /\ due \subseteq failing
         /\ failing = due \/ world.faults < MaxFaults
         /\ world' = After(failing)
         /\ hist' = ReleaseNoted(fh, ctx, helper, failing, After(failing).data)
    /\ Advance(t, Local(t))
    /\ UNCHANGED status

SendRelease(t) ==
    LET released == [fs EXCEPT !.contexts[Op(t).fh].handleId = {},
                               !.contexts[Op(t).fh].ctx = EmptyMap]
    IN
    /\ At(t, "sendRelease")
    /\ \/ /\ world' = [world EXCEPT !.opened[U(t)] = @ - 1]
          /\ fs' = released
       \/ Ctx(t).handleId # {} /\ Refused /\ UNCHANGED fs
    /\ Return(t)
    /\ UNCHANGED <<status, hist>>

\* ------------------------------------------------------------ removing and renaming
\* removeFile(): a removal that comes from the provider is not sent back to it.
Delete(t) ==
    LET Asks(o) == o.fs.meta[o.uuid].state # "removedUpstream"
        Deleted(o) ==
            /\ world' = IF Asks(o) THEN [world EXCEPT !.paths = RestrictValues(@, LAMBDA u : u # o.uuid)]
                        ELSE world
            /\ fs' = [o.fs EXCEPT !.paths = Drop(@, Local(t).path), !.meta[o.uuid].path = {}]
            /\ Advance(t, Local(t))
            /\ UNCHANGED hist
    IN At(t, "delete") /\ Locked(t, Asks, Deleted, LAMBDA c : c)

\* remapFile(): a file has a new path, and maybe a new uuid, which takes over its
\* attributes.
Remapped(c, old, new, path) ==
    LET entry == c.meta[old] IN
    [c EXCEPT !.paths = Put(RestrictDomain(@, LAMBDA p : p \notin entry.path), path, new),
              !.meta = IF new = old
                       THEN [@ EXCEPT ![old].path = {path}, ![old].blocks = {}]
                       ELSE Put(Drop(@, old), new, [Entry EXCEPT !.size = entry.size,
                                                                 !.path = {path}])]

\* external: what a rename changes at the provider: every entry gives a file a new path,
\* and maybe a new uuid
Moved(w, es) ==
    LET kept == RestrictValues(w.paths, LAMBDA u : \A e \in es : u # e.old)
        NewAt(p) == (CHOOSE e \in es : e.path = p).new
        Taken(field) == [u \in DOMAIN field |-> IF \E e \in es : e.new = u
                                                THEN field[(CHOOSE e \in es : e.new = u).old] ELSE field[u]]
    IN [w EXCEPT !.paths = [p \in DOMAIN kept \cup {e.path : e \in es} |->
                               IF \E e \in es : e.path = p THEN NewAt(p) ELSE kept[p]],
                 !.size = Taken(@), !.blocks = Taken(@), !.unreported = Taken(@), !.file = Taken(@)]

\* external: the entries that the provider names for the children of a renamed directory
ChildEntries(t) ==
    IF Op(t).op \in {"rename", "fileRenamed"}
    THEN SelectSeq(Op(t).children, LAMBDA e : e.old \in Range(world.paths)) ELSE <<>>

MovedUuids(es) == UNION {{e.old, e.new} : e \in {e \in es : e.old # e.new}}

Target(t) == IF Op(t).op \in {"rename", "fileRenamed"} THEN Op(t).new ELSE "/hidden"

\* external: the kernel's paths of open files follow, below a directory too
Followed(c, es) ==
    [c EXCEPT !.contexts = [fh \in DOMAIN @ |->
        LET follows == {e \in es : e.from = @[fh].path}
        IN IF follows = {} THEN @[fh] ELSE [@[fh] EXCEPT !.path = (CHOOSE e \in follows : TRUE).path]]]

\* MetadataCache::rename, in the three states of the file.  The children are remapped, and
\* all changes of uuids followed, afterwards.  The uuid that the change of the file itself is
\* reported for is a reference into an erased entry: the report may be lost.
Rename(t) ==
    LET old == Local(t).path
        new == Target(t)
        children == ChildEntries(t)
        Asks(o) == o.fs.meta[o.uuid].state = "normal"
        Unmapped(c) == [c EXCEPT !.paths = Drop(@, new)]
        Hidden(o) == [o.fs EXCEPT !.paths = Put(Drop(@, old), new, o.uuid),
                                  !.meta[o.uuid].path = {new}, !.meta[o.uuid].blocks = {}]
        Announced(o) == [o.fs EXCEPT !.paths = Drop(Put(@, new, IF new \in DOMAIN @ THEN @[new]
                                                               ELSE ""), old),
                                     !.meta[o.uuid].state = "normal"]
        Overwritten(c) == [c EXCEPT !.meta = RestrictDomain(@, LAMBDA u :
                              new \notin DOMAIN c.paths \/ u # c.paths[new])]
        Top(o) == [from |-> old, old |-> o.uuid, path |-> new,
                   new |-> IF Op(t).op # "rename" \/ Op(t).uuid = "" THEN o.uuid ELSE Op(t).uuid]
        Renamed(o) ==
            LET u == Top(o).new
                es == {Top(o)} \cup Range(children)
            IN /\ fs' = Followed(Remapped([Overwritten(o.fs) EXCEPT !.paths = Drop(@, old)], o.uuid, u, new),
                                 es)
               /\ world' = Moved(world, es)
               /\ \E changes \in IF u = o.uuid THEN {children} ELSE {children, <<Top(o)>> \o children} :
                    Goes(t, [Local(t) EXCEPT !.entries = children \o @, !.changes = changes \o @,
                               !.steps = [i \in DOMAIN children |-> "remap"]
                                         \o [i \in DOMAIN changes |-> "renameAttr"] \o Tail(@)])
               /\ hist' = [hist EXCEPT !.moved = @ \cup MovedUuids(es)]
        Done(o) ==
            \/ Asks(o) /\ Renamed(o)
            \/ /\ ~Asks(o)
               /\ fs' = Followed(IF o.fs.meta[o.uuid].state = "removedUpstream"
                                 THEN Hidden(o) ELSE Announced(o), {Top(o)} \cup Range(children))
               /\ Advance(t, Local(t))
               /\ UNCHANGED <<world, hist>>
    IN At(t, "rename") /\ Locked(t, Asks, Done, Unmapped)

\* -------------------------------------------------------------- handlers of events
\* The provider removes the file; the handler removes it from the mounted tree.
MarkRemoved(t) ==
    LET u == U(t)
        told == <<"fileRemoval", u>> \in fs.subs /\ u \in DOMAIN fs.meta
    IN
    /\ At(t, "markRemoved")
    /\ world' = [world EXCEPT !.paths = RestrictValues(@, LAMBDA v : v # u)]
    /\ fs' = IF told THEN [fs EXCEPT !.meta[u].state = "removedUpstream"] ELSE fs
    /\ IF told /\ fs.meta[u].path # {}
       THEN \E p \in fs.meta[u].path : Goes(t, [Local(t) EXCEPT !.path = p, !.steps = RemoveSteps(p)])
       ELSE Return(t)
    /\ UNCHANGED <<status, hist>>

\* The provider renames a file, or a directory with its children; the handler renames it in
\* the mounted tree, then remaps one entry after the other.
MarkRenamed(t) ==
    LET u == U(t)
        told == <<"fileRenamed", u>> \in fs.subs /\ u \in DOMAIN fs.meta
        entries == <<[from |-> Op(t).path, old |-> u, new |-> Op(t).to, path |-> Op(t).new]>> \o ChildEntries(t)
        steps == [i \in 1..(2 * Len(entries)) |-> IF i % 2 = 1 THEN "remap" ELSE "renameAttr"]
    IN
    /\ At(t, "markRenamed")
    /\ IF u \notin Range(world.paths) THEN Return(t) /\ UNCHANGED <<fs, world, hist>>
       ELSE /\ world' = Moved(world, Range(entries))
            /\ hist' = [hist EXCEPT !.moved = @ \cup MovedUuids(Range(entries))]
            /\ fs' = IF told THEN [fs EXCEPT !.meta[u].state = "renamedUpstream"] ELSE fs
            /\ IF told /\ fs.meta[u].path # {}
               THEN \E p \in fs.meta[u].path :
                       Goes(t, [Local(t) EXCEPT !.path = p, !.entries = entries, !.changes = entries,
                                                !.steps = <<"rename">> \o steps])
               ELSE Return(t)
    /\ UNCHANGED status

\* remapFile(uuid): an entry without path or attributes is dereferenced all the same.
Remap(t) ==
    LET e == Head(Local(t).entries)
        u == e.old
    IN
    /\ At(t, "remap")
    /\ IF u \in DOMAIN fs.meta /\ (fs.meta[u].path = {} \/ (fs.meta[u].size = {} /\ u # e.new))
       THEN Aborts
       ELSE /\ fs' = IF u \in DOMAIN fs.meta THEN Remapped(fs, u, e.new, e.path)
                     ELSE [fs EXCEPT !.paths = IF e.path \in DOMAIN @ THEN @ ELSE Put(@, e.path, "")]
            /\ Advance(t, [Local(t) EXCEPT !.entries = Tail(@)])
            /\ Quiet

\* external: the provider cuts the file, or changes other attributes of it, and sends an
\* event with the size it knows of, if the client has subscribed.
Notifies(t, size) ==
    IF <<"fileAttr", U(t)>> \in fs.subs THEN Advance(t, [Local(t) EXCEPT !.size = size]) ELSE Return(t)

Resized(t) ==
    /\ At(t, "resized")
    /\ world' = Cut(world, U(t), Op(t).size)
    /\ hist' = Forgotten(hist, U(t), Op(t).size)
    /\ Notifies(t, Op(t).size)
    /\ UNCHANGED <<fs, status>>

Touched(t) ==
    /\ At(t, "touched")
    /\ Notifies(t, world.size[U(t)])
    /\ UNCHANGED fs
    /\ Quiet

\* The event may be older than a write of this client; its size replaces the cached one.
FileAttr(t) ==
    LET u == U(t)
        n == Local(t).size
    IN
    /\ At(t, "fileAttr")
    /\ fs' = IF MetaOf(u).size = {} THEN fs
             ELSE [fs EXCEPT !.meta[u].size = {n},
                             !.meta[u].blocks = IF {n} = fs.meta[u].size \/ n > Max(fs.meta[u].size)
                                                THEN @ ELSE {bs \cap 0..(n - 1) : bs \in @}]
    /\ hist' = [hist EXCEPT !.grown = Drop(@, u)]
    /\ Advance(t, Local(t))
    /\ UNCHANGED <<status, world>>

\* The location that a synchronisation brings, for a subscribed file
LocationArrives(u) ==
    /\ Running
    /\ u \in world.pending
    /\ world' = [world EXCEPT !.pending = @ \ {u}]
    /\ fs' = IF <<"fileLocation", u>> \in fs.subs /\ MetaOf(u).size # {}
             THEN [fs EXCEPT !.meta[u].blocks = {world.blocks[u] : bs \in @}] ELSE fs
    /\ UNCHANGED <<thread, status, hist>>

Granted(t) ==
    /\ At(t, "granted")
    /\ world' = [world EXCEPT !.denied = @ \ {U(t)}]
    /\ IF <<"permission", U(t)>> \in fs.subs THEN Advance(t, Local(t)) ELSE Return(t)
    /\ UNCHANGED <<fs, status, hist>>

Unforce(t) ==
    /\ At(t, "unforce")
    /\ fs' = [fs EXCEPT !.forced = @ \ {U(t)}]
    /\ Advance(t, Local(t))
    /\ Quiet

Unsubscribe(t) ==
    /\ At(t, "unsubscribe")
    /\ fs' = [fs EXCEPT !.subs = RemoveSubscriptions(@, {<<"permission", U(t)>>})]
    /\ Advance(t, Local(t))
    /\ Quiet

\* disableSpaces(): the new list replaces the old one; here, of the one space there is.
DisableSpaces(c, disabled) == [c EXCEPT !.disabled = disabled]

QuotaExeeded(t) ==
    /\ At(t, "exeeded")
    /\ fs' = DisableSpaces(fs, Op(t).value = 1)
    /\ Advance(t, Local(t))
    /\ Quiet

\* ----------------------------------------------------------- provider and storage
\* The test of the storage ends, and new helpers are direct (HelpersCache).
Detected(t) ==
    /\ At(t, "detected")
    /\ world' = [world EXCEPT !.access = "direct"]
    /\ Advance(t, Local(t))
    /\ UNCHANGED <<fs, status, hist>>

\* external: the event of a write reaches the provider.
Reported(u) ==
    /\ Running
    /\ world.unreported[u] # {}
    /\ world' = [world EXCEPT !.unreported[u] = {},
                              !.blocks[u] = @ \cup world.unreported[u],
                              !.size[u] = Max({@, Max(world.unreported[u]) + 1})]
    /\ UNCHANGED <<fs, thread, status, hist>>

\* The write buffer of a context is flushed by its timer (WriteBuffer::scheduleFlush()).
TimedFlush(fh) ==
    /\ Running
    /\ fh \in DOMAIN fs.contexts
    /\ \E f \in DOMAIN fs.contexts[fh].ctx, failed \in BOOLEAN :
        LET ctx == fs.contexts[fh].ctx[f] IN
        /\ ctx.buffer # EmptyMap
        /\ IF failed THEN Refused ELSE world' = FlushTo(world, f, ctx.buffer)
        /\ fs' = WithCtx(fs, fh, f, Pushed(ctx, failed))
    /\ UNCHANGED <<thread, status, hist>>

\* -------------------------------------------------------------------- specification
Init ==
    /\ fs = [meta |-> EmptyMap, paths |-> EmptyMap, attr |-> EmptyMap, loc |-> EmptyMap,
             subs |-> QuotaSubscription, contexts |-> EmptyMap, forced |-> {}, disabled |-> FALSE]
    /\ \E w \in Workloads :
        /\ thread = [t \in Thread |-> [ops |-> w.ops[t], local |-> Idle]]
        /\ world = [paths |-> w.files, size |-> [u \in Uuid |-> InitSize],
                    blocks |-> [u \in Uuid |-> InitBlocks], file |-> [u \in Uuid |-> u],
                    data |-> [u \in Uuid |-> [b \in InitBlocks |-> 0]], access |-> w.access,
                    denied |-> w.denied, pending |-> {}, unreported |-> [u \in Uuid |-> {}],
                    opened |-> [u \in Uuid |-> 0], faults |-> 0, ids |-> 0]
    /\ status = "running"
    /\ hist = [own |-> [fh \in Handle |-> EmptyMap], grown |-> EmptyMap, failed |-> {},
               moved |-> {}, switched |-> {}, told |-> {}, retried |-> {}, stale |-> {},
               lost |-> {}]

Step(t) ==
    \/ Begin(t) \/ AttrOfPath(t) \/ Attr(t) \/ Location(t) \/ MarkAttr(t) \/ PinLoc(t)
    \/ PinAttr(t) \/ Opened(t) \/ UnpinLoc(t) \/ UnpinAttr(t) \/ TickLoc(t) \/ TickAttr(t)
    \/ RenameAttr(t) \/ CreateFile(t) \/ CreateDir(t) \/ List(t) \/ GetHelper(t)
    \/ CreateCtx(t) \/ EmitOpened(t) \/ Plan(t) \/ Sync(t) \/ Await(t) \/ Relocate(t)
    \/ HelperCtx(t) \/ Subscribe(t) \/ ShRead(t) \/ Quota(t) \/ ShWrite(t) \/ EmitWrite(t)
    \/ GrowAttr(t) \/ GrowLocation(t) \/ CutLocation(t) \/ Truncate(t) \/ ShRelease(t)
    \/ SendRelease(t) \/ Delete(t) \/ Rename(t) \/ MarkRemoved(t) \/ MarkRenamed(t)
    \/ Remap(t) \/ Resized(t) \/ Touched(t) \/ FileAttr(t) \/ Granted(t) \/ Unforce(t) \/ Unsubscribe(t)
    \/ QuotaExeeded(t) \/ Detected(t)

Next ==
    \/ \E t \in Thread : Step(t)
    \/ \E u \in Uuid : LocationArrives(u) \/ Reported(u)
    \/ \E fh \in Handle : TimedFlush(fh)

Spec == Init /\ [][Next]_vars

\* While there is work, some thread of FUSE or of the event streams runs.
FairSpec == Spec /\ WF_vars(\E t \in Thread : Step(t))

\* A file whose attributes or location may be kept in the cache is one the provider
\* sends updates for, whatever opens, renames and expirations cross (FsLogic's cache()
\* and purge() callbacks), unless a request about it failed.
TrackedIsSubscribed ==
    \A kind \in {"attr", "loc"} : \A u \in (DOMAIN fs[kind]) \ hist.failed :
        SubscriptionsOf(kind, u) \subseteq fs.subs

\* An open file is pinned in both expiration helpers once per handle, and the provider
\* has been told of as many openings that are not released, unless the file changed
\* its uuid (release() finds the file by its path).  A handle id that the provider
\* gave out belongs to one of them, so that it is released once (openFile() takes it
\* out of the cached location).
OpenFilesAreHeld ==
    /\ \A h1, h2 \in DOMAIN fs.contexts :
        h1 # h2 => fs.contexts[h1].handleId \cap fs.contexts[h2].handleId = {}
    /\ \A u \in Uuid \ hist.moved :
        LET n == Cardinality({fh \in DOMAIN fs.contexts :
                                 fs.contexts[fh].open /\ fs.contexts[fh].uuid = u})
        IN n > 0 => /\ u \in DOMAIN fs.attr /\ fs.attr[u] >= n
                    /\ u \in DOMAIN fs.loc /\ fs.loc[u] >= n
                    /\ world.opened[u] >= n

\* The size of an open file that write() has extended is not replaced by an older one that the
\* client asks for (the entry of a pinned file stays in the cache), though the provider learns
\* of the write only later.  The history is cleared by a truncation and by an attribute event.
GrownSizeIsKept ==
    \A fh \in DOMAIN fs.contexts :
        LET u == fs.contexts[fh].uuid IN
        (fs.contexts[fh].open /\ u \in (DOMAIN hist.grown) \ (hist.failed \cup hist.moved))
            => u \in DOMAIN fs.meta /\ \A n \in fs.meta[u].size : n >= hist.grown[u]

\* Handles that cannot rely on their buffer: their helper was replaced; or they were told of
\* an error; or an error was taken for a refusal, and forgotten when the operation was
\* repeated through the proxy.
Excused == hist.switched \cup hist.told \cup hist.retried

\* "Push all changes so we'll always read data that we just wrote" (bufferAgent.h) for all
\* handles but those; and the size that write() has grown is kept.
OwnWritesAreSeen == hist.stale \subseteq Excused /\ GrownSizeIsKept

\* What write() acknowledged is on the storage when release() is done with the helper, or
\* read(), write() or release() of that handle has thrown: neither the timer of the buffer, nor
\* a flush that failed earlier, nor the release loses it silently (release() keeps the last
\* exception and throws it at its end).
ReleasedWritesArrived == hist.lost \subseteq Excused

\* An operation is not repeated for ever: a refused read or write is tried again through the
\* proxy, and a corrupted read with what is then on the storage, until it ends.  Requests are
\* answered or refused here, and no lock is held by others (MetadataCache has the locks).
RetriesEnd == <>(status = "aborted" \/ \A t \in Thread : thread[t].ops = <<>>)

\* Not met by handles whose helper was replaced: "Push all changes so we'll always read data
\* that we just wrote" (bufferAgent.h).
OwnWritesAreRead == hist.stale = {}

\* Not met: an error of an earlier flush that is EPERM or EACCES is taken for a refusal of the
\* present operation, which is repeated and succeeds; nobody hears of the lost data.
LossesAreTold == hist.lost \subseteq hist.switched \cup hist.told

\* Not met: an attribute event replaces the size by the one the provider knew when it sent it.
OwnWritesAreInside ==
    (\A t \in Thread : Local(t).steps = <<>>) =>
        \A fh \in {fh \in DOMAIN fs.contexts : fs.contexts[fh].open} :
            \A n \in MetaOf(fs.contexts[fh].uuid).size : \A b \in DOMAIN hist.own[fh] : b < n
==============================================================================
