---------------------------- MODULE MetadataCache ----------------------------
(***************************************************************************)
(* The cache of paths and metadata (src/src/cache/metadataCache.cc) and    *)
(* the operations of FsLogic that hold its accessors (src/src/fsLogic.cc). *)
(*                                                                         *)
(* An entry of m_pathToUuid or of m_metaCache is locked by its accessor,   *)
(* exclusively or, by const accessors, shared.  Every acquisition of an    *)
(* accessor and every exchange with the provider is a step of its own.     *)
(* Threads are FUSE threads, event workers and threads of the scheduler.   *)
(***************************************************************************)
EXTENDS Integers, Sequences, FiniteSets, HashMaps

CONSTANTS
    Thread, Path, Uuid,
    Files,      \* external: the files of the provider at first, path -> uuid
    Workloads   \* thread -> the operations it runs, one after the other

\* The value a path is mapped to before its uuid is known.
None == ""

\* A renamed directory brings the remappings of its children.
Remappings ==
    [op : {"remapFile"}, path : {None}, to : Path, uuid : Uuid, new : Uuid, location : {{}},
     children : {<<>>}]

\* Operations that start from a path, that map a path, and the others.
FromPath == {"getAttr", "chmod", "utime", "truncate", "removeFile", "rename"}
ToPath == {"map", "rename", "remapFile"}
OfUuid == {"getLocation", "write", "remove", "fileAttr", "removedUpstream", "renamedUpstream"}

Operations ==
    {o \in [op : FromPath \cup ToPath \cup OfUuid \cup {"provider"}, path : Path \cup {None},
             to : Path \cup {None}, uuid : Uuid \cup {None}, new : Uuid \cup {None},
             location : SUBSET {"location"}, children : Seq(Remappings)] :
        /\ o.op \in FromPath => o.path \in Path
        /\ o.op \in ToPath => o.to \in Path}

ASSUME WorkloadAssumption == \A w \in Workloads : \A t \in Thread : w[t] \in Seq(Operations)
ASSUME FilesAssumption == DOMAIN Files \subseteq Path

VARIABLES
    cache,    \* m_pathToUuid, m_metaCache and the accessors to their entries
    thread,   \* thread -> its operations and the progress of the first one
    provider, \* external: path -> uuid
    known,    \* history: path -> the uuids that were ever right for it
    orphans,  \* history: paths that were remapped without metadata
    status    \* "aborted" once an empty optional was dereferenced

vars == <<cache, thread, provider, known, orphans, status>>

\* ---------------------------------------------------------- entries and accessors
FileAttr(uuid) == [uuid |-> uuid, size |-> 0, mode |-> "old", time |-> "old"]

\* "written" is history: the size this client wrote since the entry exists, or since an
\* event of the provider has set another (fileAttrHandler).
Metadata == [path |-> {}, attr |-> {}, locations |-> {}, state |-> "normal", written |-> 0]

MetaOf(c, u) == IF u \in DOMAIN c.meta THEN c.meta[u] ELSE Metadata
UuidOf(c, p) == IF p \in DOMAIN c.paths THEN c.paths[p] ELSE None

SetPath(c, p, u) == [c EXCEPT !.paths = Put(@, p, u)]
SetMeta(c, u, m) == [c EXCEPT !.meta = Put(@, u, m)]
ErasePaths(c, ps) == [c EXCEPT !.paths = Restrict(@, (DOMAIN @) \ ps)]
EraseMeta(c, u) == [c EXCEPT !.meta = Drop(@, u)]

Free(table, key, mode) ==
    \A l \in cache.locks : l[2] = table /\ l[3] = key => mode = "shared" /\ l[4] = "shared"

Lock(c, t, table, key) == [c EXCEPT !.locks = @ \cup {<<t, table, key, "exclusive">>}]
LockShared(c, t, table, key) == [c EXCEPT !.locks = @ \cup {<<t, table, key, "shared">>}]
Unlock(c, t, table, key) ==
    [c EXCEPT !.locks = {l \in @ : ~(l[1] = t /\ l[2] = table /\ l[3] = key)}]
Holds(t, table, key) == <<t, table, key, "exclusive">> \in cache.locks

\* --------------------------------------------------------------- steps of threads
Idle == [pc |-> "idle", uuid |-> None, old |-> {}, new |-> None, children |-> <<>>]

Frame(t) == thread[t].frame
Op(t) == Head(thread[t].ops)
Runs(t, ops) == Op(t).op \in ops

At(t, pc) == thread[t].ops # <<>> /\ Frame(t).pc = pc

Goto(t, pc, c) ==
    /\ cache' = c
    /\ thread' = [thread EXCEPT ![t].frame.pc = pc]

GotoWith(t, pc, uuid, c) ==
    /\ cache' = c
    /\ thread' = [thread EXCEPT ![t].frame.pc = pc, ![t].frame.uuid = uuid]

\* The operation returns or throws, and its accessors are destroyed.
End(t, c) ==
    /\ cache' = [c EXCEPT !.locks = {l \in @ : l[1] # t}]
    /\ thread' = [thread EXCEPT ![t] = [ops |-> Tail(@.ops), frame |-> Idle]]

Silent == UNCHANGED <<provider, known, orphans>>

Entry(op) ==
    CASE op = "getAttr"                             -> "findPath"
      [] op \in {"chmod", "utime", "truncate", "removeFile"} -> "insertPath"
      [] op = "getLocation"                         -> "findMeta"
      [] op = "write"                               -> "insertMeta"
      [] op \in {"map", "rename", "remapFile"}      -> "newPath"
      [] op = "remove"                              -> "removeMeta"
      [] OTHER                                      -> "handle"

\* An answer or an event told which file is at the path of map() and remapFile().
Told(t) == CASE Runs(t, {"map"}) -> {Op(t).uuid}
             [] Runs(t, {"remapFile"}) -> {Op(t).new}
             [] OTHER -> {}

Begin(t) ==
    /\ At(t, "idle")
    /\ ~Runs(t, {"provider"})
    /\ thread' = [thread EXCEPT ![t].frame.pc = Entry(Op(t).op), ![t].frame.uuid = Op(t).uuid,
                                ![t].frame.new = Op(t).new]
    /\ known' = IF Told(t) = {} THEN known ELSE [known EXCEPT ![Op(t).to] = @ \cup Told(t)]
    /\ UNCHANGED <<cache, provider, orphans>>

\* ---------------------------------------------------------- getAttr, getLocation
\* getAttr(path) first looks with a const accessor, which it keeps.
FindPath(t) ==
    LET p == Op(t).path IN
    /\ At(t, "findPath")
    /\ IF p \in DOMAIN cache.paths
       THEN /\ Free("path", p, "shared")
            /\ GotoWith(t, "findMeta", cache.paths[p], LockShared(cache, t, "path", p))
       ELSE Goto(t, "insertPath", cache)
    /\ Silent

\* What the operation looks for in the metadata.
Found(t, m) == IF Runs(t, {"getLocation"}) THEN m.locations # {} ELSE m.attr # {}

\* getAttr(uuid) and getLocation(uuid) look with a const accessor, which they drop.
FindMeta(t) ==
    LET u == Frame(t).uuid IN
    /\ At(t, "findMeta")
    /\ u \in DOMAIN cache.meta => Free("meta", u, "shared")
    /\ IF Found(t, MetaOf(cache, u)) THEN End(t, cache) ELSE Goto(t, "insertMeta", cache)
    /\ Silent

\* The path is set in the metadata by the variant of getAttr that holds both accessors.
WithPath(t, m) ==
    IF Holds(t, "path", Op(t).path) THEN [m EXCEPT !.path = {Op(t).path}] ELSE m

\* getAttr(metaAcc, uuid) and getLocation(metaAcc, uuid)
InsertMeta(t) ==
    LET u == Frame(t).uuid
        m == MetaOf(cache, u)
        c == Lock(cache, t, "meta", u)
    IN
    /\ At(t, "insertMeta")
    /\ Free("meta", u, "exclusive")
    /\ IF Found(t, m) THEN Goto(t, "found", SetMeta(c, u, WithPath(t, m)))
       ELSE Goto(t, "fetch", SetMeta(c, u, m))
    /\ Silent

FetchSucceeds(t) ==
    LET u == Frame(t).uuid
        m == cache.meta[u]
    IN
    /\ At(t, "fetch")
    /\ u \in Range(provider)
    /\ Goto(t, "found", SetMeta(cache, u,
            IF Runs(t, {"getLocation"}) THEN [m EXCEPT !.locations = {"location"}]
            ELSE WithPath(t, [m EXCEPT !.attr = {FileAttr(u)}])))
    /\ Silent

\* The catch block of rename() erases the new path.
Undo(t, c) == IF Runs(t, {"rename"}) THEN ErasePaths(c, {Op(t).to}) ELSE c

\* The entry is erased, whatever else it holds.
FetchFails(t) ==
    /\ At(t, "fetch")
    /\ End(t, Undo(t, EraseMeta(cache, Frame(t).uuid)))
    /\ Silent

\* getAttr(uuidAcc, metaAcc, path)
InsertPath(t) ==
    LET p == Op(t).path
        c == Lock(cache, t, "path", p)
    IN
    /\ At(t, "insertPath")
    /\ Free("path", p, "exclusive")
    /\ IF p \in DOMAIN cache.paths THEN GotoWith(t, "insertMeta", cache.paths[p], c)
       ELSE Goto(t, "resolve", SetPath(c, p, None))
    /\ Silent

ResolveSucceeds(t) ==
    LET p == Op(t).path IN
    /\ At(t, "resolve")
    /\ p \in DOMAIN provider
    /\ GotoWith(t, "adopt", provider[p], SetPath(cache, p, provider[p]))
    /\ Silent

ResolveFails(t) ==
    /\ At(t, "resolve")
    /\ End(t, Undo(t, ErasePaths(cache, {Op(t).path})))
    /\ Silent

\* Variant: attributes that are cached already are replaced by the fetched ones.
AdoptReplacing(t) ==
    LET u == Frame(t).uuid IN
    /\ At(t, "adopt")
    /\ Free("meta", u, "exclusive")
    /\ Goto(t, "found", SetMeta(Lock(cache, t, "meta", u), u,
                [MetaOf(cache, u) EXCEPT !.attr = {FileAttr(u)}, !.path = {Op(t).path}]))
    /\ Silent

\* The fetched attributes are stored only when the uuid was not cached.
Adopt(t) ==
    LET u == Frame(t).uuid
        m == IF u \in DOMAIN cache.meta THEN cache.meta[u]
             ELSE [Metadata EXCEPT !.attr = {FileAttr(u)}]
    IN
    /\ At(t, "adopt")
    /\ Free("meta", u, "exclusive")
    /\ Goto(t, "found", SetMeta(Lock(cache, t, "meta", u), u, [m EXCEPT !.path = {Op(t).path}]))
    /\ Silent

\* ------------------------------------------------- the callers that hold accessors
HasAttr(t) == cache.meta[Frame(t).uuid].attr # {}

FoundFor(t, ops) == At(t, "found") /\ Runs(t, ops)

\* An optional is read that is not set: the attributes, or the path of a remapped file.
Dereference(t) ==
    /\ \/ FoundFor(t, {"getAttr", "chmod", "utime", "truncate", "rename"}) /\ ~HasAttr(t)
       \/ At(t, "remapOld") /\ cache.meta[Frame(t).uuid].path = {}
       \/ At(t, "remapNew") /\ \A m \in Frame(t).old : m.attr = {}
    /\ status' = "aborted"
    /\ UNCHANGED <<cache, thread>> /\ Silent

Return(t) ==
    /\ FoundFor(t, {"getAttr", "getLocation"})
    /\ Runs(t, {"getAttr"}) => HasAttr(t)
    /\ End(t, cache)
    /\ Silent

Changed(u, f, v) == [cache EXCEPT !.meta[u].attr = {[a EXCEPT ![f] = v] : a \in @}]

\* FsLogic::chmod and utime change the attributes once the provider has agreed.
ChangeAttr(t, op, field) ==
    /\ FoundFor(t, {op}) /\ HasAttr(t)
    /\ End(t, cache) \/ End(t, Changed(Frame(t).uuid, field, "new"))
    /\ Silent

Chmod(t) == ChangeAttr(t, "chmod", "mode")

Utime(t) == ChangeAttr(t, "utime", "time")

\* Variant: the location is asked for through a second accessor.
TruncateKeepingAccessor(t) ==
    LET u == Frame(t).uuid IN
    /\ FoundFor(t, {"truncate"}) /\ HasAttr(t)
    /\ End(t, cache) \/ Goto(t, "locate", [Changed(u, "size", 0) EXCEPT !.meta[u].written = 0])
    /\ Silent

\* FsLogic::truncate, if the provider agrees, without the accessor of the path; asking
\* for the location drops the accessor of the metadata before it takes it again.
Truncate(t) ==
    LET u == Frame(t).uuid
        c == [Changed(u, "size", 0) EXCEPT !.meta[u].written = 0]
    IN
    /\ FoundFor(t, {"truncate"}) /\ HasAttr(t)
    /\ End(t, cache) \/ Goto(t, "locate", Unlock(Unlock(c, t, "meta", u), t, "path", Op(t).path))
    /\ Silent

\* FsLogic::write enlarges the file in the cache, and asks for the location too.
Write(t) ==
    LET u == Frame(t).uuid
        c == [Changed(u, "size", 1) EXCEPT !.meta[u].written = 1]
    IN
    /\ FoundFor(t, {"write"})
    /\ Goto(t, "locate", Unlock(c, t, "meta", u))
    /\ Silent

\* getLocation(metaAcc, uuid) of an entry that may be gone by now.
Locate(t) ==
    LET u == Frame(t).uuid
        m == MetaOf(cache, u)
    IN
    /\ At(t, "locate")
    /\ Free("meta", u, "exclusive")
    /\ \/ /\ m.locations # {} \/ u \in Range(provider)
          /\ End(t, SetMeta(cache, u, [m EXCEPT !.locations = {"location"}]))
       \/ m.locations = {} /\ End(t, EraseMeta(cache, u))
    /\ Silent

\* FsLogic::removeFile asks the provider, unless the removal came from there.
RemoveFile(t) ==
    LET u == Frame(t).uuid
        upstream == cache.meta[u].state = "removedUpstream"
        removed == [ErasePaths(cache, {Op(t).path}) EXCEPT !.meta[u].path = {}]
    IN
    /\ FoundFor(t, {"removeFile"})
    /\ \/ ~upstream /\ End(t, cache) /\ UNCHANGED provider
       \/ ~upstream /\ End(t, removed) /\ provider' = RestrictValues(provider, LAMBDA v : v # u)
       \/ upstream /\ End(t, removed) /\ UNCHANGED provider
    /\ UNCHANGED <<known, orphans>>

\* --------------------------------------------------------- map, rename, remapFile
\* All three lock the new path first.
NewPath(t) ==
    LET q == Op(t).to IN
    /\ At(t, "newPath")
    /\ Free("path", q, "exclusive")
    /\ Goto(t, CASE Runs(t, {"map"})       -> "mapMeta"
                 [] Runs(t, {"rename"})    -> "insertPath"
                 [] Runs(t, {"remapFile"}) -> "remapMeta",
            SetPath(Lock(cache, t, "path", q), q, UuidOf(cache, q)))
    /\ Silent

\* What the provider listed, or created with a location.
MapMeta(t) ==
    LET u == Op(t).uuid
        m == MetaOf(cache, u)
        mapped == [m EXCEPT !.path = {Op(t).to}, !.locations = @ \cup Op(t).location]
    IN
    /\ At(t, "mapMeta")
    /\ Free("meta", u, "exclusive")
    /\ End(t, SetMeta(SetPath(cache, Op(t).to, u), u, mapped))
    /\ provider' = IF Op(t).location = {} THEN provider ELSE Put(provider, Op(t).to, u)
    /\ UNCHANGED <<known, orphans>>

\* A rename that a handler of events started.
RenameUpstream(t) ==
    LET u == Frame(t).uuid
        q == Op(t).to
        c == ErasePaths(cache, {Op(t).path})
    IN
    /\ FoundFor(t, {"rename"}) /\ HasAttr(t)
    /\ \/ /\ cache.meta[u].state = "removedUpstream"
          /\ End(t, [SetPath(c, q, u) EXCEPT !.meta[u].locations = {}, !.meta[u].path = {q}])
          /\ known' = [known EXCEPT ![q] = @ \cup {u}]
          /\ UNCHANGED orphans
       \/ /\ cache.meta[u].state = "renamedUpstream"
          /\ End(t, [c EXCEPT !.meta[u].state = "normal"])
          /\ orphans' = orphans \cup {q}
          /\ UNCHANGED known
    /\ UNCHANGED provider

RenameAsks(t) ==
    LET p == Op(t).path IN
    /\ FoundFor(t, {"rename"}) /\ HasAttr(t)
    /\ cache.meta[Frame(t).uuid].state = "normal"
    /\ Goto(t, "renameAnswer", Unlock(ErasePaths(cache, {p}), t, "path", p))
    /\ Silent

RenameRefused(t) ==
    /\ At(t, "renameAnswer")
    /\ End(t, Undo(t, cache))
    /\ Silent

RenameAgreed(t) ==
    LET u == Frame(t).uuid
        q == Op(t).to
    IN
    /\ At(t, "renameAnswer")
    /\ u \in Range(provider)
    /\ \E new \in {u, Op(t).new} :
        /\ provider' = Put(RestrictValues(provider, LAMBDA v : v # u), q, new)
        /\ known' = [known EXCEPT ![q] = @ \cup {new}]
        /\ thread' = [thread EXCEPT ![t].frame.new = new, ![t].frame.children = Op(t).children,
                                    ![t].frame.pc = "renameTarget"]
    /\ UNCHANGED <<cache, orphans>>

\* The metadata of an overwritten target is erased.
RenameTarget(t) ==
    LET v == cache.paths[Op(t).to] IN
    /\ At(t, "renameTarget")
    /\ v \in DOMAIN cache.meta => Free("meta", v, "exclusive")
    /\ Goto(t, "remap", IF v = None THEN cache ELSE EraseMeta(cache, v))
    /\ Silent

RemapMeta(t) ==
    LET u == Frame(t).uuid
        q == Op(t).to
    IN
    /\ At(t, "remapMeta")
    /\ IF u \in DOMAIN cache.meta
       THEN /\ Free("meta", u, "exclusive")
            /\ Goto(t, "remap", Lock(cache, t, "meta", u))
            /\ UNCHANGED orphans
       ELSE /\ Goto(t, "remapNext", Unlock(cache, t, "path", q))
            /\ orphans' = orphans \cup {q}
    /\ UNCHANGED <<provider, known>>

\* Variant: the new path is mapped to the old uuid.
RemapToOldUuid(t) ==
    LET q == Op(t).to IN
    /\ At(t, "remap")
    /\ Goto(t, "remapOld", Unlock(SetPath(cache, q, Frame(t).uuid), t, "path", q))
    /\ Silent

\* The new path is mapped and released, then the path that the metadata had is erased
\* while the metadata is held, and with a new uuid the attributes move to a new entry.
Remap(t) ==
    LET q == Op(t).to IN
    /\ At(t, "remap")
    /\ Goto(t, "remapOld", Unlock(SetPath(cache, q, Frame(t).new), t, "path", q))
    /\ Silent

RemapOld(t) ==
    LET u == Frame(t).uuid
        old == cache.meta[u].path
        c == Unlock(ErasePaths(cache, old), t, "meta", u)
    IN
    /\ At(t, "remapOld")
    /\ old # {}
    /\ \A p \in old \cap DOMAIN cache.paths : Free("path", p, "exclusive")
    /\ IF Frame(t).new = u
       THEN Goto(t, "remapNext", [c EXCEPT !.meta[u].path = {Op(t).to}, !.meta[u].locations = {}])
       ELSE /\ cache' = EraseMeta(c, u)
            /\ thread' = [thread EXCEPT ![t].frame.pc = "remapNew",
                                        ![t].frame.old = {cache.meta[u]}]
    /\ Silent

RemapNew(t) ==
    LET new == Frame(t).new IN
    /\ At(t, "remapNew")
    /\ Free("meta", new, "exclusive")
    /\ \E old \in Frame(t).old :
          /\ old.attr # {}
          /\ Goto(t, "remapNext",
                  SetMeta(cache, new, [MetaOf(cache, new) EXCEPT !.path = {Op(t).to},
                      !.attr = {[a EXCEPT !.uuid = new] : a \in old.attr},
                      !.written = old.written]))
    /\ Silent

\* The children of a renamed directory are remapped one by one.
RemapNext(t) ==
    LET children == Frame(t).children IN
    /\ At(t, "remapNext")
    /\ IF children = <<>> THEN End(t, cache)
       ELSE /\ thread' = [thread EXCEPT ![t] =
                    [ops |-> <<Head(children)>> \o Tail(@.ops),
                     frame |-> [Idle EXCEPT !.children = Tail(children)]]]
            /\ UNCHANGED cache
    /\ Silent

\* ----------------------------------------------------------------- remove(uuid)
RemoveMeta(t) ==
    LET u == Frame(t).uuid IN
    /\ At(t, "removeMeta")
    /\ u \in DOMAIN cache.meta => Free("meta", u, "exclusive")
    /\ IF u \in DOMAIN cache.meta THEN Goto(t, "removePath", Lock(cache, t, "meta", u))
       ELSE End(t, cache)
    /\ Silent

\* The path is locked while the metadata is held.
RemovePath(t) ==
    LET u == Frame(t).uuid
        old == cache.meta[u].path
    IN
    /\ At(t, "removePath")
    /\ \A p \in old \cap DOMAIN cache.paths : Free("path", p, "exclusive")
    /\ End(t, EraseMeta(ErasePaths(cache, old), u))
    /\ Silent

\* ----------------------------------------------------------- handlers of events
\* fileAttrHandler, and the first step of fileRemovalHandler and fileRenamedHandler.
HandleEvent(t) ==
    LET u == Frame(t).uuid IN
    /\ At(t, "handle")
    /\ u \in DOMAIN cache.meta => Free("meta", u, "exclusive")
    /\ End(t, IF u \notin DOMAIN cache.meta THEN cache
              ELSE IF Runs(t, {"fileAttr"})
                   THEN [Changed(u, "size", 0) EXCEPT !.meta[u].written = 0]
                   ELSE [cache EXCEPT !.meta[u].state = Op(t).op])
    /\ Silent

\* External: another client renames a file, or removes it.
ProviderChanges(t) ==
    LET p == Op(t).path
        q == Op(t).to
    IN
    /\ At(t, "idle")
    /\ Runs(t, {"provider"})
    /\ provider' = IF q = None \/ p \notin DOMAIN provider THEN Drop(provider, p)
                   ELSE Put(Drop(provider, p), q, provider[p])
    /\ known' = [x \in Path |-> known[x] \cup {provider'[y] : y \in {x} \cap DOMAIN provider'}]
    /\ End(t, cache)
    /\ UNCHANGED orphans

\* ---------------------------------------------------------------- specification
Init ==
    /\ cache = [paths |-> EmptyMap, meta |-> EmptyMap, locks |-> {}]
    /\ \E w \in Workloads : thread = [t \in Thread |-> [ops |-> w[t], frame |-> Idle]]
    /\ provider = Files
    /\ known = [p \in Path |-> {Files[q] : q \in {p} \cap DOMAIN Files}]
    /\ orphans = {}
    /\ status = "running"

Run(t) ==
    \/ Begin(t) \/ FindPath(t) \/ FindMeta(t) \/ InsertMeta(t) \/ FetchSucceeds(t)
    \/ FetchFails(t) \/ InsertPath(t) \/ ResolveSucceeds(t) \/ ResolveFails(t) \/ Adopt(t)
    \/ Return(t) \/ Chmod(t) \/ Utime(t) \/ Truncate(t) \/ Write(t) \/ Locate(t) \/ RemoveFile(t)
    \/ NewPath(t) \/ MapMeta(t) \/ RenameUpstream(t) \/ RenameAsks(t) \/ RenameRefused(t)
    \/ RenameAgreed(t) \/ RenameTarget(t) \/ RemapMeta(t) \/ Remap(t) \/ RemapOld(t)
    \/ RemapNew(t) \/ RemapNext(t) \/ RemoveMeta(t) \/ RemovePath(t) \/ HandleEvent(t)
    \/ ProviderChanges(t)

Next ==
    /\ status = "running"
    /\ \E t \in Thread : (Run(t) /\ UNCHANGED status) \/ Dereference(t)

Spec == Init /\ [][Next]_vars

\* "Do not update attrs to avoid race conditions with our own write events": while
\* the metadata of a file stays cached, a lookup never replaces the size this client
\* wrote by the one the provider knows, and a rename takes that size along to the new
\* uuid.  Events of the provider are excepted: fileAttrHandler sets the size they bring.
OwnWritesKept ==
    \A u \in DOMAIN cache.meta :
        \A a \in cache.meta[u].attr : a.size >= cache.meta[u].written

\* A path leads only to files that the provider had there at some time.  It leads to
\* none only while its lookup is under way: a failed lookup or rename leaves no empty
\* mapping behind.  Paths remapped without metadata are excepted.
PathsLeadToTheirFiles ==
    \A p \in DOMAIN cache.paths :
        \/ cache.paths[p] \in known[p]
        \/ cache.paths[p] = None /\ (p \in orphans \/ \E t \in Thread : Holds(t, "path", p))
==============================================================================
