------------------------- MODULE MetadataCache_proofs -------------------------
(***************************************************************************)
(* For any threads, paths, files and operations on the metadata cache: a   *)
(* path leads to a file that was there.  MetadataEntries_proofs continues  *)
(* with the metadata.                                                      *)
(***************************************************************************)
EXTENDS MetadataCache, TLAPS

------------------------------------------------------------------------------
(* Threads.                                                                *)

Pc(t) == Frame(t).pc

\* The path of these operations is looked up or locked next, or is being resolved.
PathPcs == {"findPath", "insertPath", "resolve"}
\* The target of these operations is locked next, or is used.
TargetPcs == {"newPath", "mapMeta", "remapMeta", "renameAnswer", "renameTarget", "remap"}

\* Every thread runs operations of its workload, and children of a renamed directory.
ThreadShape ==
    /\ DOMAIN thread = Thread
    /\ \A t \in Thread :
        /\ DOMAIN thread[t] = {"ops", "frame"}
        /\ DOMAIN Frame(t) = {"pc", "uuid", "old", "new", "children"}
        /\ thread[t].ops \in Seq(Operations)
        /\ Frame(t).children \in Seq(Remappings)

\* A step needs the fields of its operation.
Routed(t) ==
    /\ Pc(t) # "idle" => thread[t].ops # <<>>
    /\ Pc(t) \in PathPcs => Op(t).path \in Path
    /\ Pc(t) \in TargetPcs => Op(t).to \in Path
    /\ Pc(t) = "newPath" => Runs(t, ToPath)

CacheShape == DOMAIN cache = {"paths", "meta", "locks"}

------------------------------------------------------------------------------
(* Paths.                                                                  *)

\* The provider's files are known, and so is the one that a step is about to map.
ProviderIsKnown ==
    /\ DOMAIN known = Path
    /\ \A p \in DOMAIN provider : p \in Path /\ provider[p] \in known[p]

TargetIsKnown(t) ==
    /\ (Pc(t) = "mapMeta" \/ (Pc(t) = "newPath" /\ Runs(t, {"map"})))
         => Op(t).uuid \in known[Op(t).to]
    /\ (Pc(t) \in {"remapMeta", "renameTarget", "remap"} \/ (Pc(t) = "newPath" /\ Runs(t, {"remapFile"})))
         => Frame(t).new \in known[Op(t).to]

\* The paths that a thread may have mapped to no uuid, which it maps, erases or gives
\* up as orphans before it lets go of them.
LoosePcs == {"insertPath", "resolve", "insertMeta", "fetch", "adopt", "found", "renameAnswer",
             "renameTarget"}
Loose(t) ==
    {p \in {Op(t).path} : Pc(t) = "resolve"}
    \cup {p \in {Op(t).to} : \/ Pc(t) \in {"mapMeta", "remapMeta", "remap"}
                             \/ Pc(t) \in LoosePcs /\ Runs(t, {"rename"})}

Mapped(p) == cache.paths[p] \in known[p]
Unset(p) == cache.paths[p] = None
LeftBy(t, p) == Holds(t, "path", p) /\ p \in Loose(t)

PathsHold ==
    \A p \in DOMAIN cache.paths :
        /\ p \in Path
        /\ \/ Mapped(p)
           \/ Unset(p) /\ (p \in orphans \/ \E t \in Thread : LeftBy(t, p))

PathInv ==
    /\ ThreadShape /\ CacheShape /\ ProviderIsKnown /\ PathsHold
    /\ \A t \in Thread : Routed(t) /\ TargetIsKnown(t)

------------------------------------------------------------------------------
(* Metadata.                                                               *)

Sized(attr) == \A a \in attr : "size" \in DOMAIN a /\ a.size \in Nat

EntryOk(m) ==
    /\ DOMAIN m = {"path", "attr", "locations", "state", "written"}
    /\ Sized(m.attr)
    /\ m.written \in Nat
    /\ \A a \in m.attr : a.size >= m.written
    /\ m.attr = {} => m.written = 0

\* The metadata of a file that a rename is moving to another uuid
Kept(old) == \A m \in old : EntryOk(m)

Entries == \A u \in DOMAIN cache.meta : EntryOk(cache.meta[u])

\* The metadata of an operation is locked for it, by it alone.
MetaPcs == {"fetch", "found", "renameAnswer", "renameTarget", "remap", "remapOld", "removePath"}
HasMeta(t) ==
    /\ Kept(Frame(t).old)
    /\ Pc(t) \in MetaPcs => Holds(t, "meta", Frame(t).uuid) /\ Frame(t).uuid \in DOMAIN cache.meta
    /\ Pc(t) = "fetch" /\ ~Runs(t, {"getLocation"}) => cache.meta[Frame(t).uuid].attr = {}
    /\ Pc(t) = "found" /\ Runs(t, {"write"}) => cache.meta[Frame(t).uuid].attr # {}
    /\ Pc(t) \in PathPcs \cup {"adopt"} => ~Runs(t, {"write"})

LockedOnce ==
    \A s, t \in Thread : \A u : Holds(s, "meta", u) /\ Holds(t, "meta", u) => s = t

MetaInv == ThreadShape /\ CacheShape /\ Entries /\ LockedOnce /\ \A t \in Thread : HasMeta(t)

------------------------------------------------------------------------------
(* What a step does to the threads.                                        *)

OthersStay(t) == \A s \in Thread \ {t} : thread'[s] = thread[s]

\* The operation of t goes on at pc, about the file u.
Continues(t, pc, u) ==
    /\ ThreadShape' /\ OthersStay(t)
    /\ thread'[t].ops = thread[t].ops
    /\ Pc(t)' = pc /\ Frame(t)'.uuid = u
    /\ Frame(t)'.old = Frame(t).old /\ Frame(t)'.new = Frame(t).new

\* The operation of t is over.
Finishes(t) ==
    /\ ThreadShape' /\ OthersStay(t)
    /\ Pc(t)' = "idle" /\ Frame(t)'.old = {}

LEMMA RemappingsAreOperations == Remappings \subseteq Operations
<1> SUFFICES ASSUME NEW r \in Remappings PROVE r \in Operations
  BY Zenon
<1>1. <<>> \in Seq(Remappings)
  OBVIOUS
<1>2. /\ r = [op |-> r.op, path |-> r.path, to |-> r.to, uuid |-> r.uuid, new |-> r.new,
              location |-> r.location, children |-> r.children]
      /\ r.op = "remapFile" /\ r.path = None /\ r.to \in Path /\ r.uuid \in Uuid
      /\ r.new \in Uuid /\ r.location = {} /\ r.children = <<>>
  BY Zenon DEF Remappings
<1> DEFINE S == Seq(Remappings)
<1>3. r.children \in S
  BY <1>1, <1>2, Zenon
<1> HIDE DEF S
<1>4. r \in [op : FromPath \cup ToPath \cup OfUuid \cup {"provider"}, path : Path \cup {None}, to : Path \cup {None}, uuid : Uuid \cup {None},
            new : Uuid \cup {None}, location : SUBSET {"location"}, children : S]
  <2>1. r.op \in FromPath \cup ToPath \cup OfUuid \cup {"provider"}
    BY <1>2, Zenon DEF ToPath
  <2>2. r.location \in SUBSET {"location"}
    BY <1>2, Zenon
  <2>3. /\ r.path \in Path \cup {None} /\ r.to \in Path \cup {None}
        /\ r.uuid \in Uuid \cup {None} /\ r.new \in Uuid \cup {None}
    BY <1>2, Zenon
  <2> QED
    BY <1>2, <1>3, <2>1, <2>2, <2>3, Zenon
<1> QED
  BY <1>2, <1>4, Zenon DEF Operations, S, FromPath, ToPath

LEMMA GotoContinues ==
    ASSUME ThreadShape, NEW t \in Thread, NEW pc, NEW c, Goto(t, pc, c)
    PROVE  cache' = c /\ Continues(t, pc, Frame(t).uuid)
<1> DEFINE f == [thread[t].frame EXCEPT !.pc = pc]
           r == [thread[t] EXCEPT !.frame = f]
<1>1. cache' = c /\ thread' = [thread EXCEPT ![t] = r]
  BY Zenon DEF Goto
<1>2. /\ DOMAIN f = {"pc", "uuid", "old", "new", "children"}
      /\ f.pc = pc /\ f.uuid = thread[t].frame.uuid /\ f.old = thread[t].frame.old
      /\ f.new = thread[t].frame.new /\ f.children = thread[t].frame.children
  BY Zenon DEF ThreadShape, Frame
<1> HIDE DEF f
<1>3. DOMAIN r = {"ops", "frame"} /\ r.ops = thread[t].ops /\ r.frame = f
  BY Zenon DEF ThreadShape
<1> HIDE DEF r
<1>4. thread'[t] = r /\ OthersStay(t) /\ DOMAIN thread' = Thread
  BY <1>1, Zenon DEF ThreadShape, OthersStay
<1>5. ThreadShape'
  BY <1>2, <1>3, <1>4, Zenon DEF ThreadShape, Frame, OthersStay
<1> QED
  BY <1>1, <1>2, <1>3, <1>4, <1>5, Zenon DEF Continues, Pc, Frame

LEMMA GotoWithContinues ==
    ASSUME ThreadShape, NEW t \in Thread, NEW pc, NEW u, NEW c, GotoWith(t, pc, u, c)
    PROVE  cache' = c /\ Continues(t, pc, u)
<1> DEFINE f == [thread[t].frame EXCEPT !.pc = pc, !.uuid = u]
           r == [thread[t] EXCEPT !.frame = f]
<1>1. cache' = c /\ thread' = [thread EXCEPT ![t] = r]
  <2>1. [thread EXCEPT ![t].frame.pc = pc, ![t].frame.uuid = u] = [thread EXCEPT ![t] = r]
    BY Zenon DEF ThreadShape, Frame
  <2> QED
    BY <2>1, Zenon DEF GotoWith
<1>2. /\ DOMAIN f = {"pc", "uuid", "old", "new", "children"}
      /\ f.pc = pc /\ f.uuid = u /\ f.old = thread[t].frame.old
      /\ f.new = thread[t].frame.new /\ f.children = thread[t].frame.children
  BY Zenon DEF ThreadShape, Frame
<1> HIDE DEF f
<1>3. DOMAIN r = {"ops", "frame"} /\ r.ops = thread[t].ops /\ r.frame = f
  BY Zenon DEF ThreadShape
<1> HIDE DEF r
<1>4. thread'[t] = r /\ OthersStay(t) /\ DOMAIN thread' = Thread
  BY <1>1, Zenon DEF ThreadShape, OthersStay
<1>5. ThreadShape'
  BY <1>2, <1>3, <1>4, Zenon DEF ThreadShape, Frame, OthersStay
<1> QED
  BY <1>1, <1>2, <1>3, <1>4, <1>5, Zenon DEF Continues, Pc, Frame

LEMMA EndFinishes ==
    ASSUME ThreadShape, NEW t \in Thread, NEW c, End(t, c), thread[t].ops # <<>>
    PROVE  /\ cache' = [c EXCEPT !.locks = {l \in @ : l[1] # t}]
           /\ Finishes(t)
<1> DEFINE r == [ops |-> Tail(thread[t].ops), frame |-> Idle]
<1>1. thread' = [thread EXCEPT ![t] = r]
  BY Zenon DEF End
<1>2. thread'[t] = r /\ OthersStay(t) /\ DOMAIN thread' = Thread
  BY <1>1, Zenon DEF ThreadShape, OthersStay
<1>3. Tail(thread[t].ops) \in Seq(Operations)
  BY DEF ThreadShape
<1>4. DOMAIN Idle = {"pc", "uuid", "old", "new", "children"} /\ Idle.children \in Seq(Remappings)
  BY DEF Idle
<1>5. r.ops = Tail(thread[t].ops) /\ r.frame = Idle /\ DOMAIN r = {"ops", "frame"}
  BY Zenon
<1> HIDE DEF r
<1>6. ThreadShape'
  BY <1>2, <1>3, <1>4, <1>5, Zenon DEF ThreadShape, Frame, OthersStay
<1> QED
  BY <1>2, <1>5, <1>6, Zenon DEF End, Finishes, Pc, Frame, Idle

------------------------------------------------------------------------------
(* What the operators on the cache change.                                 *)

Whole(c) == DOMAIN c = {"paths", "meta", "locks"}

\* The paths of c that are in d, too, have the uuids that they have in d.
Within(c, d) == DOMAIN c \subseteq DOMAIN d /\ \A p \in DOMAIN c : c[p] = d[p]

LEMMA SetPathIs ==
    ASSUME NEW c, Whole(c), NEW p, NEW u
    PROVE  /\ Whole(SetPath(c, p, u))
           /\ SetPath(c, p, u).meta = c.meta /\ SetPath(c, p, u).locks = c.locks
           /\ DOMAIN SetPath(c, p, u).paths = DOMAIN c.paths \cup {p}
           /\ SetPath(c, p, u).paths[p] = u
           /\ \A x \in DOMAIN c.paths \ {p} : SetPath(c, p, u).paths[x] = c.paths[x]
BY Zenon DEF Whole, SetPath, Put

LEMMA ErasePathsIs ==
    ASSUME NEW c, Whole(c), NEW ps
    PROVE  /\ Whole(ErasePaths(c, ps))
           /\ ErasePaths(c, ps).meta = c.meta /\ ErasePaths(c, ps).locks = c.locks
           /\ DOMAIN ErasePaths(c, ps).paths = (DOMAIN c.paths) \ ps
           /\ Within(ErasePaths(c, ps).paths, c.paths)
BY Zenon DEF Whole, ErasePaths, Restrict, Within

LEMMA MetaOperators ==
    ASSUME NEW c, Whole(c), NEW u, NEW m
    PROVE  /\ Whole(SetMeta(c, u, m)) /\ Whole(EraseMeta(c, u))
           /\ SetMeta(c, u, m).paths = c.paths /\ SetMeta(c, u, m).locks = c.locks
           /\ SetMeta(c, u, m).meta = Put(c.meta, u, m)
           /\ EraseMeta(c, u).paths = c.paths /\ EraseMeta(c, u).locks = c.locks
           /\ EraseMeta(c, u).meta = Drop(c.meta, u)
BY Zenon DEF Whole, SetMeta, EraseMeta

\* The accessors but one.
Without(locks, t, table, key) == {l \in locks : ~(l[1] = t /\ l[2] = table /\ l[3] = key)}

LEMMA LockIs ==
    ASSUME NEW c, Whole(c), NEW t, NEW table, NEW key
    PROVE  /\ Whole(Lock(c, t, table, key))
           /\ Lock(c, t, table, key).paths = c.paths /\ Lock(c, t, table, key).meta = c.meta
           /\ Lock(c, t, table, key).locks = c.locks \cup {<<t, table, key, "exclusive">>}
BY Zenon DEF Whole, Lock

LEMMA LockSharedIs ==
    ASSUME NEW c, Whole(c), NEW t, NEW table, NEW key
    PROVE  /\ Whole(LockShared(c, t, table, key))
           /\ LockShared(c, t, table, key).paths = c.paths
           /\ LockShared(c, t, table, key).meta = c.meta
           /\ LockShared(c, t, table, key).locks = c.locks \cup {<<t, table, key, "shared">>}
BY Zenon DEF Whole, LockShared

LEMMA UnlockIs ==
    ASSUME NEW c, Whole(c), NEW t, NEW table, NEW key
    PROVE  /\ Whole(Unlock(c, t, table, key))
           /\ Unlock(c, t, table, key).paths = c.paths /\ Unlock(c, t, table, key).meta = c.meta
           /\ Unlock(c, t, table, key).locks = Without(c.locks, t, table, key)
BY Zenon DEF Whole, Unlock, Without

\* What other threads hold, they go on holding.
OthersHold(t) ==
    \A s \in Thread \ {t} : \A table, key : Holds(s, table, key) => Holds(s, table, key)'

LEMMA UnlockKeeps ==
    ASSUME NEW t, NEW table, NEW key, NEW s, NEW tb, NEW k, NEW locks,
           <<s, tb, k, "exclusive">> \in locks, ~(s = t /\ tb = table /\ k = key)
    PROVE  <<s, tb, k, "exclusive">> \in Without(locks, t, table, key)
BY Zenon DEF Without

LEMMA EndKeeps ==
    ASSUME NEW t, NEW s, s # t, NEW tb, NEW k, NEW locks, <<s, tb, k, "exclusive">> \in locks
    PROVE  <<s, tb, k, "exclusive">> \in {l \in locks : l[1] # t}
BY Zenon

------------------------------------------------------------------------------
(* Paths: what every step has to show.                                     *)

Grows == /\ DOMAIN known' = Path /\ orphans \subseteq orphans'
         /\ \A p \in Path : known[p] \subseteq known'[p]

\* What a step of t may do to the path p.
Fate(t, p) ==
    \/ cache'.paths[p] \in known'[p]
    \/ cache'.paths[p] = None /\ p \in orphans'
    \/ cache'.paths[p] = None /\ LeftBy(t, p)'
    \/ p \in DOMAIN cache.paths /\ cache'.paths[p] = cache.paths[p] /\ (LeftBy(t, p) => LeftBy(t, p)')

LEMMA PathsStep ==
    ASSUME PathInv, NEW t \in Thread, OthersStay(t), OthersHold(t), Grows,
           \A p \in DOMAIN cache'.paths : p \in Path /\ Fate(t, p)
    PROVE  PathsHold'
<1> SUFFICES ASSUME NEW p \in DOMAIN cache'.paths
             PROVE  \/ Mapped(p)'
                    \/ Unset(p)' /\ (p \in orphans' \/ \E s \in Thread : LeftBy(s, p)')
  BY Zenon DEF PathsHold
<1>1. \A s \in Thread \ {t} : LeftBy(s, p) => LeftBy(s, p)'
  BY Zenon DEF OthersStay, OthersHold, LeftBy, Loose, Pc, Frame, Op, Runs
<1>2. CASE p \in DOMAIN cache.paths /\ cache'.paths[p] = cache.paths[p] /\ (LeftBy(t, p) => LeftBy(t, p)')
  BY <1>1, <1>2, Zenon DEF PathInv, PathsHold, Mapped, Unset, Grows
<1> QED
  BY <1>2, Zenon DEF Fate, Mapped, Unset

LEMMA RoutesStep ==
    ASSUME PathInv, NEW t \in Thread, OthersStay(t), Grows, Routed(t)', TargetIsKnown(t)'
    PROVE  \A s \in Thread : Routed(s)' /\ TargetIsKnown(s)'
<1> SUFFICES ASSUME NEW s \in Thread \ {t} PROVE Routed(s)' /\ TargetIsKnown(s)'
  BY Zenon
<1>1. thread'[s] = thread[s] /\ Routed(s) /\ TargetIsKnown(s)
  BY Zenon DEF OthersStay, PathInv
<1>2. Routed(s)'
  BY <1>1, Zenon DEF Routed, Pc, Frame, Op, Runs
<1>3. Pc(s)' = Pc(s) /\ Op(s)' = Op(s) /\ Frame(s)' = Frame(s)
  BY <1>1, Zenon DEF Pc, Frame, Op
<1>4. Pc(s) \in TargetPcs => known[Op(s).to] \subseteq known'[Op(s).to]
  BY <1>1, Zenon DEF Routed, Grows
<1>5. TargetIsKnown(s)'
  BY <1>1, <1>3, <1>4, Zenon DEF TargetIsKnown, TargetPcs, Runs
<1> QED
  BY <1>2, <1>5, Zenon

LEMMA PathInvStep ==
    ASSUME PathInv, NEW t \in Thread, ThreadShape', OthersStay(t), OthersHold(t), Grows, CacheShape',
           ProviderIsKnown', Routed(t)', TargetIsKnown(t)',
           \A p \in DOMAIN cache'.paths : p \in Path /\ Fate(t, p)
    PROVE  PathInv'
BY PathsStep, RoutesStep, Zenon DEF PathInv

LEMMA SilentGrows ==
    ASSUME PathInv, Silent
    PROVE  Grows /\ ProviderIsKnown'
BY Zenon DEF PathInv, Silent, Grows, ProviderIsKnown

\* The operation goes on and maps no path anew.
LEMMA GoesOn ==
    ASSUME PathInv, NEW t \in Thread, ThreadShape', OthersStay(t), Silent, CacheShape',
           Within(cache'.paths, cache.paths), OthersHold(t), Routed(t)', TargetIsKnown(t)',
           \A p \in DOMAIN cache'.paths : LeftBy(t, p) => LeftBy(t, p)'
    PROVE  PathInv'
<1>1. \A p \in DOMAIN cache'.paths : p \in Path /\ Fate(t, p)
  BY Zenon DEF PathInv, PathsHold, Within, Fate
<1> QED
  BY <1>1, SilentGrows, PathInvStep, Zenon

\* The operation ends, and the paths it left without uuid are erased, mapped, or given up.
LEMMA QuitsWith ==
    ASSUME PathInv, NEW t \in Thread, NEW c, End(t, c), thread[t].ops # <<>>, Grows,
           ProviderIsKnown', Whole(c), c.locks = cache.locks,
           \A p \in DOMAIN c.paths :
               \/ p \in Path /\ c.paths[p] \in known'[p]
               \/ p \in DOMAIN cache.paths /\ c.paths[p] = cache.paths[p] /\ (p \in Loose(t) => p \in orphans')
    PROVE  PathInv'
<1>1. /\ cache' = [c EXCEPT !.locks = {l \in @ : l[1] # t}]
      /\ Finishes(t)
  BY EndFinishes, Zenon DEF PathInv
<1>2. cache'.paths = c.paths /\ CacheShape' /\ cache'.locks = {l \in cache.locks : l[1] # t}
  BY <1>1, Zenon DEF Whole, CacheShape
<1>3. OthersHold(t)
  BY <1>2, EndKeeps, Zenon DEF OthersHold, Holds
<1>4. Routed(t)' /\ TargetIsKnown(t)'
  BY <1>1, Zenon DEF Finishes, Routed, TargetIsKnown, PathPcs, TargetPcs
<1>5. \A p \in DOMAIN cache'.paths : p \in Path /\ Fate(t, p)
  <2> SUFFICES ASSUME NEW p \in DOMAIN cache'.paths PROVE p \in Path /\ Fate(t, p)
    BY Zenon
  <2>1. CASE p \in Path /\ c.paths[p] \in known'[p]
    BY <1>2, <2>1, Zenon DEF Fate
  <2>2. CASE p \in DOMAIN cache.paths /\ c.paths[p] = cache.paths[p] /\ (p \in Loose(t) => p \in orphans')
    <3>1. p \in Path /\ (cache.paths[p] = None \/ cache.paths[p] \in known[p])
      BY <2>2, Zenon DEF PathInv, PathsHold, Mapped, Unset
    <3> QED
      BY <1>2, <2>2, <3>1, Zenon DEF Fate, LeftBy, Grows
  <2> QED
    BY <1>2, <2>1, <2>2, Zenon
<1> QED
  BY <1>1, <1>2, <1>3, <1>4, <1>5, PathInvStep, Zenon DEF Finishes

LEMMA Quits ==
    ASSUME PathInv, NEW t \in Thread, NEW c, End(t, c), thread[t].ops # <<>>, Silent,
           Whole(c), c.locks = cache.locks, Within(c.paths, cache.paths),
           \A p \in DOMAIN c.paths : p \notin Loose(t)
    PROVE  PathInv'
BY SilentGrows, QuitsWith, Zenon DEF Within

\* An operation that goes on stays the same, and leaves the same paths.
LEMMA Going ==
    ASSUME NEW t, NEW pc, NEW u, Continues(t, pc, u)
    PROVE  /\ Op(t)' = Op(t) /\ \A ops : Runs(t, ops)' <=> Runs(t, ops)
           /\ Loose(t)' = {p \in {Op(t).path} : pc = "resolve"}
                          \cup {p \in {Op(t).to} : \/ pc \in {"mapMeta", "remapMeta", "remap"}
                                                   \/ pc \in LoosePcs /\ Runs(t, {"rename"})}
<1>1. Op(t)' = Op(t) /\ Pc(t)' = pc
  BY Zenon DEF Continues, Op
<1>2. \A ops : Runs(t, ops)' <=> Runs(t, ops)
  BY <1>1, Zenon DEF Runs
<1> QED
  BY <1>1, <1>2, Zenon DEF Loose

------------------------------------------------------------------------------
(* Paths: the steps of a look-up.                                          *)

\* A step that takes accessors, or changes metadata, and goes on.
LEMMA KeepsPaths ==
    ASSUME PathInv, NEW t \in Thread, NEW pc, NEW u, NEW c, cache' = c, Continues(t, pc, u), Silent,
           Whole(c), c.paths = cache.paths, cache.locks \subseteq c.locks,
           Loose(t) \subseteq Loose(t)', pc \notin PathPcs \cup TargetPcs, thread[t].ops # <<>>
    PROVE  PathInv'
<1>1. CacheShape' /\ Within(cache'.paths, cache.paths)
  BY Zenon DEF Whole, CacheShape, Within
<1>2. \A s, table, key : Holds(s, table, key) => Holds(s, table, key)'
  BY Zenon DEF Holds
<1>3. Routed(t)' /\ TargetIsKnown(t)'
  BY Zenon DEF Continues, Routed, TargetIsKnown, PathPcs, TargetPcs
<1> QED
  BY <1>1, <1>2, <1>3, GoesOn, Zenon DEF Continues, OthersHold, LeftBy

LEMMA FindSteps ==
    ASSUME PathInv, NEW t \in Thread, FindPath(t) \/ FindMeta(t)
    PROVE  PathInv'
<1>1. ThreadShape /\ Whole(cache) /\ Routed(t)
  BY Zenon DEF PathInv, CacheShape, Whole
<1>2. CASE FindPath(t)
  <2>1. At(t, "findPath") /\ Silent /\ Loose(t) = {} /\ thread[t].ops # <<>> /\ Op(t).path \in Path
    BY <1>1, <1>2, Zenon DEF FindPath, At, Loose, LoosePcs, Pc, Routed, PathPcs
  <2>2. CASE Goto(t, "insertPath", cache)
    <3>1. cache' = cache /\ Continues(t, "insertPath", Frame(t).uuid)
      BY <1>1, <2>2, GotoContinues, Zenon
    <3>2. Routed(t)' /\ TargetIsKnown(t)'
      BY <2>1, <3>1, Going, Zenon DEF Continues, Routed, TargetIsKnown, PathPcs, TargetPcs
    <3>3. CacheShape' /\ Within(cache'.paths, cache.paths) /\ OthersHold(t)
      BY <1>1, <3>1, Zenon DEF Whole, CacheShape, Within, OthersHold, Holds
    <3> QED
      BY <2>1, <3>1, <3>2, <3>3, GoesOn, Zenon DEF Continues, LeftBy
  <2>3. CASE GotoWith(t, "findMeta", cache.paths[Op(t).path], LockShared(cache, t, "path", Op(t).path))
    <3> DEFINE c == LockShared(cache, t, "path", Op(t).path)
    <3>1. cache' = c /\ Continues(t, "findMeta", cache.paths[Op(t).path])
      BY <1>1, <2>3, GotoWithContinues, Zenon
    <3>2. Whole(c) /\ c.paths = cache.paths /\ cache.locks \subseteq c.locks
      BY <1>1, LockSharedIs
    <3> QED
      BY <2>1, <3>1, <3>2, KeepsPaths, Zenon DEF PathPcs, TargetPcs
  <2> QED
    BY <1>2, <2>2, <2>3, Zenon DEF FindPath
<1>3. CASE FindMeta(t)
  <2>1. Silent /\ Loose(t) = {} /\ thread[t].ops # <<>>
    BY <1>3, Zenon DEF FindMeta, At, Loose, LoosePcs, Pc
  <2>2. CASE End(t, cache)
    BY <1>1, <2>1, <2>2, Quits, Zenon DEF Within
  <2>3. CASE Goto(t, "insertMeta", cache)
    <3>1. cache' = cache /\ Continues(t, "insertMeta", Frame(t).uuid)
      BY <1>1, <2>3, GotoContinues, Zenon
    <3> QED
      BY <1>1, <2>1, <3>1, KeepsPaths, Zenon DEF PathPcs, TargetPcs
  <2> QED
    BY <1>3, <2>2, <2>3, Zenon DEF FindMeta
<1> QED
  BY <1>2, <1>3, Zenon

LEMMA MetaSteps ==
    ASSUME PathInv, NEW t \in Thread, InsertMeta(t) \/ FetchSucceeds(t) \/ Adopt(t)
    PROVE  PathInv'
<1>1. ThreadShape /\ Whole(cache)
  BY Zenon DEF PathInv, CacheShape, Whole
<1>2. Silent /\ thread[t].ops # <<>> /\ Pc(t) \in {"insertMeta", "fetch", "adopt"}
  BY Zenon DEF InsertMeta, FetchSucceeds, Adopt, At, Pc
<1>3. Loose(t) = {p \in {Op(t).to} : Runs(t, {"rename"})}
  BY <1>2, Zenon DEF Loose, LoosePcs
<1> DEFINE c == Lock(cache, t, "meta", Frame(t).uuid)
<1>4. Whole(c) /\ c.paths = cache.paths /\ cache.locks \subseteq c.locks
  BY <1>1, LockIs
<1> HIDE DEF c
<1>5. \E m : \E pc \in {"found", "fetch"} :
         Goto(t, pc, SetMeta(c, Frame(t).uuid, m)) \/ Goto(t, pc, SetMeta(cache, Frame(t).uuid, m))
  BY Zenon DEF InsertMeta, FetchSucceeds, Adopt, c
<1>6. PICK m, pc : /\ pc \in {"found", "fetch"}
                   /\ \/ Goto(t, pc, SetMeta(c, Frame(t).uuid, m))
                      \/ Goto(t, pc, SetMeta(cache, Frame(t).uuid, m))
  BY <1>5, Zenon
<1>7. CASE Goto(t, pc, SetMeta(c, Frame(t).uuid, m))
  <2> DEFINE d == SetMeta(c, Frame(t).uuid, m)
  <2>1. cache' = d /\ Continues(t, pc, Frame(t).uuid)
    BY <1>1, <1>7, GotoContinues, Zenon
  <2>2. Whole(d) /\ d.paths = cache.paths /\ cache.locks \subseteq d.locks
    BY <1>4, MetaOperators
  <2>3. Loose(t)' = {p \in {Op(t).to} : Runs(t, {"rename"})}
    BY <1>6, <2>1, Going DEF LoosePcs
  <2> HIDE DEF d
  <2> QED
    BY <1>2, <1>3, <1>6, <2>1, <2>2, <2>3, KeepsPaths, Zenon DEF PathPcs, TargetPcs
<1>8. CASE Goto(t, pc, SetMeta(cache, Frame(t).uuid, m))
  <2> DEFINE d == SetMeta(cache, Frame(t).uuid, m)
  <2>1. cache' = d /\ Continues(t, pc, Frame(t).uuid)
    BY <1>1, <1>8, GotoContinues, Zenon
  <2>2. Whole(d) /\ d.paths = cache.paths /\ cache.locks \subseteq d.locks
    BY <1>1, MetaOperators
  <2>3. Loose(t)' = {p \in {Op(t).to} : Runs(t, {"rename"})}
    BY <1>6, <2>1, Going DEF LoosePcs
  <2> HIDE DEF d
  <2> QED
    BY <1>2, <1>3, <1>6, <2>1, <2>2, <2>3, KeepsPaths DEF PathPcs, TargetPcs
<1> QED
  BY <1>6, <1>7, <1>8, Zenon

\* A failed look-up erases what it has inserted, and rename() its target.
LEMMA FailSteps ==
    ASSUME PathInv, NEW t \in Thread, FetchFails(t) \/ ResolveFails(t) \/ RenameRefused(t)
    PROVE  PathInv'
<1>1. ThreadShape /\ Whole(cache)
  BY DEF PathInv, CacheShape, Whole
<1>2. Silent /\ thread[t].ops # <<>> /\ Pc(t) \in {"fetch", "resolve", "renameAnswer"}
  BY Zenon DEF FetchFails, ResolveFails, RenameRefused, At, Pc
<1>3. \E d : /\ End(t, Undo(t, d)) /\ Whole(d) /\ d.locks = cache.locks /\ Within(d.paths, cache.paths)
             /\ Pc(t) = "resolve" => Op(t).path \notin DOMAIN d.paths
  <2>1. CASE FetchFails(t)
    <3> DEFINE d == EraseMeta(cache, Frame(t).uuid)
    <3>1. Whole(d) /\ d.locks = cache.locks /\ d.paths = cache.paths
      BY <1>1, MetaOperators, Zenon
    <3>2. End(t, Undo(t, d)) /\ Pc(t) = "fetch"
      BY <2>1, Zenon DEF FetchFails, At, Pc
    <3> QED
      BY <3>1, <3>2, Zenon DEF Within
  <2>2. CASE ResolveFails(t)
    <3> DEFINE d == ErasePaths(cache, {Op(t).path})
    <3>1. /\ Whole(d) /\ d.locks = cache.locks /\ Within(d.paths, cache.paths)
          /\ Op(t).path \notin DOMAIN d.paths
      BY <1>1, ErasePathsIs
    <3>2. End(t, Undo(t, d))
      BY <2>2, Zenon DEF ResolveFails
    <3> QED
      BY <3>1, <3>2, Zenon
  <2>3. CASE RenameRefused(t)
    <3>1. End(t, Undo(t, cache)) /\ Pc(t) = "renameAnswer"
      BY <2>3, Zenon DEF RenameRefused, At, Pc
    <3> QED
      BY <1>1, <3>1, Zenon DEF Within
  <2> QED
    BY <2>1, <2>2, <2>3, Zenon
<1>4. PICK d : /\ End(t, Undo(t, d)) /\ Whole(d) /\ d.locks = cache.locks
               /\ Within(d.paths, cache.paths)
               /\ Pc(t) = "resolve" => Op(t).path \notin DOMAIN d.paths
  BY <1>3, Zenon
<1> DEFINE e == Undo(t, d)
<1>5. /\ Whole(e) /\ e.locks = cache.locks /\ Within(e.paths, cache.paths)
      /\ DOMAIN e.paths \subseteq DOMAIN d.paths
      /\ Runs(t, {"rename"}) => Op(t).to \notin DOMAIN e.paths
  BY <1>4, ErasePathsIs DEF Undo, Within
<1>6. \A p \in DOMAIN e.paths : p \notin Loose(t)
  BY <1>2, <1>4, <1>5, Zenon DEF Loose
<1> QED
  BY <1>2, <1>4, <1>5, <1>6, Quits, Zenon

LEMMA InsertPathStep ==
    ASSUME PathInv, NEW t \in Thread, InsertPath(t)
    PROVE  PathInv'
<1>0. PICK p : p = Op(t).path
  BY Zenon
<1> DEFINE c == Lock(cache, t, "path", p)
<1>1. ThreadShape /\ Whole(cache) /\ Routed(t)
  BY Zenon DEF PathInv, CacheShape, Whole
<1>2. Silent /\ thread[t].ops # <<>> /\ Pc(t) = "insertPath" /\ p \in Path
  BY <1>0, <1>1, Zenon DEF InsertPath, At, Pc, Routed, PathPcs
<1>3. /\ Whole(c) /\ c.paths = cache.paths /\ cache.locks \subseteq c.locks
      /\ <<t, "path", p, "exclusive">> \in c.locks
  BY <1>1, LockIs
<1>4. Loose(t) = {q \in {Op(t).to} : Runs(t, {"rename"})}
  BY <1>2, Zenon DEF Loose, LoosePcs
<1> HIDE DEF c
<1>5. CASE GotoWith(t, "insertMeta", cache.paths[p], c)
  <2>1. cache' = c /\ Continues(t, "insertMeta", cache.paths[p])
    BY <1>1, <1>5, GotoWithContinues, Zenon
  <2>2. Loose(t)' = {q \in {Op(t).to} : Runs(t, {"rename"})}
    BY <2>1, Going DEF LoosePcs
  <2> QED
    BY <1>2, <1>3, <1>4, <2>1, <2>2, KeepsPaths, Zenon DEF PathPcs, TargetPcs
<1>6. CASE Goto(t, "resolve", SetPath(c, p, None))
  <2> DEFINE d == SetPath(c, p, None)
  <2>1. cache' = d /\ Continues(t, "resolve", Frame(t).uuid)
    BY <1>1, <1>6, GotoContinues, Zenon
  <2>2. /\ Whole(d) /\ d.locks = c.locks /\ DOMAIN d.paths = DOMAIN cache.paths \cup {p}
        /\ d.paths[p] = None /\ \A x \in DOMAIN cache.paths \ {p} : d.paths[x] = cache.paths[x]
    BY <1>3, SetPathIs
  <2> HIDE DEF d
  <2>3. Loose(t)' = {p} \cup Loose(t)
    BY <1>0, <1>4, <2>1, Going DEF LoosePcs
  <2>4. \A s, table, key : Holds(s, table, key) => Holds(s, table, key)'
    BY <1>3, <2>1, <2>2, Zenon DEF Holds
  <2>5. LeftBy(t, p)'
    BY <1>3, <2>1, <2>2, <2>3, Zenon DEF LeftBy, Holds
  <2>6. \A x : LeftBy(t, x) => LeftBy(t, x)'
    BY <2>3, <2>4, Zenon DEF LeftBy
  <2>7. \A x \in DOMAIN cache'.paths : x \in Path /\ Fate(t, x)
    BY <1>2, <2>1, <2>2, <2>5, <2>6, Zenon DEF Fate, PathInv, PathsHold
  <2>8. Routed(t)' /\ TargetIsKnown(t)'
    BY <1>0, <1>2, <2>1, Going, Zenon DEF Continues, Routed, TargetIsKnown, PathPcs, TargetPcs
  <2>9. CacheShape' /\ OthersHold(t)
    BY <2>1, <2>2, <2>4, Zenon DEF Whole, CacheShape, OthersHold
  <2> QED
    BY <1>2, <2>1, <2>7, <2>8, <2>9, SilentGrows, PathInvStep, Zenon DEF Continues
<1> QED
  BY <1>0, <1>5, <1>6, Zenon DEF InsertPath, c

LEMMA ResolveStep ==
    ASSUME PathInv, NEW t \in Thread, ResolveSucceeds(t)
    PROVE  PathInv'
<1>0. PICK p : p = Op(t).path
  OBVIOUS
<1> DEFINE d == SetPath(cache, p, provider[p])
<1>1. ThreadShape /\ Whole(cache) /\ Routed(t)
  BY DEF PathInv, CacheShape, Whole
<1>2. /\ Silent /\ thread[t].ops # <<>> /\ Pc(t) = "resolve" /\ p \in DOMAIN provider
      /\ GotoWith(t, "adopt", provider[p], d)
  BY <1>0, <1>1, Zenon DEF ResolveSucceeds, At, Pc
<1>3. cache' = d /\ Continues(t, "adopt", provider[p])
  BY <1>1, <1>2, GotoWithContinues, Zenon
<1>4. /\ Whole(d) /\ d.locks = cache.locks /\ DOMAIN d.paths = DOMAIN cache.paths \cup {p}
      /\ d.paths[p] = provider[p] /\ \A x \in DOMAIN cache.paths \ {p} : d.paths[x] = cache.paths[x]
  BY <1>1, SetPathIs
<1> HIDE DEF d
<1>5. p \in Path /\ provider[p] \in known[p] /\ known' = known
  BY <1>2, Zenon DEF PathInv, ProviderIsKnown, Silent
<1>6. Loose(t) \subseteq {p} \cup Loose(t)'
  BY <1>0, <1>2, <1>3, Going DEF Loose, LoosePcs
<1>7. \A s, table, key : Holds(s, table, key) => Holds(s, table, key)'
  BY <1>3, <1>4, Zenon DEF Holds
<1>8. \A x \in DOMAIN cache'.paths : x \in Path /\ Fate(t, x)
  BY <1>3, <1>4, <1>5, <1>6, <1>7, Zenon DEF Fate, PathInv, PathsHold, LeftBy
<1>9. Routed(t)' /\ TargetIsKnown(t)'
  BY <1>2, <1>3, Going, Zenon DEF Continues, Routed, TargetIsKnown, PathPcs, TargetPcs
<1>10. CacheShape' /\ OthersHold(t)
  BY <1>3, <1>4, <1>7, Zenon DEF Whole, CacheShape, OthersHold
<1> QED
  BY <1>2, <1>3, <1>8, <1>9, <1>10, SilentGrows, PathInvStep, Zenon DEF Continues

------------------------------------------------------------------------------
(* Paths: the callers, and the handlers of events.                         *)

\* An operation that has left no path without uuid drops accessors and goes on.
LEMMA Drifts ==
    ASSUME PathInv, NEW t \in Thread, ThreadShape', OthersStay(t), Silent, CacheShape',
           Within(cache'.paths, cache.paths), OthersHold(t), Loose(t) = {},
           Pc(t)' \notin PathPcs \cup TargetPcs, thread'[t].ops # <<>>
    PROVE  PathInv'
<1>1. Routed(t)' /\ TargetIsKnown(t)'
  BY Zenon DEF Routed, TargetIsKnown, PathPcs, TargetPcs
<1> QED
  BY <1>1, GoesOn, Zenon DEF LeftBy

\* Changes of one entry of the metadata.
LEMMA ChangedKeeps ==
    ASSUME Whole(cache), NEW u
    PROVE  \A f, v : /\ Whole(Changed(u, f, v)) /\ Changed(u, f, v).locks = cache.locks
                     /\ Changed(u, f, v).paths = cache.paths
BY Zenon DEF Whole, Changed

LEMMA CallerSteps ==
    ASSUME PathInv, NEW t \in Thread,
           \/ Return(t) \/ Chmod(t) \/ Utime(t) \/ Locate(t) \/ RemoveMeta(t) \/ RemovePath(t)
           \/ HandleEvent(t) \/ Truncate(t) \/ Write(t)
    PROVE  PathInv'
<1>0. PICK u : u = Frame(t).uuid
  BY Zenon
<1>1. ThreadShape /\ Whole(cache) /\ Within(cache.paths, cache.paths)
  BY Zenon DEF PathInv, CacheShape, Whole, Within
<1>2. Silent /\ thread[t].ops # <<>>
  BY Zenon
     DEF Return, Chmod, Utime, ChangeAttr, Locate, RemoveMeta, RemovePath, HandleEvent, Truncate,
         Write, FoundFor, At
<1>3. Loose(t) = {}
  BY Zenon
     DEF Return, Chmod, Utime, ChangeAttr, Locate, RemoveMeta, RemovePath, HandleEvent, Truncate,
         Write, FoundFor, At, Loose, LoosePcs, Pc, Runs
<1>4. ASSUME NEW c, End(t, c), Whole(c), c.locks = cache.locks, Within(c.paths, cache.paths)
      PROVE  PathInv'
  BY <1>2, <1>3, <1>4, Quits, Zenon
<1>5. CASE Return(t)
  BY <1>1, <1>4, <1>5, Zenon DEF Return
<1>6. CASE Chmod(t) \/ Utime(t)
  BY <1>1, <1>4, <1>6, ChangedKeeps, Zenon DEF Chmod, Utime, ChangeAttr
<1>7. CASE Locate(t)
  <2>1. \E m : End(t, SetMeta(cache, u, m)) \/ End(t, EraseMeta(cache, u))
    BY <1>0, <1>7, Zenon DEF Locate
  <2> QED
    BY <1>1, <1>4, <2>1, MetaOperators, Zenon
<1>8. CASE RemoveMeta(t)
  <2>1. End(t, cache) \/ Goto(t, "removePath", Lock(cache, t, "meta", u))
    BY <1>0, <1>8, Zenon DEF RemoveMeta
  <2>2. CASE Goto(t, "removePath", Lock(cache, t, "meta", u))
    <3> DEFINE c == Lock(cache, t, "meta", u)
    <3>1. cache' = c /\ Continues(t, "removePath", Frame(t).uuid)
      BY <1>1, <2>2, GotoContinues, Zenon
    <3>2. Whole(c) /\ c.paths = cache.paths /\ cache.locks \subseteq c.locks
      BY <1>1, LockIs
    <3> QED
      BY <1>2, <1>3, <3>1, <3>2, KeepsPaths, Zenon DEF PathPcs, TargetPcs
  <2> QED
    BY <1>1, <1>4, <2>1, <2>2, Zenon
<1>9. CASE RemovePath(t)
  <2>1. PICK old : End(t, EraseMeta(ErasePaths(cache, old), u))
    BY <1>0, <1>9, Zenon DEF RemovePath
  <2> DEFINE c == ErasePaths(cache, old)
  <2>2. Whole(c) /\ c.locks = cache.locks /\ Within(c.paths, cache.paths)
    BY <1>1, ErasePathsIs, Zenon
  <2> HIDE DEF c
  <2>3. Whole(EraseMeta(c, u)) /\ EraseMeta(c, u).locks = cache.locks /\ EraseMeta(c, u).paths = c.paths
    BY <2>2, MetaOperators, Zenon
  <2> QED
    BY <1>4, <2>1, <2>2, <2>3, Zenon DEF c
<1>10. CASE HandleEvent(t)
  <2>1. \/ End(t, cache)
        \/ End(t, [Changed(u, "size", 0) EXCEPT !.meta[u].written = 0])
        \/ End(t, [cache EXCEPT !.meta[u].state = Op(t).op])
    BY <1>0, <1>10, Zenon DEF HandleEvent
  <2> DEFINE c == [Changed(u, "size", 0) EXCEPT !.meta[u].written = 0]
             d == [cache EXCEPT !.meta[u].state = Op(t).op]
  <2>2. Whole(c) /\ c.locks = cache.locks /\ c.paths = cache.paths
    BY <1>1, Zenon DEF Whole, Changed
  <2>3. Whole(d) /\ d.locks = cache.locks /\ d.paths = cache.paths
    BY <1>1, Zenon DEF Whole
  <2> HIDE DEF c, d
  <2>4. CASE End(t, c)
    BY <1>1, <1>4, <2>2, <2>4, Zenon
  <2>5. CASE End(t, d)
    BY <1>1, <1>4, <2>3, <2>5, Zenon
  <2> QED
    BY <1>1, <1>4, <2>1, <2>4, <2>5, Zenon DEF c, d
<1>11. CASE Truncate(t) \/ Write(t)
  <2> DEFINE c(n) == [Changed(u, "size", n) EXCEPT !.meta[u].written = n]
  <2>1. \A n : Whole(c(n)) /\ c(n).locks = cache.locks /\ c(n).paths = cache.paths
    BY <1>1, Zenon DEF Whole, Changed
  <2>2. \/ End(t, cache)
        \/ Goto(t, "locate", Unlock(Unlock(c(0), t, "meta", u), t, "path", Op(t).path))
        \/ Goto(t, "locate", Unlock(c(1), t, "meta", u))
    BY <1>0, <1>11, Zenon DEF Truncate, Write
  <2> HIDE DEF c
  <2>3. PICK d : /\ End(t, cache) \/ Goto(t, "locate", d)
                 /\ Whole(d) /\ d.paths = cache.paths
                 /\ \A s \in Thread \ {t} : \A tb, k : <<s, tb, k, "exclusive">> \in cache.locks
                                               => <<s, tb, k, "exclusive">> \in d.locks
    <3> DEFINE e(n) == Unlock(c(n), t, "meta", u)
               f == Unlock(e(0), t, "path", Op(t).path)
    <3>1. \A n : /\ Whole(e(n)) /\ e(n).paths = cache.paths
                 /\ \A s \in Thread \ {t} : \A tb, k : <<s, tb, k, "exclusive">> \in cache.locks
                                               => <<s, tb, k, "exclusive">> \in e(n).locks
      BY <2>1, UnlockIs, UnlockKeeps
    <3> HIDE DEF e
    <3>2. /\ Whole(f) /\ f.paths = cache.paths
          /\ \A s \in Thread \ {t} : \A tb, k : <<s, tb, k, "exclusive">> \in cache.locks
                                        => <<s, tb, k, "exclusive">> \in f.locks
      BY <3>1, UnlockIs, UnlockKeeps
    <3> HIDE DEF f
    <3>3. End(t, cache) \/ Goto(t, "locate", f) \/ Goto(t, "locate", e(1))
      BY <2>2, Zenon DEF e, f
    <3> QED
      BY <3>1, <3>2, <3>3, Zenon
  <2>4. CASE Goto(t, "locate", d)
    <3>1. cache' = d /\ Continues(t, "locate", Frame(t).uuid)
      BY <1>1, <2>4, GotoContinues, Zenon
    <3>2. CacheShape' /\ Within(cache'.paths, cache.paths) /\ OthersHold(t)
      BY <1>1, <2>3, <3>1, Zenon DEF Whole, CacheShape, OthersHold, Holds
    <3> QED
      BY <1>2, <1>3, <3>1, <3>2, Drifts, Zenon DEF Continues, PathPcs, TargetPcs
  <2> QED
    BY <1>1, <1>4, <2>3, <2>4, Zenon
<1> QED
  BY <1>5, <1>6, <1>7, <1>8, <1>9, <1>10, <1>11, Zenon

\* What a change of the provider's files has to show.
LEMMA ProviderStep ==
    ASSUME PathInv, DOMAIN known' = Path, \A p \in Path : known[p] \subseteq known'[p],
           \A p \in DOMAIN provider' :
               \/ p \in DOMAIN provider /\ provider'[p] = provider[p]
               \/ p \in Path /\ provider'[p] \in known'[p]
    PROVE  ProviderIsKnown'
BY Zenon DEF PathInv, ProviderIsKnown

\* What an operation of a workload names.
LEMMA OperationFields ==
    ASSUME ThreadShape, NEW t \in Thread, thread[t].ops # <<>>
    PROVE  /\ Op(t).op \in FromPath \cup ToPath \cup OfUuid \cup {"provider"}
           /\ Op(t).children \in Seq(Remappings)
           /\ Op(t).to \in Path \cup {None}
           /\ Op(t).op \in FromPath => Op(t).path \in Path
           /\ Op(t).op \in ToPath => Op(t).to \in Path
<1>1. Op(t) \in Operations
  BY DEF Op, ThreadShape
<1> QED
  BY <1>1, Zenon DEF Operations

LEMMA RemoveFileStep ==
    ASSUME PathInv, NEW t \in Thread, RemoveFile(t)
    PROVE  PathInv'
<1>0. PICK u, ps : u = Frame(t).uuid /\ ps = {Op(t).path}
  BY Zenon
<1> DEFINE c == [ErasePaths(cache, ps) EXCEPT !.meta[u].path = {}]
<1>1. ThreadShape /\ Whole(cache) /\ DOMAIN known = Path /\ thread[t].ops # <<>>
  BY Zenon DEF PathInv, CacheShape, Whole, ProviderIsKnown, RemoveFile, FoundFor, At
<1>2. /\ End(t, cache) \/ End(t, c)
      /\ UNCHANGED <<known, orphans>>
  BY <1>0, Zenon DEF RemoveFile
<1>3. provider' = provider \/ provider' = RestrictValues(provider, LAMBDA v : v # Frame(t).uuid)
  BY Zenon DEF RemoveFile
<1>4. Within(provider', provider)
  BY <1>3, Zenon DEF Within, RestrictValues, Restrict
<1>5. Grows /\ ProviderIsKnown'
  BY <1>1, <1>2, <1>4, ProviderStep, Zenon DEF Grows, Within
<1>6. Loose(t) = {}
  BY Zenon DEF RemoveFile, FoundFor, At, Loose, Pc, Runs
<1>7. Whole(c) /\ c.locks = cache.locks /\ Within(c.paths, cache.paths)
  <2>1. /\ Whole(ErasePaths(cache, ps)) /\ ErasePaths(cache, ps).locks = cache.locks
        /\ Within(ErasePaths(cache, ps).paths, cache.paths)
    BY <1>1, ErasePathsIs, Zenon
  <2> QED
    BY <2>1, Zenon DEF Whole
<1> HIDE DEF c
<1>8. CASE End(t, cache)
  BY <1>1, <1>5, <1>6, <1>8, QuitsWith, Zenon
<1>9. CASE End(t, c)
  BY <1>1, <1>5, <1>6, <1>7, <1>9, QuitsWith, Zenon DEF Within
<1> QED
  BY <1>2, <1>8, <1>9, Zenon

LEMMA ProviderChangesStep ==
    ASSUME PathInv, NEW t \in Thread, ProviderChanges(t)
    PROVE  PathInv'
<1>0. PICK p, q : p = Op(t).path /\ q = Op(t).to
  BY Zenon
<1>1. /\ ThreadShape /\ Whole(cache) /\ DOMAIN known = Path /\ thread[t].ops # <<>>
      /\ q \in Path \cup {None}
  BY <1>0, OperationFields, Zenon
     DEF PathInv, CacheShape, Whole, ProviderIsKnown, ProviderChanges, At
<1>2. /\ known' = [x \in Path |-> known[x] \cup {provider'[y] : y \in {x} \cap DOMAIN provider'}]
      /\ End(t, cache) /\ orphans' = orphans
      /\ \/ provider' = Drop(provider, p)
         \/ q # None /\ provider' = Put(Drop(provider, p), q, provider[p])
  BY <1>0, Zenon DEF ProviderChanges
<1>3. Grows
  BY <1>2, Zenon DEF Grows
<1>4. DOMAIN provider' \subseteq Path
  BY <1>1, <1>2 DEF PathInv, ProviderIsKnown, Drop, Put, Restrict
<1>5. ProviderIsKnown'
  BY <1>2, <1>4, Zenon DEF ProviderIsKnown
<1>6. Loose(t) = {}
  BY Zenon DEF ProviderChanges, At, Loose, LoosePcs, Pc
<1> QED
  BY <1>1, <1>2, <1>3, <1>5, <1>6, QuitsWith, Zenon

------------------------------------------------------------------------------
(* Paths: map, rename and remapFile.                                       *)

LEMMA NewPathStep ==
    ASSUME PathInv, NEW t \in Thread, NewPath(t)
    PROVE  PathInv'
<1>0. PICK q, v : q = Op(t).to /\ v = UuidOf(cache, q)
  BY Zenon
<1> DEFINE c == Lock(cache, t, "path", q)
           d == SetPath(c, q, v)
<1>1. ThreadShape /\ Whole(cache) /\ Routed(t) /\ TargetIsKnown(t)
  BY Zenon DEF PathInv, CacheShape, Whole
<1>2. Silent /\ thread[t].ops # <<>> /\ Pc(t) = "newPath" /\ q \in Path /\ Runs(t, ToPath)
  BY <1>0, <1>1, Zenon DEF NewPath, At, Pc, Routed, TargetPcs
<1>3. /\ Whole(c) /\ c.paths = cache.paths /\ cache.locks \subseteq c.locks
      /\ <<t, "path", q, "exclusive">> \in c.locks
  BY <1>1, LockIs
<1>4. PICK pc : /\ Goto(t, pc, d)
                /\ \/ pc = "mapMeta" /\ Runs(t, {"map"})
                   \/ pc = "insertPath" /\ Runs(t, {"rename"})
                   \/ pc = "remapMeta" /\ Runs(t, {"remapFile"})
  BY <1>0, <1>2, Zenon DEF NewPath, Runs, ToPath
<1> HIDE DEF c
<1>5. /\ Whole(d) /\ d.locks = c.locks /\ DOMAIN d.paths = DOMAIN cache.paths \cup {q}
      /\ d.paths[q] = v /\ \A x \in DOMAIN cache.paths \ {q} : d.paths[x] = cache.paths[x]
  BY <1>3, SetPathIs
<1> HIDE DEF d
<1>6. cache' = d /\ Continues(t, pc, Frame(t).uuid)
  BY <1>1, <1>4, GotoContinues, Zenon
<1>7. Loose(t) = {} /\ q \in Loose(t)'
  BY <1>0, <1>2, <1>4, <1>6, Going DEF Loose, LoosePcs
<1>8. \A s, table, key : Holds(s, table, key) => Holds(s, table, key)'
  BY <1>3, <1>5, <1>6, Zenon DEF Holds
<1>9. LeftBy(t, q)' /\ \A x : ~LeftBy(t, x)
  BY <1>3, <1>5, <1>6, <1>7, Zenon DEF LeftBy, Holds
<1>10. (q \in DOMAIN cache.paths /\ v = cache.paths[q]) \/ v = None
  BY <1>0, Zenon DEF UuidOf
<1>11. \A x \in DOMAIN cache'.paths : x \in Path /\ Fate(t, x)
  BY <1>2, <1>5, <1>6, <1>9, <1>10, Zenon DEF Fate, PathInv, PathsHold
<1>12. Routed(t)'
  <2>1. Runs(t, {"rename"}) => Op(t).path \in Path
    BY <1>1, <1>2, OperationFields, Zenon DEF Runs, FromPath
  <2> QED
    BY <1>0, <1>2, <1>4, <1>6, <2>1, Going, Zenon DEF Continues, Routed, PathPcs, TargetPcs
<1>13. TargetIsKnown(t)'
  BY <1>1, <1>2, <1>4, <1>6, Going, Zenon DEF Continues, TargetIsKnown, Silent
<1>14. CacheShape' /\ OthersHold(t)
  BY <1>5, <1>6, <1>8, Zenon DEF Whole, CacheShape, OthersHold
<1> QED
  BY <1>2, <1>6, <1>11, <1>12, <1>13, <1>14, SilentGrows, PathInvStep, Zenon DEF Continues

LEMMA MapMetaStep ==
    ASSUME PathInv, NEW t \in Thread, MapMeta(t)
    PROVE  PathInv'
<1>0. PICK q, u : q = Op(t).to /\ u = Op(t).uuid
  BY Zenon
<1>1. ThreadShape /\ Whole(cache) /\ Routed(t) /\ TargetIsKnown(t) /\ DOMAIN known = Path
  BY Zenon DEF PathInv, CacheShape, Whole, ProviderIsKnown
<1>2. thread[t].ops # <<>> /\ Pc(t) = "mapMeta" /\ q \in Path /\ u \in known[q]
  BY <1>0, <1>1, Zenon DEF MapMeta, At, Pc, Routed, TargetPcs, TargetIsKnown
<1>3. /\ provider' = provider \/ provider' = Put(provider, q, u)
      /\ UNCHANGED <<known, orphans>>
  BY <1>0, Zenon DEF MapMeta
<1>4. PICK m : End(t, SetMeta(SetPath(cache, q, u), u, m))
  BY <1>0, Zenon DEF MapMeta
<1> DEFINE c == SetPath(cache, q, u)
           d == SetMeta(c, u, m)
<1>5. Grows /\ ProviderIsKnown'
  BY <1>1, <1>2, <1>3, ProviderStep, Zenon DEF Grows, Put
<1>6. /\ Whole(c) /\ c.locks = cache.locks /\ DOMAIN c.paths = DOMAIN cache.paths \cup {q}
      /\ c.paths[q] = u /\ \A x \in DOMAIN cache.paths \ {q} : c.paths[x] = cache.paths[x]
  BY <1>1, SetPathIs
<1> HIDE DEF c
<1>7. Whole(d) /\ d.locks = cache.locks /\ d.paths = c.paths
  BY <1>6, MetaOperators
<1>8. Loose(t) \subseteq {q}
  BY <1>0, <1>2, Zenon DEF Loose
<1>9. End(t, d)
  BY <1>4, Zenon DEF c
<1> HIDE DEF d
<1> QED
  BY <1>2, <1>3, <1>5, <1>6, <1>7, <1>8, <1>9, QuitsWith, Zenon

LEMMA RenameUpstreamStep ==
    ASSUME PathInv, NEW t \in Thread, RenameUpstream(t)
    PROVE  PathInv'
<1>0. PICK q, u, ps : q = Op(t).to /\ u = Frame(t).uuid /\ ps = {Op(t).path}
  BY Zenon
<1> DEFINE c == ErasePaths(cache, ps)
           d == SetPath(c, q, u)
           e == [d EXCEPT !.meta[u].locations = {}, !.meta[u].path = {q}]
           f == [c EXCEPT !.meta[u].state = "normal"]
<1>1. ThreadShape /\ Whole(cache) /\ DOMAIN known = Path
  BY Zenon DEF PathInv, CacheShape, Whole, ProviderIsKnown
<1>2. thread[t].ops # <<>> /\ Pc(t) = "found" /\ Runs(t, {"rename"}) /\ provider' = provider
  BY Zenon DEF RenameUpstream, FoundFor, At, Pc
<1>3. q \in Path /\ Loose(t) \subseteq {q}
  BY <1>0, <1>1, <1>2, OperationFields, Zenon DEF Runs, ToPath, Loose
<1>4. Whole(c) /\ c.locks = cache.locks /\ Within(c.paths, cache.paths)
  BY <1>1, ErasePathsIs, Zenon
<1>5. \/ End(t, e) /\ known' = [known EXCEPT ![q] = @ \cup {u}] /\ orphans' = orphans
      \/ End(t, f) /\ orphans' = orphans \cup {q} /\ known' = known
  BY <1>0, Zenon DEF RenameUpstream
<1> HIDE DEF c
<1>6. Grows /\ ProviderIsKnown'
  <2>1. Grows
    BY <1>1, <1>3, <1>5, Zenon DEF Grows
  <2> QED
    BY <1>2, <2>1, ProviderStep, Zenon DEF Grows
<1>7. CASE End(t, e) /\ known' = [known EXCEPT ![q] = @ \cup {u}]
  <2>1. /\ Whole(d) /\ d.locks = cache.locks /\ DOMAIN d.paths = DOMAIN c.paths \cup {q}
        /\ d.paths[q] = u /\ \A x \in DOMAIN c.paths \ {q} : d.paths[x] = c.paths[x]
    BY <1>4, SetPathIs
  <2> HIDE DEF d
  <2>2. Whole(e) /\ e.locks = cache.locks /\ e.paths = d.paths
    BY <2>1, Zenon DEF Whole
  <2> HIDE DEF e
  <2>3. u \in known'[q]
    BY <1>1, <1>3, <1>7, Zenon
  <2> QED
    BY <1>2, <1>3, <1>4, <1>6, <1>7, <2>1, <2>2, <2>3, QuitsWith, Zenon DEF Within
<1>8. CASE End(t, f) /\ orphans' = orphans \cup {q}
  <2>1. Whole(f) /\ f.locks = cache.locks /\ Within(f.paths, cache.paths)
    BY <1>4, Zenon DEF Whole
  <2> HIDE DEF f
  <2> QED
    BY <1>2, <1>3, <1>6, <1>8, <2>1, QuitsWith, Zenon DEF Within
<1> QED
  BY <1>5, <1>7, <1>8, Zenon

LEMMA RenameAsksStep ==
    ASSUME PathInv, NEW t \in Thread, RenameAsks(t)
    PROVE  PathInv'
<1>0. PICK p : p = Op(t).path
  OBVIOUS
<1> DEFINE c == ErasePaths(cache, {p})
           d == Unlock(c, t, "path", p)
<1>1. ThreadShape /\ Whole(cache)
  BY Zenon DEF PathInv, CacheShape, Whole
<1>2. /\ Silent /\ thread[t].ops # <<>> /\ Pc(t) = "found" /\ Runs(t, {"rename"})
      /\ Goto(t, "renameAnswer", d)
  BY <1>0, Zenon DEF RenameAsks, FoundFor, At, Pc
<1>3. Op(t).to \in Path
  BY <1>1, <1>2, OperationFields, Zenon DEF Runs, ToPath
<1>4. /\ Whole(c) /\ c.locks = cache.locks /\ Within(c.paths, cache.paths)
      /\ DOMAIN c.paths = DOMAIN cache.paths \ {p}
  BY <1>1, ErasePathsIs, Zenon
<1> HIDE DEF c
<1>5. /\ Whole(d) /\ d.paths = c.paths
      /\ d.locks = Without(cache.locks, t, "path", p)
  BY <1>4, UnlockIs
<1> HIDE DEF d
<1>6. cache' = d /\ Continues(t, "renameAnswer", Frame(t).uuid)
  BY <1>1, <1>2, GotoContinues, Zenon
<1>7. Loose(t)' = Loose(t)
  BY <1>2, <1>6, Going DEF Loose, LoosePcs
<1>8. \A s, tb, k : ~(s = t /\ tb = "path" /\ k = p) /\ Holds(s, tb, k) => Holds(s, tb, k)'
  BY <1>5, <1>6, UnlockKeeps, Zenon DEF Holds
<1>9. Routed(t)' /\ TargetIsKnown(t)'
  BY <1>2, <1>3, <1>6, Going, Zenon DEF Continues, Routed, TargetIsKnown, PathPcs, TargetPcs
<1>10. \A x \in DOMAIN cache'.paths : LeftBy(t, x) => LeftBy(t, x)'
  BY <1>4, <1>5, <1>6, <1>7, <1>8, Zenon DEF LeftBy
<1>11. CacheShape' /\ OthersHold(t) /\ Within(cache'.paths, cache.paths)
  BY <1>4, <1>5, <1>6, <1>8, Zenon DEF Whole, CacheShape, OthersHold
<1> QED
  BY <1>2, <1>6, <1>9, <1>10, <1>11, GoesOn, Zenon DEF Continues

\* A step that changes the frame of t, and no operation.
LEMMA FrameStep ==
    ASSUME ThreadShape, NEW t \in Thread, NEW f, thread' = [thread EXCEPT ![t] = [thread[t] EXCEPT !.frame = f]],
           DOMAIN f = {"pc", "uuid", "old", "new", "children"}, f.children \in Seq(Remappings)
    PROVE  /\ ThreadShape' /\ OthersStay(t) /\ Frame(t)' = f /\ thread'[t].ops = thread[t].ops
           /\ Op(t)' = Op(t) /\ \A ops : Runs(t, ops)' <=> Runs(t, ops)
<1> DEFINE r == [thread[t] EXCEPT !.frame = f]
<1>1. DOMAIN r = {"ops", "frame"} /\ r.ops = thread[t].ops /\ r.frame = f
  BY Zenon DEF ThreadShape
<1> HIDE DEF r
<1>2. thread'[t] = r /\ OthersStay(t) /\ DOMAIN thread' = Thread
  BY Zenon DEF ThreadShape, OthersStay, r
<1>3. ThreadShape'
  BY <1>1, <1>2, Zenon DEF ThreadShape, Frame, OthersStay
<1> QED
  BY <1>1, <1>2, <1>3, Zenon DEF Frame, Op, Runs

LEMMA RenameAgreedStep ==
    ASSUME PathInv, NEW t \in Thread, RenameAgreed(t)
    PROVE  PathInv'
<1>0. PICK q, u, children : q = Op(t).to /\ u = Frame(t).uuid /\ children = Op(t).children
  BY Zenon
<1>1. /\ ThreadShape /\ CacheShape /\ Routed(t) /\ TargetIsKnown(t) /\ DOMAIN known = Path
  BY Zenon DEF PathInv, ProviderIsKnown
<1>2. thread[t].ops # <<>> /\ Pc(t) = "renameAnswer" /\ q \in Path /\ UNCHANGED <<cache, orphans>>
  BY <1>0, <1>1, Zenon DEF RenameAgreed, At, Pc, Routed, TargetPcs
<1>3. PICK new : /\ provider' = Put(RestrictValues(provider, LAMBDA v : v # Frame(t).uuid), q, new)
                 /\ known' = [known EXCEPT ![q] = @ \cup {new}]
                 /\ thread' = [thread EXCEPT ![t].frame.new = new, ![t].frame.children = children,
                                             ![t].frame.pc = "renameTarget"]
  BY <1>0, Zenon DEF RenameAgreed
<1> DEFINE f == [thread[t].frame EXCEPT !.new = new, !.children = children, !.pc = "renameTarget"]
<1>4. thread' = [thread EXCEPT ![t] = [thread[t] EXCEPT !.frame = f]]
  <2>1. [thread EXCEPT ![t].frame.new = new, ![t].frame.children = children,
                       ![t].frame.pc = "renameTarget"]
          = [thread EXCEPT ![t] = [thread[t] EXCEPT !.frame = f]]
    BY <1>1, Zenon DEF ThreadShape, Frame
  <2> QED
    BY <1>3, <2>1, Zenon
<1>5. children \in Seq(Remappings)
  BY <1>0, <1>1, <1>2, OperationFields, Zenon
<1>6. /\ DOMAIN f = {"pc", "uuid", "old", "new", "children"} /\ f.children = children
      /\ f.pc = "renameTarget" /\ f.new = new
  BY <1>1, Zenon DEF ThreadShape, Frame
<1> HIDE DEF f
<1>7. /\ ThreadShape' /\ OthersStay(t) /\ Frame(t)' = f /\ thread'[t].ops = thread[t].ops
      /\ Op(t)' = Op(t) /\ \A ops : Runs(t, ops)' <=> Runs(t, ops)
  BY <1>1, <1>4, <1>5, <1>6, FrameStep, Zenon
<1>8. Pc(t)' = "renameTarget" /\ Frame(t)'.new = new
  BY <1>6, <1>7, Zenon DEF Pc
<1>9. Grows /\ new \in known'[q]
  BY <1>1, <1>2, <1>3, Zenon DEF Grows
<1>10. ProviderIsKnown'
  BY <1>2, <1>3, <1>9, ProviderStep, Zenon DEF Grows, Put, RestrictValues, Restrict
<1>11. Loose(t)' = Loose(t)
  BY <1>2, <1>7, <1>8, Zenon DEF Loose, LoosePcs
<1>12. \A x : LeftBy(t, x) => LeftBy(t, x)'
  BY <1>2, <1>11, Zenon DEF LeftBy, Holds
<1>13. Routed(t)' /\ TargetIsKnown(t)'
  BY <1>0, <1>2, <1>7, <1>8, <1>9, Zenon DEF Routed, TargetIsKnown, PathPcs, TargetPcs
<1>14. CacheShape' /\ OthersHold(t)
  BY <1>1, <1>2, Zenon DEF CacheShape, OthersHold, Holds
<1>15. \A p \in DOMAIN cache'.paths : p \in Path /\ Fate(t, p)
  BY <1>2, <1>12, Zenon DEF PathInv, PathsHold, Fate
<1> QED
  BY <1>7, <1>9, <1>10, <1>13, <1>14, <1>15, PathInvStep, Zenon

LEMMA RenameTargetStep ==
    ASSUME PathInv, NEW t \in Thread, RenameTarget(t)
    PROVE  PathInv'
<1>1. ThreadShape /\ Whole(cache) /\ Routed(t) /\ TargetIsKnown(t)
  BY DEF PathInv, CacheShape, Whole
<1>2. Silent /\ thread[t].ops # <<>> /\ Pc(t) = "renameTarget" /\ Op(t).to \in Path
  BY <1>1, Zenon DEF RenameTarget, At, Pc, Routed, TargetPcs
<1>3. PICK c : /\ Goto(t, "remap", c)
               /\ Whole(c) /\ c.paths = cache.paths /\ c.locks = cache.locks
  <2> DEFINE v == cache.paths[Op(t).to]
  <2>1. \/ Goto(t, "remap", cache)
        \/ Goto(t, "remap", EraseMeta(cache, v))
    BY Zenon DEF RenameTarget
  <2>2. Whole(EraseMeta(cache, v)) /\ EraseMeta(cache, v).paths = cache.paths
          /\ EraseMeta(cache, v).locks = cache.locks
    BY <1>1, MetaOperators, Zenon
  <2> QED
    BY <1>1, <2>1, <2>2, Zenon
<1>4. cache' = c /\ Continues(t, "remap", Frame(t).uuid)
  BY <1>1, <1>3, GotoContinues, Zenon
<1>5. Loose(t) \subseteq Loose(t)'
  BY <1>2, <1>4, Going DEF Loose, LoosePcs
<1>6. Routed(t)' /\ TargetIsKnown(t)'
  BY <1>1, <1>2, <1>4, Going, Zenon DEF Continues, Routed, TargetIsKnown, PathPcs, TargetPcs, Silent
<1>7. CacheShape' /\ OthersHold(t) /\ Within(cache'.paths, cache.paths)
  BY <1>3, <1>4, Zenon DEF Whole, CacheShape, OthersHold, Holds, Within
<1>8. \A x : LeftBy(t, x) => LeftBy(t, x)'
  BY <1>3, <1>4, <1>5, Zenon DEF LeftBy, Holds
<1> QED
  BY <1>2, <1>4, <1>6, <1>7, <1>8, GoesOn, Zenon DEF Continues

\* remapFile() of a file whose metadata is not cached gives its path up as an orphan.
LEMMA RemapMetaStep ==
    ASSUME PathInv, NEW t \in Thread, RemapMeta(t)
    PROVE  PathInv'
<1>0. PICK q, u : q = Op(t).to /\ u = Frame(t).uuid
  BY Zenon
<1>1. ThreadShape /\ Whole(cache) /\ Routed(t) /\ TargetIsKnown(t) /\ DOMAIN known = Path
  BY DEF PathInv, CacheShape, Whole, ProviderIsKnown
<1>2. /\ thread[t].ops # <<>> /\ Pc(t) = "remapMeta" /\ q \in Path
      /\ UNCHANGED <<provider, known>>
  BY <1>0, <1>1, Zenon DEF RemapMeta, At, Pc, Routed, TargetPcs
<1>3. Loose(t) = {q}
  BY <1>0, <1>2, Zenon DEF Loose, LoosePcs
<1>4. CASE Goto(t, "remap", Lock(cache, t, "meta", u)) /\ UNCHANGED orphans
  <2> DEFINE c == Lock(cache, t, "meta", u)
  <2>1. Whole(c) /\ c.paths = cache.paths /\ cache.locks \subseteq c.locks
    BY <1>1, LockIs
  <2>2. cache' = c /\ Continues(t, "remap", Frame(t).uuid)
    BY <1>1, <1>4, GotoContinues, Zenon
  <2> HIDE DEF c
  <2>3. Loose(t)' = {q}
    BY <1>0, <2>2, Going DEF LoosePcs
  <2>4. Routed(t)' /\ TargetIsKnown(t)'
    BY <1>0, <1>1, <1>2, <2>2, Going, Zenon DEF Continues, Routed, TargetIsKnown, PathPcs, TargetPcs
  <2>5. \A s, table, key : Holds(s, table, key) => Holds(s, table, key)'
    BY <2>1, <2>2, Zenon DEF Holds
  <2>6. CacheShape' /\ OthersHold(t) /\ Within(cache'.paths, cache.paths) /\ Silent
    BY <1>2, <1>4, <2>1, <2>2, <2>5, Zenon DEF Whole, CacheShape, OthersHold, Within, Silent
  <2>7. \A x : LeftBy(t, x) => LeftBy(t, x)'
    BY <1>3, <2>3, <2>5, Zenon DEF LeftBy
  <2> QED
    BY <2>2, <2>4, <2>6, <2>7, GoesOn, Zenon DEF Continues
<1>5. CASE Goto(t, "remapNext", Unlock(cache, t, "path", q)) /\ orphans' = orphans \cup {q}
  <2> DEFINE c == Unlock(cache, t, "path", q)
  <2>1. /\ Whole(c) /\ c.paths = cache.paths
        /\ c.locks = Without(cache.locks, t, "path", q)
    BY <1>1, UnlockIs
  <2>2. cache' = c /\ Continues(t, "remapNext", Frame(t).uuid)
    BY <1>1, <1>5, GotoContinues, Zenon
  <2> HIDE DEF c
  <2>3. CacheShape' /\ OthersHold(t)
    BY <2>1, <2>2, UnlockKeeps DEF Whole, CacheShape, OthersHold, Holds
  <2>4. Grows
    BY <1>1, <1>2, <1>5, Zenon DEF Grows
  <2>5. ProviderIsKnown'
    BY <1>2, <2>4, ProviderStep, Zenon DEF Grows
  <2>6. Routed(t)' /\ TargetIsKnown(t)'
    BY <1>2, <2>2, Zenon DEF Continues, Routed, TargetIsKnown, PathPcs, TargetPcs
  <2>7. \A x \in DOMAIN cache'.paths : x \in Path /\ Fate(t, x)
    <3> SUFFICES ASSUME NEW x \in DOMAIN cache'.paths PROVE x \in Path /\ Fate(t, x)
      BY Zenon
    <3>1. /\ x \in DOMAIN cache.paths /\ cache'.paths[x] = cache.paths[x] /\ x \in Path
          /\ cache.paths[x] \in known[x] \/ cache.paths[x] = None
      BY <2>1, <2>2, Zenon DEF PathInv, PathsHold, Mapped, Unset
    <3>2. x = q => x \in orphans'
      BY <1>5, Zenon
    <3>3. x # q => ~LeftBy(t, x)
      BY <1>3, Zenon DEF LeftBy
    <3> QED
      BY <1>2, <3>1, <3>2, <3>3, Zenon DEF Fate
  <2> QED
    BY <2>2, <2>3, <2>4, <2>5, <2>6, <2>7, PathInvStep, Zenon DEF Continues
<1> QED
  BY <1>0, <1>4, <1>5, Zenon DEF RemapMeta

LEMMA RemapStep ==
    ASSUME PathInv, NEW t \in Thread, Remap(t)
    PROVE  PathInv'
<1>0. PICK q, new : q = Op(t).to /\ new = Frame(t).new
  BY Zenon
<1> DEFINE c == SetPath(cache, q, new)
           d == Unlock(c, t, "path", q)
<1>1. ThreadShape /\ Whole(cache) /\ Routed(t) /\ TargetIsKnown(t)
  BY DEF PathInv, CacheShape, Whole
<1>2. /\ Silent /\ thread[t].ops # <<>> /\ Pc(t) = "remap" /\ q \in Path
      /\ Goto(t, "remapOld", d) /\ new \in known[q]
  BY <1>0, <1>1, Zenon DEF Remap, At, Pc, Routed, TargetPcs, TargetIsKnown
<1>3. /\ Whole(c) /\ c.locks = cache.locks /\ DOMAIN c.paths = DOMAIN cache.paths \cup {q}
      /\ c.paths[q] = new /\ \A x \in DOMAIN cache.paths \ {q} : c.paths[x] = cache.paths[x]
  BY <1>1, SetPathIs
<1> HIDE DEF c
<1>4. /\ Whole(d) /\ d.paths = c.paths
      /\ d.locks = Without(cache.locks, t, "path", q)
  BY <1>3, UnlockIs
<1> HIDE DEF d
<1>5. cache' = d /\ Continues(t, "remapOld", Frame(t).uuid)
  BY <1>1, <1>2, GotoContinues, Zenon
<1>6. CacheShape' /\ OthersHold(t)
  BY <1>4, <1>5, UnlockKeeps DEF Whole, CacheShape, OthersHold, Holds
<1>7. Routed(t)' /\ TargetIsKnown(t)'
  BY <1>2, <1>5, Zenon DEF Continues, Routed, TargetIsKnown, PathPcs, TargetPcs
<1>8. \A x : LeftBy(t, x) => x = q
  BY <1>0, <1>2, Zenon DEF LeftBy, Loose, LoosePcs
<1>9. \A x \in DOMAIN cache'.paths : x \in Path /\ Fate(t, x)
  BY <1>2, <1>3, <1>4, <1>5, <1>8, Zenon DEF Fate, PathInv, PathsHold, Silent
<1> QED
  BY <1>2, <1>5, <1>6, <1>7, <1>9, SilentGrows, PathInvStep, Zenon DEF Continues

LEMMA RemapOldStep ==
    ASSUME PathInv, NEW t \in Thread, RemapOld(t)
    PROVE  PathInv'
<1>0. PICK u, old, q : u = Frame(t).uuid /\ old = cache.meta[u].path /\ q = Op(t).to
  BY Zenon
<1> DEFINE e == ErasePaths(cache, old)
           c == Unlock(e, t, "meta", u)
           d == [c EXCEPT !.meta[u].path = {q}, !.meta[u].locations = {}]
           f == [thread[t].frame EXCEPT !.pc = "remapNew", !.old = {cache.meta[u]}]
<1>1. ThreadShape /\ Whole(cache)
  BY DEF PathInv, CacheShape, Whole
<1>2. Silent /\ thread[t].ops # <<>> /\ Pc(t) = "remapOld" /\ Loose(t) = {}
  BY Zenon DEF RemapOld, At, Pc, Loose, LoosePcs
<1>3. \/ Goto(t, "remapNext", d)
      \/ /\ cache' = EraseMeta(c, u)
         /\ thread' = [thread EXCEPT ![t].frame.pc = "remapNew", ![t].frame.old = {cache.meta[u]}]
  BY <1>0, Zenon DEF RemapOld
<1>4. Whole(e) /\ e.locks = cache.locks /\ Within(e.paths, cache.paths)
  BY <1>1, ErasePathsIs, Zenon
<1> HIDE DEF e
<1>5. /\ Whole(c) /\ Within(c.paths, cache.paths)
      /\ c.locks = Without(cache.locks, t, "meta", u)
  BY <1>4, UnlockIs
<1> HIDE DEF c
<1>6. CASE Goto(t, "remapNext", d)
  <2>1. Whole(d) /\ d.paths = c.paths /\ d.locks = c.locks
    BY <1>5, Zenon DEF Whole
  <2> HIDE DEF d
  <2>2. cache' = d /\ Continues(t, "remapNext", Frame(t).uuid)
    BY <1>1, <1>6, GotoContinues, Zenon
  <2>3. CacheShape' /\ OthersHold(t) /\ Within(cache'.paths, cache.paths)
    BY <1>5, <2>1, <2>2, UnlockKeeps DEF Whole, CacheShape, OthersHold, Holds
  <2> QED
    BY <1>2, <2>2, <2>3, Drifts, Zenon DEF Continues, PathPcs, TargetPcs
<1>7. CASE /\ cache' = EraseMeta(c, u)
           /\ thread' = [thread EXCEPT ![t].frame.pc = "remapNew", ![t].frame.old = {cache.meta[u]}]
  <2>1. CacheShape' /\ cache'.paths = c.paths /\ cache'.locks = c.locks
    BY <1>5, <1>7, MetaOperators, Zenon DEF Whole, CacheShape
  <2>2. OthersHold(t) /\ Within(cache'.paths, cache.paths)
    BY <1>5, <2>1, UnlockKeeps, Zenon DEF OthersHold, Holds
  <2>3. thread' = [thread EXCEPT ![t] = [thread[t] EXCEPT !.frame = f]]
    <3>1. [thread EXCEPT ![t].frame.pc = "remapNew", ![t].frame.old = {cache.meta[u]}]
            = [thread EXCEPT ![t] = [thread[t] EXCEPT !.frame = f]]
      BY <1>1, Zenon DEF ThreadShape, Frame
    <3> QED
      BY <1>7, <3>1, Zenon
  <2>4. /\ DOMAIN f = {"pc", "uuid", "old", "new", "children"} /\ f.children \in Seq(Remappings)
        /\ f.pc = "remapNew"
    BY <1>1, Zenon DEF ThreadShape, Frame
  <2> HIDE DEF f
  <2>5. ThreadShape' /\ OthersStay(t) /\ Frame(t)' = f /\ thread'[t].ops = thread[t].ops
    BY <1>1, <2>3, <2>4, FrameStep, Zenon
  <2>6. Pc(t)' = "remapNew"
    BY <2>4, <2>5, Zenon DEF Pc
  <2> QED
    BY <1>2, <2>1, <2>2, <2>5, <2>6, Drifts, Zenon DEF PathPcs, TargetPcs
<1> QED
  BY <1>3, <1>6, <1>7, Zenon

LEMMA RemapNewStep ==
    ASSUME PathInv, NEW t \in Thread, RemapNew(t)
    PROVE  PathInv'
<1>0. PICK new : new = Frame(t).new
  BY Zenon
<1>1. ThreadShape /\ Whole(cache)
  BY DEF PathInv, CacheShape, Whole
<1>2. Silent /\ thread[t].ops # <<>> /\ Pc(t) = "remapNew" /\ Loose(t) = {}
  BY Zenon DEF RemapNew, At, Pc, Loose, LoosePcs
<1>3. PICK m : Goto(t, "remapNext", SetMeta(cache, new, m))
  BY <1>0, Zenon DEF RemapNew
<1> DEFINE c == SetMeta(cache, new, m)
<1>4. Whole(c) /\ c.paths = cache.paths /\ c.locks = cache.locks
  BY <1>1, MetaOperators
<1> HIDE DEF c
<1>5. cache' = c /\ Continues(t, "remapNext", Frame(t).uuid)
  BY <1>1, <1>3, GotoContinues, Zenon DEF c
<1> QED
  BY <1>2, <1>4, <1>5, KeepsPaths, Zenon DEF PathPcs, TargetPcs

\* The children of a renamed directory are operations of their own.
LEMMA NextChild ==
    ASSUME ThreadShape, NEW t \in Thread, thread[t].ops # <<>>, Frame(t).children # <<>>,
           thread' = [thread EXCEPT ![t] =
                        [ops |-> <<Head(Frame(t).children)>> \o Tail(@.ops),
                         frame |-> [Idle EXCEPT !.children = Tail(Frame(t).children)]]]
    PROVE  /\ ThreadShape' /\ OthersStay(t) /\ Pc(t)' = "idle" /\ thread'[t].ops # <<>>
           /\ Frame(t)'.old = {}
<1> DEFINE cs == Frame(t).children
           ops == <<Head(cs)>> \o Tail(thread[t].ops)
           f == [Idle EXCEPT !.children = Tail(cs)]
<1>1. cs \in Seq(Remappings) /\ cs # <<>> /\ thread[t].ops \in Seq(Operations)
  BY Zenon DEF ThreadShape
<1> DEFINE R == Remappings
           O == Operations
<1>2. R \subseteq O
  BY RemappingsAreOperations, Zenon
<1> HIDE DEF R, O, cs
<1>3. Head(cs) \in R /\ Tail(cs) \in Seq(R)
  BY <1>1 DEF R
<1>4. Tail(thread[t].ops) \in Seq(O) /\ <<Head(cs)>> \in Seq(O)
  BY <1>1, <1>2, <1>3 DEF O
<1>5. ops \in Seq(O) /\ ops # <<>>
  BY <1>4
<1>6. /\ DOMAIN f = {"pc", "uuid", "old", "new", "children"} /\ f.pc = "idle" /\ f.old = {}
      /\ f.children = Tail(cs)
  BY Zenon DEF Idle
<1> HIDE DEF ops, f
<1>7. thread' = [thread EXCEPT ![t] = [ops |-> ops, frame |-> f]]
  BY Zenon DEF ops, f, cs
<1>8. thread'[t] = [ops |-> ops, frame |-> f] /\ OthersStay(t) /\ DOMAIN thread' = Thread
  BY <1>7, Zenon DEF ThreadShape, OthersStay
<1>9. DOMAIN thread'[t] = {"ops", "frame"} /\ thread'[t].ops = ops /\ thread'[t].frame = f
  BY <1>8, Zenon
<1>10. ThreadShape'
  BY <1>3, <1>5, <1>6, <1>8, <1>9 DEF ThreadShape, Frame, OthersStay, R, O
<1> QED
  BY <1>5, <1>6, <1>8, <1>9, <1>10, Zenon DEF Frame, Pc

LEMMA RemapNextStep ==
    ASSUME PathInv, NEW t \in Thread, RemapNext(t)
    PROVE  PathInv'
<1>1. ThreadShape /\ Whole(cache)
  BY DEF PathInv, CacheShape, Whole
<1>2. Silent /\ thread[t].ops # <<>> /\ Pc(t) = "remapNext" /\ Loose(t) = {}
  BY Zenon DEF RemapNext, At, Pc, Loose, LoosePcs
<1>3. CASE End(t, cache)
  BY <1>1, <1>2, <1>3, Quits, Zenon DEF Within
<1>4. CASE ~End(t, cache)
  <2>1. /\ ThreadShape' /\ OthersStay(t) /\ Pc(t)' = "idle" /\ thread'[t].ops # <<>>
        /\ cache' = cache
    BY <1>1, <1>2, <1>4, NextChild, Zenon DEF RemapNext
  <2>2. CacheShape' /\ OthersHold(t) /\ Within(cache'.paths, cache.paths)
    BY <1>1, <2>1, Zenon DEF Whole, CacheShape, OthersHold, Holds, Within
  <2> QED
    BY <1>2, <2>1, <2>2, Drifts, Zenon DEF PathPcs, TargetPcs
<1> QED
  BY <1>3, <1>4, Zenon

------------------------------------------------------------------------------
(* Paths: the start of an operation, and the theorem.                      *)

\* An operation starts where its name says, with its uuids in the frame.
LEMMA Begins ==
    ASSUME ThreadShape, NEW t \in Thread, Begin(t)
    PROVE  /\ ThreadShape' /\ OthersStay(t) /\ thread'[t].ops = thread[t].ops
           /\ Op(t)' = Op(t) /\ (\A ops : Runs(t, ops)' <=> Runs(t, ops))
           /\ Pc(t)' = Entry(Op(t).op) /\ Frame(t)'.new = Op(t).new
           /\ Frame(t)'.old = Frame(t).old
<1>0. PICK pc, u, new : pc = Entry(Op(t).op) /\ u = Op(t).uuid /\ new = Op(t).new
  BY Zenon
<1> DEFINE f == [thread[t].frame EXCEPT !.pc = pc, !.uuid = u, !.new = new]
<1>1. thread' = [thread EXCEPT ![t] = [thread[t] EXCEPT !.frame = f]]
  <2>1. [thread EXCEPT ![t].frame.pc = pc, ![t].frame.uuid = u, ![t].frame.new = new]
          = [thread EXCEPT ![t] = [thread[t] EXCEPT !.frame = f]]
    BY Zenon DEF ThreadShape, Frame
  <2> QED
    BY <1>0, <2>1, Zenon DEF Begin
<1>2. /\ DOMAIN f = {"pc", "uuid", "old", "new", "children"} /\ f.children \in Seq(Remappings)
      /\ f.pc = pc /\ f.new = new /\ f.old = Frame(t).old
  BY Zenon DEF ThreadShape, Frame
<1> HIDE DEF f
<1>3. /\ ThreadShape' /\ OthersStay(t) /\ Frame(t)' = f /\ thread'[t].ops = thread[t].ops
      /\ Op(t)' = Op(t) /\ \A ops : Runs(t, ops)' <=> Runs(t, ops)
  BY <1>1, <1>2, FrameStep, Zenon
<1> QED
  BY <1>0, <1>2, <1>3, Zenon DEF Pc

LEMMA EntryOfPath ==
    ASSUME NEW op, op \in FromPath \cup ToPath \cup OfUuid \cup {"provider"}
    PROVE  /\ Entry(op) \in PathPcs => op \in FromPath
           /\ Entry(op) \in TargetPcs => Entry(op) = "newPath"
           /\ Entry(op) = "newPath" => op \in ToPath
           /\ Entry(op) \notin MetaPcs
BY Zenon DEF FromPath, ToPath, OfUuid, Entry, PathPcs, TargetPcs, MetaPcs

LEMMA BeginStep ==
    ASSUME PathInv, NEW t \in Thread, Begin(t)
    PROVE  PathInv'
<1>0. PICK q, told : q = Op(t).to /\ told = Told(t)
  BY Zenon
<1>1. ThreadShape /\ CacheShape /\ DOMAIN known = Path
  BY Zenon DEF PathInv, ProviderIsKnown
<1>2. /\ thread[t].ops # <<>> /\ Loose(t) = {} /\ UNCHANGED <<cache, provider, orphans>>
      /\ known' = IF told = {} THEN known ELSE [known EXCEPT ![q] = @ \cup told]
  BY <1>0, Zenon DEF Begin, At, Pc, Loose, LoosePcs
<1>3. /\ Op(t).op \in FromPath \cup ToPath \cup OfUuid \cup {"provider"}
      /\ Op(t).op \in FromPath => Op(t).path \in Path
      /\ Op(t).op \in ToPath => Op(t).to \in Path
  BY <1>1, <1>2, OperationFields, Zenon
<1>4. /\ ThreadShape' /\ OthersStay(t) /\ thread'[t].ops = thread[t].ops
      /\ Op(t)' = Op(t) /\ (\A ops : Runs(t, ops)' <=> Runs(t, ops))
      /\ Pc(t)' = Entry(Op(t).op) /\ Frame(t)'.new = Op(t).new
  BY <1>1, Begins, Zenon
<1>5. Routed(t)'
  BY <1>2, <1>3, <1>4, EntryOfPath, Zenon DEF Routed, Runs
<1>6. Grows
  BY <1>1, <1>2, Zenon DEF Grows
<1>7. ProviderIsKnown'
  BY <1>2, <1>6, ProviderStep, Zenon DEF Grows
<1>8. TargetIsKnown(t)'
  <2>1. Runs(t, {"map"}) => Op(t).uuid \in known'[q]
    <3>1. CASE Runs(t, {"map"})
      <4>1. q \in Path /\ told = {Op(t).uuid}
        BY <1>0, <1>3, <3>1, Zenon DEF Told, Runs, ToPath
      <4> QED
        BY <1>1, <1>2, <4>1, Zenon
    <3> QED
      BY <3>1, Zenon
  <2>2. Runs(t, {"remapFile"}) => Op(t).new \in known'[q]
    <3>1. CASE Runs(t, {"remapFile"})
      <4>1. q \in Path /\ told = {Op(t).new}
        BY <1>0, <1>3, <3>1, Zenon DEF Told, Runs, ToPath
      <4> QED
        BY <1>1, <1>2, <4>1, Zenon
    <3> QED
      BY <3>1, Zenon
  <2>3. Pc(t)' \in TargetPcs => Pc(t)' = "newPath"
    BY <1>3, <1>4, EntryOfPath, Zenon
  <2> QED
    BY <1>0, <1>4, <2>1, <2>2, <2>3, Zenon DEF TargetIsKnown, TargetPcs
<1>9. CacheShape' /\ OthersHold(t)
  BY <1>1, <1>2, Zenon DEF CacheShape, OthersHold, Holds
<1>10. \A p \in DOMAIN cache'.paths : p \in Path /\ Fate(t, p)
  BY <1>2, Zenon DEF PathInv, PathsHold, Fate, LeftBy
<1> QED
  BY <1>4, <1>5, <1>6, <1>7, <1>8, <1>9, <1>10, PathInvStep, Zenon

LEMMA InitPathInv == Init => PathInv
<1> SUFFICES ASSUME Init PROVE PathInv
  BY Zenon
<1>1. PICK w \in Workloads : thread = [t \in Thread |-> [ops |-> w[t], frame |-> Idle]]
  BY Zenon DEF Init
<1>2. DOMAIN Idle = {"pc", "uuid", "old", "new", "children"} /\ Idle.children \in Seq(Remappings)
        /\ Idle.pc = "idle"
  BY DEF Idle
<1>3. \A t \in Thread : w[t] \in Seq(Operations)
  BY WorkloadAssumption, Zenon
<1>4. \A t \in Thread : thread[t].ops = w[t] /\ thread[t].frame = Idle /\ DOMAIN thread[t] = {"ops", "frame"}
  BY <1>1, Zenon
<1>5. ThreadShape
  BY <1>1, <1>2, <1>3, <1>4, Zenon DEF ThreadShape, Frame
<1>6. \A t \in Thread : Routed(t) /\ TargetIsKnown(t)
  BY <1>2, <1>4, Zenon DEF Routed, TargetIsKnown, Pc, Frame, PathPcs, TargetPcs
<1>7. CacheShape /\ PathsHold
  BY Zenon DEF Init, CacheShape, PathsHold, EmptyMap
<1>8. ProviderIsKnown
  BY FilesAssumption, Zenon DEF Init, ProviderIsKnown
<1> QED
  BY <1>5, <1>6, <1>7, <1>8, Zenon DEF PathInv

LEMMA PathInvStutters ==
    ASSUME PathInv, UNCHANGED <<cache, thread, provider, known, orphans>>
    PROVE  PathInv'
<1>1. ThreadShape' /\ CacheShape' /\ ProviderIsKnown'
  BY Zenon DEF PathInv, ThreadShape, CacheShape, ProviderIsKnown, Frame
<1>2. \A t \in Thread : Routed(t)' /\ TargetIsKnown(t)'
  BY Zenon DEF PathInv, Routed, TargetIsKnown, Pc, Frame, Op, Runs
<1>3. \A t, p : LeftBy(t, p)' <=> LeftBy(t, p)
  BY Zenon DEF LeftBy, Holds, Loose, Pc, Frame, Op, Runs
<1>4. PathsHold'
  BY <1>3, Zenon DEF PathInv, PathsHold, Mapped, Unset
<1> QED
  BY <1>1, <1>2, <1>4, Zenon DEF PathInv

LEMMA NextPathInv == PathInv /\ [Next]_vars => PathInv'
<1> SUFFICES ASSUME PathInv, [Next]_vars PROVE PathInv'
  BY Zenon
<1>1. CASE UNCHANGED vars
  BY <1>1, PathInvStutters, Zenon DEF vars
<1>2. CASE \E t \in Thread : Dereference(t)
  BY <1>2, PathInvStutters, Zenon DEF Dereference, Silent
<1>3. ASSUME NEW t \in Thread, Run(t) PROVE PathInv'
  BY <1>3, BeginStep, FindSteps, MetaSteps, FailSteps, InsertPathStep, ResolveStep, CallerSteps,
     RemoveFileStep, ProviderChangesStep, NewPathStep, MapMetaStep, RenameUpstreamStep,
     RenameAsksStep, RenameAgreedStep, RenameTargetStep, RemapMetaStep, RemapStep, RemapOldStep,
     RemapNewStep, RemapNextStep, Zenon DEF Run
<1> QED
  BY <1>1, <1>2, <1>3, Zenon DEF Next

\* Whatever threads do at the same time, a path of the cache leads to a file that the
\* provider had there, or to none while the operation that resolves or maps it holds
\* it (and when it was remapped without metadata).
THEOREM PathsLead == Spec => []PathsLeadToTheirFiles
<1>1. PathInv => PathsLeadToTheirFiles
  BY Zenon DEF PathInv, PathsHold, Mapped, Unset, LeftBy, PathsLeadToTheirFiles
<1> QED
  BY InitPathInv, NextPathInv, <1>1, PTL DEF Spec

==============================================================================
