------------------------ MODULE MetadataEntries_proofs ------------------------
(***************************************************************************)
(* For any threads, paths, files and operations on the metadata cache: a   *)
(* size that this client wrote is not replaced by an older one.  The       *)
(* invariants, and what the operators of the cache do, are those of        *)
(* MetadataCache_proofs.                                                   *)
(***************************************************************************)
EXTENDS MetadataCache_proofs

------------------------------------------------------------------------------
(* Metadata: what every step has to show.                                  *)

\* Another thread holds the metadata of u.
Foreign(t, u) == \E s \in Thread \ {t} : Holds(s, "meta", u)

\* The accessors of other threads are among those of c.
Spares(t, c) ==
    \A s \in Thread \ {t} : \A tb, k : Holds(s, tb, k) => <<s, tb, k, "exclusive">> \in c.locks

\* The metadata m differs from the cached ones in entries that no other thread holds,
\* and by sound entries.
Same(m, u) ==
    /\ u \in DOMAIN m <=> u \in DOMAIN cache.meta
    /\ u \in DOMAIN m => m[u] = cache.meta[u]
Sound(t, m) == \A u : Same(m, u) \/ (~Foreign(t, u) /\ (u \in DOMAIN m => EntryOk(m[u])))

\* Only t locks metadata, and only of files whose metadata no other thread holds.
LocksOwn(t) ==
    \A s \in Thread : \A u :
        Holds(s, "meta", u)' => Holds(s, "meta", u) \/ (s = t /\ ~Foreign(t, u))

LEMMA MetaInvStep ==
    ASSUME MetaInv, NEW t \in Thread, ThreadShape', OthersStay(t), OthersHold(t), CacheShape',
           LocksOwn(t), Sound(t, cache'.meta), HasMeta(t)'
    PROVE  MetaInv'
<1>1. Entries'
  BY Zenon DEF MetaInv, Entries, Sound, Same
<1>2. LockedOnce'
  BY Zenon DEF MetaInv, LockedOnce, LocksOwn, Foreign
<1>3. ASSUME NEW s \in Thread \ {t} PROVE HasMeta(s)'
  <2>1. /\ Pc(s)' = Pc(s) /\ Frame(s)' = Frame(s) /\ HasMeta(s)
        /\ \A ops : Runs(s, ops)' <=> Runs(s, ops)
    BY <1>3, Zenon DEF OthersStay, MetaInv, Pc, Frame, Runs, Op
  <2>2. CASE Pc(s) \in MetaPcs
    <3> DEFINE u == Frame(s).uuid
    <3>1. Holds(s, "meta", u) /\ u \in DOMAIN cache.meta /\ Holds(s, "meta", u)'
      BY <1>3, <2>1, <2>2, Zenon DEF HasMeta, OthersHold
    <3>2. Foreign(t, u)
      BY <1>3, <3>1, Zenon DEF Foreign
    <3>3. u \in DOMAIN cache'.meta /\ cache'.meta[u] = cache.meta[u]
      BY <3>1, <3>2, Zenon DEF Sound, Same
    <3> QED
      BY <2>1, <2>2, <3>1, <3>3, Zenon DEF HasMeta
  <2>3. CASE Pc(s) \notin MetaPcs
    BY <2>1, <2>3, Zenon DEF HasMeta, MetaPcs
  <2> QED
    BY <2>2, <2>3, Zenon
<1> QED
  BY <1>1, <1>2, <1>3, Zenon DEF MetaInv

\* An entry that t holds, or that is free, is held by no other thread.
LEMMA FreeIsOwn ==
    ASSUME NEW t \in Thread, NEW u, Free("meta", u, "exclusive")
    PROVE  ~Foreign(t, u) /\ ~Holds(t, "meta", u)
BY Zenon DEF Free, Foreign, Holds

LEMMA HeldIsOwn ==
    ASSUME MetaInv, NEW t \in Thread, Pc(t) \in MetaPcs
    PROVE  /\ ~Foreign(t, Frame(t).uuid) /\ Frame(t).uuid \in DOMAIN cache.meta
           /\ EntryOk(cache.meta[Frame(t).uuid]) /\ Holds(t, "meta", Frame(t).uuid)
BY Zenon DEF MetaInv, HasMeta, LockedOnce, Foreign, Entries

LEMMA SoundMetas ==
    ASSUME NEW t, NEW k, ~Foreign(t, k)
    PROVE  /\ Sound(t, Drop(cache.meta, k))
           /\ \A m : EntryOk(m) => Sound(t, Put(cache.meta, k, m))
           /\ \A m : EntryOk(m) => Sound(t, [cache.meta EXCEPT ![k] = m])
BY Zenon DEF Sound, Same, Drop, Restrict, Put

LEMMA SameIsSound ==
    ASSUME NEW t
    PROVE  Sound(t, cache.meta)
BY Zenon DEF Sound, Same

\* The attributes and the size that was written make an entry sound.
LEMMA EntryLike ==
    ASSUME NEW m, EntryOk(m), NEW n, DOMAIN n = DOMAIN m, n.attr = m.attr, n.written = m.written
    PROVE  EntryOk(n)
BY Zenon DEF EntryOk

LEMMA MetaOfIsSound ==
    ASSUME MetaInv, NEW u
    PROVE  EntryOk(MetaOf(cache, u))
<1>1. EntryOk(Metadata)
  BY Zenon DEF EntryOk, Metadata, Sized
<1> QED
  BY <1>1, Zenon DEF MetaInv, Entries, MetaOf

\* The operation ends.
LEMMA MetaQuits ==
    ASSUME MetaInv, NEW t \in Thread, NEW c, End(t, c), thread[t].ops # <<>>,
           Whole(c), c.locks = cache.locks, Sound(t, c.meta)
    PROVE  MetaInv'
<1>1. /\ cache' = [c EXCEPT !.locks = {l \in @ : l[1] # t}]
      /\ Finishes(t)
  BY EndFinishes, Zenon DEF MetaInv
<1>2. cache'.meta = c.meta /\ CacheShape' /\ cache'.locks = {l \in cache.locks : l[1] # t}
  BY <1>1, Zenon DEF Whole, CacheShape
<1>3. OthersHold(t)
  BY <1>2, EndKeeps, Zenon DEF OthersHold, Holds
<1>4. LocksOwn(t)
  BY <1>2, Zenon DEF LocksOwn, Holds
<1>5. HasMeta(t)'
  BY <1>1, Zenon DEF Finishes, HasMeta, MetaPcs, PathPcs, Kept
<1> QED
  BY <1>1, <1>2, <1>3, <1>4, <1>5, MetaInvStep, Zenon DEF Finishes

\* The operation goes on elsewhere.
LEMMA MetaGoes ==
    ASSUME MetaInv, NEW t \in Thread, NEW c, cache' = c, NEW pc, NEW u, Continues(t, pc, u),
           Whole(c), \A s, k : <<s, "meta", k, "exclusive">> \in c.locks
                                   => Holds(s, "meta", k) \/ (s = t /\ ~Foreign(t, k)),
           Spares(t, c),
           Sound(t, c.meta),
           pc \in MetaPcs => <<t, "meta", u, "exclusive">> \in c.locks /\ u \in DOMAIN c.meta,
           pc = "fetch" /\ ~Runs(t, {"getLocation"}) => c.meta[u].attr = {},
           pc = "found" /\ Runs(t, {"write"}) => c.meta[u].attr # {},
           pc \in PathPcs \cup {"adopt"} => ~Runs(t, {"write"})
    PROVE  MetaInv'
<1>1. CacheShape' /\ OthersHold(t) /\ LocksOwn(t)
  BY Zenon DEF Whole, CacheShape, OthersHold, LocksOwn, Holds, Spares
<1>2. Kept(Frame(t).old)
  BY Zenon DEF MetaInv, HasMeta
<1>3. HasMeta(t)'
  BY <1>2, Going, Zenon DEF Continues, HasMeta, Holds
<1> QED
  BY <1>1, <1>3, MetaInvStep, Zenon DEF Continues

------------------------------------------------------------------------------
(* Metadata: the steps that end an operation.                              *)

\* The look-ups and what erases paths only.
LEMMA MetaFailSteps ==
    ASSUME MetaInv, NEW t \in Thread,
           FetchFails(t) \/ ResolveFails(t) \/ RenameRefused(t) \/ Return(t) \/ ProviderChanges(t)
    PROVE  MetaInv'
<1>1. Whole(cache) /\ thread[t].ops # <<>>
  BY Zenon DEF MetaInv, CacheShape, Whole, FetchFails, ResolveFails, RenameRefused, Return,
         ProviderChanges, FoundFor, At
<1>2. ASSUME NEW d, Whole(d), d.locks = cache.locks, Sound(t, d.meta), End(t, Undo(t, d)) \/ End(t, d)
      PROVE  MetaInv'
  <2>1. Whole(Undo(t, d)) /\ Undo(t, d).locks = cache.locks /\ Undo(t, d).meta = d.meta
    BY <1>2, ErasePathsIs, Zenon DEF Undo
  <2> QED
    BY <1>1, <1>2, <2>1, MetaQuits, Zenon
<1>3. CASE FetchFails(t)
  <2> DEFINE d == EraseMeta(cache, Frame(t).uuid)
  <2>1. Pc(t) \in MetaPcs /\ End(t, Undo(t, d))
    BY <1>3, Zenon DEF FetchFails, At, Pc, MetaPcs
  <2>2. Whole(d) /\ d.locks = cache.locks /\ d.meta = Drop(cache.meta, Frame(t).uuid)
    BY <1>1, MetaOperators
  <2>3. Sound(t, d.meta)
    BY <2>1, <2>2, HeldIsOwn, SoundMetas, Zenon
  <2> QED
    BY <1>2, <2>1, <2>2, <2>3, Zenon
<1>4. CASE ResolveFails(t)
  <2> DEFINE d == ErasePaths(cache, {Op(t).path})
  <2>1. Whole(d) /\ d.locks = cache.locks /\ d.meta = cache.meta
    BY <1>1, ErasePathsIs, Zenon
  <2>2. End(t, Undo(t, d))
    BY <1>4, Zenon DEF ResolveFails
  <2> QED
    BY <1>2, <2>1, <2>2, SameIsSound, Zenon
<1>5. CASE RenameRefused(t) \/ Return(t) \/ ProviderChanges(t)
  BY <1>1, <1>2, <1>5, SameIsSound, Zenon DEF RenameRefused, Return, ProviderChanges
<1> QED
  BY <1>3, <1>4, <1>5, Zenon

\* A change of the attributes other than the size keeps an entry sound, and so does a
\* new size of what was written.
Revised(m, f, v) == [m EXCEPT !.attr = {[a EXCEPT ![f] = v] : a \in @}]
Resized(m, n) == [m EXCEPT !.attr = {[a EXCEPT !["size"] = n] : a \in @}, !.written = n]

LEMMA RevisedIsSound ==
    ASSUME NEW m, EntryOk(m), NEW f, f # "size", NEW v
    PROVE  EntryOk(Revised(m, f, v))
<1> DEFINE attr == {[a EXCEPT ![f] = v] : a \in m.attr}
           e == [m EXCEPT !.attr = attr]
<1>1. \A a \in m.attr : /\ "size" \in DOMAIN a /\ a.size \in Nat /\ a.size >= m.written
                        /\ [a EXCEPT ![f] = v].size = a.size
                        /\ "size" \in DOMAIN [a EXCEPT ![f] = v]
  BY Zenon DEF EntryOk, Sized
<1>2. /\ DOMAIN e = {"path", "attr", "locations", "state", "written"}
      /\ e.attr = attr /\ e.written = m.written
  BY Zenon DEF EntryOk
<1>3. Sized(attr) /\ \A a \in attr : a.size >= m.written
  BY <1>1, Zenon DEF Sized
<1>4. attr = {} => m.attr = {}
  BY Zenon
<1> HIDE DEF attr, e
<1>5. EntryOk(e)
  BY <1>2, <1>3, <1>4, Zenon DEF EntryOk
<1> QED
  BY <1>5, Zenon DEF e, attr, Revised

LEMMA ResizedIsSound ==
    ASSUME NEW m, EntryOk(m), NEW n \in Nat, m.attr # {} \/ n = 0
    PROVE  EntryOk(Resized(m, n))
<1> DEFINE attr == {[a EXCEPT !["size"] = n] : a \in m.attr}
           e == [m EXCEPT !.attr = attr, !.written = n]
<1>1. \A a \in m.attr : /\ "size" \in DOMAIN a /\ [a EXCEPT !["size"] = n].size = n
                        /\ "size" \in DOMAIN [a EXCEPT !["size"] = n]
  BY Zenon DEF EntryOk, Sized
<1>2. /\ DOMAIN e = {"path", "attr", "locations", "state", "written"}
      /\ e.attr = attr /\ e.written = n
  BY Zenon DEF EntryOk
<1>3. Sized(attr) /\ \A a \in attr : a.size >= n
  BY <1>1 DEF Sized
<1>4. attr = {} => n = 0
  BY Zenon
<1> HIDE DEF attr, e
<1>5. EntryOk(e)
  BY <1>2, <1>3, <1>4, Zenon DEF EntryOk
<1> QED
  BY <1>5, Zenon DEF e, attr, Resized

LEMMA ChangedMeta ==
    ASSUME Whole(cache), NEW u \in DOMAIN cache.meta, NEW f, NEW v
    PROVE  /\ Whole(Changed(u, f, v)) /\ Changed(u, f, v).locks = cache.locks
           /\ Changed(u, f, v).meta = [cache.meta EXCEPT ![u] = Revised(cache.meta[u], f, v)]
BY Zenon DEF Whole, Changed, Revised

LEMMA WrittenMeta ==
    ASSUME Whole(cache), NEW u \in DOMAIN cache.meta, NEW n,
           DOMAIN cache.meta[u] = {"path", "attr", "locations", "state", "written"}
    PROVE  LET c == [Changed(u, "size", n) EXCEPT !.meta[u].written = n] IN
           /\ Whole(c) /\ c.locks = cache.locks
           /\ c.meta = [cache.meta EXCEPT ![u] = Resized(cache.meta[u], n)]
BY Zenon DEF Whole, Changed, Resized

LEMMA MetaChangeSteps ==
    ASSUME MetaInv, NEW t \in Thread, Chmod(t) \/ Utime(t) \/ RemoveFile(t) \/ RemovePath(t)
    PROVE  MetaInv'
<1>0. PICK u, ps : u = Frame(t).uuid /\ ps = {Op(t).path}
  BY Zenon
<1>1. Whole(cache) /\ thread[t].ops # <<>> /\ Pc(t) \in MetaPcs
  BY Zenon DEF MetaInv, CacheShape, Whole, Chmod, Utime, ChangeAttr, RemoveFile, RemovePath,
         FoundFor, At, Pc, MetaPcs
<1>2. ~Foreign(t, u) /\ u \in DOMAIN cache.meta /\ EntryOk(cache.meta[u])
  BY <1>0, <1>1, HeldIsOwn, Zenon
<1>3. CASE Chmod(t) \/ Utime(t)
  <2>1. PICK f : f # "size" /\ (End(t, cache) \/ End(t, Changed(u, f, "new")))
    BY <1>0, <1>3 DEF Chmod, Utime, ChangeAttr
  <2> DEFINE c == Changed(u, f, "new")
             e == Revised(cache.meta[u], f, "new")
  <2>2. EntryOk(e)
    BY <1>2, <2>1, RevisedIsSound, Zenon
  <2>3. Whole(c) /\ c.locks = cache.locks /\ c.meta = [cache.meta EXCEPT ![u] = e]
    BY <1>1, <1>2, ChangedMeta
  <2> HIDE DEF c, e
  <2>4. Sound(t, c.meta)
    BY <1>2, <2>2, <2>3, SoundMetas
  <2>5. End(t, cache) \/ End(t, c)
    BY <2>1, Zenon DEF c
  <2> QED
    BY <1>1, <2>3, <2>4, <2>5, SameIsSound, MetaQuits
<1>4. CASE RemoveFile(t)
  <2> DEFINE d == ErasePaths(cache, ps)
             c == [d EXCEPT !.meta[u].path = {}]
             e == [cache.meta[u] EXCEPT !.path = {}]
  <2>1. Whole(d) /\ d.locks = cache.locks /\ d.meta = cache.meta
    BY <1>1, ErasePathsIs, Zenon
  <2>2. End(t, cache) \/ End(t, c)
    BY <1>0, <1>4, Zenon DEF RemoveFile
  <2> HIDE DEF d
  <2>3. Whole(c) /\ c.locks = cache.locks /\ c.meta = [cache.meta EXCEPT ![u] = e]
    BY <2>1, Zenon DEF Whole
  <2>4. EntryOk(e)
    BY <1>2, Zenon DEF EntryOk
  <2> HIDE DEF c, e
  <2> QED
    BY <1>1, <1>2, <2>2, <2>3, <2>4, SoundMetas, SameIsSound, MetaQuits
<1>5. CASE RemovePath(t)
  <2>1. PICK old : End(t, EraseMeta(ErasePaths(cache, old), u))
    BY <1>0, <1>5, Zenon DEF RemovePath
  <2> DEFINE d == ErasePaths(cache, old)
             c == EraseMeta(d, u)
  <2>2. Whole(d) /\ d.locks = cache.locks /\ d.meta = cache.meta
    BY <1>1, ErasePathsIs
  <2> HIDE DEF d
  <2>3. Whole(c) /\ c.locks = cache.locks /\ c.meta = Drop(cache.meta, u)
    BY <2>2, MetaOperators
  <2>4. End(t, c)
    BY <2>1, Zenon DEF d
  <2> HIDE DEF c
  <2> QED
    BY <1>1, <1>2, <2>3, <2>4, SoundMetas, MetaQuits, Zenon
<1> QED
  BY <1>3, <1>4, <1>5, Zenon

LEMMA MetaFreeSteps ==
    ASSUME MetaInv, NEW t \in Thread, Locate(t) \/ MapMeta(t) \/ HandleEvent(t)
    PROVE  MetaInv'
<1>1. Whole(cache) /\ thread[t].ops # <<>>
  BY Zenon DEF MetaInv, CacheShape, Whole, Locate, MapMeta, HandleEvent, At
<1>2. CASE Locate(t)
  <2>0. PICK u, m : u = Frame(t).uuid /\ m = MetaOf(cache, u)
    BY Zenon
  <2> DEFINE e == [m EXCEPT !.locations = {"location"}]
             c == SetMeta(cache, u, e)
             d == EraseMeta(cache, u)
  <2>1. Free("meta", u, "exclusive") /\ (End(t, c) \/ End(t, d))
    BY <1>2, <2>0, Zenon DEF Locate
  <2>2. ~Foreign(t, u)
    BY <2>1, FreeIsOwn, Zenon
  <2>3. EntryOk(e)
    BY <2>0, MetaOfIsSound, Zenon DEF EntryOk
  <2> HIDE DEF e
  <2>4. /\ Whole(c) /\ c.locks = cache.locks /\ c.meta = Put(cache.meta, u, e)
        /\ Whole(d) /\ d.locks = cache.locks /\ d.meta = Drop(cache.meta, u)
    BY <1>1, MetaOperators
  <2>5. Sound(t, c.meta) /\ Sound(t, d.meta)
    BY <2>2, <2>3, <2>4, SoundMetas
  <2> HIDE DEF c, d
  <2> QED
    BY <1>1, <2>1, <2>4, <2>5, MetaQuits, Zenon
<1>3. CASE MapMeta(t)
  <2>0. PICK u, m, q, l : u = Op(t).uuid /\ m = MetaOf(cache, u) /\ q = Op(t).to /\ l = Op(t).location
    BY Zenon
  <2> DEFINE e == [m EXCEPT !.path = {q}, !.locations = @ \cup l]
             d == SetPath(cache, q, u)
             c == SetMeta(d, u, e)
  <2>1. Free("meta", u, "exclusive") /\ End(t, c)
    BY <1>3, <2>0, Zenon DEF MapMeta
  <2>2. ~Foreign(t, u)
    BY <2>1, FreeIsOwn, Zenon
  <2>3. EntryOk(e)
    BY <2>0, MetaOfIsSound, Zenon DEF EntryOk
  <2> HIDE DEF e
  <2>4. Whole(d) /\ d.locks = cache.locks /\ d.meta = cache.meta
    BY <1>1, SetPathIs
  <2> HIDE DEF d
  <2>5. Whole(c) /\ c.locks = cache.locks /\ c.meta = Put(cache.meta, u, e)
    BY <2>4, MetaOperators
  <2> HIDE DEF c
  <2> QED
    BY <1>1, <2>1, <2>2, <2>3, <2>5, SoundMetas, MetaQuits
<1>4. CASE HandleEvent(t)
  <2>0. PICK u, state : u = Frame(t).uuid /\ state = Op(t).op
    BY Zenon
  <2> DEFINE e == Resized(cache.meta[u], 0)
             c == [Changed(u, "size", 0) EXCEPT !.meta[u].written = 0]
             f == [cache.meta[u] EXCEPT !.state = state]
             d == [cache EXCEPT !.meta[u].state = state]
  <2>1. u \in DOMAIN cache.meta => Free("meta", u, "exclusive")
    BY <1>4, <2>0, Zenon DEF HandleEvent
  <2>2. CASE u \in DOMAIN cache.meta
    <3>0. End(t, c) \/ End(t, d)
      BY <1>4, <2>0, <2>2, Zenon DEF HandleEvent
    <3>1. ~Foreign(t, u) /\ EntryOk(cache.meta[u])
      BY <2>1, <2>2, FreeIsOwn, Zenon DEF MetaInv, Entries
    <3>2. EntryOk(e)
      BY <3>1, ResizedIsSound, Zenon
    <3>3. EntryOk(f)
      BY <3>1, Zenon DEF EntryOk
    <3>4. Whole(c) /\ c.locks = cache.locks /\ c.meta = [cache.meta EXCEPT ![u] = e]
      BY <1>1, <2>2, <3>1, WrittenMeta, Zenon DEF EntryOk
    <3>5. Whole(d) /\ d.locks = cache.locks /\ d.meta = [cache.meta EXCEPT ![u] = f]
      BY <1>1, Zenon DEF Whole
    <3> HIDE DEF c, d, e, f
    <3>6. Sound(t, c.meta) /\ Sound(t, d.meta)
      BY <3>1, <3>2, <3>3, <3>4, <3>5, SoundMetas
    <3> QED
      BY <1>1, <3>0, <3>4, <3>5, <3>6, MetaQuits
  <2>3. CASE u \notin DOMAIN cache.meta
    <3>1. End(t, cache)
      BY <1>4, <2>0, <2>3, Zenon DEF HandleEvent
    <3> QED
      BY <1>1, <3>1, SameIsSound, MetaQuits, Zenon
  <2> QED
    BY <2>2, <2>3, Zenon
<1> QED
  BY <1>2, <1>3, <1>4, Zenon

------------------------------------------------------------------------------
(* Metadata: the steps of a look-up.                                       *)

\* A step that locks or unlocks a path leaves the metadata and their accessors alone.
MetaLocksStay(c) ==
    \A s, k : <<s, "meta", k, "exclusive">> \in c.locks <=> Holds(s, "meta", k)

PathOnly(t, c) == Whole(c) /\ c.meta = cache.meta /\ MetaLocksStay(c) /\ Spares(t, c)

LEMMA PathKept ==
    ASSUME NEW c, Whole(c), c.meta = cache.meta, c.locks = cache.locks, NEW t \in Thread
    PROVE  PathOnly(t, c)
BY Zenon DEF PathOnly, MetaLocksStay, Spares, Holds

LEMMA PathLocked ==
    ASSUME NEW c, Whole(c), c.meta = cache.meta, c.locks = cache.locks, NEW t \in Thread, NEW p
    PROVE  PathOnly(t, Lock(c, t, "path", p))
<1>1. PICK d : d = Lock(c, t, "path", p)
  BY Zenon
<1>2. Whole(d) /\ d.meta = cache.meta /\ d.locks = cache.locks \cup {<<t, "path", p, "exclusive">>}
  BY <1>1, LockIs
<1> QED
  BY <1>1, <1>2 DEF PathOnly, MetaLocksStay, Spares, Holds

LEMMA PathShared ==
    ASSUME NEW c, Whole(c), c.meta = cache.meta, c.locks = cache.locks, NEW t \in Thread, NEW p
    PROVE  PathOnly(t, LockShared(c, t, "path", p))
<1>1. PICK d : d = LockShared(c, t, "path", p)
  OBVIOUS
<1>2. Whole(d) /\ d.meta = cache.meta /\ d.locks = cache.locks \cup {<<t, "path", p, "shared">>}
  BY <1>1, LockSharedIs
<1> QED
  BY <1>1, <1>2 DEF PathOnly, MetaLocksStay, Spares, Holds

LEMMA PathUnlocked ==
    ASSUME NEW c, Whole(c), c.meta = cache.meta, c.locks = cache.locks, NEW t \in Thread, NEW p
    PROVE  PathOnly(t, Unlock(c, t, "path", p))
<1>1. PICK d : d = Unlock(c, t, "path", p)
  OBVIOUS
<1>2. Whole(d) /\ d.meta = cache.meta /\ d.locks = Without(cache.locks, t, "path", p)
  BY <1>1, UnlockIs
<1> QED
  BY <1>1, <1>2, Zenon DEF PathOnly, MetaLocksStay, Spares, Holds, Without

LEMMA PathSet ==
    ASSUME NEW t, NEW c, PathOnly(t, c), NEW p, NEW u
    PROVE  PathOnly(t, SetPath(c, p, u))
<1>1. PICK d : d = SetPath(c, p, u)
  BY Zenon
<1>2. Whole(d) /\ d.meta = c.meta /\ d.locks = c.locks
  BY <1>1, SetPathIs DEF PathOnly
<1> QED
  BY <1>1, <1>2, Zenon DEF PathOnly, MetaLocksStay, Spares

LEMMA MetaFindSteps ==
    ASSUME MetaInv, NEW t \in Thread,
           FindPath(t) \/ FindMeta(t) \/ InsertPath(t) \/ ResolveSucceeds(t)
    PROVE  MetaInv'
<1>0. PICK p : p = Op(t).path
  BY Zenon
<1>1. ThreadShape /\ Whole(cache) /\ thread[t].ops # <<>> /\ HasMeta(t)
  BY Zenon DEF MetaInv, CacheShape, Whole, FindPath, FindMeta, InsertPath, ResolveSucceeds, At
<1>2. CASE FindMeta(t)
  <2>1. CASE End(t, cache)
    BY <1>1, <2>1, SameIsSound, MetaQuits, Zenon
  <2>2. CASE Goto(t, "insertMeta", cache)
    <3>1. cache' = cache /\ Continues(t, "insertMeta", Frame(t).uuid)
      BY <1>1, <2>2, GotoContinues, Zenon
    <3> QED
      BY <1>1, <3>1, SameIsSound, MetaGoes, Zenon DEF MetaPcs, PathPcs, Holds, Spares
  <2> QED
    BY <1>2, <2>1, <2>2, Zenon DEF FindMeta
<1>3. CASE FindPath(t) \/ InsertPath(t) \/ ResolveSucceeds(t)
  <2>1. ~Runs(t, {"write"})
    BY <1>1, <1>3, Zenon DEF FindPath, InsertPath, ResolveSucceeds, At, HasMeta, Pc, PathPcs
  <2> DEFINE a == LockShared(cache, t, "path", p)
             b == Lock(cache, t, "path", p)
             c == SetPath(b, p, None)
             d(u) == SetPath(cache, p, u)
  <2>2. \E pc \in {"findMeta", "insertPath", "insertMeta", "resolve", "adopt"} : \E u :
           \/ GotoWith(t, pc, u, a) \/ Goto(t, pc, cache) \/ GotoWith(t, pc, u, b)
           \/ Goto(t, pc, c) \/ GotoWith(t, pc, u, d(u))
    BY <1>0, <1>3, Zenon DEF FindPath, InsertPath, ResolveSucceeds
  <2>3. PathOnly(t, a) /\ PathOnly(t, b) /\ PathOnly(t, cache)
    BY <1>1, PathShared, PathLocked, PathKept, Zenon
  <2>4. PathOnly(t, c) /\ \A u : PathOnly(t, d(u))
    BY <2>3, PathSet, Zenon
  <2> HIDE DEF a, b, c, d
  <2>7. \E pc \in {"findMeta", "insertPath", "insertMeta", "resolve", "adopt"} : \E u, e :
           (GotoWith(t, pc, u, e) \/ Goto(t, pc, e)) /\ PathOnly(t, e)
    BY <2>2, <2>3, <2>4, Zenon
  <2>8. PICK pc, u, e :
           /\ pc \in {"findMeta", "insertPath", "insertMeta", "resolve", "adopt"}
           /\ GotoWith(t, pc, u, e) \/ Goto(t, pc, e)
           /\ PathOnly(t, e)
    BY <2>7
  <2>9. PICK v : cache' = e /\ Continues(t, pc, v)
    BY <1>1, <2>8, GotoContinues, GotoWithContinues, Zenon
  <2>10. Sound(t, e.meta) /\ pc \notin MetaPcs /\ pc # "fetch" /\ pc # "found"
    BY <2>8, SameIsSound, Zenon DEF MetaPcs, PathOnly
  <2> QED
    BY <2>1, <2>8, <2>9, <2>10, MetaGoes, Zenon DEF PathOnly, MetaLocksStay
<1> QED
  BY <1>2, <1>3, Zenon

\* A step that locks the metadata of u, if it does not hold it, and changes them.
LEMMA MetaTaken ==
    ASSUME MetaInv, NEW t \in Thread, thread[t].ops # <<>>, NEW pc, NEW u, u = Frame(t).uuid, NEW m,
           EntryOk(m), NEW c, Whole(c), c.meta = cache.meta, ~Foreign(t, u),
           c.locks = cache.locks \cup {<<t, "meta", u, "exclusive">>},
           Goto(t, pc, SetMeta(c, u, m)), pc \notin PathPcs \cup {"adopt"},
           pc = "fetch" /\ ~Runs(t, {"getLocation"}) => m.attr = {},
           pc = "found" /\ Runs(t, {"write"}) => m.attr # {}
    PROVE  MetaInv'
<1> DEFINE d == SetMeta(c, u, m)
<1>1. Whole(d) /\ d.locks = c.locks /\ d.meta = Put(cache.meta, u, m)
  BY MetaOperators
<1>2. Sound(t, d.meta) /\ u \in DOMAIN d.meta /\ d.meta[u] = m
  <2>1. Sound(t, d.meta)
    BY <1>1, SoundMetas
  <2> QED
    BY <1>1, <2>1, Zenon DEF Put
<1>3. cache' = d /\ Continues(t, pc, u)
  BY GotoContinues, Zenon DEF MetaInv
<1> HIDE DEF d
<1>4. \A s, k : <<s, "meta", k, "exclusive">> \in d.locks
                   => Holds(s, "meta", k) \/ (s = t /\ ~Foreign(t, k))
  BY <1>1 DEF Holds
<1>5. Spares(t, d)
  BY <1>1, Zenon DEF Holds, Spares
<1> QED
  BY <1>1, <1>2, <1>3, <1>4, <1>5, MetaGoes, Zenon

\* getAttr() sets the path in the metadata.
LEMMA WithPathIs ==
    ASSUME NEW t, NEW m, EntryOk(m)
    PROVE  EntryOk(WithPath(t, m)) /\ WithPath(t, m).attr = m.attr
BY Zenon DEF WithPath, EntryOk

LEMMA MetaInsertStep ==
    ASSUME MetaInv, NEW t \in Thread, InsertMeta(t)
    PROVE  MetaInv'
<1>0. PICK u, m : u = Frame(t).uuid /\ m = MetaOf(cache, u)
  BY Zenon
<1> DEFINE c == Lock(cache, t, "meta", u)
<1>1. Whole(cache) /\ thread[t].ops # <<>> /\ Free("meta", u, "exclusive")
  BY <1>0, Zenon DEF MetaInv, CacheShape, Whole, InsertMeta, At
<1>2. /\ ~Foreign(t, u) /\ EntryOk(m)
      /\ Whole(c) /\ c.meta = cache.meta /\ c.locks = cache.locks \cup {<<t, "meta", u, "exclusive">>}
  BY <1>0, <1>1, FreeIsOwn, MetaOfIsSound, LockIs
<1>3. \/ Found(t, m) /\ Goto(t, "found", SetMeta(c, u, WithPath(t, m)))
      \/ ~Found(t, m) /\ Goto(t, "fetch", SetMeta(c, u, m))
  BY <1>0, Zenon DEF InsertMeta
<1> HIDE DEF c
<1>4. CASE Found(t, m) /\ Goto(t, "found", SetMeta(c, u, WithPath(t, m)))
  <2>1. Runs(t, {"write"}) => WithPath(t, m).attr # {}
    BY <1>2, <1>4, WithPathIs, Zenon DEF Found, Runs
  <2>2. EntryOk(WithPath(t, m))
    BY <1>2, WithPathIs, Zenon
  <2>3. PICK d, n, pc : d = c /\ n = WithPath(t, m) /\ pc = "found"
    BY Zenon
  <2>4. pc \notin PathPcs \cup {"adopt"} /\ pc # "fetch"
    BY <2>3, Zenon DEF PathPcs
  <2>5. Goto(t, pc, SetMeta(d, u, n)) /\ EntryOk(n) /\ (Runs(t, {"write"}) => n.attr # {})
    BY <1>4, <2>1, <2>2, <2>3, Zenon
  <2> QED
    BY <1>0, <1>1, <1>2, <2>3, <2>4, <2>5, MetaTaken, Zenon
<1>5. CASE ~Found(t, m) /\ Goto(t, "fetch", SetMeta(c, u, m))
  <2>1. ~Runs(t, {"getLocation"}) => m.attr = {}
    BY <1>5, Zenon DEF Found
  <2>2. PICK d, pc : d = c /\ pc = "fetch"
    BY Zenon
  <2>3. pc \notin PathPcs \cup {"adopt"} /\ pc # "found"
    BY <2>2, Zenon DEF PathPcs
  <2>4. Goto(t, pc, SetMeta(d, u, m))
    BY <1>5, <2>2, Zenon
  <2> QED
    BY <1>0, <1>1, <1>2, <2>1, <2>2, <2>3, <2>4, MetaTaken
<1> QED
  BY <1>3, <1>4, <1>5, Zenon

\* Attributes as the provider knows them are stored only where nothing was written.
LEMMA FetchedIsSound ==
    ASSUME NEW m, EntryOk(m), m.written = 0, NEW u
    PROVE  /\ EntryOk([m EXCEPT !.attr = {FileAttr(u)}])
           /\ [m EXCEPT !.attr = {FileAttr(u)}].attr # {}
<1>1. Sized({FileAttr(u)}) /\ FileAttr(u).size = 0
  BY DEF Sized, FileAttr
<1> QED
  BY <1>1 DEF EntryOk

LEMMA MetaFetchStep ==
    ASSUME MetaInv, NEW t \in Thread, FetchSucceeds(t)
    PROVE  MetaInv'
<1>0. PICK u, m : u = Frame(t).uuid /\ m = cache.meta[u]
  BY Zenon
<1>1. Whole(cache) /\ thread[t].ops # <<>> /\ Pc(t) = "fetch" /\ HasMeta(t)
  BY <1>0, Zenon DEF MetaInv, CacheShape, Whole, FetchSucceeds, At, Pc
<1>2. ~Foreign(t, u) /\ EntryOk(m) /\ Holds(t, "meta", u)
  BY <1>0, <1>1, HeldIsOwn, Zenon DEF MetaPcs
<1>3. cache.locks = cache.locks \cup {<<t, "meta", u, "exclusive">>}
  BY <1>2, Zenon DEF Holds
<1> DEFINE a == [m EXCEPT !.locations = {"location"}]
           b == [m EXCEPT !.attr = {FileAttr(u)}]
<1>4. \/ Runs(t, {"getLocation"}) /\ Goto(t, "found", SetMeta(cache, u, a))
      \/ ~Runs(t, {"getLocation"}) /\ Goto(t, "found", SetMeta(cache, u, WithPath(t, b)))
  BY <1>0, Zenon DEF FetchSucceeds
<1>5. CASE Runs(t, {"getLocation"}) /\ Goto(t, "found", SetMeta(cache, u, a))
  <2>1. EntryOk(a) /\ ~Runs(t, {"write"})
    BY <1>2, <1>5, Zenon DEF EntryOk, Runs
  <2> HIDE DEF a
  <2> QED
    BY <1>0, <1>1, <1>2, <1>3, <1>5, <2>1, MetaTaken, Zenon DEF PathPcs
<1>6. CASE ~Runs(t, {"getLocation"}) /\ Goto(t, "found", SetMeta(cache, u, WithPath(t, b)))
  <2>1. m.attr = {} /\ m.written = 0
    BY <1>0, <1>1, <1>2, <1>6, Zenon DEF HasMeta, EntryOk
  <2>2. EntryOk(b) /\ b.attr # {}
    BY <1>2, <2>1, FetchedIsSound, Zenon
  <2> HIDE DEF b
  <2>3. EntryOk(WithPath(t, b)) /\ WithPath(t, b).attr # {}
    BY <2>2, WithPathIs, Zenon
  <2>4. PICK d, n, pc : d = cache /\ n = WithPath(t, b) /\ pc = "found"
    BY Zenon
  <2>5. pc \notin PathPcs \cup {"adopt"} /\ pc # "fetch"
    BY <2>4, Zenon DEF PathPcs
  <2>6. Goto(t, pc, SetMeta(d, u, n)) /\ EntryOk(n) /\ n.attr # {}
    BY <1>6, <2>3, <2>4, Zenon
  <2> QED
    BY <1>0, <1>1, <1>2, <1>3, <2>4, <2>5, <2>6, MetaTaken
<1> QED
  BY <1>4, <1>5, <1>6, Zenon

LEMMA MetaAdoptStep ==
    ASSUME MetaInv, NEW t \in Thread, Adopt(t)
    PROVE  MetaInv'
<1>0. PICK u, p : u = Frame(t).uuid /\ p = Op(t).path
  BY Zenon
<1> DEFINE c == Lock(cache, t, "meta", u)
           n == [Metadata EXCEPT !.attr = {FileAttr(u)}]
<1>1. /\ Whole(cache) /\ thread[t].ops # <<>> /\ Free("meta", u, "exclusive") /\ HasMeta(t)
      /\ Pc(t) = "adopt"
  BY <1>0, Zenon DEF MetaInv, CacheShape, Whole, Adopt, At, Pc
<1>2. /\ ~Foreign(t, u)
      /\ Whole(c) /\ c.meta = cache.meta /\ c.locks = cache.locks \cup {<<t, "meta", u, "exclusive">>}
  BY <1>1, FreeIsOwn, LockIs
<1>3. PICK m : /\ m = IF u \in DOMAIN cache.meta THEN cache.meta[u] ELSE n
               /\ Goto(t, "found", SetMeta(c, u, [m EXCEPT !.path = {p}]))
  BY <1>0, Zenon DEF Adopt
<1>4. EntryOk(m)
  <2>1. EntryOk(n)
    BY DEF EntryOk, Metadata, Sized, FileAttr
  <2> QED
    BY <1>3, <2>1, Zenon DEF MetaInv, Entries
<1>5. EntryOk([m EXCEPT !.path = {p}])
  BY <1>4, Zenon DEF EntryOk
<1>6. ~Runs(t, {"write"})
  BY <1>1, Zenon DEF HasMeta
<1>7. PICK d, k, pc : d = c /\ k = [m EXCEPT !.path = {p}] /\ pc = "found"
  BY Zenon
<1>8. pc \notin PathPcs \cup {"adopt"} /\ pc # "fetch"
  BY <1>7, Zenon DEF PathPcs
<1>9. Goto(t, pc, SetMeta(d, u, k)) /\ EntryOk(k)
  BY <1>3, <1>5, <1>7, Zenon
<1> HIDE DEF c
<1> QED
  BY <1>0, <1>1, <1>2, <1>6, <1>7, <1>8, <1>9, MetaTaken

------------------------------------------------------------------------------
(* Metadata: writes and removals.                                          *)

\* The accessors of t to the metadata of u may go.
LEMMA Unlocked ==
    ASSUME NEW t \in Thread, NEW u, NEW c, Whole(c), c.locks \subseteq cache.locks,
           Spares(t, c),
           NEW table, NEW key
    PROVE  LET d == Unlock(c, t, table, key) IN
           /\ Whole(d) /\ d.meta = c.meta /\ d.paths = c.paths /\ d.locks \subseteq cache.locks
           /\ Spares(t, d)
<1>1. PICK d : d = Unlock(c, t, table, key)
  BY Zenon
<1>2. /\ Whole(d) /\ d.meta = c.meta /\ d.paths = c.paths
      /\ d.locks = Without(c.locks, t, table, key)
  BY <1>1, UnlockIs
<1>3. d.locks \subseteq cache.locks /\ Spares(t, d)
  BY <1>2, Zenon DEF Spares, Without
<1> QED
  BY <1>1, <1>2, <1>3, Zenon

LEMMA MetaWriteSteps ==
    ASSUME MetaInv, NEW t \in Thread, Truncate(t) \/ Write(t)
    PROVE  MetaInv'
<1>0. PICK u, p : u = Frame(t).uuid /\ p = Op(t).path
  BY Zenon
<1>1. Whole(cache) /\ thread[t].ops # <<>> /\ Pc(t) = "found" /\ ThreadShape /\ HasMeta(t)
  BY Zenon DEF MetaInv, CacheShape, Whole, Truncate, Write, FoundFor, At, Pc
<1>2. ~Foreign(t, u) /\ u \in DOMAIN cache.meta /\ EntryOk(cache.meta[u])
  BY <1>0, <1>1, HeldIsOwn, Zenon DEF MetaPcs
<1> DEFINE c(n) == [Changed(u, "size", n) EXCEPT !.meta[u].written = n]
           d(n) == Unlock(c(n), t, "meta", u)
           e == Unlock(d(0), t, "path", p)
<1>3. \/ End(t, cache)
      \/ Goto(t, "locate", e)
      \/ cache.meta[u].attr # {} /\ Goto(t, "locate", d(1))
  BY <1>0, <1>1, Zenon DEF Truncate, Write, HasMeta, FoundFor
<1>4. \A n : /\ Whole(c(n)) /\ c(n).locks = cache.locks
             /\ c(n).meta = [cache.meta EXCEPT ![u] = Resized(cache.meta[u], n)]
  BY <1>1, <1>2, WrittenMeta, Zenon DEF EntryOk
<1> HIDE DEF c
<1>5. ASSUME NEW n \in Nat, cache.meta[u].attr # {} \/ n = 0 PROVE Sound(t, c(n).meta)
  <2>1. PICK e1 : e1 = Resized(cache.meta[u], n)
    BY Zenon
  <2>2. EntryOk(e1)
    BY <1>2, <1>5, <2>1, ResizedIsSound
  <2>3. Sound(t, [cache.meta EXCEPT ![u] = e1])
    BY <1>2, <2>2, SoundMetas, Zenon
  <2>4. c(n).meta = [cache.meta EXCEPT ![u] = e1]
    BY <1>4, <2>1, Zenon
  <2> QED
    BY <2>3, <2>4, Zenon
<1>6. Sound(t, c(0).meta) /\ (cache.meta[u].attr # {} => Sound(t, c(1).meta))
  BY <1>5, Zenon
<1>7. \A n : /\ Whole(d(n)) /\ d(n).locks \subseteq cache.locks /\ d(n).meta = c(n).meta
             /\ Spares(t, d(n))
  <2>1. \A n : Spares(t, c(n))
    BY <1>4, Zenon DEF Spares, Holds
  <2> QED
    BY <1>4, <2>1, Unlocked
<1> HIDE DEF d
<1>8. /\ Whole(e) /\ e.locks \subseteq cache.locks /\ e.meta = c(0).meta
      /\ Spares(t, e)
  BY <1>7, Unlocked
<1> HIDE DEF e
<1>9. ASSUME NEW x, Goto(t, "locate", x), Whole(x), x.locks \subseteq cache.locks, Sound(t, x.meta),
             Spares(t, x)
      PROVE  MetaInv'
  <2>1. cache' = x /\ Continues(t, "locate", Frame(t).uuid)
    BY <1>1, <1>9, GotoContinues, Zenon
  <2> QED
    BY <1>9, <2>1, MetaGoes, Zenon DEF MetaPcs, PathPcs, Holds, Spares
<1> QED
  BY <1>1, <1>3, <1>6, <1>7, <1>8, <1>9, SameIsSound, MetaQuits, Zenon

\* A step that locks the metadata of a cached file.
LEMMA MetaLocked ==
    ASSUME MetaInv, NEW t \in Thread, thread[t].ops # <<>>, NEW pc, NEW u, u = Frame(t).uuid,
           u \in DOMAIN cache.meta, Free("meta", u, "exclusive"),
           Goto(t, pc, Lock(cache, t, "meta", u)), pc \in {"remap", "removePath"}
    PROVE  MetaInv'
<1> DEFINE d == Lock(cache, t, "meta", u)
<1>1. /\ Whole(d) /\ d.meta = cache.meta /\ d.locks = cache.locks \cup {<<t, "meta", u, "exclusive">>}
  BY LockIs DEF MetaInv, CacheShape, Whole
<1>2. cache' = d /\ Continues(t, pc, u)
  BY GotoContinues, Zenon DEF MetaInv
<1> HIDE DEF d
<1>3. ~Foreign(t, u) /\ Sound(t, d.meta)
  BY <1>1, FreeIsOwn, SameIsSound, Zenon
<1>4. \A s, k : <<s, "meta", k, "exclusive">> \in d.locks
                   => Holds(s, "meta", k) \/ (s = t /\ ~Foreign(t, k))
  BY <1>1, <1>3, Zenon DEF Holds
<1>5. Spares(t, d)
  BY <1>1, Zenon DEF Holds, Spares
<1>6. pc \notin PathPcs \cup {"adopt", "fetch", "found"}
  BY Zenon DEF PathPcs
<1> QED
  BY <1>1, <1>2, <1>3, <1>4, <1>5, <1>6, MetaGoes, Zenon

LEMMA MetaRemoveStep ==
    ASSUME MetaInv, NEW t \in Thread, RemoveMeta(t)
    PROVE  MetaInv'
<1>0. PICK u : u = Frame(t).uuid
  BY Zenon
<1>1. Whole(cache) /\ thread[t].ops # <<>>
  BY Zenon DEF MetaInv, CacheShape, Whole, RemoveMeta, At
<1>2. CASE u \in DOMAIN cache.meta
  BY <1>0, <1>1, <1>2, MetaLocked, Zenon DEF RemoveMeta
<1>3. CASE u \notin DOMAIN cache.meta
  BY <1>0, <1>1, <1>3, SameIsSound, MetaQuits DEF RemoveMeta
<1> QED
  BY <1>2, <1>3, Zenon

------------------------------------------------------------------------------
(* Metadata: rename and remapFile.                                         *)

\* A step that locks or unlocks a path, and leaves the metadata alone.
LEMMA MetaUntouched ==
    ASSUME MetaInv, NEW t \in Thread, NEW pc, NEW c, Goto(t, pc, c), PathOnly(t, c),
           pc \in MetaPcs => Pc(t) \in MetaPcs, pc \notin {"fetch", "found", "adopt"},
           pc \in PathPcs => ~Runs(t, {"write"})
    PROVE  MetaInv'
<1>1. cache' = c /\ Continues(t, pc, Frame(t).uuid)
  BY GotoContinues, Zenon DEF MetaInv
<1>2. pc \in MetaPcs => <<t, "meta", Frame(t).uuid, "exclusive">> \in c.locks /\ Frame(t).uuid \in DOMAIN c.meta
  BY HeldIsOwn, Zenon DEF MetaLocksStay, PathOnly
<1>3. Sound(t, c.meta)
  BY SameIsSound, Zenon DEF PathOnly
<1> QED
  BY <1>1, <1>2, <1>3, MetaGoes, Zenon DEF MetaLocksStay, PathOnly

LEMMA MetaPathSteps ==
    ASSUME MetaInv, NEW t \in Thread, Routed(t), NewPath(t) \/ RenameAsks(t) \/ Remap(t)
    PROVE  MetaInv'
<1>0. PICK p, q, v, new : p = Op(t).path /\ q = Op(t).to /\ v = UuidOf(cache, q) /\ new = Frame(t).new
  BY Zenon
<1>1. Whole(cache) /\ thread[t].ops # <<>>
  BY Zenon DEF MetaInv, CacheShape, Whole, NewPath, RenameAsks, Remap, FoundFor, At
<1>2. CASE NewPath(t)
  <2> DEFINE c == Lock(cache, t, "path", q)
             d == SetPath(c, q, v)
  <2>1. Runs(t, ToPath)
    BY <1>2, Zenon DEF NewPath, At, Routed, Pc
  <2>2. PICK pc : /\ Goto(t, pc, d) /\ pc \in {"mapMeta", "insertPath", "remapMeta"}
                  /\ pc = "insertPath" => Runs(t, {"rename"})
    BY <1>0, <1>2, <2>1 DEF NewPath, Runs, ToPath
  <2>3. PathOnly(t, c)
    BY <1>1, PathLocked, Zenon
  <2> HIDE DEF c
  <2>4. PathOnly(t, d)
    BY <2>3, PathSet, Zenon
  <2> HIDE DEF d
  <2>5. pc \notin MetaPcs /\ pc \notin {"fetch", "found", "adopt"}
    BY <2>2, Zenon DEF MetaPcs
  <2>6. pc \in PathPcs => ~Runs(t, {"write"})
    BY <2>2, Zenon DEF PathPcs, Runs
  <2> QED
    BY <2>2, <2>4, <2>5, <2>6, MetaUntouched, Zenon
<1>3. CASE RenameAsks(t)
  <2> DEFINE c == ErasePaths(cache, {p})
             d == Unlock(c, t, "path", p)
  <2>1. Goto(t, "renameAnswer", d) /\ Pc(t) \in MetaPcs
    BY <1>0, <1>3, Zenon DEF RenameAsks, FoundFor, At, Pc, MetaPcs
  <2>2. Whole(c) /\ c.meta = cache.meta /\ c.locks = cache.locks
    BY <1>1, ErasePathsIs, Zenon
  <2> HIDE DEF c
  <2>3. PathOnly(t, d)
    BY <2>2, PathUnlocked, Zenon
  <2> HIDE DEF d
  <2> QED
    BY <2>1, <2>3, MetaUntouched, Zenon DEF PathPcs
<1>4. CASE Remap(t)
  <2> DEFINE c == SetPath(cache, q, new)
             d == Unlock(c, t, "path", q)
  <2>1. Goto(t, "remapOld", d) /\ Pc(t) \in MetaPcs
    BY <1>0, <1>4, Zenon DEF Remap, At, Pc, MetaPcs
  <2>2. Whole(c) /\ c.meta = cache.meta /\ c.locks = cache.locks
    BY <1>1, SetPathIs
  <2> HIDE DEF c
  <2>3. PathOnly(t, d)
    BY <2>2, PathUnlocked
  <2> HIDE DEF d
  <2> QED
    BY <2>1, <2>3, MetaUntouched, Zenon DEF PathPcs
<1> QED
  BY <1>2, <1>3, <1>4, Zenon

LEMMA MetaRemapSteps ==
    ASSUME MetaInv, NEW t \in Thread, RemapMeta(t) \/ RemapNew(t)
    PROVE  MetaInv'
<1>0. PICK q, u, new : q = Op(t).to /\ u = Frame(t).uuid /\ new = Frame(t).new
  BY Zenon
<1>1. Whole(cache) /\ thread[t].ops # <<>> /\ ThreadShape /\ HasMeta(t)
  BY Zenon DEF MetaInv, CacheShape, Whole, RemapMeta, RemapNew, At
<1>2. CASE RemapMeta(t)
  <2>1. CASE u \in DOMAIN cache.meta
    BY <1>0, <1>1, <1>2, <2>1, MetaLocked, Zenon DEF RemapMeta
  <2>2. CASE u \notin DOMAIN cache.meta
    <3> DEFINE d == Unlock(cache, t, "path", q)
    <3>1. Goto(t, "remapNext", d)
      BY <1>0, <1>2, <2>2, Zenon DEF RemapMeta
    <3>2. PathOnly(t, d)
      BY <1>1, PathUnlocked, Zenon
    <3> HIDE DEF d
    <3> QED
      BY <3>1, <3>2, MetaUntouched, Zenon DEF PathPcs, MetaPcs
  <2> QED
    BY <2>1, <2>2, Zenon
<1>3. CASE RemapNew(t)
  <2>0. PICK m, old : /\ m = MetaOf(cache, new) /\ old \in Frame(t).old /\ old.attr # {}
                      /\ Goto(t, "remapNext", SetMeta(cache, new, [m EXCEPT !.path = {q},
                             !.attr = {[a EXCEPT !.uuid = new] : a \in old.attr},
                             !.written = old.written]))
    BY <1>0, <1>3, Zenon DEF RemapNew
  <2> DEFINE moved == {[a EXCEPT !.uuid = new] : a \in old.attr}
             e == [m EXCEPT !.path = {q}, !.attr = moved, !.written = old.written]
             c == SetMeta(cache, new, e)
  <2>1. Free("meta", new, "exclusive") /\ Goto(t, "remapNext", c)
    BY <1>0, <1>3, <2>0, Zenon DEF RemapNew
  <2>2. /\ Sized(moved) /\ moved # {} /\ old.written \in Nat
        /\ \A a \in moved : a.size >= old.written
    <3>1. EntryOk(old)
      BY <1>1, <2>0, Zenon DEF HasMeta, Kept
    <3>2. old.written \in Nat /\ \A a \in old.attr : "size" \in DOMAIN a /\ a.size \in Nat /\ a.size >= old.written
      BY <3>1, Zenon DEF EntryOk, Sized
    <3>3. \A a \in moved : "size" \in DOMAIN a /\ a.size \in Nat /\ a.size >= old.written
      BY <3>2
    <3> QED
      BY <2>0, <3>2, <3>3, Zenon DEF Sized
  <2>3. EntryOk(m)
    BY <2>0, MetaOfIsSound, Zenon
  <2> HIDE DEF moved
  <2>4. EntryOk(e)
    BY <2>2, <2>3, Zenon DEF EntryOk
  <2> HIDE DEF e
  <2>5. Whole(c) /\ c.locks = cache.locks /\ c.meta = Put(cache.meta, new, e)
    BY <1>1, MetaOperators
  <2>6. Sound(t, c.meta)
    BY <2>1, <2>4, <2>5, FreeIsOwn, SoundMetas
  <2> HIDE DEF c
  <2>7. cache' = c /\ Continues(t, "remapNext", Frame(t).uuid)
    BY <1>1, <2>1, GotoContinues, Zenon
  <2> QED
    BY <2>5, <2>6, <2>7, MetaGoes, Zenon DEF MetaPcs, PathPcs, Holds, Spares
<1> QED
  BY <1>2, <1>3, Zenon

LEMMA MetaUpstreamStep ==
    ASSUME MetaInv, NEW t \in Thread, RenameUpstream(t)
    PROVE  MetaInv'
<1>0. PICK q, u, ps : q = Op(t).to /\ u = Frame(t).uuid /\ ps = {Op(t).path}
  BY Zenon
<1>1. Whole(cache) /\ thread[t].ops # <<>> /\ Pc(t) \in MetaPcs
  BY Zenon DEF MetaInv, CacheShape, Whole, RenameUpstream, FoundFor, At, Pc, MetaPcs
<1>2. ~Foreign(t, u) /\ u \in DOMAIN cache.meta /\ EntryOk(cache.meta[u])
  BY <1>0, <1>1, HeldIsOwn, Zenon
<1> DEFINE c == ErasePaths(cache, ps)
           d == SetPath(c, q, u)
           e == [d EXCEPT !.meta[u].locations = {}, !.meta[u].path = {q}]
           f == [c EXCEPT !.meta[u].state = "normal"]
           m == [cache.meta[u] EXCEPT !.locations = {}, !.path = {q}]
           n == [cache.meta[u] EXCEPT !.state = "normal"]
<1>3. End(t, e) \/ End(t, f)
  BY <1>0, Zenon DEF RenameUpstream
<1>4. Whole(c) /\ c.locks = cache.locks /\ c.meta = cache.meta
  BY <1>1, ErasePathsIs, Zenon
<1> HIDE DEF c
<1>5. Whole(d) /\ d.locks = cache.locks /\ d.meta = cache.meta
  BY <1>4, SetPathIs
<1> HIDE DEF d
<1>6. Whole(e) /\ e.locks = cache.locks /\ e.meta = [cache.meta EXCEPT ![u] = m]
  <2>1. Whole(e) /\ e.locks = cache.locks
    BY <1>5, Zenon DEF Whole
  <2>2. e.meta = [d.meta EXCEPT ![u].locations = {}, ![u].path = {q}]
    BY <1>5, Zenon DEF Whole
  <2>3. [cache.meta EXCEPT ![u].locations = {}, ![u].path = {q}] = [cache.meta EXCEPT ![u] = m]
    BY <1>2, Zenon DEF EntryOk
  <2> QED
    BY <1>5, <2>1, <2>2, <2>3, Zenon
<1>7. Whole(f) /\ f.locks = cache.locks /\ f.meta = [cache.meta EXCEPT ![u] = n]
  BY <1>4, Zenon DEF Whole
<1>8. EntryOk(m) /\ EntryOk(n)
  BY <1>2, Zenon DEF EntryOk
<1> HIDE DEF e, f, m, n
<1>9. Sound(t, e.meta) /\ Sound(t, f.meta)
  BY <1>2, <1>6, <1>7, <1>8, SoundMetas
<1> QED
  BY <1>1, <1>3, <1>6, <1>7, <1>9, MetaQuits, Zenon

\* The frame gets the answer's uuid and children.
LEMMA MetaAgreedStep ==
    ASSUME MetaInv, NEW t \in Thread, RenameAgreed(t)
    PROVE  MetaInv'
<1>0. PICK children : children = Op(t).children
  BY Zenon
<1>1. ThreadShape /\ CacheShape /\ HasMeta(t) /\ thread[t].ops # <<>> /\ Pc(t) = "renameAnswer" /\ cache' = cache
  BY Zenon DEF MetaInv, RenameAgreed, At, Pc
<1>2. PICK new : thread' = [thread EXCEPT ![t].frame.new = new, ![t].frame.children = children,
                                          ![t].frame.pc = "renameTarget"]
  BY <1>0, Zenon DEF RenameAgreed
<1> DEFINE f == [thread[t].frame EXCEPT !.new = new, !.children = children, !.pc = "renameTarget"]
<1>3. thread' = [thread EXCEPT ![t] = [thread[t] EXCEPT !.frame = f]]
  <2>1. [thread EXCEPT ![t].frame.new = new, ![t].frame.children = children,
                       ![t].frame.pc = "renameTarget"]
          = [thread EXCEPT ![t] = [thread[t] EXCEPT !.frame = f]]
    BY <1>1, Zenon DEF ThreadShape, Frame
  <2> QED
    BY <1>2, <2>1, Zenon
<1>4. children \in Seq(Remappings)
  BY <1>0, <1>1, OperationFields, Zenon
<1>5. /\ DOMAIN f = {"pc", "uuid", "old", "new", "children"} /\ f.children = children
      /\ f.pc = "renameTarget" /\ f.uuid = Frame(t).uuid /\ f.old = Frame(t).old
  BY <1>1, Zenon DEF ThreadShape, Frame
<1> HIDE DEF f
<1>6. ThreadShape' /\ OthersStay(t) /\ Frame(t)' = f
  BY <1>1, <1>3, <1>4, <1>5, FrameStep, Zenon
<1>7. HasMeta(t)'
  BY <1>1, <1>5, <1>6, Zenon DEF HasMeta, Pc, MetaPcs, PathPcs, Holds
<1>8. CacheShape' /\ OthersHold(t) /\ LocksOwn(t) /\ Sound(t, cache'.meta)
  BY <1>1, SameIsSound, Zenon DEF CacheShape, OthersHold, LocksOwn, Holds
<1> QED
  BY <1>6, <1>7, <1>8, MetaInvStep, Zenon

\* The metadata of an overwritten target are not those of the renamed file: no thread
\* holds them.
LEMMA MetaTargetStep ==
    ASSUME MetaInv, NEW t \in Thread, RenameTarget(t)
    PROVE  MetaInv'
<1>0. PICK u, v : u = Frame(t).uuid /\ v = cache.paths[Op(t).to]
  BY Zenon
<1>1. Whole(cache) /\ Pc(t) \in MetaPcs /\ (v \in DOMAIN cache.meta => Free("meta", v, "exclusive"))
  BY <1>0, Zenon DEF MetaInv, CacheShape, Whole, RenameTarget, At, Pc, MetaPcs
<1>2. u \in DOMAIN cache.meta /\ Holds(t, "meta", u)
  BY <1>0, <1>1, HeldIsOwn, Zenon
<1> DEFINE c == EraseMeta(cache, v)
<1>3. Goto(t, "remap", cache) \/ Goto(t, "remap", c)
  BY <1>0, Zenon DEF RenameTarget
<1>4. Whole(c) /\ c.locks = cache.locks /\ c.meta = Drop(cache.meta, v)
  BY <1>1, MetaOperators, Zenon
<1> HIDE DEF c
<1>5. Sound(t, c.meta)
  <2>1. CASE v \in DOMAIN cache.meta
    BY <1>1, <1>4, <2>1, FreeIsOwn, SoundMetas, Zenon
  <2>2. CASE v \notin DOMAIN cache.meta
    BY <1>4, <2>2, Zenon DEF Sound, Same, Drop, Restrict
  <2> QED
    BY <2>1, <2>2, Zenon
<1>6. u \in DOMAIN c.meta
  <2>1. v \in DOMAIN cache.meta => u # v
    BY <1>1, <1>2, FreeIsOwn, Zenon
  <2> QED
    BY <1>2, <1>4, <2>1, Zenon DEF Drop, Restrict
<1>7. ASSUME NEW x, Goto(t, "remap", x), Whole(x), x.locks = cache.locks, Sound(t, x.meta), u \in DOMAIN x.meta
      PROVE  MetaInv'
  <2>1. cache' = x /\ Continues(t, "remap", u)
    BY <1>0, <1>7, GotoContinues, Zenon DEF MetaInv
  <2> QED
    BY <1>2, <1>7, <2>1, MetaGoes, Zenon DEF PathPcs, Holds, Spares
<1> QED
  BY <1>1, <1>2, <1>3, <1>4, <1>5, <1>6, <1>7, SameIsSound, Zenon

LEMMA MetaRemapOldStep ==
    ASSUME MetaInv, NEW t \in Thread, RemapOld(t)
    PROVE  MetaInv'
<1>0. PICK u, old, q, moved : /\ u = Frame(t).uuid /\ old = cache.meta[u].path /\ q = Op(t).to
                             /\ moved = {cache.meta[u]}
  BY Zenon
<1> DEFINE e == ErasePaths(cache, old)
           c == Unlock(e, t, "meta", u)
           d == [c EXCEPT !.meta[u].path = {q}, !.meta[u].locations = {}]
           m == [cache.meta[u] EXCEPT !.path = {q}, !.locations = {}]
           f == [thread[t].frame EXCEPT !.pc = "remapNew", !.old = moved]
<1>1. ThreadShape /\ Whole(cache) /\ thread[t].ops # <<>> /\ Pc(t) \in MetaPcs
  BY Zenon DEF MetaInv, CacheShape, Whole, RemapOld, At, Pc, MetaPcs
<1>2. ~Foreign(t, u) /\ u \in DOMAIN cache.meta /\ EntryOk(cache.meta[u])
  BY <1>0, <1>1, HeldIsOwn, Zenon
<1>3. \/ Goto(t, "remapNext", d)
      \/ /\ cache' = EraseMeta(c, u)
         /\ thread' = [thread EXCEPT ![t].frame.pc = "remapNew", ![t].frame.old = moved]
  BY <1>0, Zenon DEF RemapOld
<1>4. Whole(e) /\ e.locks = cache.locks /\ e.meta = cache.meta
  BY <1>1, ErasePathsIs, Zenon
<1> HIDE DEF e
<1>5. /\ Whole(c) /\ c.meta = cache.meta /\ c.locks \subseteq cache.locks
      /\ Spares(t, c)
  <2>1. Spares(t, e)
    BY <1>4, Zenon DEF Spares, Holds
  <2> QED
    BY <1>4, <2>1, Unlocked
<1> HIDE DEF c
<1>6. CASE Goto(t, "remapNext", d)
  <2>1. Whole(d) /\ d.locks = c.locks /\ d.meta = [c.meta EXCEPT ![u].path = {q}, ![u].locations = {}]
    BY <1>5, Zenon DEF Whole
  <2>2. [cache.meta EXCEPT ![u].path = {q}, ![u].locations = {}] = [cache.meta EXCEPT ![u] = m]
    BY <1>2, Zenon DEF EntryOk
  <2>3. EntryOk(m)
    BY <1>2, Zenon DEF EntryOk
  <2> HIDE DEF d, m
  <2>4. Sound(t, d.meta)
    BY <1>2, <1>5, <2>1, <2>2, <2>3, SoundMetas
  <2>5. cache' = d /\ Continues(t, "remapNext", Frame(t).uuid)
    BY <1>1, <1>6, GotoContinues, Zenon
  <2> QED
    BY <1>5, <2>1, <2>4, <2>5, MetaGoes, Zenon DEF MetaPcs, PathPcs, Holds, Spares
<1>7. CASE /\ cache' = EraseMeta(c, u)
           /\ thread' = [thread EXCEPT ![t].frame.pc = "remapNew", ![t].frame.old = moved]
  <2>1. CacheShape' /\ cache'.meta = Drop(cache.meta, u) /\ cache'.locks = c.locks
    BY <1>5, <1>7, MetaOperators DEF Whole, CacheShape
  <2>2. OthersHold(t) /\ LocksOwn(t) /\ Sound(t, cache'.meta)
    BY <1>2, <1>5, <2>1, SoundMetas, Zenon DEF OthersHold, LocksOwn, Holds, Spares
  <2>3. thread' = [thread EXCEPT ![t] = [thread[t] EXCEPT !.frame = f]]
    <3>1. [thread EXCEPT ![t].frame.pc = "remapNew", ![t].frame.old = moved]
            = [thread EXCEPT ![t] = [thread[t] EXCEPT !.frame = f]]
      BY <1>1, Zenon DEF ThreadShape, Frame
    <3> QED
      BY <1>7, <3>1, Zenon
  <2>4. /\ DOMAIN f = {"pc", "uuid", "old", "new", "children"} /\ f.children \in Seq(Remappings)
        /\ f.pc = "remapNew" /\ f.old = moved
    BY <1>1, Zenon DEF ThreadShape, Frame
  <2> HIDE DEF f
  <2>5. ThreadShape' /\ OthersStay(t) /\ Frame(t)' = f
    BY <1>1, <2>3, <2>4, FrameStep, Zenon
  <2>6. Kept(moved)
    BY <1>0, <1>2, Zenon DEF Kept
  <2>7. HasMeta(t)'
    BY <2>4, <2>5, <2>6, Zenon DEF HasMeta, Pc, MetaPcs, PathPcs
  <2> QED
    BY <2>1, <2>2, <2>5, <2>7, MetaInvStep, Zenon
<1> QED
  BY <1>3, <1>6, <1>7, Zenon

------------------------------------------------------------------------------
(* Metadata: the start of an operation, and the theorem.                   *)

\* A step that leaves the cache alone, and starts an operation.
LEMMA MetaStarts ==
    ASSUME MetaInv, NEW t \in Thread, cache' = cache, ThreadShape', OthersStay(t), HasMeta(t)'
    PROVE  MetaInv'
<1>1. CacheShape' /\ OthersHold(t) /\ LocksOwn(t) /\ Sound(t, cache'.meta)
  BY SameIsSound, Zenon DEF MetaInv, CacheShape, OthersHold, LocksOwn, Holds
<1> QED
  BY <1>1, MetaInvStep, Zenon

LEMMA MetaBeginStep ==
    ASSUME MetaInv, NEW t \in Thread, Begin(t)
    PROVE  MetaInv'
<1>1. ThreadShape /\ Kept(Frame(t).old) /\ thread[t].ops # <<>> /\ cache' = cache
  BY Zenon DEF MetaInv, HasMeta, Begin, At
<1>2. /\ ThreadShape' /\ OthersStay(t) /\ Pc(t)' = Entry(Op(t).op)
      /\ Frame(t)'.old = Frame(t).old /\ (\A ops : Runs(t, ops)' <=> Runs(t, ops))
  BY <1>1, Begins, Zenon
<1>3. /\ Pc(t)' \notin MetaPcs
      /\ Pc(t)' \in PathPcs \cup {"adopt"} => ~Runs(t, {"write"})
  <2>1. Op(t).op \in FromPath \cup ToPath \cup OfUuid \cup {"provider"}
    BY <1>1, OperationFields, Zenon
  <2>2. Pc(t)' # "adopt"
    BY <1>2, <2>1, Zenon DEF Entry, FromPath, ToPath, OfUuid
  <2> QED
    BY <1>2, <2>1, <2>2, EntryOfPath DEF Runs, FromPath
<1>4. HasMeta(t)'
  BY <1>1, <1>2, <1>3, Zenon DEF HasMeta, MetaPcs
<1> QED
  BY <1>1, <1>2, <1>4, MetaStarts, Zenon

LEMMA MetaNextStep ==
    ASSUME MetaInv, NEW t \in Thread, RemapNext(t)
    PROVE  MetaInv'
<1>1. ThreadShape /\ Whole(cache) /\ thread[t].ops # <<>>
  BY Zenon DEF MetaInv, CacheShape, Whole, RemapNext, At
<1>2. CASE End(t, cache)
  BY <1>1, <1>2, SameIsSound, MetaQuits, Zenon
<1>3. CASE ~End(t, cache)
  <2>1. /\ ThreadShape' /\ OthersStay(t) /\ Pc(t)' = "idle" /\ Frame(t)'.old = {}
        /\ cache' = cache
    BY <1>1, <1>3, NextChild, Zenon DEF RemapNext
  <2>2. HasMeta(t)'
    BY <2>1, Zenon DEF HasMeta, MetaPcs, PathPcs, Kept
  <2> QED
    BY <2>1, <2>2, MetaStarts, Zenon
<1> QED
  BY <1>2, <1>3, Zenon

LEMMA InitMetaInv == Init => MetaInv
<1> SUFFICES ASSUME Init PROVE MetaInv
  BY Zenon
<1>1. PICK w \in Workloads : thread = [t \in Thread |-> [ops |-> w[t], frame |-> Idle]]
  BY Zenon DEF Init
<1>2. ThreadShape /\ CacheShape
  BY InitPathInv, Zenon DEF PathInv
<1>3. \A t \in Thread : Frame(t) = Idle
  BY <1>1, Zenon DEF Frame
<1>4. \A t \in Thread : HasMeta(t)
  BY <1>3 DEF HasMeta, Pc, Idle, MetaPcs, PathPcs, Kept
<1>5. Entries /\ LockedOnce
  BY Zenon DEF Init, Entries, LockedOnce, EmptyMap, Holds
<1> QED
  BY <1>2, <1>4, <1>5, Zenon DEF MetaInv

LEMMA MetaInvStutters ==
    ASSUME MetaInv, UNCHANGED <<cache, thread>>
    PROVE  MetaInv'
<1>1. ThreadShape' /\ CacheShape'
  BY Zenon DEF MetaInv, ThreadShape, CacheShape, Frame
<1>2. Entries' /\ LockedOnce'
  BY Zenon DEF MetaInv, Entries, LockedOnce, Holds
<1>3. \A t \in Thread : HasMeta(t)'
  BY Zenon DEF MetaInv, HasMeta, Holds, Pc, Frame, Op, Runs
<1> QED
  BY <1>1, <1>2, <1>3, Zenon DEF MetaInv

LEMMA NextMetaInv == PathInv /\ MetaInv /\ [Next]_vars => MetaInv'
<1> SUFFICES ASSUME PathInv, MetaInv, [Next]_vars PROVE MetaInv'
  BY Zenon
<1>1. CASE UNCHANGED vars
  BY <1>1, MetaInvStutters, Zenon DEF vars
<1>2. CASE \E t \in Thread : Dereference(t)
  BY <1>2, MetaInvStutters, Zenon DEF Dereference
<1>3. ASSUME NEW t \in Thread, Run(t) PROVE MetaInv'
  <2>1. Routed(t)
    BY Zenon DEF PathInv
  <2> QED
    BY <1>3, <2>1, MetaBeginStep, MetaFindSteps, MetaInsertStep, MetaFetchStep, MetaAdoptStep,
       MetaFailSteps, MetaChangeSteps, MetaFreeSteps, MetaWriteSteps, MetaRemoveStep, MetaPathSteps,
       MetaRemapSteps, MetaUpstreamStep, MetaAgreedStep, MetaTargetStep, MetaRemapOldStep,
       MetaNextStep DEF Run
<1> QED
  BY <1>1, <1>2, <1>3, Zenon DEF Next

\* Whatever threads do at the same time, the cached size of a file is never less than
\* what this client wrote to it since its metadata are cached: look-ups that race
\* with a write do not overwrite it, and renames take it along.  The size that an event
\* of the provider brings counts as the last word (fileAttrHandler).
THEOREM WritesAreKept == Spec => []OwnWritesKept
<1>1. MetaInv => OwnWritesKept
  BY Zenon DEF MetaInv, Entries, EntryOk, OwnWritesKept
<1> QED
  BY InitPathInv, NextPathInv, InitMetaInv, NextMetaInv, <1>1, PTL DEF Spec
==============================================================================
