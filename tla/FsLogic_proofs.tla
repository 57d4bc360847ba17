----------------------------- MODULE FsLogic_proofs -----------------------------
(***************************************************************************)
(* For any threads, files and operations of FUSE and of the provider: what *)
(* the caches of attributes and locations keep is what the provider sends  *)
(* updates for.                                                            *)
(***************************************************************************)
EXTENDS FsLogic, TLAPS

------------------------------------------------------------------------------
(* The client's state, and the steps that leave its tracking alone.        *)

FsFields == {"meta", "paths", "attr", "loc", "subs", "contexts", "forced", "disabled"}

Shape == FsFields \subseteq DOMAIN fs /\ "failed" \in DOMAIN hist

\* Two states of the client have the same tracked files and subscriptions.
Same(c, d) == DOMAIN d = DOMAIN c /\ d.attr = c.attr /\ d.loc = c.loc /\ d.subs = c.subs

Kept(c) == Same(fs, c)

\* What failed stays known as failed.
Remembers == DOMAIN hist' = DOMAIN hist /\ hist.failed \subseteq hist'.failed

IInv == Shape /\ TrackedIsSubscribed

LEMMA KeptStep ==
    ASSUME IInv, Kept(fs'), Remembers
    PROVE  IInv'
<1>1. Shape'
  BY Zenon DEF IInv, Shape, Kept, Same, Remembers
<1>2. \A kind \in {"attr", "loc"} : fs'[kind] = fs[kind]
  BY Zenon DEF Kept, Same
<1>3. TrackedIsSubscribed'
  BY <1>2, Zenon DEF IInv, TrackedIsSubscribed, SubscriptionsOf, Kept, Same, Remembers
<1> QED
  BY <1>1, <1>3, Zenon DEF IInv

LEMMA QuietRemembers == ASSUME UNCHANGED hist PROVE Remembers
BY Zenon DEF Remembers

LEMMA NotedRemembers ==
    ASSUME Shape, NEW o, NEW u, Noted(o, u)
    PROVE  Remembers /\ (~o.ok => u \in hist'.failed)
BY Zenon DEF Shape, Noted, Remembers

\* A look-up changes metadata and paths.
LEMMA LookUpKeeps ==
    ASSUME Shape, NEW ps
    PROVE  \A o \in LookUp(ps) : "fs" \in DOMAIN o /\ Kept(o.fs)
<1> DEFINE none == [ok |-> FALSE, fs |-> fs, uuid |-> "", faults |-> world.faults]
           cached == {fs.paths[p] : p \in ps \cap DOMAIN fs.paths}
           found == {world.paths[p] : p \in ps \cap DOMAIN world.paths}
           New(u) == [Entry EXCEPT !.size = {world.size[u]}]
           Resolved(u) ==
             [fs EXCEPT !.paths = Put(@, CHOOSE p \in ps : TRUE, u),
                        !.meta = Put(@, u, [IF u \in DOMAIN @ THEN @[u] ELSE New(u)
                                            EXCEPT !.path = ps])]
           Failing == {[none EXCEPT !.faults = @ + 1] : f \in {world.faults} \cap 0..(MaxFaults - 1)}
<1> SUFFICES ASSUME NEW o \in LookUp(ps) PROVE "fs" \in DOMAIN o /\ Kept(o.fs)
  BY Zenon
<1>1. \A m : Kept([fs EXCEPT !.meta = m])
  BY Zenon DEF Shape, FsFields, Kept, Same
<1>2. \A u : Kept(Resolved(u))
  BY Zenon DEF Shape, FsFields, Kept, Same
<1>3. Kept(fs)
  BY Zenon DEF Kept, Same
<1>4. CASE cached # {}
  <2>1. \E u \in cached : \E x \in GetAttr(u) :
          o = [ok |-> x.ok, fs |-> [fs EXCEPT !.meta = x.meta], uuid |-> u, faults |-> x.faults]
    BY <1>4, Zenon DEF LookUp
  <2>2. PICK x, u : o = [ok |-> x.ok, fs |-> [fs EXCEPT !.meta = x.meta], uuid |-> u, faults |-> x.faults]
    BY <2>1, Zenon
  <2> QED
    BY <1>1, <2>2, Zenon
<1>5. CASE cached = {} /\ found # {}
  <2>1. \/ \E u \in found : o = [none EXCEPT !.ok = TRUE, !.fs = Resolved(u), !.uuid = u]
        \/ o \in Failing
    BY <1>5, Zenon DEF LookUp
  <2>2. CASE o \in Failing
    <3>1. o = [none EXCEPT !.faults = @ + 1]
      BY <2>2, Zenon
    <3>2. "fs" \in DOMAIN o /\ o.fs = fs
      BY <3>1, Zenon
    <3> QED
      BY <1>3, <3>2, Zenon
  <2>3. ASSUME NEW u \in found, o = [none EXCEPT !.ok = TRUE, !.fs = Resolved(u), !.uuid = u]
        PROVE  "fs" \in DOMAIN o /\ Kept(o.fs)
    <3> HIDE DEF Resolved
    <3>1. "fs" \in DOMAIN o /\ o.fs = Resolved(u)
      BY <2>3, Zenon
    <3> QED
      BY <1>2, <3>1, Zenon
  <2> QED
    BY <2>1, <2>2, <2>3, Zenon
<1>6. CASE cached = {} /\ found = {}
  <2>1. o = none
    BY <1>6, Zenon DEF LookUp
  <2> QED
    BY <1>3, <2>1, Zenon
<1> QED
  BY <1>4, <1>5, <1>6, Zenon

LEMMA SameTwice ==
    ASSUME NEW c, NEW d, Kept(c), Same(c, d)
    PROVE  Kept(d)
BY Zenon DEF Kept, Same

------------------------------------------------------------------------------
(* Steps that change neither tracked files nor subscriptions.              *)

\* Requests about a file whose uuid is known.
LEMMA AskingStep ==
    ASSUME IInv, NEW t \in Thread,
           \/ Attr(t) \/ Location(t) \/ Await(t) \/ Relocate(t) \/ CreateCtx(t)
           \/ GrowAttr(t) \/ GrowLocation(t) \/ CutLocation(t)
    PROVE  Kept(fs') /\ Remembers
<1>1. CASE Attr(t)
  BY <1>1, NotedRemembers, Zenon DEF Attr, IInv, Shape, FsFields, Kept, Same
<1>2. CASE Location(t)
  BY <1>2, NotedRemembers, Zenon DEF Location, IInv, Shape, FsFields, Kept, Same
<1>3. CASE Await(t)
  BY <1>3, NotedRemembers, Zenon DEF Await, IInv, Shape, FsFields, Kept, Same
<1>4. CASE Relocate(t)
  BY <1>4, NotedRemembers, Zenon DEF Relocate, IInv, Shape, FsFields, Kept, Same
<1>5. CASE CreateCtx(t)
  BY <1>5, NotedRemembers, Zenon DEF CreateCtx, IInv, Shape, FsFields, Kept, Same
<1>6. CASE GrowAttr(t)
  <2>1. Kept(fs')
    BY <1>6, Zenon DEF GrowAttr, IInv, Shape, FsFields, Kept, Same
  <2>2. \/ \E v : hist' = [hist EXCEPT !.grown = v]
        \/ \E o : Noted(o, U(t))
    BY <1>6, Zenon DEF GrowAttr
  <2>3. Remembers
    BY <2>2, NotedRemembers, Zenon DEF IInv, Shape, Remembers
  <2> QED
    BY <2>1, <2>3, Zenon
<1>7. CASE GrowLocation(t)
  BY <1>7, NotedRemembers, Zenon DEF GrowLocation, ChangeBlocks, IInv, Shape, FsFields, Kept, Same
<1>8. CASE CutLocation(t)
  BY <1>8, NotedRemembers, Zenon DEF CutLocation, ChangeBlocks, IInv, Shape, FsFields, Kept, Same
<1> QED
  BY <1>1, <1>2, <1>3, <1>4, <1>5, <1>6, <1>7, <1>8, Zenon

\* Steps that change the contexts of open files, or nothing of the client.
LEMMA ContextStep ==
    ASSUME IInv, NEW t \in Thread,
           \/ Begin(t) \/ Opened(t) \/ GetHelper(t) \/ EmitOpened(t) \/ Plan(t) \/ Sync(t)
           \/ HelperCtx(t) \/ Quota(t) \/ EmitWrite(t) \/ ShRelease(t) \/ SendRelease(t)
           \/ CreateDir(t) \/ Resized(t) \/ Touched(t) \/ Granted(t) \/ Detected(t)
    PROVE  Kept(fs') /\ Remembers
<1>1. CASE Begin(t)
  BY <1>1, Zenon DEF Begin, Quiet, IInv, Shape, FsFields, Kept, Same, Remembers
<1>2. CASE Opened(t)
  BY <1>2, Zenon DEF Opened, Quiet, IInv, Shape, FsFields, Kept, Same, Remembers
<1>3. CASE GetHelper(t) \/ EmitOpened(t) \/ Plan(t) \/ Sync(t) \/ Quota(t) \/ EmitWrite(t)
  BY <1>3, Zenon
     DEF GetHelper, EmitOpened, Plan, Sync, Quota, EmitWrite, Quiet, Kept, Same, Remembers
<1>4. CASE HelperCtx(t)
  BY <1>4, Zenon DEF HelperCtx, Quiet, IInv, Shape, FsFields, Kept, Same, Remembers
<1>5. CASE ShRelease(t)
  <2>1. \E cs : fs' = [fs EXCEPT !.contexts = cs]
    BY <1>5, Zenon DEF ShRelease
  <2>2. \E fh, ctx, h, failing, d : hist' = ReleaseNoted(fh, ctx, h, failing, d)
    BY <1>5, Zenon DEF ShRelease
  <2> QED
    BY <2>1, <2>2, Zenon DEF ReleaseNoted, IInv, Shape, FsFields, Kept, Same, Remembers
<1>6. CASE SendRelease(t)
  BY <1>6, Zenon DEF SendRelease, IInv, Shape, FsFields, Kept, Same, Remembers
<1>7. CASE CreateDir(t) \/ Touched(t) \/ Granted(t) \/ Detected(t)
  BY <1>7, Zenon DEF CreateDir, Touched, Granted, Detected, Quiet, Kept, Same, Remembers
<1>8. CASE Resized(t)
  <2>1. UNCHANGED fs /\ \E v : hist' = [hist EXCEPT !.own = v]
    BY <1>8, Zenon DEF Resized, Forgotten
  <2> QED
    BY <2>1, Zenon DEF IInv, Shape, Kept, Same, Remembers
<1> QED
  BY <1>1, <1>2, <1>3, <1>4, <1>5, <1>6, <1>7, <1>8, Zenon

\* Steps that change metadata, paths or contexts without asking the provider.
LEMMA CacheStep ==
    ASSUME IInv, NEW t \in Thread,
           \/ CreateFile(t) \/ List(t) \/ ShRead(t) \/ ShWrite(t) \/ MarkRemoved(t)
           \/ MarkRenamed(t) \/ Remap(t) \/ FileAttr(t) \/ Unforce(t) \/ QuotaExeeded(t)
    PROVE  Kept(fs') /\ Remembers
<1>0. Shape /\ Kept(fs)
  BY Zenon DEF IInv, Kept, Same
<1>1. \A m, cs, fo, d :
        /\ Kept([fs EXCEPT !.meta = m])
        /\ Kept([fs EXCEPT !.contexts = cs]) /\ Kept([fs EXCEPT !.forced = fo])
        /\ Kept([fs EXCEPT !.disabled = d])
  BY <1>0 DEF Shape, FsFields, Kept, Same
<1>2. ASSUME NEW c, Kept(c), ForceProxy(t, c) \/ Throws(t, c) PROVE Kept(fs')
  <2>1. fs' = c \/ \E fo : fs' = [c EXCEPT !.forced = fo]
    BY <1>2, Zenon DEF ForceProxy, Throws
  <2>2. FsFields \subseteq DOMAIN c
    BY <1>0, <1>2, Zenon DEF Shape, Kept, Same
  <2>3. \A fo : Same(c, [c EXCEPT !.forced = fo])
    BY <2>2, Zenon DEF FsFields, Same
  <2> QED
    BY <1>2, <2>1, <2>3, SameTwice, Zenon
<1>13. ASSUME NEW c, Throws(t, c) PROVE Remembers
  <2>1. \/ \E v : hist' = [hist EXCEPT !.told = v]
        \/ \E v : hist' = [hist EXCEPT !.retried = v]
    BY <1>13, Zenon DEF Throws
  <2> QED
    BY <1>0, <2>1, Zenon DEF Shape, Remembers
<1>14. \A fh, f, x : Kept(WithCtx(fs, fh, f, x))
  BY <1>0, Zenon DEF WithCtx, Shape, FsFields, Kept, Same
<1>3. CASE CreateFile(t)
  <2>1. UNCHANGED hist
    BY <1>3, Zenon DEF CreateFile
  <2>2. UNCHANGED fs \/ \E ps, m : fs' = [fs EXCEPT !.paths = ps, !.meta = m]
    BY <1>3, Zenon DEF CreateFile
  <2> QED
    BY <1>0, <2>1, <2>2, QuietRemembers, Zenon DEF Shape, FsFields, Kept, Same
<1>4. CASE List(t)
  <2>1. UNCHANGED hist /\ (UNCHANGED fs \/ \E ps, m : fs' = [fs EXCEPT !.paths = ps, !.meta = m])
    BY <1>4, Zenon DEF List
  <2> QED
    BY <1>0, <2>1, QuietRemembers, Zenon DEF Shape, FsFields, Kept, Same
<1>5. CASE ShRead(t)
  <2>1. \/ ForceProxy(t, fs) /\ UNCHANGED hist
        \/ \E x : LET c == WithCtx(fs, Op(t).fh, world.file[U(t)], x) IN
                  \/ fs' = c /\ \E a, b : hist' = [hist EXCEPT !.switched = a, !.stale = b]
                  \/ Throws(t, c)
        \/ fs' = fs /\ (UNCHANGED hist \/ \E a, b : hist' = [hist EXCEPT !.switched = a, !.stale = b])
        \/ Throws(t, fs)
    BY <1>5, Zenon DEF ShRead
  <2>2. Kept(fs')
    BY <1>0, <1>2, <1>14, <2>1, Zenon
  <2>3. Remembers
    BY <1>0, <1>13, <2>1, Zenon DEF Shape, Remembers
  <2> QED
    BY <2>2, <2>3, Zenon
<1>6. CASE ShWrite(t)
  <2>1. \/ ForceProxy(t, fs) /\ UNCHANGED hist
        \/ \E x : Throws(t, WithCtx(fs, Op(t).fh, world.file[U(t)], x))
        \/ Throws(t, fs)
        \/ /\ fs' = fs \/ \E x : fs' = WithCtx(fs, Op(t).fh, world.file[U(t)], x)
           /\ \E a, b : hist' = [hist EXCEPT !.own = a, !.switched = b]
    BY <1>6, Zenon DEF ShWrite
  <2>2. Kept(fs')
    BY <1>0, <1>2, <1>14, <2>1, Zenon
  <2>3. Remembers
    BY <1>0, <1>13, <2>1, Zenon DEF Shape, Remembers
  <2> QED
    BY <2>2, <2>3, Zenon
<1>7. CASE MarkRemoved(t)
  <2>1. UNCHANGED hist /\ (UNCHANGED fs \/ \E m : fs' = [fs EXCEPT !.meta = m])
    BY <1>7, Zenon DEF MarkRemoved
  <2> QED
    BY <1>0, <1>1, <2>1, QuietRemembers, Zenon
<1>8. CASE MarkRenamed(t)
  <2>1. UNCHANGED fs \/ \E m : fs' = [fs EXCEPT !.meta = m]
    BY <1>8, Zenon DEF MarkRenamed
  <2>2. UNCHANGED hist \/ \E v : hist' = [hist EXCEPT !.moved = v]
    BY <1>8, Zenon DEF MarkRenamed
  <2>3. Remembers
    BY <1>0, <2>2, Zenon DEF Shape, Remembers
  <2> QED
    BY <1>0, <1>1, <2>1, <2>3, Zenon
<1>9. CASE Remap(t)
  <2>1. UNCHANGED hist /\ (UNCHANGED fs \/ \E ps, m : \/ fs' = [fs EXCEPT !.paths = ps]
                                                      \/ fs' = [fs EXCEPT !.paths = ps, !.meta = m])
    BY <1>9, Zenon DEF Remap, Aborts, Quiet, Remapped
  <2> QED
    BY <1>0, <2>1, QuietRemembers, Zenon DEF Shape, FsFields, Kept, Same
<1>10. CASE FileAttr(t)
  <2>1. UNCHANGED fs \/ Kept(fs')
    BY <1>0, <1>10, Zenon DEF FileAttr, Shape, FsFields, Kept, Same
  <2>2. \E v : hist' = [hist EXCEPT !.grown = v]
    BY <1>10, Zenon DEF FileAttr
  <2>3. Remembers
    BY <1>0, <2>2, Zenon DEF Shape, Remembers
  <2> QED
    BY <1>0, <2>1, <2>3, Zenon
<1>11. CASE Unforce(t) \/ QuotaExeeded(t)
  BY <1>1, <1>11, QuietRemembers, Zenon DEF Unforce, QuotaExeeded, DisableSpaces, Quiet
<1> QED
  BY <1>3, <1>4, <1>5, <1>6, <1>7, <1>8, <1>9, <1>10, <1>11

\* Steps that look a path up.
LEMMA PathStep ==
    ASSUME IInv, NEW t \in Thread, AttrOfPath(t) \/ Truncate(t) \/ Delete(t) \/ Rename(t)
    PROVE  Kept(fs') /\ Remembers
<1>0. Shape /\ Kept(fs)
  BY Zenon DEF IInv, Kept, Same
<1>1. \A o \in LookUp(Looked(t)) : "fs" \in DOMAIN o /\ Kept(o.fs) /\ FsFields \subseteq DOMAIN o.fs
  BY <1>0, LookUpKeeps, Zenon DEF Shape, Kept, Same
<1>2. CASE AttrOfPath(t)
  <2>1. PICK o \in LookUp(Looked(t)) :
          /\ fs' = o.fs \/ UNCHANGED fs
          /\ UNCHANGED hist \/ hist' = [hist EXCEPT !.failed = @ \cup {o.uuid}]
    BY <1>2, Zenon DEF AttrOfPath, FailsLookUp, Aborts
  <2> QED
    BY <1>0, <1>1, <2>1, Zenon DEF Shape, Remembers
<1>3. CASE Truncate(t)
  <2>1. PICK o \in LookUp(Looked(t)) :
          /\ \/ UNCHANGED fs \/ fs' = o.fs \/ fs' = [o EXCEPT !.fs = o.fs].fs
             \/ fs' = [o.fs EXCEPT !.meta[o.uuid].size = {Op(t).size}]
          /\ \/ UNCHANGED hist \/ \E v : hist' = [hist EXCEPT !.failed = @ \cup v]
             \/ \E v, w : hist' = [[hist EXCEPT !.own = v] EXCEPT !.grown = w]
    BY <1>3, Zenon DEF Truncate, Locked, FailsLookUp, Aborts, Forgotten
  <2>2. Same(o.fs, [o.fs EXCEPT !.meta[o.uuid].size = {Op(t).size}])
    BY <1>1, Zenon DEF FsFields, Same
  <2>3. [o EXCEPT !.fs = o.fs].fs = o.fs
    BY <1>1, Zenon
  <2>4. Kept(fs')
    BY <1>0, <1>1, <2>1, <2>2, <2>3, SameTwice, Zenon
  <2>5. Remembers
    BY <1>0, <2>1, Zenon DEF Shape, Remembers
  <2> QED
    BY <2>4, <2>5, Zenon
<1>4. CASE Delete(t)
  <2>1. PICK o \in LookUp(Looked(t)) :
          /\ \/ UNCHANGED fs \/ fs' = o.fs \/ fs' = [o EXCEPT !.fs = o.fs].fs
             \/ fs' = [o.fs EXCEPT !.paths = Drop(@, Local(t).path), !.meta[o.uuid].path = {}]
          /\ UNCHANGED hist \/ \E v : hist' = [hist EXCEPT !.failed = @ \cup v]
    BY <1>4, Zenon DEF Delete, Locked, FailsLookUp, Aborts
  <2>2. Same(o.fs, [o.fs EXCEPT !.paths = Drop(@, Local(t).path), !.meta[o.uuid].path = {}])
    BY <1>1, Zenon DEF FsFields, Same
  <2>3. [o EXCEPT !.fs = o.fs].fs = o.fs
    BY <1>1
  <2>4. Kept(fs')
    BY <1>0, <1>1, <2>1, <2>2, <2>3, SameTwice
  <2>5. Remembers
    BY <1>0, <2>1, Zenon DEF Shape, Remembers
  <2> QED
    BY <2>4, <2>5
<1>5. CASE Rename(t)
  <2> DEFINE old == Local(t).path
             new == Target(t)
             children == ChildEntries(t)
             Unmapped(c) == [c EXCEPT !.paths = Drop(@, new)]
             Hidden(o) == [o.fs EXCEPT !.paths = Put(Drop(@, old), new, o.uuid),
                                       !.meta[o.uuid].path = {new}, !.meta[o.uuid].blocks = {}]
             Announced(o) == [o.fs EXCEPT !.paths = Drop(Put(@, new, IF new \in DOMAIN @ THEN @[new]
                                                                     ELSE ""), old),
                                          !.meta[o.uuid].state = "normal"]
             Overwritten(c) == [c EXCEPT !.meta = RestrictDomain(@, LAMBDA u :
                                   new \notin DOMAIN c.paths \/ u # c.paths[new])]
             Moving(o, u) == Remapped([Overwritten(o.fs) EXCEPT !.paths = Drop(@, old)], o.uuid, u, new)
             Rewrites(o) ==
                /\ \/ UNCHANGED fs \/ fs' = Unmapped(o.fs) \/ fs' = [o EXCEPT !.fs = Unmapped(@)].fs
                   \/ \E es : fs' = Followed(Hidden(o), es)
                   \/ \E es : fs' = Followed(Announced(o), es)
                   \/ \E u, es : fs' = Followed(Moving(o, u), es)
                /\ \/ UNCHANGED hist \/ \E v : hist' = [hist EXCEPT !.failed = @ \cup v]
                   \/ \E v : hist' = [hist EXCEPT !.moved = v]
             Asks(o) == o.fs.meta[o.uuid].state = "normal"
             Top(o) == [from |-> old, old |-> o.uuid, path |-> new,
                        new |-> IF Op(t).op # "rename" \/ Op(t).uuid = "" THEN o.uuid ELSE Op(t).uuid]
             Renamed(o) ==
                LET u == Top(o).new
                    es == {Top(o)} \cup Range(children)
                IN /\ fs' = Followed(Moving(o, u), es)
                   /\ world' = Moved(world, es)
                   /\ \E changes \in IF u = o.uuid THEN {children} ELSE {children, <<Top(o)>> \o children} :
                        Goes(t, [Local(t) EXCEPT !.entries = children \o @, !.changes = changes \o @,
                                   !.steps = [i \in DOMAIN children |-> "remap"]
                                             \o [i \in DOMAIN changes |-> "renameAttr"] \o Tail(@)])
                   /\ hist' = [hist EXCEPT !.moved = @ \cup MovedUuids(es)]
             Done(o) ==
                \/ Asks(o) /\ Renamed(o)
                \/ /\ ~Asks(o)
                   /\ fs' = Followed(IF o.fs.meta[o.uuid].state = "removedUpstream"
                                     THEN Hidden(o) ELSE Announced(o), {Top(o)} \cup Range(children))
                   /\ Advance(t, Local(t))
                   /\ UNCHANGED <<world, hist>>
  <2>1. \E o \in LookUp(Looked(t)) : Rewrites(o)
    <3>1. PICK o \in LookUp(Looked(t)) :
             \/ FailsLookUp(t, [o EXCEPT !.fs = Unmapped(@)]) \/ Aborts \/ Done(o)
             \/ fs' = Unmapped(o.fs) /\ UNCHANGED <<status, hist>>
      BY <1>5, ZenonT(30) DEF Rename, Locked
    <3> HIDE DEF Unmapped, Hidden, Announced, Moving
    <3>2. CASE FailsLookUp(t, [o EXCEPT !.fs = Unmapped(@)])
      BY <3>2, Zenon DEF FailsLookUp
    <3>3. CASE Aborts
      BY <3>3, Zenon DEF Aborts
    <3>4. CASE Asks(o) /\ Renamed(o)
      BY <3>4, Zenon
    <3>5. CASE ~Asks(o) /\ Done(o)
      BY <3>5, Zenon
    <3> QED
      BY <3>1, <3>2, <3>3, <3>4, <3>5, Zenon
  <2> HIDE DEF Asks, Renamed, Done
  <2>2. \A c : FsFields \subseteq DOMAIN c => Same(c, Unmapped(c)) /\ \A es : Same(c, Followed(c, es))
    BY Zenon DEF Followed, FsFields, Same
  <2>3. \A o \in LookUp(Looked(t)) : Kept(Hidden(o))
    BY <1>1 DEF FsFields, Kept, Same
  <2>4. \A o \in LookUp(Looked(t)) : Kept(Announced(o))
    BY <1>1 DEF FsFields, Kept, Same
  <2>5. \A o \in LookUp(Looked(t)) : \A u : Kept(Moving(o, u))
    BY <1>1 DEF Remapped, FsFields, Kept, Same
  <2> HIDE DEF Unmapped, Hidden, Announced, Moving
  <2>6. \A c : Kept(c) => Kept(Unmapped(c)) /\ \A es : Kept(Followed(c, es))
    BY <1>0, <2>2, SameTwice, Zenon DEF Shape, Kept, Same
  <2>7. PICK o \in LookUp(Looked(t)) :
          /\ \/ UNCHANGED fs \/ fs' = Unmapped(o.fs) \/ fs' = [o EXCEPT !.fs = Unmapped(@)].fs
             \/ \E es : fs' = Followed(Hidden(o), es)
             \/ \E es : fs' = Followed(Announced(o), es)
             \/ \E u, es : fs' = Followed(Moving(o, u), es)
          /\ \/ UNCHANGED hist \/ \E v : hist' = [hist EXCEPT !.failed = @ \cup v]
             \/ \E v : hist' = [hist EXCEPT !.moved = v]
    BY <2>1, Zenon
  <2>8. [o EXCEPT !.fs = Unmapped(@)].fs = Unmapped(o.fs)
    BY <1>1, Zenon
  <2>9. Kept(fs')
    BY <1>0, <1>1, <2>3, <2>4, <2>5, <2>6, <2>7, <2>8
  <2>10. Remembers
    BY <1>0, <2>7, Zenon DEF Shape, Remembers
  <2> QED
    BY <2>9, <2>10
<1> QED
  BY <1>2, <1>3, <1>4, <1>5, Zenon

\* Steps of the provider and of the timers.
LEMMA OutsideStep ==
    ASSUME IInv,
           \/ \E u \in Uuid : LocationArrives(u) \/ Reported(u)
           \/ \E fh \in Handle : TimedFlush(fh)
    PROVE  Kept(fs') /\ Remembers
<1>1. UNCHANGED hist
  BY Zenon DEF LocationArrives, Reported, TimedFlush
<1>2. \/ UNCHANGED fs
      \/ \E u : fs' = [fs EXCEPT !.meta[u].blocks = {world.blocks[u] : bs \in @}]
      \/ \E fh, f, x : fs' = WithCtx(fs, fh, f, x)
  BY Zenon DEF LocationArrives, Reported, TimedFlush
<1>3. Kept(fs')
  BY <1>2, Zenon DEF WithCtx, IInv, Shape, FsFields, Kept, Same
<1> QED
  BY <1>1, <1>3, QuietRemembers, Zenon

------------------------------------------------------------------------------
(* Steps that track files, forget them, or change subscriptions.           *)

LEMMA TrackingStep ==
    ASSUME IInv, Remembers, DOMAIN fs' = DOMAIN fs,
           \A u \in DOMAIN fs'.attr : u \in hist'.failed \/ SubscriptionsOf("attr", u) \subseteq fs'.subs,
           \A u \in DOMAIN fs'.loc : u \in hist'.failed \/ SubscriptionsOf("loc", u) \subseteq fs'.subs
    PROVE  IInv'
BY Zenon DEF IInv, Shape, Remembers, TrackedIsSubscribed, SubscriptionsOf

LEMMA Tracked ==
    ASSUME IInv
    PROVE  /\ \A u \in DOMAIN fs.attr : u \in hist.failed \/ SubscriptionsOf("attr", u) \subseteq fs.subs
           /\ \A u \in DOMAIN fs.loc : u \in hist.failed \/ SubscriptionsOf("loc", u) \subseteq fs.subs
BY Zenon DEF IInv, TrackedIsSubscribed

LEMMA SubscriptionKinds ==
    /\ \A u, v : SubscriptionsOf("attr", u) \cap SubscriptionsOf("loc", v) = {}
    /\ \A u, v : u # v => SubscriptionsOf("attr", u) \cap SubscriptionsOf("attr", v) = {}
    /\ \A u, v : u # v => SubscriptionsOf("loc", u) \cap SubscriptionsOf("loc", v) = {}
    /\ \A u, v : <<"permission", v>> \notin SubscriptionsOf("attr", u) \cup SubscriptionsOf("loc", u)
BY DEF SubscriptionsOf

LEMMA ExpirationDomains ==
    \A e, u : /\ DOMAIN Expiration!Interest(e, u) = DOMAIN e \cup {u}
              /\ DOMAIN Expiration!Pinned(e, u) = DOMAIN e \cup {u}
              /\ DOMAIN Expiration!Unpinned(e, u) = DOMAIN e
BY Zenon DEF Expiration!Interest, Expiration!Pinned, Expiration!Unpinned, Expiration!Put, Put

LEMMA RenamedDomain ==
    ASSUME NEW e, NEW u, NEW v
    PROVE  DOMAIN Expiration!Renamed(e, u, v) = ((DOMAIN e) \ {u}) \cup {v}
BY Zenon
   DEF Expiration!Renamed, Expiration!Put, Expiration!Drop, Expiration!Restrict, Put, Drop, Restrict

\* What markInteresting() and pin() may leave behind.
LEMMA TrackStep ==
    ASSUME IInv, NEW kind \in {"attr", "loc"}, NEW u, NEW a, NEW i, Remembers,
           DOMAIN a = DOMAIN fs[kind] \cup {u}, DOMAIN i = DOMAIN fs[kind] \cup {u},
           \/ u \in DOMAIN fs[kind] /\ fs' = [fs EXCEPT ![kind] = a]
           \/ \E m : fs' = [fs EXCEPT !.meta = m, ![kind] = a,
                                      !.subs = AddSubscriptions(@, SubscriptionsOf(kind, u))]
           \/ \E m : fs' = [fs EXCEPT !.meta = m, ![kind] = i] /\ u \in hist'.failed
    PROVE  IInv'
<1>1. FsFields \subseteq DOMAIN fs /\ hist.failed \subseteq hist'.failed
  BY Zenon DEF IInv, Shape, Remembers
<1>2. DOMAIN fs' = DOMAIN fs
  BY Zenon
<1>3. fs.subs \subseteq fs'.subs
  BY <1>1, Zenon DEF FsFields, AddSubscriptions
<1>4. DOMAIN fs'[kind] = DOMAIN fs[kind] \cup {u}
  BY <1>1, Zenon DEF FsFields
<1>5. u \in DOMAIN fs[kind] \/ u \in hist'.failed \/ SubscriptionsOf(kind, u) \subseteq fs'.subs
  BY <1>1, ZenonT(30) DEF FsFields, AddSubscriptions
<1>6. \A other \in {"attr", "loc"} \ {kind} : fs'[other] = fs[other]
  BY <1>1, ZenonT(30) DEF FsFields
<1> QED
  BY <1>1, <1>2, <1>3, <1>4, <1>5, <1>6, Tracked, TrackingStep, Zenon

LEMMA MarkStep ==
    ASSUME IInv, NEW t \in Thread, MarkAttr(t) \/ PinLoc(t) \/ PinAttr(t)
    PROVE  IInv'
<1>0. Shape
  BY Zenon DEF IInv
<1>1. CASE MarkAttr(t)
  <2> DEFINE i == Expiration!Interest(fs.attr, U(t))
  <2>1. /\ \/ U(t) \in DOMAIN fs.attr /\ fs' = [fs EXCEPT !["attr"] = i]
           \/ \E m : fs' = [fs EXCEPT !.meta = m, !["attr"] = i,
                                      !.subs = AddSubscriptions(@, SubscriptionsOf("attr", U(t)))]
           \/ \E m : fs' = [fs EXCEPT !.meta = m, !["attr"] = i] /\ U(t) \in hist'.failed
        /\ Remembers
    BY <1>0, <1>1, NotedRemembers, QuietRemembers, Zenon DEF MarkAttr, Track, Shape, FsFields
  <2>2. DOMAIN i = DOMAIN fs.attr \cup {U(t)}
    BY ExpirationDomains, Zenon
  <2> QED
    BY <2>1, <2>2, TrackStep, Zenon
<1>2. CASE PinAttr(t)
  <2> DEFINE a == Expiration!Pinned(fs.attr, U(t))
             i == Expiration!Interest(fs.attr, U(t))
  <2>1. /\ \/ U(t) \in DOMAIN fs.attr /\ fs' = [fs EXCEPT !["attr"] = a]
           \/ \E m : fs' = [fs EXCEPT !.meta = m, !["attr"] = a,
                                      !.subs = AddSubscriptions(@, SubscriptionsOf("attr", U(t)))]
           \/ \E m : fs' = [fs EXCEPT !.meta = m, !["attr"] = i] /\ U(t) \in hist'.failed
        /\ Remembers
    BY <1>0, <1>2, NotedRemembers, QuietRemembers, Zenon DEF PinAttr, Track, Shape, FsFields
  <2>2. DOMAIN i = DOMAIN fs.attr \cup {U(t)} /\ DOMAIN a = DOMAIN fs.attr \cup {U(t)}
    BY ExpirationDomains, Zenon
  <2> QED
    BY <2>1, <2>2, TrackStep, Zenon
<1>3. CASE PinLoc(t)
  <2> DEFINE a == Expiration!Pinned(fs.loc, U(t))
             i == Expiration!Interest(fs.loc, U(t))
  <2>1. /\ \/ U(t) \in DOMAIN fs.loc /\ fs' = [fs EXCEPT !["loc"] = a]
           \/ \E m : fs' = [fs EXCEPT !.meta = m, !["loc"] = a,
                                      !.subs = AddSubscriptions(@, SubscriptionsOf("loc", U(t)))]
           \/ \E m : fs' = [fs EXCEPT !.meta = m, !["loc"] = i] /\ U(t) \in hist'.failed
        /\ Remembers
    BY <1>0, <1>3, NotedRemembers, QuietRemembers, Zenon DEF PinLoc, Track, Shape, FsFields
  <2>2. DOMAIN i = DOMAIN fs.loc \cup {U(t)} /\ DOMAIN a = DOMAIN fs.loc \cup {U(t)}
    BY ExpirationDomains, Zenon
  <2> QED
    BY <2>1, <2>2, TrackStep, Zenon
<1> QED
  BY <1>1, <1>2, <1>3, Zenon

LEMMA UnpinStep ==
    ASSUME IInv, NEW t \in Thread, UnpinLoc(t) \/ UnpinAttr(t)
    PROVE  IInv'
<1>1. UNCHANGED hist
  BY Zenon DEF UnpinLoc, UnpinAttr, Unpin
<1>2. \/ UNCHANGED fs
      \/ fs' = [fs EXCEPT !["loc"] = Expiration!Unpinned(@, U(t))]
      \/ fs' = [fs EXCEPT !["attr"] = Expiration!Unpinned(@, U(t))]
  BY Zenon DEF UnpinLoc, UnpinAttr, Unpin
<1>3. /\ DOMAIN fs' = DOMAIN fs /\ fs'.subs = fs.subs
      /\ DOMAIN fs'.attr = DOMAIN fs.attr /\ DOMAIN fs'.loc = DOMAIN fs.loc
  BY <1>2, ExpirationDomains DEF IInv, Shape, FsFields
<1> QED
  BY <1>1, <1>3, QuietRemembers, Tracked, TrackingStep, Zenon

\* A tick forgets the same files as it unsubscribes.
LEMMA TickStep ==
    ASSUME IInv, NEW t \in Thread, TickLoc(t) \/ TickAttr(t)
    PROVE  IInv'
<1>0. FsFields \subseteq DOMAIN fs
  BY Zenon DEF IInv, Shape
<1>1. UNCHANGED hist
  BY Zenon DEF TickLoc, TickAttr, Tick, Quiet
<1>2. CASE TickLoc(t)
  <2>1. PICK us : fs' = [Removed(fs, us) EXCEPT
                  !["loc"] = RestrictDomain(@, LAMBDA u : u \notin us),
                  !.subs  = RemoveSubscriptions(@, UNION {SubscriptionsOf("loc", u) : u \in us})]
    BY <1>2, Zenon DEF TickLoc, Tick
  <2>2. /\ DOMAIN Removed(fs, us) = DOMAIN fs /\ Removed(fs, us).attr = fs.attr
        /\ Removed(fs, us).loc = fs.loc /\ Removed(fs, us).subs = fs.subs
    BY <1>0, Zenon DEF Removed, FsFields
  <2>3. /\ DOMAIN fs' = DOMAIN fs /\ fs'.attr = fs.attr
        /\ fs'.subs = fs.subs \ UNION {SubscriptionsOf("loc", u) : u \in us}
    BY <1>0, <2>1, <2>2, Zenon DEF FsFields, RemoveSubscriptions
  <2>4. DOMAIN fs'.loc = {u \in DOMAIN fs.loc : u \notin us}
    BY <1>0, <2>1, <2>2, Zenon DEF FsFields, RestrictDomain, Restrict
  <2>5. \A u \in DOMAIN fs'.attr : SubscriptionsOf("attr", u) \subseteq fs.subs
                                     => SubscriptionsOf("attr", u) \subseteq fs'.subs
    BY <2>3, SubscriptionKinds
  <2>6. \A u \in DOMAIN fs'.loc : SubscriptionsOf("loc", u) \subseteq fs.subs
                                     => SubscriptionsOf("loc", u) \subseteq fs'.subs
    BY <2>3, <2>4, SubscriptionKinds
  <2> QED
    BY <1>1, <2>3, <2>4, <2>5, <2>6, QuietRemembers, Tracked, TrackingStep, Zenon
<1>3. CASE TickAttr(t)
  <2>1. PICK us : fs' = [Removed(fs, us) EXCEPT
                  !["attr"] = RestrictDomain(@, LAMBDA u : u \notin us),
                  !.subs  = RemoveSubscriptions(@, UNION {SubscriptionsOf("attr", u) : u \in us})]
    BY <1>3, Zenon DEF TickAttr, Tick
  <2>2. /\ DOMAIN Removed(fs, us) = DOMAIN fs /\ Removed(fs, us).attr = fs.attr
        /\ Removed(fs, us).loc = fs.loc /\ Removed(fs, us).subs = fs.subs
    BY <1>0 DEF Removed, FsFields
  <2>3. /\ DOMAIN fs' = DOMAIN fs /\ fs'.loc = fs.loc
        /\ fs'.subs = fs.subs \ UNION {SubscriptionsOf("attr", u) : u \in us}
    BY <1>0, <2>1, <2>2, Zenon DEF FsFields, RemoveSubscriptions
  <2>4. DOMAIN fs'.attr = {u \in DOMAIN fs.attr : u \notin us}
    BY <1>0, <2>1, <2>2, Zenon DEF FsFields, RestrictDomain, Restrict
  <2>5. \A u \in DOMAIN fs'.loc : SubscriptionsOf("loc", u) \subseteq fs.subs
                                     => SubscriptionsOf("loc", u) \subseteq fs'.subs
    BY <2>3, SubscriptionKinds
  <2>6. \A u \in DOMAIN fs'.attr : SubscriptionsOf("attr", u) \subseteq fs.subs
                                     => SubscriptionsOf("attr", u) \subseteq fs'.subs
    BY <2>3, <2>4, SubscriptionKinds
  <2> QED
    BY <1>1, <2>3, <2>4, <2>5, <2>6, QuietRemembers, Tracked, TrackingStep
<1> QED
  BY <1>2, <1>3, Zenon

\* A rename moves the subscriptions with the entry, or remembers the failure.
LEMMA RenameStep ==
    ASSUME IInv, NEW t \in Thread, RenameAttr(t)
    PROVE  IInv'
<1> DEFINE old == Head(Local(t).changes).old
           left == RemoveSubscriptions(fs.subs, SubscriptionsOf("attr", old))
           Following(new) == [fs EXCEPT !.attr = Expiration!Renamed(@, old, new)]
<1>0. FsFields \subseteq DOMAIN fs /\ Shape
  BY Zenon DEF IInv, Shape
<1>1. CASE UNCHANGED <<fs, hist>>
  BY <1>1, QuietRemembers, KeptStep, Zenon DEF Kept, Same
<1>2. ASSUME NEW new, new \in DOMAIN fs.attr, fs' = Following(new), UNCHANGED hist
      PROVE  IInv'
  <2>1. /\ DOMAIN fs' = DOMAIN fs /\ fs'.subs = fs.subs /\ fs'.loc = fs.loc
        /\ fs'.attr = Expiration!Renamed(fs.attr, old, new)
    BY <1>0, <1>2, Zenon DEF FsFields
  <2>2. DOMAIN Expiration!Renamed(fs.attr, old, new) = ((DOMAIN fs.attr) \ {old}) \cup {new}
    BY RenamedDomain
  <2>3. DOMAIN fs'.attr \subseteq DOMAIN fs.attr
    BY <1>2, <2>1, <2>2, Zenon
  <2> QED
    BY <1>2, <2>1, <2>3, QuietRemembers, Tracked, TrackingStep
<1>3. ASSUME NEW new, NEW o, o.ok,
             fs' = [Following(new) EXCEPT !.meta = o.meta,
                                        !.subs = AddSubscriptions(left, SubscriptionsOf("attr", new))],
             hist' = [hist EXCEPT !.failed = @]
      PROVE  IInv'
  <2>1. Remembers
    BY <1>0, <1>3, Zenon DEF Shape, Remembers
  <2>2. /\ DOMAIN fs' = DOMAIN fs /\ fs'.loc = fs.loc
        /\ fs'.attr = Expiration!Renamed(fs.attr, old, new)
        /\ fs'.subs = (fs.subs \ SubscriptionsOf("attr", old)) \cup SubscriptionsOf("attr", new)
    BY <1>0, <1>3, Zenon DEF FsFields, AddSubscriptions, RemoveSubscriptions
  <2>3. DOMAIN Expiration!Renamed(fs.attr, old, new) = ((DOMAIN fs.attr) \ {old}) \cup {new}
    BY RenamedDomain
  <2>4. \A u \in DOMAIN fs'.attr : \/ u = new /\ SubscriptionsOf("attr", u) \subseteq fs'.subs
                                   \/ /\ u \in DOMAIN fs.attr
                                      /\ SubscriptionsOf("attr", u) \subseteq fs.subs
                                           => SubscriptionsOf("attr", u) \subseteq fs'.subs
    BY <2>2, <2>3, SubscriptionKinds, Zenon
  <2>5. \A u : SubscriptionsOf("loc", u) \subseteq fs.subs => SubscriptionsOf("loc", u) \subseteq fs'.subs
    BY <2>2, SubscriptionKinds, Zenon
  <2>6. hist'.failed = hist.failed
    BY <1>0, <1>3, Zenon DEF Shape
  <2> QED
    BY <2>1, <2>2, <2>4, <2>5, <2>6, Tracked, TrackingStep, Zenon
<1>4. ASSUME NEW new, NEW o,
             fs' = [fs EXCEPT !.meta = o.meta, !.subs = left, !.attr = Expiration!Interest(@, new)],
             hist' = [hist EXCEPT !.failed = @ \cup {old, new}]
      PROVE  IInv'
  <2>1. Remembers /\ hist'.failed = hist.failed \cup {old, new}
    BY <1>0, <1>4, Zenon DEF Shape, Remembers
  <2>2. /\ DOMAIN fs' = DOMAIN fs /\ fs'.loc = fs.loc
        /\ fs'.attr = Expiration!Interest(fs.attr, new)
        /\ fs'.subs = fs.subs \ SubscriptionsOf("attr", old)
    BY <1>0, <1>4, Zenon DEF FsFields, RemoveSubscriptions
  <2>3. DOMAIN fs'.attr = DOMAIN fs.attr \cup {new}
    BY <2>2, ExpirationDomains, ZenonT(30)
  <2>4. \A u : u # old /\ SubscriptionsOf("attr", u) \subseteq fs.subs
                  => SubscriptionsOf("attr", u) \subseteq fs'.subs
    BY <2>2, SubscriptionKinds, Zenon
  <2>5. \A u : SubscriptionsOf("loc", u) \subseteq fs.subs => SubscriptionsOf("loc", u) \subseteq fs'.subs
    BY <2>2, SubscriptionKinds, Zenon
  <2> QED
    BY <2>1, <2>2, <2>3, <2>4, <2>5, Tracked, TrackingStep, Zenon
<1>5. \/ UNCHANGED <<fs, hist>>
      \/ \E new : new \in DOMAIN fs.attr /\ fs' = Following(new) /\ UNCHANGED hist
      \/ \E new, o : /\ o.ok
                     /\ fs' = [Following(new) EXCEPT
                                  !.meta = o.meta,
                                  !.subs = AddSubscriptions(left, SubscriptionsOf("attr", new))]
                     /\ hist' = [hist EXCEPT !.failed = @]
      \/ \E new, o : /\ fs' = [fs EXCEPT !.meta = o.meta, !.subs = left,
                                         !.attr = Expiration!Interest(@, new)]
                     /\ hist' = [hist EXCEPT !.failed = @ \cup {old, new}]
  BY Zenon DEF RenameAttr
<1> QED
  BY <1>1, <1>2, <1>3, <1>4, <1>5, Zenon

LEMMA PermissionStep ==
    ASSUME IInv, NEW t \in Thread, Subscribe(t) \/ Unsubscribe(t)
    PROVE  IInv'
<1>1. UNCHANGED hist
  BY Zenon DEF Subscribe, Unsubscribe, Quiet
<1>2. \/ fs' = [fs EXCEPT !.subs = @ \cup {<<"permission", U(t)>>}]
      \/ fs' = [fs EXCEPT !.subs = @ \ {<<"permission", U(t)>>}]
  BY Zenon DEF Subscribe, Unsubscribe, AddSubscriptions, RemoveSubscriptions
<1>3. /\ DOMAIN fs' = DOMAIN fs /\ fs'.attr = fs.attr /\ fs'.loc = fs.loc
      /\ fs.subs \ {<<"permission", U(t)>>} \subseteq fs'.subs
  BY <1>2, Zenon DEF IInv, Shape, FsFields
<1>4. \A u : /\ SubscriptionsOf("attr", u) \subseteq fs.subs => SubscriptionsOf("attr", u) \subseteq fs'.subs
             /\ SubscriptionsOf("loc", u) \subseteq fs.subs => SubscriptionsOf("loc", u) \subseteq fs'.subs
  BY <1>3, SubscriptionKinds, Zenon
<1>5. hist'.failed = hist.failed
  BY <1>1, Zenon
<1>6. \A u \in DOMAIN fs'.attr : u \in hist'.failed \/ SubscriptionsOf("attr", u) \subseteq fs'.subs
  BY <1>3, <1>4, <1>5, Tracked, Zenon
<1>7. \A u \in DOMAIN fs'.loc : u \in hist'.failed \/ SubscriptionsOf("loc", u) \subseteq fs'.subs
  BY <1>3, <1>4, <1>5, Tracked, Zenon
<1> QED
  BY <1>1, <1>3, <1>6, <1>7, QuietRemembers, TrackingStep, Zenon

------------------------------------------------------------------------------

LEMMA InitIInv == Init => IInv
<1> SUFFICES ASSUME Init PROVE IInv
  BY Zenon
<1>1. Shape
  BY Zenon DEF Init, Shape, FsFields
<1>2. fs.attr = EmptyMap /\ fs.loc = EmptyMap
  BY Zenon DEF Init
<1>3. DOMAIN EmptyMap = {}
  BY Zenon DEF EmptyMap
<1> QED
  BY <1>1, <1>2, <1>3, Zenon DEF IInv, TrackedIsSubscribed

LEMMA NextIInv == IInv /\ [Next]_vars => IInv'
<1> SUFFICES ASSUME IInv, [Next]_vars PROVE IInv'
  BY Zenon
<1>1. CASE UNCHANGED vars
  BY <1>1, QuietRemembers, KeptStep, Zenon DEF vars, Kept, Same
<1>2. CASE \/ \E u \in Uuid : LocationArrives(u) \/ Reported(u)
           \/ \E fh \in Handle : TimedFlush(fh)
  BY <1>2, OutsideStep, KeptStep, ZenonT(30)
<1>3. ASSUME NEW t \in Thread, Step(t) PROVE IInv'
  <2>1. \/ MarkAttr(t) \/ PinLoc(t) \/ PinAttr(t) \/ UnpinLoc(t) \/ UnpinAttr(t) \/ TickLoc(t)
        \/ TickAttr(t) \/ RenameAttr(t) \/ Subscribe(t) \/ Unsubscribe(t)
        \/ Attr(t) \/ Location(t) \/ Await(t) \/ Relocate(t) \/ CreateCtx(t)
        \/ GrowAttr(t) \/ GrowLocation(t) \/ CutLocation(t)
        \/ Begin(t) \/ Opened(t) \/ GetHelper(t) \/ EmitOpened(t) \/ Plan(t) \/ Sync(t)
        \/ HelperCtx(t) \/ Quota(t) \/ EmitWrite(t) \/ ShRelease(t) \/ SendRelease(t)
        \/ CreateDir(t) \/ Resized(t) \/ Touched(t) \/ Granted(t) \/ Detected(t)
        \/ CreateFile(t) \/ List(t) \/ ShRead(t) \/ ShWrite(t) \/ MarkRemoved(t)
        \/ MarkRenamed(t) \/ Remap(t) \/ FileAttr(t) \/ Unforce(t) \/ QuotaExeeded(t)
        \/ AttrOfPath(t) \/ Truncate(t) \/ Delete(t) \/ Rename(t)
    BY <1>3, Zenon DEF Step
  <2> QED
    BY <2>1, MarkStep, UnpinStep, TickStep, RenameStep, PermissionStep, AskingStep, ContextStep,
       CacheStep, PathStep, KeptStep
<1> QED
  BY <1>1, <1>2, <1>3, Zenon DEF Next

\* Whatever opens, renames, expirations, failures and events cross: a file that an
\* expiration helper tracks is one the client is subscribed for (the cache() and
\* purge() callbacks of FsLogic's two helpers), unless a request about it failed.
THEOREM CachedIsSubscribed == Spec => []TrackedIsSubscribed
<1>1. IInv => TrackedIsSubscribed
  BY Zenon DEF IInv
<1> QED
  BY InitIInv, NextIInv, <1>1, PTL DEF Spec
==============================================================================
