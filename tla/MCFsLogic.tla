------------------------------ MODULE MCFsLogic ------------------------------
(***************************************************************************)
(* FsLogic with the workloads that cross what the caches share: one file   *)
(* "/p" of two blocks, the first of which is on the storage, or a          *)
(* directory "/p" with one file; two FUSE threads and the thread of the    *)
(* events and of the ticks.                                                *)
(***************************************************************************)
EXTENDS FsLogic, TLC

Blank == [op |-> "", path |-> "/p", new |-> "/q", uuid |-> "", to |-> "b", fh |-> "h1",
          offset |-> 0, size |-> 1, value |-> 1, children |-> <<>>]

Do(op) == [Blank EXCEPT !.op = op]
On(fh, op) == [Do(op) EXCEPT !.fh = fh]
At2(op, offset, size) == [Do(op) EXCEPT !.offset = offset, !.size = size]
To(op, uuid) == [Do(op) EXCEPT !.uuid = uuid]
Q(op) == [Do(op) EXCEPT !.path = "/q"]
Make(op) == [Q(op) EXCEPT !.uuid = "b"]

Load(access, denied, t1, t2, ev) ==
    [access |-> access, denied |-> denied, files |-> ("/" :> "root" @@ "/p" :> "a"),
     ops |-> ("t1" :> t1 @@ "t2" :> t2 @@ "ev" :> ev)]
InDir(load) == [load EXCEPT !.files = ("/" :> "root" @@ "/p" :> "a" @@ "/p/c" :> "c")]
C(op) == [Do(op) EXCEPT !.path = "/p/c"]
Tree(op) == [op EXCEPT !.children = <<[from |-> "/p/c", old |-> "c", new |-> "d", path |-> "/q/c"]>>]

MCOrder == ("/" :> 0 @@ "/p" :> 1 @@ "/p/c" :> 2 @@ "/q" :> 3 @@ "/q/c" :> 4 @@ "/hidden" :> 5)
MCParent == ("/" :> "" @@ "/p" :> "/" @@ "/p/c" :> "/p" @@ "/q" :> "/" @@ "/q/c" :> "/q" @@ "/hidden" :> "/")

MCWorkloads ==
    { \* the storage turns out to be accessible while a file is being written
      Load("proxy", {}, <<Do("open"), At2("write", 1, 2), At2("read", 0, 3), Do("release")>>,
           <<Do("getattr")>>, <<Do("detected"), Do("tick")>>),
      \* a new file is listed, looked up and expires
      Load("proxy", {}, <<Make("create"), At2("write", 0, 1), Do("release")>>,
           <<[Do("readdir") EXCEPT !.path = "/"], Q("getattr")>>, <<Do("tick")>>),
      \* a read waits for data while the file is cut
      Load("direct", {}, <<Do("open"), At2("read", 1, 1), Do("release")>>,
           <<At2("truncate", 0, 1)>>, <<[To("fileAttr", "a") EXCEPT !.size = 0]>>),
      \* attributes change while the file is being written
      Load("proxy", {}, <<Do("open"), At2("write", 2, 1), At2("write", 0, 1), Do("release")>>, <<>>,
           <<To("chmodByOthers", "a")>>),
      \* an open file is renamed, to the same uuid or to a new one
      Load("proxy", {}, <<Do("open"), At2("write", 0, 1), Do("release")>>,
           <<Do("getattr"), To("rename", "b")>>, <<Q("getattr"), Do("tick")>>),
      Load("proxy", {}, <<Do("open"), At2("write", 0, 1), Do("release")>>,
           <<To("rename", ""), On("h2", "open")>>, <<Do("tick")>>),
      \* a directory is renamed with an open file in it, here or by others
      InDir(Load("proxy", {}, <<C("open"), Do("release")>>, <<Do("getattr"), Tree(To("rename", "b"))>>,
                 <<Do("tick")>>)),
      InDir(Load("proxy", {}, <<C("getattr"), C("open"), Do("release")>>, <<Do("getattr")>>,
                 <<Tree(To("fileRenamed", "a"))>>)),
      \* two handles of a file that is removed
      Load("proxy", {}, <<Do("open"), At2("write", 0, 1), Do("release")>>,
           <<On("h2", "open"), On("h2", "release")>>, <<To("fileRemoval", "a")>>),
      Load("proxy", {}, <<Do("open"), Do("release")>>, <<Do("unlink")>>, <<Do("tick")>>),
      \* direct access is refused and granted
      Load("direct", {"a"}, <<Do("open"), At2("write", 1, 1), At2("read", 1, 1), Do("release")>>,
           <<Do("getattr")>>, <<To("permission", "a")>>),
      \* a file is renamed by others
      Load("proxy", {}, <<Do("getattr"), Do("open"), Do("release")>>, <<Do("unlink")>>,
           <<To("fileRenamed", "a"), Do("tick")>>),
      \* the quota is exceeded; directories and nodes are made
      Load("proxy", {}, <<Do("open"), At2("write", 2, 1)>>, <<Make("mkdir"), Make("mkdir")>>,
           <<Do("exeeded")>>),
      \* refused while proxied handles switch to direct access
      Load("proxy", {"a"}, <<Do("open"), At2("write", 0, 1), At2("write", 0, 1)>>,
           <<On("h2", "open"), On("h2", "write")>>, <<Do("detected")>>),
      \* a rename to a file that was just made fails
      Load("proxy", {}, <<Make("mknod"), Q("truncate")>>, <<To("rename", "")>>, <<Q("getattr")>>) }
==============================================================================
