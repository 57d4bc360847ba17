--------------------------- MODULE MCStorageHelpers ---------------------------
(***************************************************************************)
(* Six programs for one buffered file: overlapping and adjacent writes,    *)
(* reads before and after them, a write that leaves a hole, a retried      *)
(* read, a file of one block more than Swift lists; and two files of       *)
(* different users on two threads of the direct helper, with a process     *)
(* that may not take one group too.                                        *)
(***************************************************************************)
EXTENDS StorageHelpers

AllKinds == {"kv", "ceph", "proxy"}

MCPrograms ==
    {<<>>,
     <<WriteOp(1, 2), ReadOp(0, 2), WriteOp(2, 1), ReadOp(2, 2)>>,
     <<WriteOp(1, 2), WriteOp(3, 2), WriteOp(2, 1), PlainOp("flush"), PlainOp("mkdir"), PlainOp("fsync"), PlainOp("release")>>,
     <<ReadOp(0, 1), ReadOp(1, 1), WriteOp(1, 2), ReadOp(1, 1), PlainOp("release")>>,
     <<WriteOp(4, 1), WriteOp(0, 1), PlainOp("fsync"), ReadOp(3, 2)>>,
     <<WriteOp(4, 3), PlainOp("release")>>,
     <<WriteOp(0, 1), ReadOp(0, 1), ReadOp(1, 1), ReadOp(1, 1)>>}

MCUserOf == [c \in Contexts |-> IF c = "file1" THEN [uid |-> 7, gid |-> 7] ELSE [uid |-> -1, gid |-> 8]]
MCPermissions == {[uid |-> {7}, gid |-> {7, 8}], [uid |-> {7}, gid |-> {8}]}

MCFilePrograms == {<<>>, <<"open", "read", "fsync", "release">>, <<"query", "mknod", "change", "read", "open", "flush">>}
==============================================================================
