----------------------------- MODULE StorageAccess -----------------------------
(***************************************************************************)
(* Which storage helper is made for a storage, and what a test file says   *)
(* of it (src/src/storageAccessManager.cc,                                 *)
(* src/helpers/src/storageHelperFactory.cc).                               *)
(*                                                                         *)
(* What a helper finds at the place of the test file is one of             *)
(*   "match"     the content the provider wrote                            *)
(*   "mismatch"  another size or content                                   *)
(*   "missing"   ENOENT, ENOTDIR or EPERM                                  *)
(*   "denied"    EACCES                                                    *)
(*   "broken"    any other error                                           *)
(***************************************************************************)
EXTENDS Integers, Sequences, FiniteSets, FiniteSetsExt

Findings == {"match", "mismatch", "missing", "denied", "broken"}

\* getMountPoints(): FUSE mounts, the root and mounts below a directory of the system
\* (m.top is the first component of the path) are left out.
MountPoints(mounts) ==
    SelectSeq(mounts, LAMBDA m : m.type # "fuse"
                                 /\ m.top \notin {"/proc", "/dev", "/sys", "/etc", "/"})

\* getStorageHelper(name, args): all helpers but DirectIO write behind a buffer; an
\* unknown name is an error.
GetStorageHelper(name, args) ==
    IF name \in {"Ceph", "DirectIO", "ProxyIO", "AmazonS3", "Swift"}
    THEN {[name |-> name, args |-> args, buffered |-> name # "DirectIO"]} ELSE {}

\* verifyStorageTestFile(helper, testFile): the file is opened, read and released.
Decides(finding) == finding \notin {"mismatch", "missing"}

\* Where the storage may be: a directly mounted one at any of the mount points.
Places(name, args, points) == IF name = "DirectIO" THEN points ELSE <<args>>

\* verifyStorageTestFile(testFile): a directly mounted storage is searched for at
\* every mount point, up to the first one that has the file or throws.
VerifyStorageTestFile(name, args, points, found) ==
    LET places == Places(name, args, points)
        deciding == {i \in DOMAIN places : Decides(found[places[i]])}
        place == places[Min(deciding)]
    IN IF GetStorageHelper(name, args) = {} THEN [outcome |-> "broken", helper |-> {}]
       ELSE IF deciding = {} THEN [outcome |-> "none", helper |-> {}]
       ELSE IF found[place] = "match"
       THEN [outcome |-> "helper", helper |-> GetStorageHelper(name, place)]
       ELSE [outcome |-> found[place], helper |-> {}]

\* modifyStorageTestFile(): the file is opened, written, synced and released, also when
\* writing or syncing fails; how it ends is a finding, too.
ModifyStorageTestFile(fails) == IF fails THEN {"denied", "broken"} ELSE {"match"}
================================================================================
