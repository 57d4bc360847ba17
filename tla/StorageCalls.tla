----------------------------- MODULE StorageCalls -----------------------------
(***************************************************************************)
(* The helpers that call a storage without a BufferAgent or below it: the  *)
(* system calls of DirectIO on mounted files, and the sessions with which  *)
(* S3, Swift and Ceph are asked (src/helpers/src/).  They share nothing.   *)
(***************************************************************************)
EXTENDS Integers, Sequences

CONSTANTS Threads, Contexts, UserOf, Permissions, Descriptors, FilePrograms, MaxInterrupts,
          Stores, Users, HelperUser, MaxRequests

\* A context is made for one opening of a file (openFile() of fsLogic.cc).
OpenedOnce(program) ==
    \A i, j \in DOMAIN program : program[i] = "open" /\ program[j] = "open" => i = j

FileOperations == {"query", "flush", "mknod", "change", "open", "read", "fsync", "release"}

ASSUME FileAssumption ==
    /\ \A program \in FilePrograms : program \in Seq(FileOperations) /\ OpenedOnce(program)
    /\ Descriptors \subseteq Nat
ASSUME StoresAssumption == Stores \subseteq {"S3", "Swift", "Ceph"}

VARIABLES fsuser, fds, fh, work, posted, calls, context, requests, made

Direct == INSTANCE DirectIOHelper

Sessions == INSTANCE HelperCTX

directVars == <<fsuser, fds, fh, work, posted, calls>>
sessionVars == <<context, requests, made>>

CallsInit == Direct!Init /\ Sessions!Init

DirectNext == Direct!Next /\ UNCHANGED sessionVars
SessionsNext == Sessions!Next /\ UNCHANGED directVars

CallsSpec == CallsInit /\ [][DirectNext \/ SessionsNext]_<<directVars, sessionVars>>

\* DirectIO acts on a file with the identity of its user, gives its threads their
\* identity back, and uses, closes and leaves behind no descriptor but those of the
\* file it works on.  S3 and Ceph are asked with the credentials of the file's context, and so
\* is Swift unless they were changed after its first request (see DirectIOHelper, HelperCTX).
SystemCallsAreOwn ==
    /\ Direct!ActsAsUser
    /\ Direct!IdleThreadsAreThemselves
    /\ Direct!DescriptorsAreOwn
    /\ Direct!NoDescriptorLeft
    /\ Sessions!RequestsAreOfTheUser
===============================================================================
