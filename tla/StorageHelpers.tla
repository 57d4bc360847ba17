---------------------------- MODULE StorageHelpers ----------------------------
(***************************************************************************)
(* The helpers StorageHelperFactory makes                                  *)
(* (src/helpers/src/storageHelperFactory.cc): Ceph, ProxyIO and the object *)
(* stores behind a BufferAgent, DirectIO without one; and the sessions the *)
(* contexts of the former keep.  A file is accessed through one helper,    *)
(* named by "helper"; the other ones rest.                                 *)
(***************************************************************************)
EXTENDS BufferAgent, StorageCalls

VARIABLE helper

allVars == <<vars, directVars, sessionVars, helper>>

\* getStorageHelper(): which names lead to a BufferAgent.
GetStorageHelper(name) == IF name = "DirectIO" THEN "direct" ELSE "buffered"

DirectRests == \A c \in Contexts : calls.todo[c] = <<>>
BufferedRests == todo = <<>> /\ kind = "ceph"
SessionsRest == context = Sessions!CreateCTX("S3")

StorageInit ==
    /\ Init
    /\ CallsInit
    /\ \/ helper = GetStorageHelper("Ceph") /\ DirectRests /\ SessionsRest
       \/ helper = GetStorageHelper("DirectIO") /\ BufferedRests /\ SessionsRest
       \/ helper = "sessions" /\ DirectRests /\ BufferedRests

StorageNext ==
    \/ helper = "buffered" /\ Next /\ UNCHANGED <<directVars, sessionVars, helper>>
    \/ helper = "direct" /\ DirectNext /\ UNCHANGED <<vars, helper>>
    \/ helper = "sessions" /\ SessionsNext /\ UNCHANGED <<vars, helper>>

\* The fairness of BufferAgent's FairSpec.
StorageSpec ==
    /\ StorageInit
    /\ [][StorageNext]_allVars
    /\ WF_vars(helper = "buffered" /\ (Fuse \/ ReadFails) /\ UNCHANGED <<directVars, sessionVars, helper>>)
    /\ WF_vars(helper = "buffered" /\ Storage /\ UNCHANGED <<directVars, sessionVars, helper>>)
    /\ WF_vars(helper = "buffered" /\ (\E t \in {"fuse", "timer"} : Timeout(t))
               /\ UNCHANGED <<directVars, sessionVars, helper>>)
    /\ WF_vars(helper = "buffered" /\ TimerConfirmed /\ UNCHANGED <<directVars, sessionVars, helper>>)
==============================================================================
