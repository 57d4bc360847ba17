---------------------------- MODULE DirectIOHelper ----------------------------
(***************************************************************************)
(* Files on a mounted storage (src/helpers/src/directIOHelper.cc).  Each   *)
(* operation runs on a thread that takes the identity of the file's user   *)
(* for it with setfsuid() and setfsgid(); a file context keeps a           *)
(* descriptor from open to release.  The caller of an operation waits for  *)
(* it, and gives up when its own request is interrupted (waitFor() of      *)
(* IStorageHelper.h): the operation then still runs.                       *)
(***************************************************************************)
EXTENDS Integers, FiniteSets, Sequences, HashMaps

CONSTANTS
    Threads,        \* threads of the worker service
    Contexts,       \* open files
    UserOf,         \* context -> [uid, gid] set with setUserCTX(), -1 when not set
    Permissions,    \* external: [uid, gid] with the identities a process may take, to choose from
    Descriptors,    \* external: numbers a process may open files with
    FilePrograms,   \* sequences of operations on a file
    MaxInterrupts   \* bound: waits that are interrupted

VARIABLES
    fsuser,         \* thread -> [uid, gid] of its file system accesses
    fds,            \* external: open descriptor -> the context it was opened for
    fh,             \* context -> its descriptor, -1 for none
    work,           \* thread -> the job it runs, or none
    posted,         \* jobs posted to the workers
    calls           \* the callers: operations left per context, who waits, interrupts;
                    \* and the identities that are permitted

vars == <<fsuser, fds, fh, work, posted, calls>>

Own == [uid |-> 0, gid |-> 0]

NoJob == [pc |-> "none"]

\* The number open() gives, which is free, when it succeeds.
Free == Descriptors \ DOMAIN fds
NewFd == CHOOSE d \in Free : TRUE

\* setfsuid() and setfsgid(): -1 and an identity that is not permitted change nothing.
SetTo(now, user) ==
    [uid |-> IF user.uid # -1 /\ user.uid \in calls.permitted.uid THEN user.uid ELSE now.uid,
     gid |-> IF user.gid # -1 /\ user.gid \in calls.permitted.gid THEN user.gid ELSE now.gid]

\* Variant: only the user is compared.
ValidUser(user, current) == user.uid = -1 \/ current.uid = user.uid

Valid(user, current) ==
    /\ user.uid = -1 \/ current.uid = user.uid
    /\ user.gid = -1 \/ current.gid = user.gid

\* ---------------------------------------------------------------------------- callers
Post(c) ==
    /\ c \notin calls.waiting
    /\ calls.todo[c] # <<>>
    /\ posted' = Append(posted, [ctx |-> c, op |-> Head(calls.todo[c])])
    /\ calls' = [calls EXCEPT !.waiting = @ \cup {c}]
    /\ UNCHANGED <<fsuser, fds, fh, work>>

\* waitFor() throws: fuse interrupted the request, or two seconds are over.  sh_read() and
\* sh_write() do not wait: the caller's own thread makes the calls.
Interrupted(c) ==
    /\ c \in calls.waiting
    /\ Head(calls.todo[c]) # "read"
    /\ calls.interrupts < MaxInterrupts
    /\ calls' = [calls EXCEPT !.waiting = @ \ {c}, !.todo[c] = Tail(@), !.interrupts = @ + 1]
    /\ UNCHANGED <<fsuser, fds, fh, work, posted>>

\* The callback: the caller, if it still waits, goes on.
Calls(job) ==
    IF job.ctx \in calls.waiting /\ Head(calls.todo[job.ctx]) = job.op
    THEN [calls EXCEPT !.waiting = @ \ {job.ctx}, !.todo[job.ctx] = Tail(@)]
    ELSE calls

\* The last reference to a context goes away and its destructor runs.
Destroy(c) ==
    /\ calls.todo[c] = <<>>
    /\ c \notin calls.waiting
    /\ \A i \in DOMAIN posted : posted[i].ctx # c
    /\ \A t \in Threads : work[t] # NoJob => work[t].ctx # c
    /\ fh[c] # -1
    /\ fds' = Drop(fds, fh[c])
    /\ fh' = [fh EXCEPT ![c] = -1]
    /\ UNCHANGED <<fsuser, work, posted, calls>>

\* ---------------------------------------------------------------------------- workers
At(t, pc) == work[t].pc = pc
Goes(t, pc) == work' = [work EXCEPT ![t].pc = pc]

\* m_userCTXFactory(): LinuxUserCTX.
Starts(t) ==
    /\ At(t, "none")
    /\ posted # <<>>
    /\ LET user == UserOf[Head(posted).ctx]
           now == SetTo(fsuser[t], user)
       IN /\ fsuser' = [fsuser EXCEPT ![t] = now]
          /\ work' = [work EXCEPT ![t] = [pc |-> IF Valid(user, now) THEN "act" ELSE "edom",
                                          ctx |-> Head(posted).ctx, op |-> Head(posted).op,
                                          prev |-> fsuser[t], fd |-> -1]]
    /\ posted' = Tail(posted)
    /\ UNCHANGED <<fds, fh, calls>>

Restored(t) == [fsuser EXCEPT ![t] = work[t].prev]

\* The callback runs, then ~LinuxUserCTX().
Ends(t) ==
    /\ work[t].pc \in {"edom", "done"}
    /\ calls' = Calls(work[t])
    /\ fsuser' = Restored(t)
    /\ work' = [work EXCEPT ![t] = NoJob]
    /\ UNCHANGED <<fds, fh, posted>>

Acts(t, ops) == At(t, "act") /\ work[t].op \in ops

\* One system call on a path that asks: ash_getattr(), ash_access(), ash_readlink();
\* ash_readdir() is not supported.
Queries(t) ==
    /\ Acts(t, {"query"})
    /\ Goes(t, "done")
    /\ UNCHANGED <<fsuser, fds, fh, posted, calls>>

\* ash_flush() makes no system call.
Flushes(t) ==
    /\ Acts(t, {"flush"})
    /\ Goes(t, "done")
    /\ UNCHANGED <<fsuser, fds, fh, posted, calls>>

\* ash_mknod() opens a regular file it makes, and closes it at once.
Makes(t) ==
    /\ \/ /\ Acts(t, {"mknod"})
          /\ \/ /\ Free # {}
                /\ fds' = Put(fds, NewFd, work[t].ctx)
                /\ work' = [work EXCEPT ![t].fd = NewFd, ![t].pc = "made"]
             \/ Goes(t, "done") /\ UNCHANGED fds
       \/ At(t, "made") /\ fds' = Drop(fds, work[t].fd) /\ Goes(t, "done")
    /\ UNCHANGED <<fsuser, fh, posted, calls>>

\* Calls that change a path: ash_mkdir(), ash_unlink(), ..., ash_truncate().
Changes(t) ==
    /\ Acts(t, {"change"})
    /\ Goes(t, "done")
    /\ UNCHANGED <<fsuser, fds, fh, posted, calls>>

Opens(t) ==
    /\ Acts(t, {"open"})
    /\ \/ /\ Free # {}
          /\ fds' = Put(fds, NewFd, work[t].ctx)
          /\ fh' = [fh EXCEPT ![work[t].ctx] = NewFd]
       \/ UNCHANGED <<fds, fh>>
    /\ Goes(t, "done")
    /\ UNCHANGED <<fsuser, posted, calls>>

\* sh_read(), sh_write(), ash_fsync(): on the context's descriptor, or on one of their own.
TakesFd(t) ==
    /\ Acts(t, {"read", "fsync"})
    /\ \/ /\ fh[work[t].ctx] # -1
          /\ work' = [work EXCEPT ![t].fd = fh[work[t].ctx], ![t].pc = "use"]
          /\ UNCHANGED fds
       \/ /\ fh[work[t].ctx] = -1 /\ Free # {}
          /\ work' = [work EXCEPT ![t].fd = NewFd, ![t].pc = "use"]
          /\ fds' = Put(fds, NewFd, work[t].ctx)
       \/ fh[work[t].ctx] = -1 /\ Goes(t, "done") /\ UNCHANGED fds
    /\ UNCHANGED <<fsuser, fh, posted, calls>>

\* The decision to close looks at the context again.
ClosesAfter(t) == fh[work[t].ctx] = -1

UsesFd(t) ==
    /\ At(t, "use")
    /\ fds' = IF ClosesAfter(t) THEN Drop(fds, work[t].fd) ELSE fds
    /\ Goes(t, "done")
    /\ UNCHANGED <<fsuser, fh, posted, calls>>

\* ash_release(): close, then forget.  Only a descriptor that is not open fails to close.
Closes(t) ==
    /\ Acts(t, {"release"})
    /\ fds' = Drop(fds, fh[work[t].ctx])
    /\ Goes(t, IF fh[work[t].ctx] \in {-1} \cup DOMAIN fds THEN "forget" ELSE "done")
    /\ UNCHANGED <<fsuser, fh, posted, calls>>

Forgets(t) ==
    /\ At(t, "forget")
    /\ fh' = [fh EXCEPT ![work[t].ctx] = -1]
    /\ Goes(t, "done")
    /\ UNCHANGED <<fsuser, fds, posted, calls>>

\* ------------------------------------------------------------------------ specification
Init ==
    /\ fsuser = [t \in Threads |-> Own]
    /\ fds = EmptyMap
    /\ fh = [c \in Contexts |-> -1]
    /\ work = [t \in Threads |-> NoJob]
    /\ posted = <<>>
    /\ \E todo \in [Contexts -> FilePrograms], permitted \in Permissions :
          calls = [todo |-> todo, waiting |-> {}, interrupts |-> 0, permitted |-> permitted]

Worker(t) ==
    Starts(t) \/ Ends(t) \/ Queries(t) \/ Flushes(t) \/ Makes(t) \/ Changes(t)
    \/ Opens(t) \/ TakesFd(t) \/ UsesFd(t) \/ Closes(t) \/ Forgets(t)

Next ==
    \/ \E c \in Contexts : Post(c)
    \/ \E c \in Contexts : Interrupted(c)
    \/ \E c \in Contexts : Destroy(c)
    \/ \E t \in Threads : Worker(t)

Spec == Init /\ [][Next]_vars

\* --------------------------------------------------------------------------- properties
Acting(t) == work[t].pc \in {"act", "made", "use", "forget"}

\* A system call on a file is made with the identity of the file's user, both user and group,
\* although the threads serve the files of all users in turn (LinuxUserCTX).
ActsAsUser ==
    \A t \in Threads : Acting(t) =>
        LET user == UserOf[work[t].ctx]
        IN /\ user.uid # -1 => fsuser[t].uid = user.uid
           /\ user.gid # -1 => fsuser[t].gid = user.gid

\* A thread without a job has the process's identity, so that a file with no user set is
\* accessed with it (~LinuxUserCTX).
IdleThreadsAreThemselves == \A t \in Threads : At(t, "none") => fsuser[t] = Own

\* No operation uses or closes a descriptor that is not its file's, as long as no wait was
\* interrupted: release and fsync of a file then never meet (ash_fsync, ash_release).
DescriptorsAreOwn ==
    calls.interrupts = 0 =>
        /\ \A t \in Threads : work[t].pc \in {"made", "use"} =>
              work[t].fd \in DOMAIN fds /\ fds[work[t].fd] = work[t].ctx
        /\ \A c \in Contexts :
              (fh[c] # -1 /\ \A t \in Threads : At(t, "forget") => work[t].ctx # c) =>
              fh[c] \in DOMAIN fds /\ fds[fh[c]] = c

\* When everything is over no descriptor is left open, a file never released included.
NoDescriptorLeft ==
    (/\ calls.interrupts = 0
     /\ \A c \in Contexts : calls.todo[c] = <<>> /\ fh[c] = -1
     /\ \A t \in Threads : At(t, "none")) => fds = EmptyMap
==============================================================================
