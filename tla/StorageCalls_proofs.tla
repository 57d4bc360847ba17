------------------------- MODULE StorageCalls_proofs -------------------------
(***************************************************************************)
(* For any threads, files, users, permissions and descriptors: DirectIO    *)
(* makes its system calls with the identity of the file's user, gives a    *)
(* thread its own identity back, and uses, closes and leaves no descriptor *)
(* but the file's; S3 and Ceph are asked with the credentials of the       *)
(* file's context, Swift unless they changed after its first request.      *)
(***************************************************************************)
EXTENDS StorageCalls, TLAPS

------------------------------------------------------------------------------
(* The inductive invariant: identities.                                    *)

NoJob == Direct!NoJob
At(t, p) == work[t].pc = p

\* A thread with a job has saved its own identity in it.
Saved(j) == /\ DOMAIN j = {"pc", "ctx", "op", "prev", "fd"}
            /\ j.pc # "none" /\ j.prev = Direct!Own /\ j.ctx \in Contexts

Shape == /\ DOMAIN fsuser = Threads
         /\ DOMAIN work = Threads
         /\ \A t \in Threads : work[t] = NoJob \/ Saved(work[t])
         /\ posted \in Seq([ctx : Contexts, op : FileOperations])
         /\ fh \in [Contexts -> Int]
         /\ DOMAIN fds \subseteq Descriptors
         /\ fds \in [DOMAIN fds -> Contexts]
         /\ DOMAIN calls = {"todo", "waiting", "interrupts", "permitted"}
         /\ calls.interrupts \in Nat
         /\ calls.todo \in [Contexts -> Seq(FileOperations)]
         /\ \A c \in Contexts : c \in calls.waiting => calls.todo[c] # <<>>

\* A thread without a job has its own identity; one that is about to make a system call has
\* that of the file's user.
Identity ==
    \A t \in Threads : /\ work[t] = NoJob => fsuser[t] = Direct!Own
                       /\ Direct!Acting(t) => Direct!Valid(UserOf[work[t].ctx], fsuser[t])

------------------------------------------------------------------------------
(* The inductive invariant: descriptors, as long as callers wait.          *)

\* The caller of a job waits for it.
Awaited(j) == /\ j.ctx \in calls.waiting
              /\ calls.todo[j.ctx] # <<>>
              /\ j.op = Head(calls.todo[j.ctx])

Busy(t) == work[t] # NoJob

Jobs == /\ \A t \in Threads : Busy(t) => Awaited(work[t])
        /\ \A i \in 1..Len(posted) : Awaited(posted[i])

\* A file has one job at a time.
OneJob ==
    /\ \A t, u \in Threads : Busy(t) /\ Busy(u) /\ work[t].ctx = work[u].ctx => t = u
    /\ \A i, j \in 1..Len(posted) : posted[i].ctx = posted[j].ctx => i = j
    /\ \A t \in Threads, i \in 1..Len(posted) : Busy(t) => posted[i].ctx # work[t].ctx

\* Between close() and the assignment to fh, the descriptor of a file is not its own.
Forgetting(c) == \E t \in Threads : At(t, "forget") /\ work[t].ctx = c

Held == \A c \in Contexts :
            fh[c] # -1 /\ ~Forgetting(c) => fh[c] \in DOMAIN fds /\ fds[fh[c]] = c

\* A descriptor in use is open for the file; it is the context's or the job closes it.
Using(t) == At(t, "made") \/ At(t, "use")
Used ==
    \A t \in Threads :
        /\ Using(t) => work[t].fd \in DOMAIN fds /\ fds[work[t].fd] = work[t].ctx
        /\ At(t, "made") => work[t].fd # fh[work[t].ctx]
        /\ At(t, "use") => fh[work[t].ctx] \in {-1, work[t].fd}

\* An open descriptor is that of its context or of a job of it.
Accounted ==
    \A d \in DOMAIN fds :
        \/ fh[fds[d]] = d /\ ~Forgetting(fds[d])
        \/ \E t \in Threads : Using(t) /\ work[t].fd = d /\ work[t].ctx = fds[d]

\* An open context is not opened again.
Opened(c) == \E t \in Threads : At(t, "done") /\ work[t].ctx = c
Opens ==
    \A c \in Contexts :
        /\ OpenedOnce(calls.todo[c])
        /\ \A i \in 1..Len(calls.todo[c]) :
              fh[c] # -1 /\ calls.todo[c][i] = "open" => i = 1 /\ Opened(c)

Descriptor == Jobs /\ OneJob /\ Held /\ Used /\ Accounted /\ Opens

DirectInv == Shape /\ Identity /\ (calls.interrupts = 0 => Descriptor)

------------------------------------------------------------------------------
(* The inductive invariant: sessions.                                      *)

Credentials == Users \cup {HelperUser}

\* A session is that of the context's user; Swift's is that of an earlier one when it was kept.
Session(c, store) ==
    /\ DOMAIN c = {"store", "user", "session", "connected", "open", "kept"}
    /\ c.store = store /\ c.user \in Credentials
    /\ store = "S3" => c.session = {c.user}
    /\ store = "Swift" => \/ c.session = {} \/ c.session = {c.user}
                          \/ c.kept /\ \E u \in Credentials : c.session = {u}
    /\ store = "Ceph" /\ c.connected /\ c.open => c.session = {c.user}

\* A request to Ceph was posted with a connection.
Ready(c, store) == Session(c, store) /\ (store = "Ceph" => c.connected)

Request(r) ==
    /\ r.store \in Stores
    /\ r.own => Ready(context, r.store)
    /\ ~r.own => \E c : r.context = {c} /\ Ready(c, r.store) /\ c.user = HelperUser

SessionInv ==
    /\ context.store \in Stores /\ Session(context, context.store)
    /\ \A r \in requests : Request(r)
    /\ Sessions!RequestsAreOfTheUser

IInv == DirectInv /\ SessionInv

------------------------------------------------------------------------------
(* Sessions.                                                               *)

\* What the functions of the helpers return is a context of the same store.
LEMMA NewSession ==
    ASSUME NEW store, NEW user \in Credentials
    PROVE  Session(Sessions!Context(store, user), store) /\ Sessions!Context(store, user).user = user
BY Zenon DEF Sessions!Context, Session

LEMMA ConnectSession ==
    ASSUME NEW c, Session(c, "Ceph"), NEW reconnect \in BOOLEAN, NEW fails \in BOOLEAN
    PROVE  /\ Session(Sessions!Connect(c, reconnect, fails), "Ceph")
           /\ c.connected => Sessions!Connect(c, reconnect, fails).connected
           /\ ~fails => Sessions!Connect(c, reconnect, fails).connected
           /\ Sessions!Connect(c, reconnect, fails).user = c.user
BY Zenon DEF Sessions!Connect, Session

LEMMA AuthenticateSession ==
    ASSUME NEW c, Session(c, "Swift")
    PROVE  /\ Session(Sessions!Authenticate(c), "Swift")
           /\ Sessions!Authenticate(c).session # {}
           /\ Sessions!Authenticate(c).user = c.user
BY Zenon DEF Sessions!Authenticate, Session

LEMMA UserSession ==
    ASSUME NEW c, NEW user \in Credentials, NEW fails \in BOOLEAN
    PROVE  /\ Session(c, "S3") => Session(Sessions!S3User(c, user), "S3")
           /\ Session(c, "Swift") => Session(Sessions!SwiftUser(c, user), "Swift")
           /\ Session(c, "Ceph") => /\ Session(Sessions!CephUser(c, user, fails), "Ceph")
                                    /\ c.connected => Sessions!CephUser(c, user, fails).connected
BY Zenon DEF Session, Sessions!S3User, Sessions!SwiftUser, Sessions!CephUser, Sessions!Connect

LEMMA InitSession == Sessions!Init => SessionInv
<1> SUFFICES ASSUME Sessions!Init PROVE SessionInv
    BY Zenon
<1>1. PICK store \in Stores : context = Sessions!Context(store, HelperUser)
  BY Zenon DEF Sessions!Init, Sessions!CreateCTX
<1>2. Session(context, store)
  BY <1>1, NewSession, Zenon DEF Credentials
<1>3. requests = {} /\ made = {}
  BY Zenon DEF Sessions!Init
<1> QED
  BY <1>2, <1>3, Zenon DEF SessionInv, Session, Sessions!RequestsAreOfTheUser

\* The file's context gets another session of the same store, and stays connected.
LEMMA SessionStep ==
    ASSUME SessionInv, Session(context', context.store),
           context.store = "Ceph" /\ context.connected => context'.connected,
           NEW r \in requests
    PROVE  Request(r)'
<1>1. context'.store = context.store
  BY Zenon DEF Session
<1>2. Request(r)
  BY Zenon DEF SessionInv
<1>3. r.own => context.store = r.store
  BY <1>2, Zenon DEF Request, Ready, Session
<1>4. r.own => Ready(context', r.store)
  BY <1>2, <1>3, Zenon DEF Request, Ready
<1> QED
  BY <1>2, <1>4, Zenon DEF Request

\* setUserCTX().
LEMMA SetUserStep ==
    ASSUME SessionInv, NEW user \in Users, NEW fails \in BOOLEAN, Sessions!SetUserCTX(user, fails)
    PROVE  SessionInv'
<1>1. UNCHANGED <<requests, made>>
  BY Zenon DEF Sessions!SetUserCTX
<1>2. /\ context.store = "S3" => context' = Sessions!S3User(context, user)
      /\ context.store = "Swift" => context' = Sessions!SwiftUser(context, user)
      /\ context.store = "Ceph" => context' = Sessions!CephUser(context, user, fails)
  BY Zenon DEF Sessions!SetUserCTX
<1>3. context.store \in {"S3", "Swift", "Ceph"} /\ Session(context, context.store)
  BY StoresAssumption, Zenon DEF SessionInv
<1>4. /\ Session(context', context.store)
      /\ context.store = "Ceph" /\ context.connected => context'.connected
  BY <1>2, <1>3, UserSession, Zenon DEF Credentials
<1>5. context'.store \in Stores /\ Session(context', context'.store)
  BY <1>4, Zenon DEF Session, SessionInv
<1>6. \A r \in requests : Request(r)'
  BY <1>4, SessionStep, Zenon
<1> QED
  BY <1>1, <1>5, <1>6, Zenon DEF SessionInv, Sessions!RequestsAreOfTheUser

\* An operation is posted, with the file's context or with one of its own.
LEMMA OperationStep ==
    ASSUME SessionInv, NEW store \in Stores, NEW fails \in BOOLEAN, Sessions!Operation(store, fails)
    PROVE  SessionInv'
<1> DEFINE own == context.store = store
           given == Sessions!GetCTX(store)
           c == IF store = "Ceph" THEN Sessions!Connect(given, FALSE, fails) ELSE given
           refused == store = "Ceph" /\ fails /\ ~given.connected
<1>0. PICK new : new = [store |-> store, own |-> own, context |-> IF own THEN {} ELSE {c}]
  BY Zenon
<1>1. /\ requests' = IF refused THEN requests ELSE requests \cup {new}
      /\ context' = IF own THEN c ELSE context
      /\ made' = made
  BY <1>0, Zenon DEF Sessions!Operation
<1>2. /\ Session(given, store) /\ (own => given = context) /\ (~own => given.user = HelperUser)
  BY NewSession, Zenon DEF SessionInv, Credentials, Sessions!GetCTX, Sessions!CreateCTX
<1>3. /\ Session(c, store) /\ c.user = given.user
      /\ ~refused => Ready(c, store)
      /\ store = "Ceph" /\ given.connected => c.connected
  <2>1. CASE store = "Ceph"
    BY <1>2, <2>1, ConnectSession, Zenon DEF Ready
  <2>2. CASE store # "Ceph"
    BY <1>2, <2>2, Zenon DEF Ready
  <2> QED
    BY <2>1, <2>2, Zenon
<1> HIDE DEF c, given
<1>4. /\ Session(context', context.store) /\ context'.store \in Stores
      /\ context.store = "Ceph" /\ context.connected => context'.connected
  BY <1>1, <1>2, <1>3 DEF SessionInv, Session
<1>5. \A r \in requests : Request(r)'
  BY <1>4, SessionStep, Zenon
<1>6. ~refused => Request(new)'
  <2>1. new.store = store /\ (new.own <=> own) /\ (~own => new.context = {c})
    BY <1>0, Zenon
  <2> QED
    BY <1>1, <1>2, <1>3, <2>1, Zenon DEF Request
<1>7. \A r \in requests' : Request(r)'
  BY <1>1, <1>5, <1>6, Zenon
<1>8. context'.store \in Stores /\ Session(context', context'.store)
  BY <1>4, Zenon DEF Session
<1> QED
  BY <1>1, <1>7, <1>8, Zenon DEF SessionInv, Sessions!RequestsAreOfTheUser

\* A posted operation runs: the storage sees the user of the session.
LEMMA RunStep ==
    ASSUME SessionInv, NEW r \in requests, NEW fails \in BOOLEAN, Sessions!RunRequest(r, fails)
    PROVE  SessionInv'
<1> DEFINE given == IF r.own THEN context ELSE CHOOSE x \in r.context : TRUE
           refused == r.store = "Swift" /\ given.session = {} /\ fails
           c == IF r.store = "Swift" /\ ~fails THEN Sessions!Authenticate(given) ELSE given
           seen == [store |-> r.store, as |-> c.session, kept |-> c.kept,
                    asked |-> IF r.own THEN c.user ELSE HelperUser]
<1>1. /\ requests' = requests \ {r}
      /\ context' = IF r.own THEN c ELSE context
      /\ made' = IF refused \/ ~c.open THEN made ELSE {seen}
  BY Zenon DEF Sessions!RunRequest
<1>2. r.store \in {"S3", "Swift", "Ceph"} /\ Request(r)
  BY StoresAssumption, Zenon DEF SessionInv, Request
<1>3. Ready(given, r.store) /\ (~r.own => given.user = HelperUser)
  BY <1>2, Zenon DEF Request
<1> HIDE DEF given
<1>4. /\ Ready(c, r.store) /\ c.user = given.user
      /\ ~refused => c.session # {}  \/ r.store # "Swift"
      /\ r.store = "Ceph" => c = given
  <2>1. CASE r.store = "Swift"
    BY <1>3, <2>1, AuthenticateSession, Zenon DEF Ready
  <2>2. CASE r.store # "Swift"
    BY <1>3, <2>2, Zenon DEF Ready
  <2> QED
    BY <2>1, <2>2, Zenon
<1> HIDE DEF c
<1>5. ~(refused \/ ~c.open) =>
        \/ c.session = {seen.asked}
        \/ r.store = "Swift" /\ c.kept /\ \E u \in Credentials : c.session = {u}
  BY <1>2, <1>3, <1>4, Zenon DEF Ready, Session
<1>6. Sessions!RequestsAreOfTheUser'
  <2>1. CASE made' = made
    BY <2>1, Zenon DEF SessionInv, Sessions!RequestsAreOfTheUser
  <2>2. CASE ~(refused \/ ~c.open)
    <3>2. made' = {seen} /\ seen.store = r.store /\ seen.as = c.session /\ seen.kept = c.kept
      BY <1>1, <2>2, Zenon
    <3> HIDE DEF seen
    <3>3. \/ seen.as = {seen.asked}
          \/ seen.store = "Swift" /\ seen.kept /\ \E u \in Credentials : seen.as = {u}
      BY <1>5, <2>2, <3>2, Zenon
    <3> QED
      BY <3>2, <3>3, Zenon DEF Sessions!RequestsAreOfTheUser, Credentials
  <2> QED
    BY <1>1, <2>1, <2>2, Zenon
<1>7. /\ Session(context', context.store) /\ context'.store \in Stores
      /\ context.store = "Ceph" /\ context.connected => context'.connected
  <2>1. CASE r.own
    <3>1. context.store = r.store /\ given = context
      BY <1>2, <2>1, Zenon DEF Request, Ready, Session, given
    <3> QED
      BY <1>1, <1>4, <2>1, <3>1, Zenon DEF SessionInv, Ready, Session
  <2>2. CASE ~r.own
    BY <1>1, <2>2, Zenon DEF SessionInv
  <2> QED
    BY <2>1, <2>2, Zenon
<1>8. \A q \in requests' : Request(q)'
  BY <1>1, <1>7, SessionStep, Zenon
<1>9. context'.store \in Stores /\ Session(context', context'.store)
  BY <1>7, Zenon DEF Session
<1> QED
  BY <1>6, <1>8, <1>9, Zenon DEF SessionInv

LEMMA NextSession == SessionInv /\ Sessions!Next => SessionInv'
BY SetUserStep, OperationStep, RunStep, Zenon DEF Sessions!Next

LEMMA KeptSession == SessionInv /\ UNCHANGED sessionVars => SessionInv'
BY Zenon DEF SessionInv, sessionVars, Request, Sessions!RequestsAreOfTheUser

------------------------------------------------------------------------------
(* Jobs and descriptors.                                                   *)

LEMMA NoJobIsNone == NoJob.pc = "none"
BY Zenon DEF NoJob, Direct!NoJob
LEMMA TailFacts ==
    ASSUME NEW S, NEW s \in Seq(S), s # <<>>
    PROVE  /\ Len(s) \in Nat /\ 1 \in 1..Len(s) /\ Head(s) = s[1] /\ Head(s) \in S
           /\ Tail(s) \in Seq(S) /\ Len(Tail(s)) = Len(s) - 1 /\ Len(Tail(s)) \in Nat
           /\ \A i \in 1..Len(Tail(s)) : i + 1 \in 1..Len(s) /\ Tail(s)[i] = s[i + 1]
           /\ DOMAIN s = 1..Len(s) /\ DOMAIN Tail(s) = 1..Len(Tail(s))
OBVIOUS

\* open() gives a number that is free.
LEMMA NewFdFacts ==
    ASSUME Direct!Free # {}
    PROVE  Direct!NewFd \in Descriptors /\ Direct!NewFd \notin DOMAIN fds /\ Direct!NewFd # -1
<1>1. Direct!NewFd \in Direct!Free
  BY Zenon DEF Direct!NewFd
<1>2. Direct!NewFd \in Descriptors /\ Direct!NewFd \notin DOMAIN fds
  BY <1>1, Zenon DEF Direct!Free
<1> QED
  BY <1>2, FileAssumption

\* A file with a job: what the invariant says of it.
FileOf(c, h, j) ==
    /\ h # -1 /\ j.pc # "forget" => h \in DOMAIN fds /\ fds[h] = c
    /\ j.pc \in {"made", "use"} => j.fd \in DOMAIN fds /\ fds[j.fd] = c
    /\ j.pc = "made" => j.fd # h
    /\ j.pc = "use" => h \in {-1, j.fd}
    /\ \A d \in DOMAIN fds : fds[d] = c => \/ h = d /\ j.pc # "forget"
                                           \/ j.pc \in {"made", "use"} /\ j.fd = d
    /\ \A i \in 1..Len(calls.todo[c]) : h # -1 /\ calls.todo[c][i] = "open" => i = 1 /\ j.pc = "done"

LEMMA JobIsAlone ==
    ASSUME Shape, OneJob, NEW t \in Threads, Busy(t)
    PROVE  /\ \A u \in Threads \ {t} : Busy(u) => work[u].ctx # work[t].ctx
           /\ \A u \in Threads, p \in {"forget", "made", "use", "done"} : At(u, p) => Busy(u)
           /\ \A p \in {"forget", "made", "use", "done"} :
                 \A u \in Threads : At(u, p) /\ work[u].ctx = work[t].ctx => u = t
           /\ Forgetting(work[t].ctx) <=> At(t, "forget")
           /\ Opened(work[t].ctx) <=> At(t, "done")
<1>1. \A u \in Threads \ {t} : Busy(u) => work[u].ctx # work[t].ctx
  BY Zenon DEF OneJob
<1>2. \A u \in Threads, p \in {"forget", "made", "use", "done"} : At(u, p) => Busy(u)
  BY NoJobIsNone, Zenon DEF At, Busy
<1>3. \A p \in {"forget", "made", "use", "done"} :
         \A u \in Threads : At(u, p) /\ work[u].ctx = work[t].ctx => u = t
  BY <1>1, <1>2, Zenon
<1> QED
  BY <1>1, <1>2, <1>3, Zenon DEF Forgetting, Opened

LEMMA FileBefore ==
    ASSUME Shape, Descriptor, NEW t \in Threads, Busy(t)
    PROVE  FileOf(work[t].ctx, fh[work[t].ctx], work[t])
<1> DEFINE c == work[t].ctx
<1>1. c \in Contexts
  BY Zenon DEF Shape, Busy, Saved
<1>2. OneJob
  BY Zenon DEF Descriptor
<1>3. /\ \A p \in {"forget", "made", "use", "done"} :
                 \A u \in Threads : At(u, p) /\ work[u].ctx = c => u = t
      /\ Forgetting(c) <=> At(t, "forget")
      /\ Opened(c) <=> At(t, "done")
  BY <1>2, JobIsAlone, Zenon
<1>4. fh[c] # -1 /\ work[t].pc # "forget" => fh[c] \in DOMAIN fds /\ fds[fh[c]] = c
  BY <1>1, <1>3, Zenon DEF Descriptor, Held, At
<1>5. /\ work[t].pc \in {"made", "use"} => work[t].fd \in DOMAIN fds /\ fds[work[t].fd] = c
      /\ work[t].pc = "made" => work[t].fd # fh[c]
      /\ work[t].pc = "use" => fh[c] \in {-1, work[t].fd}
  BY Zenon DEF Descriptor, Used, Using, At
<1>6. ASSUME NEW d \in DOMAIN fds, fds[d] = c
      PROVE  \/ fh[c] = d /\ work[t].pc # "forget"
             \/ work[t].pc \in {"made", "use"} /\ work[t].fd = d
  <2>1. CASE fh[c] = d /\ ~Forgetting(c)
    BY <1>3, <2>1, Zenon DEF At
  <2>2. ASSUME NEW u \in Threads, Using(u), work[u].fd = d, work[u].ctx = c
        PROVE  work[t].pc \in {"made", "use"} /\ work[t].fd = d
    <3>1. u = t
      BY <1>3, <2>2, Zenon DEF Using
    <3> QED
      BY <2>2, <3>1, Zenon DEF Using, At
  <2> QED
    BY <1>6, <2>1, <2>2, Zenon DEF Descriptor, Accounted
<1>7. \A i \in 1..Len(calls.todo[c]) :
          fh[c] # -1 /\ calls.todo[c][i] = "open" => i = 1 /\ work[t].pc = "done"
  BY <1>1, <1>3, Zenon DEF Descriptor, Opens, At
<1> QED
  BY <1>4, <1>5, <1>6, <1>7, Zenon DEF FileOf

\* The descriptors of files other than c stay.
OthersKept(c) ==
    /\ \A d \in DOMAIN fds : fds[d] # c => d \in DOMAIN fds' /\ fds'[d] = fds[d]
    /\ \A d \in DOMAIN fds' : fds'[d] # c => d \in DOMAIN fds /\ fds'[d] = fds[d]

\* A step of a job changes the context and the descriptors of its file only.
LEMMA FileStep ==
    ASSUME Shape, Descriptor, NEW t \in Threads, Busy(t), NEW c, c = work[t].ctx,
           NEW j, NEW h, Saved(j), j.ctx = c, UNCHANGED calls,
           work' = [work EXCEPT ![t] = j], fh' = [fh EXCEPT ![c] = h],
           OthersKept(c), FileOf(c, h, j)'
    PROVE  Held' /\ Used' /\ Accounted' /\ Opens'
<1>0. /\ \A d \in DOMAIN fds : fds[d] # c => d \in DOMAIN fds' /\ fds'[d] = fds[d]
      /\ \A d \in DOMAIN fds' : fds'[d] # c => d \in DOMAIN fds /\ fds'[d] = fds[d]
  BY Zenon DEF OthersKept
<1>1. /\ c \in Contexts /\ fh'[c] = h /\ \A x \in Contexts \ {c} : fh'[x] = fh[x]
      /\ work'[t] = j /\ \A u \in Threads \ {t} : work'[u] = work[u]
  BY Zenon DEF Shape, Busy, Saved
<1>2. /\ \A u \in Threads \ {t} : Busy(u) => work[u].ctx # c /\ work[u].ctx \in Contexts
      /\ \A u \in Threads, p \in {"forget", "made", "use", "done"} : At(u, p) => Busy(u)
  <2>1. OneJob
    BY Zenon DEF Descriptor
  <2>2. /\ \A u \in Threads \ {t} : Busy(u) => work[u].ctx # work[t].ctx
        /\ \A u \in Threads, p \in {"forget", "made", "use", "done"} : At(u, p) => Busy(u)
    BY <2>1, JobIsAlone, Zenon
  <2> QED
    BY <2>2, Zenon DEF Shape, Busy, Saved
<1>3. /\ \A x \in Contexts \ {c} : /\ Forgetting(x)' <=> Forgetting(x)
                                   /\ Opened(x) => Opened(x)'
      /\ Forgetting(c)' <=> j.pc = "forget"
      /\ j.pc = "done" => Opened(c)'
  <2>1. \A u \in Threads \ {t}, p \in {"forget", "made", "use", "done"} : At(u, p)' <=> At(u, p)
    BY <1>1, Zenon DEF At
  <2>2. \A p : At(t, p)' <=> j.pc = p
    BY <1>1, Zenon DEF At
  <2> QED
    BY <1>1, <1>2, <2>1, <2>2 DEF Forgetting, Opened
<1>4. Held'
  <2>1. ASSUME NEW x \in Contexts \ {c}, fh'[x] # -1, ~Forgetting(x)'
        PROVE  fh'[x] \in DOMAIN fds' /\ fds'[fh'[x]] = x
    <3>1. fh[x] \in DOMAIN fds /\ fds[fh[x]] = x
      BY <1>1, <1>3, <2>1, Zenon DEF Descriptor, Held
    <3> QED
      BY <1>0, <1>1, <3>1, Zenon
  <2>2. h # -1 /\ ~Forgetting(c)' => h \in DOMAIN fds' /\ fds'[h] = c
    BY <1>3, Zenon DEF FileOf
  <2> QED
    BY <1>1, <2>1, <2>2, Zenon DEF Held
<1>5. Used'
  <2>1. ASSUME NEW u \in Threads \ {t}
        PROVE  /\ Using(u)' => work'[u].fd \in DOMAIN fds' /\ fds'[work'[u].fd] = work'[u].ctx
               /\ At(u, "made")' => work'[u].fd # fh'[work'[u].ctx]
               /\ At(u, "use")' => fh'[work'[u].ctx] \in {-1, work'[u].fd}
    <3>1. work'[u] = work[u] /\ (Using(u)' <=> Using(u)) /\ (Using(u) => Busy(u))
          /\ (At(u, "made")' <=> At(u, "made")) /\ (At(u, "use")' <=> At(u, "use"))
      BY <1>1, <1>2, Zenon DEF Using, At
    <3>2. Using(u) => fh'[work[u].ctx] = fh[work[u].ctx] /\ work[u].ctx # c
      BY <1>1, <1>2, <3>1, Zenon
    <3>3. Using(u) => work'[u].fd \in DOMAIN fds' /\ fds'[work'[u].fd] = work'[u].ctx
      BY <1>0, <3>1, <3>2 DEF Descriptor, Used
    <3> QED
      BY <3>1, <3>2, <3>3 DEF Descriptor, Used, Using
  <2>2. /\ Using(t)' => j.fd \in DOMAIN fds' /\ fds'[j.fd] = c
        /\ At(t, "made")' => j.fd # h
        /\ At(t, "use")' => h \in {-1, j.fd}
    BY <1>1, Zenon DEF FileOf, Using, At
  <2> QED
    BY <1>1, <2>1, <2>2 DEF Used
<1>6. Accounted'
  <2> SUFFICES ASSUME NEW d \in DOMAIN fds', NEW x, x = fds'[d]
               PROVE  \/ fh'[x] = d /\ ~Forgetting(x)'
                      \/ \E u \in Threads : Using(u)' /\ work'[u].fd = d /\ work'[u].ctx = x
    BY DEF Accounted
  <2>1. CASE x = c
    BY <1>1, <1>3, <2>1, Zenon DEF FileOf, Using, At
  <2>2. CASE x # c
    <3>1. d \in DOMAIN fds /\ fds[d] = x /\ x \in Contexts
      BY <1>0, <2>2, Zenon DEF Shape
    <3>2. CASE fh[x] = d /\ ~Forgetting(x)
      BY <1>1, <1>3, <2>2, <3>1, <3>2, Zenon
    <3>3. ASSUME NEW u \in Threads, Using(u), work[u].fd = d, work[u].ctx = x
          PROVE  Using(u)' /\ work'[u].fd = d /\ work'[u].ctx = x
      BY <1>1, <2>2, <3>3, Zenon DEF Using, At
    <3> QED
      BY <3>1, <3>2, <3>3 DEF Descriptor, Accounted
  <2> QED
    BY <2>1, <2>2, Zenon
<1>7. Opens'
  <2>1. ASSUME NEW x \in Contexts \ {c}
        PROVE  \A i \in 1..Len(calls.todo[x]) :
                  fh'[x] # -1 /\ calls.todo[x][i] = "open" => i = 1 /\ Opened(x)'
    BY <1>1, <1>3, Zenon DEF Descriptor, Opens
  <2>2. \A i \in 1..Len(calls.todo[c]) : h # -1 /\ calls.todo[c][i] = "open" => i = 1 /\ Opened(c)'
    BY <1>3, Zenon DEF FileOf
  <2>3. \A x \in Contexts : OpenedOnce(calls.todo[x])
    BY Zenon DEF Descriptor, Opens
  <2> QED
    BY <1>1, <2>1, <2>2, <2>3, Zenon DEF Opens
<1> QED
  BY <1>4, <1>5, <1>6, <1>7, Zenon

\* A step of thread t's job, which becomes j, and sets the descriptor of its file to h.
JobMoves(t, c, j, h) ==
    /\ Direct!Acting(t) /\ c = work[t].ctx
    /\ Saved(j) /\ j.ctx = c /\ j.op = work[t].op
    /\ work' = [work EXCEPT ![t] = j]
    /\ h \in Int /\ fh' = [fh EXCEPT ![c] = h]
    /\ fds' \in [DOMAIN fds' -> Contexts] /\ DOMAIN fds' \subseteq Descriptors
    /\ UNCHANGED <<fsuser, posted, calls>>

\* The whole invariant after a step of a job.
LEMMA JobStep ==
    ASSUME DirectInv, NEW t \in Threads, NEW c, NEW j, NEW h, JobMoves(t, c, j, h),
           calls.interrupts = 0 => OthersKept(c) /\ FileOf(c, h, j)'
    PROVE  DirectInv'
<1>0. /\ Direct!Acting(t) /\ c = work[t].ctx
      /\ Saved(j) /\ j.ctx = c /\ j.op = work[t].op
      /\ work' = [work EXCEPT ![t] = j]
      /\ h \in Int /\ fh' = [fh EXCEPT ![c] = h]
      /\ fds' \in [DOMAIN fds' -> Contexts] /\ DOMAIN fds' \subseteq Descriptors
      /\ fsuser' = fsuser /\ posted' = posted /\ calls' = calls
  BY Zenon DEF JobMoves
<1>1. Shape /\ Identity /\ Busy(t)
  BY <1>0, NoJobIsNone, Zenon DEF DirectInv, Direct!Acting, Busy
<1>2. work'[t] = j /\ \A u \in Threads \ {t} : work'[u] = work[u]
  BY <1>0, <1>1, Zenon DEF Shape
<1>3. Shape'
  <2>1. /\ DOMAIN work' = Threads /\ fh' \in [Contexts -> Int]
        /\ \A u \in Threads : work'[u] = NoJob \/ Saved(work'[u])
    BY <1>0, <1>1, <1>2, Zenon DEF Shape
  <2> QED
    BY <1>0, <1>1, <2>1, Zenon DEF Shape
<1>4. Identity'
  BY <1>0, <1>1, <1>2, NoJobIsNone DEF Identity, Direct!Acting, Saved
<1>5. ASSUME calls.interrupts = 0
      PROVE  Descriptor'
  <2>1. Descriptor
    BY <1>5, Zenon DEF DirectInv
  <2>2. \A u \in Threads : Busy(u)' => Busy(u) /\ work'[u].ctx = work[u].ctx /\ work'[u].op = work[u].op
    BY <1>0, <1>1, <1>2, Zenon DEF Busy
  <2>3. Jobs'
    BY <1>0, <2>1, <2>2 DEF Descriptor, Jobs, Awaited
  <2>4. OneJob'
    BY <1>0, <2>1, <2>2 DEF Descriptor, OneJob
  <2>5. Held' /\ Used' /\ Accounted' /\ Opens'
    BY <1>0, <1>1, <1>5, <2>1, FileStep, Zenon
  <2> QED
    BY <2>3, <2>4, <2>5, Zenon DEF Descriptor
<1> QED
  BY <1>0, <1>3, <1>4, <1>5, Zenon DEF DirectInv

\* The changes of descriptors: none, a new one for the file, one of the file closed.
LEMMA SameFds ==
    ASSUME Shape, NEW c, fds' = fds
    PROVE  fds' \in [DOMAIN fds' -> Contexts] /\ DOMAIN fds' \subseteq Descriptors /\ OthersKept(c)
BY Zenon DEF Shape, OthersKept

LEMMA MoreFds ==
    ASSUME Shape, NEW c \in Contexts, Direct!Free # {}, fds' = Direct!Put(fds, Direct!NewFd, c)
    PROVE  /\ fds' \in [DOMAIN fds' -> Contexts] /\ DOMAIN fds' \subseteq Descriptors
           /\ OthersKept(c)
           /\ DOMAIN fds' = DOMAIN fds \cup {Direct!NewFd} /\ fds'[Direct!NewFd] = c
           /\ \A d \in DOMAIN fds : fds'[d] = fds[d]
           /\ Direct!NewFd \in Descriptors /\ Direct!NewFd \notin DOMAIN fds /\ Direct!NewFd # -1
           /\ Direct!NewFd \in Int
<1>1. Direct!NewFd \in Descriptors /\ Direct!NewFd \notin DOMAIN fds /\ Direct!NewFd # -1
  BY NewFdFacts, Zenon
<1>2. PICK n : n = Direct!NewFd
  BY Zenon
<1>3. /\ DOMAIN fds' = DOMAIN fds \cup {n} /\ fds' = [x \in DOMAIN fds \cup {n} |-> fds'[x]]
      /\ fds'[n] = c /\ \A d \in DOMAIN fds : d # n => fds'[d] = fds[d]
  <2>1. PICK f, g : f = fds /\ g = fds'
    BY Zenon
  <2>2. g = Direct!Put(f, n, c)
    BY <1>2, <2>1, Zenon
  <2>3. /\ DOMAIN g = DOMAIN f \cup {n} /\ g = [x \in DOMAIN f \cup {n} |-> g[x]]
        /\ g[n] = c /\ \A d \in DOMAIN f : d # n => g[d] = f[d]
    BY <2>2, Zenon DEF Direct!Put
  <2> QED
    BY <2>1, <2>3, Zenon
<1>4. n \in Int
  BY <1>1, <1>2, FileAssumption
<1>5. DOMAIN fds' \subseteq Descriptors
  BY <1>1, <1>2, <1>3, Zenon DEF Shape
<1>6. \A d \in DOMAIN fds' : fds'[d] \in Contexts
  BY <1>1, <1>2, <1>3 DEF Shape
<1>7. \A d \in DOMAIN fds : fds'[d] = fds[d]
  BY <1>1, <1>2, <1>3, Zenon
<1>8. OthersKept(c)
  BY <1>3, <1>7, Zenon DEF OthersKept
<1>9. fds' \in [DOMAIN fds' -> Contexts]
  BY <1>3, <1>6, Zenon
<1> QED
  BY <1>1, <1>2, <1>3, <1>4, <1>5, <1>7, <1>8, <1>9, Zenon

LEMMA FewerFds ==
    ASSUME Shape, NEW k, fds' = Direct!Drop(fds, k)
    PROVE  /\ fds' \in [DOMAIN fds' -> Contexts] /\ DOMAIN fds' \subseteq Descriptors
           /\ DOMAIN fds' = (DOMAIN fds) \ {k}
           /\ \A d \in DOMAIN fds' : fds'[d] = fds[d]
           /\ \A c : (k \in DOMAIN fds => fds[k] = c) => OthersKept(c)
<1>1. /\ DOMAIN fds' = (DOMAIN fds) \ {k} /\ fds' = [x \in (DOMAIN fds) \ {k} |-> fds'[x]]
      /\ \A d \in DOMAIN fds : d # k => fds'[d] = fds[d]
  <2>1. PICK f, g : f = fds /\ g = fds'
    BY Zenon
  <2>2. g = Direct!Drop(f, k)
    BY <2>1, Zenon
  <2>3. /\ DOMAIN g = (DOMAIN f) \ {k} /\ g = [x \in (DOMAIN f) \ {k} |-> g[x]]
        /\ \A d \in DOMAIN f : d # k => g[d] = f[d]
    BY <2>2, Zenon DEF Direct!Drop, Direct!Restrict
  <2> QED
    BY <2>1, <2>3, Zenon
<1> QED
  BY <1>1, Zenon DEF Shape, OthersKept

\* A job goes on without a system call that matters to descriptors, or after one that failed.
LEMMA GoesOn ==
    ASSUME DirectInv, NEW t \in Threads, At(t, "act"), work' = [work EXCEPT ![t].pc = "done"],
           UNCHANGED <<fsuser, fds, fh, posted, calls>>
    PROVE  DirectInv'
<1>1. Shape /\ Direct!Acting(t)
  BY Zenon DEF DirectInv, Direct!Acting, At
<1>2. PICK c, j, h : c = work[t].ctx /\ h = fh[c] /\ j = [work[t] EXCEPT !.fd = work[t].fd, !.pc = "done"]
  BY Zenon
<1>3. Busy(t) /\ Saved(work[t])
  BY <1>1, NoJobIsNone, Zenon DEF Shape, Direct!Acting, Busy
<1>4. /\ work' = [work EXCEPT ![t] = j]
      /\ h \in Int /\ fh' = [fh EXCEPT ![c] = h]
      /\ fsuser' = fsuser /\ posted' = posted /\ calls' = calls /\ fds' = fds
  BY <1>1, <1>2, <1>3, Zenon DEF Shape, Saved
<1>5. fds' \in [DOMAIN fds' -> Contexts] /\ DOMAIN fds' \subseteq Descriptors /\ OthersKept(c)
  BY <1>1, <1>4, SameFds, Zenon
<1>6. JobMoves(t, c, j, h) /\ j.pc = "done"
  <2>1. Saved(j) /\ j.ctx = c /\ j.op = work[t].op /\ j.pc = "done"
    BY <1>2, <1>3, Zenon DEF Saved
  <2> QED
    BY <1>1, <1>2, <1>4, <1>5, <2>1, Zenon DEF JobMoves
<1>7. ASSUME calls.interrupts = 0
      PROVE  FileOf(c, h, j)'
  <2>1. FileOf(c, h, work[t])
    BY <1>1, <1>2, <1>3, <1>7, FileBefore, Zenon DEF DirectInv
  <2> QED
    BY <1>4, <1>6, <2>1, Zenon DEF FileOf, At
<1> QED
  BY <1>5, <1>6, <1>7, JobStep, Zenon

\* A job opens a descriptor for itself.
LEMMA OpensForItself ==
    ASSUME DirectInv, NEW t \in Threads, At(t, "act"), Direct!Free # {}, NEW p \in {"made", "use"},
           p = "use" => fh[work[t].ctx] = -1,
           work' = [work EXCEPT ![t].fd = Direct!NewFd, ![t].pc = p],
           fds' = Direct!Put(fds, Direct!NewFd, work[t].ctx),
           UNCHANGED <<fsuser, fh, posted, calls>>
    PROVE  DirectInv'
<1>1. Shape /\ Direct!Acting(t)
  BY Zenon DEF DirectInv, Direct!Acting, At
<1>2. PICK c, n, j, h : /\ c = work[t].ctx /\ n = Direct!NewFd /\ h = fh[c]
                        /\ j = [work[t] EXCEPT !.fd = n, !.pc = p]
  BY Zenon
<1>3. Busy(t) /\ Saved(work[t]) /\ c \in Contexts
  BY <1>1, <1>2, NoJobIsNone, Zenon DEF Shape, Direct!Acting, Busy, Saved
<1>4. /\ work' = [work EXCEPT ![t] = j]
      /\ h \in Int /\ fh' = [fh EXCEPT ![c] = h]
      /\ fsuser' = fsuser /\ posted' = posted /\ calls' = calls
  BY <1>1, <1>2, <1>3, Zenon DEF Shape, Saved
<1>5. /\ fds' \in [DOMAIN fds' -> Contexts] /\ DOMAIN fds' \subseteq Descriptors /\ OthersKept(c)
      /\ DOMAIN fds' = DOMAIN fds \cup {n} /\ fds'[n] = c /\ \A d \in DOMAIN fds : fds'[d] = fds[d]
      /\ n \notin DOMAIN fds /\ n # -1
  BY <1>1, <1>2, <1>3, MoreFds, Zenon
<1>6. JobMoves(t, c, j, h) /\ j.pc = p /\ j.fd = n
  <2>1. Saved(j) /\ j.ctx = c /\ j.op = work[t].op /\ j.pc = p /\ j.fd = n
    BY <1>2, <1>3, ZenonT(30) DEF Saved
  <2> QED
    BY <1>1, <1>2, <1>4, <1>5, <2>1, Zenon DEF JobMoves
<1>7. ASSUME calls.interrupts = 0
      PROVE  FileOf(c, h, j)'
  <2>1. FileOf(c, h, work[t]) /\ work[t].pc = "act"
    BY <1>1, <1>2, <1>3, <1>7, FileBefore, Zenon DEF DirectInv, At
  <2>2. h # -1 => h \in DOMAIN fds /\ fds[h] = c
    BY <2>1, Zenon DEF FileOf
  <2>3. \A d \in DOMAIN fds : fds[d] = c => h = d
    BY <2>1, Zenon DEF FileOf
  <2>4. \A i \in 1..Len(calls.todo[c]) : ~(h # -1 /\ calls.todo[c][i] = "open")
    BY <2>1, Zenon DEF FileOf
  <2> QED
    BY <1>2, <1>4, <1>5, <1>6, <2>2, <2>3, <2>4 DEF FileOf
<1> QED
  BY <1>5, <1>6, <1>7, JobStep, Zenon

\* A job closes its descriptor, or that of its context.
LEMMA ClosesOne ==
    ASSUME DirectInv, NEW t \in Threads, NEW k, NEW p \in {"done", "forget"},
           \/ At(t, "made") /\ k = work[t].fd /\ p = "done"
           \/ At(t, "use") /\ k = work[t].fd /\ p = "done" /\ fh[work[t].ctx] = -1
           \/ At(t, "act") /\ k = fh[work[t].ctx]
              /\ p = IF k \in {-1} \cup DOMAIN fds THEN "forget" ELSE "done",
           work' = [work EXCEPT ![t].pc = p], fds' = Direct!Drop(fds, k),
           UNCHANGED <<fsuser, fh, posted, calls>>
    PROVE  DirectInv'
<1>1. Shape /\ Direct!Acting(t)
  BY Zenon DEF DirectInv, Direct!Acting, At
<1>2. PICK c, j, h : c = work[t].ctx /\ h = fh[c] /\ j = [work[t] EXCEPT !.fd = work[t].fd, !.pc = p]
  BY Zenon
<1>3. Busy(t) /\ Saved(work[t]) /\ c \in Contexts
  BY <1>1, <1>2, NoJobIsNone, Zenon DEF Shape, Direct!Acting, Busy, Saved
<1>4. /\ work' = [work EXCEPT ![t] = j]
      /\ h \in Int /\ fh' = [fh EXCEPT ![c] = h]
      /\ fsuser' = fsuser /\ posted' = posted /\ calls' = calls
  BY <1>1, <1>2, <1>3, Zenon DEF Shape, Saved
<1>5. /\ fds' \in [DOMAIN fds' -> Contexts] /\ DOMAIN fds' \subseteq Descriptors
      /\ DOMAIN fds' = (DOMAIN fds) \ {k} /\ \A d \in DOMAIN fds' : fds'[d] = fds[d]
      /\ (k \in DOMAIN fds => fds[k] = c) => OthersKept(c)
  BY <1>1, FewerFds, Zenon
<1>6. JobMoves(t, c, j, h) /\ j.pc = p
  <2>1. Saved(j) /\ j.ctx = c /\ j.op = work[t].op /\ j.pc = p
    BY <1>2, <1>3, Zenon DEF Saved
  <2> QED
    BY <1>1, <1>2, <1>4, <1>5, <2>1, Zenon DEF JobMoves
<1>7. ASSUME calls.interrupts = 0
      PROVE  OthersKept(c) /\ FileOf(c, h, j)'
  <2>1. FileOf(c, h, work[t])
    BY <1>1, <1>2, <1>3, <1>7, FileBefore, Zenon DEF DirectInv
  <2>2. -1 \notin DOMAIN fds
    BY <1>1, FileAssumption DEF Shape
  <2>3. k \in DOMAIN fds => fds[k] = c
    BY <1>2, <2>1, <2>2, Zenon DEF FileOf, At
  <2>4. \A i \in 1..Len(calls.todo[c]) : ~(h # -1 /\ calls.todo[c][i] = "open")
    BY <2>1, Zenon DEF FileOf, At
  <2>5. /\ p = "done" /\ h # -1 => h \in DOMAIN fds /\ fds[h] = c /\ h # k
        /\ \A d \in DOMAIN fds : fds[d] = c /\ d # k => h = d /\ p = "done"
    BY <1>2, <2>1, <2>2, Zenon DEF FileOf, At
  <2>6. FileOf(c, h, j)'
    BY <1>4, <1>5, <1>6, <2>4, <2>5, Zenon DEF FileOf
  <2> QED
    BY <1>5, <2>3, <2>6, Zenon
<1> QED
  BY <1>6, <1>7, JobStep, Zenon

\* A job goes on with or forgets the descriptor of its context.
LEMMA KeepsFds ==
    ASSUME DirectInv, NEW t \in Threads, NEW fd, NEW p, NEW h,
           \/ At(t, "act") /\ h = fh[work[t].ctx] /\ h # -1 /\ fd = h /\ p = "use"
           \/ At(t, "use") /\ h = fh[work[t].ctx] /\ h # -1 /\ fd = work[t].fd /\ p = "done"
           \/ At(t, "forget") /\ h = -1 /\ fd = work[t].fd /\ p = "done",
           work' = [work EXCEPT ![t].fd = fd, ![t].pc = p], fh' = [fh EXCEPT ![work[t].ctx] = h],
           UNCHANGED <<fsuser, fds, posted, calls>>
    PROVE  DirectInv'
<1>1. Shape /\ Direct!Acting(t)
  BY Zenon DEF DirectInv, Direct!Acting, At
<1>2. PICK c, j : c = work[t].ctx /\ j = [work[t] EXCEPT !.fd = fd, !.pc = p]
  BY Zenon
<1>3. Busy(t) /\ Saved(work[t]) /\ c \in Contexts
  BY <1>1, <1>2, NoJobIsNone, Zenon DEF Shape, Direct!Acting, Busy, Saved
<1>4. /\ work' = [work EXCEPT ![t] = j]
      /\ h \in Int /\ fh' = [fh EXCEPT ![c] = h]
      /\ fsuser' = fsuser /\ posted' = posted /\ calls' = calls /\ fds' = fds
  <2>1. h \in Int
    BY <1>1, <1>2, <1>3 DEF Shape
  <2>2. work' = [work EXCEPT ![t] = j]
    BY <1>1, <1>2, <1>3, Zenon DEF Shape, Saved
  <2> QED
    BY <1>2, <2>1, <2>2, Zenon
<1>5. fds' \in [DOMAIN fds' -> Contexts] /\ DOMAIN fds' \subseteq Descriptors /\ OthersKept(c)
  BY <1>1, <1>4, SameFds, Zenon
<1>6. JobMoves(t, c, j, h) /\ j.pc = p /\ j.fd = fd
  <2>1. Saved(j) /\ j.ctx = c /\ j.op = work[t].op /\ j.pc = p /\ j.fd = fd
    BY <1>2, <1>3, Zenon DEF Saved
  <2> QED
    BY <1>1, <1>2, <1>4, <1>5, <2>1, Zenon DEF JobMoves
<1>7. ASSUME calls.interrupts = 0
      PROVE  FileOf(c, h, j)'
  <2>1. FileOf(c, fh[c], work[t])
    BY <1>1, <1>2, <1>3, <1>7, FileBefore, Zenon DEF DirectInv
  <2>2. -1 \notin DOMAIN fds
    BY <1>1, FileAssumption DEF Shape
  <2> QED
    BY <1>2, <1>4, <1>6, <2>1, <2>2 DEF FileOf, At
<1> QED
  BY <1>5, <1>6, <1>7, JobStep, Zenon

\* open() for the context, which has no descriptor: its program opens it once.
LEMMA OpensFile ==
    ASSUME DirectInv, NEW t \in Threads, At(t, "act"), work[t].op = "open", Direct!Free # {},
           fds' = Direct!Put(fds, Direct!NewFd, work[t].ctx),
           fh' = [fh EXCEPT ![work[t].ctx] = Direct!NewFd],
           work' = [work EXCEPT ![t].pc = "done"],
           UNCHANGED <<fsuser, posted, calls>>
    PROVE  DirectInv'
<1>1. Shape /\ Direct!Acting(t)
  BY Zenon DEF DirectInv, Direct!Acting, At
<1>2. PICK c, n, j : /\ c = work[t].ctx /\ n = Direct!NewFd
                     /\ j = [work[t] EXCEPT !.fd = work[t].fd, !.pc = "done"]
  BY Zenon
<1>3. Busy(t) /\ Saved(work[t]) /\ c \in Contexts
  BY <1>1, <1>2, NoJobIsNone, Zenon DEF Shape, Direct!Acting, Busy, Saved
<1>4. /\ fds' \in [DOMAIN fds' -> Contexts] /\ DOMAIN fds' \subseteq Descriptors /\ OthersKept(c)
      /\ DOMAIN fds' = DOMAIN fds \cup {n} /\ fds'[n] = c /\ \A d \in DOMAIN fds : fds'[d] = fds[d]
      /\ n \notin DOMAIN fds /\ n # -1 /\ n \in Int
  BY <1>1, <1>2, <1>3, MoreFds, Zenon
<1>5. /\ work' = [work EXCEPT ![t] = j] /\ fh' = [fh EXCEPT ![c] = n]
      /\ fsuser' = fsuser /\ posted' = posted /\ calls' = calls
  BY <1>1, <1>2, <1>3, Zenon DEF Shape, Saved
<1>6. JobMoves(t, c, j, n) /\ j.pc = "done"
  <2>1. Saved(j) /\ j.ctx = c /\ j.op = work[t].op /\ j.pc = "done"
    BY <1>2, <1>3, Zenon DEF Saved
  <2> QED
    BY <1>1, <1>2, <1>4, <1>5, <2>1, Zenon DEF JobMoves
<1>7. ASSUME calls.interrupts = 0
      PROVE  FileOf(c, n, j)'
  <2>1. Descriptor
    BY <1>7, Zenon DEF DirectInv
  <2>2. PICK h : h = fh[c]
    BY Zenon
  <2>3. FileOf(c, h, work[t]) /\ work[t].pc = "act"
    BY <1>1, <1>2, <1>3, <2>1, <2>2, FileBefore, Zenon DEF At
  <2>4. /\ calls.todo[c] \in Seq(FileOperations) /\ calls.todo[c] # <<>>
        /\ Head(calls.todo[c]) = "open"
    BY <1>1, <1>2, <1>3, <2>1, Zenon DEF Shape, Descriptor, Jobs, Awaited
  <2>5. 1 \in 1..Len(calls.todo[c]) /\ calls.todo[c][1] = "open"
    BY <2>4
  <2>6. h = -1
    BY <2>3, <2>5, Zenon DEF FileOf
  <2>7. -1 \notin DOMAIN fds
    BY <1>1, FileAssumption DEF Shape
  <2>8. \A d \in DOMAIN fds : fds[d] # c
    BY <2>3, <2>6, <2>7, Zenon DEF FileOf
  <2>9. \A i \in 1..Len(calls.todo[c]) : calls.todo[c][i] = "open" => i = 1
    BY <1>3, <2>1, <2>4, <2>5 DEF Descriptor, Opens, OpenedOnce
  <2> QED
    BY <1>4, <1>5, <1>6, <2>8, <2>9 DEF FileOf
<1> QED
  BY <1>4, <1>6, <1>7, JobStep, Zenon

\* The steps of a job between its start and its end.
LEMMA JobSteps ==
    ASSUME DirectInv, NEW t \in Threads,
           \/ Direct!Queries(t) \/ Direct!Flushes(t) \/ Direct!Makes(t) \/ Direct!Changes(t)
           \/ Direct!Opens(t) \/ Direct!TakesFd(t) \/ Direct!UsesFd(t) \/ Direct!Closes(t)
           \/ Direct!Forgets(t)
    PROVE  DirectInv'
<1>1. Shape /\ (Direct!Acting(t) => Saved(work[t]) /\ work[t].ctx \in Contexts)
  BY NoJobIsNone, Zenon DEF DirectInv, Shape, Direct!Acting, Saved
<1>2. CASE Direct!Queries(t) \/ Direct!Flushes(t) \/ Direct!Changes(t)
  <2>1. At(t, "act") /\ work' = [work EXCEPT ![t].pc = "done"] /\ UNCHANGED <<fsuser, fds, fh, posted, calls>>
    BY <1>2, Zenon
       DEF Direct!Queries, Direct!Flushes, Direct!Changes, Direct!Acts, Direct!At, Direct!Goes, At
  <2> QED
    BY <2>1, GoesOn, Zenon
<1>3. CASE Direct!Makes(t)
  <2>1. CASE At(t, "act") /\ Direct!Free # {} /\ fds' = Direct!Put(fds, Direct!NewFd, work[t].ctx)
             /\ work' = [work EXCEPT ![t].fd = Direct!NewFd, ![t].pc = "made"]
    <3>1. UNCHANGED <<fsuser, fh, posted, calls>>
      BY <1>3, Zenon DEF Direct!Makes
    <3> QED
      BY <2>1, <3>1, OpensForItself, Zenon
  <2>2. CASE At(t, "act") /\ Direct!Goes(t, "done") /\ UNCHANGED fds
    <3>1. UNCHANGED <<fsuser, fds, fh, posted, calls>>
      BY <1>3, <2>2, Zenon DEF Direct!Makes
    <3> QED
      BY <2>2, <3>1, GoesOn, Zenon DEF Direct!Goes
  <2>3. CASE At(t, "made") /\ fds' = Direct!Drop(fds, work[t].fd) /\ Direct!Goes(t, "done")
    <3>1. UNCHANGED <<fsuser, fh, posted, calls>>
      BY <1>3, Zenon DEF Direct!Makes
    <3> QED
      BY <2>3, <3>1, ClosesOne, Zenon DEF Direct!Goes
  <2> QED
    BY <1>3, <2>1, <2>2, <2>3, Zenon DEF Direct!Makes, Direct!Acts, Direct!At, At
<1>4. CASE Direct!Opens(t)
  <2>1. At(t, "act") /\ work[t].op = "open" /\ work' = [work EXCEPT ![t].pc = "done"]
        /\ UNCHANGED <<fsuser, posted, calls>>
    BY <1>4, Zenon DEF Direct!Opens, Direct!Acts, Direct!At, Direct!Goes, At
  <2>2. CASE /\ Direct!Free # {} /\ fds' = Direct!Put(fds, Direct!NewFd, work[t].ctx)
             /\ fh' = [fh EXCEPT ![work[t].ctx] = Direct!NewFd]
    BY <2>1, <2>2, OpensFile, Zenon
  <2>3. CASE UNCHANGED <<fds, fh>>
    <3>1. UNCHANGED <<fsuser, fds, fh, posted, calls>>
      BY <2>1, <2>3, Zenon
    <3> QED
      BY <2>1, <3>1, GoesOn, Zenon
  <2> QED
    BY <1>4, <2>2, <2>3, Zenon DEF Direct!Opens
<1>5. CASE Direct!TakesFd(t)
  <2>1. At(t, "act") /\ UNCHANGED <<fsuser, fh, posted, calls>>
    BY <1>5, Zenon DEF Direct!TakesFd, Direct!Acts, Direct!At, At
  <2>2. CASE /\ fh[work[t].ctx] # -1
             /\ work' = [work EXCEPT ![t].fd = fh[work[t].ctx], ![t].pc = "use"]
             /\ UNCHANGED fds
    <3>1. fh' = [fh EXCEPT ![work[t].ctx] = fh[work[t].ctx]] /\ UNCHANGED <<fsuser, fds, posted, calls>>
      BY <1>1, <2>1, <2>2, Zenon DEF Shape
    <3> QED
      BY <2>1, <2>2, <3>1, KeepsFds, Zenon
  <2>3. CASE /\ fh[work[t].ctx] = -1 /\ Direct!Free # {}
             /\ work' = [work EXCEPT ![t].fd = Direct!NewFd, ![t].pc = "use"]
             /\ fds' = Direct!Put(fds, Direct!NewFd, work[t].ctx)
    BY <2>1, <2>3, OpensForItself, Zenon
  <2>4. CASE Direct!Goes(t, "done") /\ UNCHANGED fds
    <3>1. UNCHANGED <<fsuser, fds, fh, posted, calls>>
      BY <2>1, <2>4, Zenon
    <3> QED
      BY <2>1, <2>4, <3>1, GoesOn, Zenon DEF Direct!Goes
  <2> QED
    BY <1>5, <2>2, <2>3, <2>4, Zenon DEF Direct!TakesFd
<1>6. CASE Direct!UsesFd(t)
  <2>1. At(t, "use") /\ work' = [work EXCEPT ![t].pc = "done"] /\ UNCHANGED <<fsuser, fh, posted, calls>>
    BY <1>6, Zenon DEF Direct!UsesFd, Direct!At, Direct!Goes, At
  <2>2. CASE fh[work[t].ctx] = -1
    <3>1. fds' = Direct!Drop(fds, work[t].fd)
      BY <1>6, <2>2, Zenon DEF Direct!UsesFd, Direct!ClosesAfter
    <3> QED
      BY <2>1, <2>2, <3>1, ClosesOne, Zenon
  <2>3. CASE fh[work[t].ctx] # -1
    <3>1. fds' = fds
      BY <1>6, <2>3, Zenon DEF Direct!UsesFd, Direct!ClosesAfter
    <3>2. fh' = [fh EXCEPT ![work[t].ctx] = fh[work[t].ctx]] /\ UNCHANGED <<fsuser, fds, posted, calls>>
      BY <1>1, <2>1, <3>1, Zenon DEF Shape
    <3>3. Saved(work[t])
      BY <1>1, <2>1, Zenon DEF Direct!Acting, At
    <3>4. [work EXCEPT ![t].pc = "done"] = [work EXCEPT ![t].fd = work[t].fd, ![t].pc = "done"]
      BY <1>1, <3>3, Zenon DEF Shape, Saved
    <3> QED
      BY <2>1, <2>3, <3>2, <3>4, KeepsFds, Zenon
  <2> QED
    BY <2>2, <2>3, Zenon
<1>7. CASE Direct!Closes(t)
  <2>1. PICK k, p : k = fh[work[t].ctx] /\ p = IF k \in {-1} \cup DOMAIN fds THEN "forget" ELSE "done"
    BY Zenon
  <2>2. At(t, "act") /\ fds' = Direct!Drop(fds, k) /\ work' = [work EXCEPT ![t].pc = p]
        /\ UNCHANGED <<fsuser, fh, posted, calls>> /\ p \in {"done", "forget"}
    BY <1>7, <2>1, Zenon DEF Direct!Closes, Direct!Acts, Direct!At, Direct!Goes, At
  <2> QED
    BY <2>1, <2>2, ClosesOne, Zenon
<1>8. CASE Direct!Forgets(t)
  <2>1. At(t, "forget") /\ work' = [work EXCEPT ![t].pc = "done"] /\ fh' = [fh EXCEPT ![work[t].ctx] = -1]
        /\ UNCHANGED <<fsuser, fds, posted, calls>>
    BY <1>8, Zenon DEF Direct!Forgets, Direct!At, Direct!Goes, At
  <2>2. Saved(work[t])
    BY <1>1, <2>1, Zenon DEF Direct!Acting, At
  <2>3. work' = [work EXCEPT ![t].fd = work[t].fd, ![t].pc = "done"]
    BY <1>1, <2>1, <2>2, Zenon DEF Shape, Saved
  <2> QED
    BY <2>1, <2>3, KeepsFds, Zenon
<1> QED
  BY <1>2, <1>3, <1>4, <1>5, <1>6, <1>7, <1>8, Zenon

------------------------------------------------------------------------------
(* Callers, the start and the end of a job.                                *)

\* Where no job that has a descriptor moves, the descriptors are accounted for as before.
LEMMA QuietStep ==
    ASSUME Shape, Descriptor, fds' = fds, fh' = fh, calls'.todo = calls.todo,
           \A u \in Threads, p \in {"forget", "made", "use", "done"} :
               /\ At(u, p)' <=> At(u, p)
               /\ At(u, p) => work'[u] = work[u]
    PROVE  Held' /\ Used' /\ Accounted' /\ Opens'
<1>1. \A x : (Forgetting(x)' <=> Forgetting(x)) /\ (Opened(x)' <=> Opened(x))
  BY Zenon DEF Forgetting, Opened
<1>2. \A u \in Threads : (Using(u)' <=> Using(u)) /\ (Using(u) => work'[u] = work[u])
  BY Zenon DEF Using
<1>3. Held'
  BY <1>1, Zenon DEF Descriptor, Held
<1>4. Used'
  BY <1>2 DEF Descriptor, Used, Using
<1>5. Accounted'
  BY <1>1, <1>2 DEF Descriptor, Accounted
<1>6. Opens'
  BY <1>1, Zenon DEF Descriptor, Opens
<1> QED
  BY <1>3, <1>4, <1>5, <1>6, Zenon

LEMMA IdleHasNoJob == ASSUME Shape, NEW t \in Threads PROVE At(t, "none") <=> work[t] = NoJob
BY NoJobIsNone, Zenon DEF Shape, Saved, At

LEMMA PostStep ==
    ASSUME DirectInv, NEW c \in Contexts, Direct!Post(c)
    PROVE  DirectInv'
<1>1. PICK q : q = [ctx |-> c, op |-> Head(calls.todo[c])]
  BY Zenon
<1>2. /\ c \notin calls.waiting /\ calls.todo[c] # <<>> /\ posted' = Append(posted, q)
      /\ calls' = [calls EXCEPT !.waiting = calls.waiting \cup {c}]
      /\ fsuser' = fsuser /\ fds' = fds /\ fh' = fh /\ work' = work
  BY <1>1, Zenon DEF Direct!Post
<1>3. Shape /\ Identity /\ q \in [ctx : Contexts, op : FileOperations] /\ q.ctx = c
      /\ q.op = Head(calls.todo[c])
  BY <1>1, <1>2 DEF DirectInv, Shape
<1>4. /\ DOMAIN calls' = DOMAIN calls /\ calls'.todo = calls.todo
      /\ calls'.interrupts = calls.interrupts /\ calls'.waiting = calls.waiting \cup {c}
  BY <1>2, <1>3, Zenon DEF Shape
<1>5. posted' \in Seq([ctx : Contexts, op : FileOperations])
  BY <1>2, <1>3 DEF Shape
<1>6. Shape'
  BY <1>2, <1>3, <1>4, <1>5, Zenon DEF Shape
<1>7. Identity'
  BY <1>2, <1>3, Zenon DEF Identity, Direct!Acting
<1>8. ASSUME calls.interrupts = 0
      PROVE  Descriptor'
  <2>1. Descriptor
    BY <1>8, Zenon DEF DirectInv
  <2>2. /\ Len(posted') = Len(posted) + 1 /\ posted'[Len(posted) + 1] = q /\ Len(posted) \in Nat
        /\ \A i \in 1..Len(posted) : posted'[i] = posted[i]
    BY <1>2, <1>3 DEF Shape
  <2>3. Jobs'
    <3>1. \A j : Awaited(j) => Awaited(j)'
      BY <1>4, Zenon DEF Awaited
    <3>2. Awaited(q)'
      BY <1>2, <1>3, <1>4, Zenon DEF Awaited
    <3>3. \A i \in 1..Len(posted') : posted'[i] = q \/ \E k \in 1..Len(posted) : posted'[i] = posted[k]
      BY <2>2
    <3> QED
      BY <1>2, <2>1, <3>1, <3>2, <3>3, Zenon DEF Descriptor, Jobs, Busy
  <2>4. /\ \A t \in Threads : Busy(t) => work[t].ctx # c
        /\ \A i \in 1..Len(posted) : posted[i].ctx # c
    BY <1>2, <2>1, Zenon DEF Descriptor, Jobs, Awaited
  <2>5. OneJob'
    <3>1. \A t, u \in Threads : Busy(t)' /\ Busy(u)' /\ work'[t].ctx = work'[u].ctx => t = u
      BY <1>2, <2>1, Zenon DEF Descriptor, OneJob, Busy
    <3>2. \A i, j \in 1..Len(posted') : posted'[i].ctx = posted'[j].ctx => i = j
      BY <1>3, <2>1, <2>2, <2>4 DEF Descriptor, OneJob
    <3>3. \A t \in Threads, i \in 1..Len(posted') : Busy(t)' => posted'[i].ctx # work'[t].ctx
      BY <1>2, <1>3, <2>1, <2>2, <2>4 DEF Descriptor, OneJob, Busy
    <3> QED
      BY <3>1, <3>2, <3>3, Zenon DEF OneJob
  <2>6. Held' /\ Used' /\ Accounted' /\ Opens'
    BY <1>2, <1>3, <1>4, <2>1, QuietStep, Zenon DEF At
  <2> QED
    BY <2>3, <2>5, <2>6, Zenon DEF Descriptor
<1> QED
  BY <1>4, <1>6, <1>7, <1>8, Zenon DEF DirectInv

\* A caller that no longer waits for an operation has one less to post.
LEMMA LeavesTodo ==
    ASSUME Shape, NEW c \in Contexts, c \in calls.waiting, NEW w, NEW s, NEW n \in Nat,
           w = calls.waiting \ {c}, s = [calls.todo EXCEPT ![c] = Tail(calls.todo[c])],
           DOMAIN calls' = DOMAIN calls, calls'.todo = s, calls'.waiting = w, calls'.interrupts = n
    PROVE  /\ calls'.interrupts \in Nat /\ calls'.todo \in [Contexts -> Seq(FileOperations)]
           /\ \A x \in Contexts : x \in calls'.waiting => calls'.todo[x] # <<>>
           /\ DOMAIN calls' = {"todo", "waiting", "interrupts", "permitted"}
<1>1. Tail(calls.todo[c]) \in Seq(FileOperations)
  BY DEF Shape
<1> QED
  BY <1>1 DEF Shape

\* After an interrupted wait, nothing is said of descriptors.
LEMMA InterruptedStep ==
    ASSUME DirectInv, NEW c \in Contexts, Direct!Interrupted(c)
    PROVE  DirectInv'
<1>1. PICK w, s, n : /\ w = calls.waiting \ {c} /\ s = [calls.todo EXCEPT ![c] = Tail(calls.todo[c])]
                     /\ n = calls.interrupts + 1
  BY Zenon
<1>2. Shape /\ Identity
  BY Zenon DEF DirectInv
<1>3. /\ c \in calls.waiting /\ calls' = [calls EXCEPT !.waiting = w, !.todo = s, !.interrupts = n]
      /\ fsuser' = fsuser /\ fds' = fds /\ fh' = fh /\ work' = work /\ posted' = posted
  BY <1>1, <1>2, Zenon DEF Direct!Interrupted, Shape
<1>4. /\ DOMAIN calls' = DOMAIN calls /\ calls'.todo = s /\ calls'.waiting = w /\ calls'.interrupts = n
      /\ n \in Nat /\ n # 0
  BY <1>1, <1>2, <1>3 DEF Shape
<1>5. /\ calls'.interrupts \in Nat /\ calls'.todo \in [Contexts -> Seq(FileOperations)]
      /\ \A x \in Contexts : x \in calls'.waiting => calls'.todo[x] # <<>>
      /\ DOMAIN calls' = {"todo", "waiting", "interrupts", "permitted"}
  BY <1>1, <1>2, <1>3, <1>4, LeavesTodo, Zenon
<1>6. Shape'
  BY <1>2, <1>3, <1>5, Zenon DEF Shape
<1>7. Identity'
  BY <1>2, <1>3, Zenon DEF Identity, Direct!Acting
<1> QED
  BY <1>4, <1>6, <1>7, Zenon DEF DirectInv

LEMMA DestroyStep ==
    ASSUME DirectInv, NEW c \in Contexts, Direct!Destroy(c)
    PROVE  DirectInv'
<1>1. PICK k : k = fh[c]
  BY Zenon
<1>2. /\ fds' = Direct!Drop(fds, k) /\ k # -1 /\ fh' = [fh EXCEPT ![c] = -1]
      /\ fsuser' = fsuser /\ work' = work /\ posted' = posted /\ calls' = calls
      /\ \A t \in Threads : Busy(t) => work[t].ctx # c
  BY <1>1, Zenon DEF Direct!Destroy, Busy, NoJob
<1>3. Shape /\ Identity
  BY DEF DirectInv
<1>4. /\ fds' \in [DOMAIN fds' -> Contexts] /\ DOMAIN fds' \subseteq Descriptors
      /\ DOMAIN fds' = (DOMAIN fds) \ {k} /\ \A d \in DOMAIN fds' : fds'[d] = fds[d]
  BY <1>2, <1>3, FewerFds, Zenon
<1>5. fh' \in [Contexts -> Int] /\ fh'[c] = -1 /\ \A x \in Contexts \ {c} : fh'[x] = fh[x]
  BY <1>2, <1>3 DEF Shape
<1>6. Shape'
  BY <1>2, <1>3, <1>4, <1>5, Zenon DEF Shape
<1>7. Identity'
  BY <1>2, <1>3, Zenon DEF Identity, Direct!Acting
<1>8. ASSUME calls.interrupts = 0
      PROVE  Descriptor'
  <2>1. Descriptor
    BY <1>8 DEF DirectInv
  <2>2. Jobs' /\ OneJob'
    BY <1>2, <2>1 DEF Descriptor, Jobs, OneJob, Awaited, Busy
  <2>3. /\ \A x : (Forgetting(x)' <=> Forgetting(x)) /\ (Opened(x)' <=> Opened(x))
        /\ \A u \in Threads : Using(u)' <=> Using(u)
    BY <1>2, Zenon DEF Forgetting, Opened, Using, At
  <2>4. /\ ~Forgetting(c)
        /\ \A u \in Threads : Using(u) => work[u].ctx # c /\ work[u].ctx \in Contexts
    BY <1>2, <1>3, NoJobIsNone, Zenon DEF Forgetting, Using, At, Busy, Shape, Saved
  <2>5. k \in DOMAIN fds /\ fds[k] = c
    BY <1>1, <1>2, <2>1, <2>4, Zenon DEF Descriptor, Held
  <2>6. Held'
    <3> SUFFICES ASSUME NEW x \in Contexts, fh'[x] # -1, ~Forgetting(x)'
                 PROVE  fh'[x] \in DOMAIN fds' /\ fds'[fh'[x]] = x
      BY Zenon DEF Held
    <3>1. x # c /\ fh'[x] = fh[x]
      BY <1>5, Zenon
    <3>2. fh[x] \in DOMAIN fds /\ fds[fh[x]] = x
      BY <2>1, <2>3, <3>1, Zenon DEF Descriptor, Held
    <3> QED
      BY <1>4, <2>5, <3>1, <3>2, Zenon
  <2>7. Used'
    <3> SUFFICES ASSUME NEW u \in Threads, Using(u)
                 PROVE  /\ work[u].fd \in DOMAIN fds' /\ fds'[work[u].fd] = work[u].ctx
                        /\ At(u, "made") => work[u].fd # fh'[work[u].ctx]
                        /\ At(u, "use") => fh'[work[u].ctx] \in {-1, work[u].fd}
      BY <1>2, <2>3, Zenon DEF Used, Using, At
    <3>1. work[u].ctx # c /\ fh'[work[u].ctx] = fh[work[u].ctx]
      BY <1>5, <2>4, Zenon
    <3>2. work[u].fd \in DOMAIN fds /\ fds[work[u].fd] = work[u].ctx
      BY <2>1, Zenon DEF Descriptor, Used
    <3> QED
      BY <1>4, <2>1, <2>5, <3>1, <3>2, Zenon DEF Descriptor, Used
  <2>8. Accounted'
    <3> SUFFICES ASSUME NEW d \in DOMAIN fds', NEW x, x = fds'[d]
                 PROVE  \/ fh'[x] = d /\ ~Forgetting(x)'
                        \/ \E u \in Threads : Using(u)' /\ work'[u].fd = d /\ work'[u].ctx = x
      BY DEF Accounted
    <3>1. d \in DOMAIN fds /\ d # k /\ fds[d] = x /\ x \in Contexts
      BY <1>3, <1>4, Zenon DEF Shape
    <3>2. CASE fh[x] = d /\ ~Forgetting(x)
      BY <1>1, <1>5, <2>3, <3>1, <3>2
    <3>3. ASSUME NEW u \in Threads, Using(u), work[u].fd = d, work[u].ctx = x
          PROVE  Using(u)' /\ work'[u].fd = d /\ work'[u].ctx = x
      BY <1>2, <2>3, <3>3, Zenon
    <3> QED
      BY <2>1, <3>1, <3>2, <3>3 DEF Descriptor, Accounted
  <2>9. Opens'
    BY <1>2, <1>5, <2>1, <2>3, Zenon DEF Descriptor, Opens
  <2> QED
    BY <2>2, <2>6, <2>7, <2>8, <2>9, Zenon DEF Descriptor
<1> QED
  BY <1>2, <1>6, <1>7, <1>8, Zenon DEF DirectInv

\* A thread takes the first of the posted jobs, and the identity of its user.
LEMMA StartsStep ==
    ASSUME DirectInv, NEW t \in Threads, Direct!Starts(t)
    PROVE  DirectInv'
<1>1. PICK q, now, j :
        /\ q = Head(posted) /\ now = Direct!SetTo(fsuser[t], UserOf[Head(posted).ctx])
        /\ j = [pc |-> IF Direct!Valid(UserOf[q.ctx], now) THEN "act" ELSE "edom",
                ctx |-> q.ctx, op |-> q.op, prev |-> fsuser[t], fd |-> -1]
  BY Zenon
<1>2. /\ At(t, "none") /\ posted # <<>> /\ posted' = Tail(posted)
      /\ fsuser' = [fsuser EXCEPT ![t] = now] /\ work' = [work EXCEPT ![t] = j]
      /\ fds' = fds /\ fh' = fh /\ calls' = calls
  BY <1>1, Zenon DEF Direct!Starts, Direct!At, At
<1>3. Shape /\ Identity /\ work[t] = NoJob
  BY <1>2, IdleHasNoJob, Zenon DEF DirectInv
<1>4. q \in [ctx : Contexts, op : FileOperations]
      /\ posted' \in Seq([ctx : Contexts, op : FileOperations])
  <2>1. PICK S : S = [ctx : Contexts, op : FileOperations]
    BY Zenon
  <2>2. posted \in Seq(S) /\ posted # <<>>
    BY <1>2, <1>3, <2>1, Zenon DEF Shape
  <2>3. Head(posted) \in S /\ Tail(posted) \in Seq(S)
    BY <2>2
  <2> QED
    BY <1>1, <1>2, <2>1, <2>3, Zenon
<1>5. fsuser[t] = Direct!Own
  BY <1>3, Zenon DEF Identity
<1>6. /\ Saved(j) /\ j.ctx = q.ctx /\ j.op = q.op /\ j.pc \in {"act", "edom"}
      /\ j.pc = "act" => Direct!Valid(UserOf[q.ctx], now)
  BY <1>1, <1>4, <1>5, Zenon DEF Saved
<1>7. /\ work'[t] = j /\ \A u \in Threads \ {t} : work'[u] = work[u]
      /\ fsuser'[t] = now /\ \A u \in Threads \ {t} : fsuser'[u] = fsuser[u]
      /\ DOMAIN work' = Threads /\ DOMAIN fsuser' = Threads
  BY <1>2, <1>3, Zenon DEF Shape
<1>8. Shape'
  BY <1>2, <1>3, <1>4, <1>6, <1>7 DEF Shape
<1>9. Identity'
  <2>1. ASSUME NEW u \in Threads \ {t}
        PROVE  /\ work'[u] = NoJob => fsuser'[u] = Direct!Own
               /\ Direct!Acting(u)' => Direct!Valid(UserOf[work'[u].ctx], fsuser'[u])
    BY <1>3, <1>7, Zenon DEF Identity, Direct!Acting
  <2>2. work'[t] # NoJob /\ (Direct!Acting(t)' => Direct!Valid(UserOf[work'[t].ctx], fsuser'[t]))
    BY <1>6, <1>7, NoJobIsNone DEF Direct!Acting
  <2> QED
    BY <2>1, <2>2, Zenon DEF Identity
<1>10. ASSUME calls.interrupts = 0
       PROVE  Descriptor'
  <2>1. Descriptor
    BY <1>10 DEF DirectInv
  <2>2. /\ Len(posted) \in Nat /\ 1 \in 1..Len(posted) /\ q = posted[1]
        /\ Len(posted') = Len(posted) - 1
        /\ \A i \in 1..Len(posted') : i + 1 \in 1..Len(posted) /\ posted'[i] = posted[i + 1]
    <3>1. PICK S : S = [ctx : Contexts, op : FileOperations]
      BY Zenon
    <3>2. posted \in Seq(S) /\ posted # <<>>
      BY <1>2, <1>3, <3>1 DEF Shape
    <3> QED
      BY <1>1, <1>2, <3>2, TailFacts
  <2>3. /\ Busy(t)' /\ ~Busy(t)
        /\ \A u \in Threads \ {t} : (Busy(u)' <=> Busy(u)) /\ work'[u] = work[u]
    BY <1>3, <1>6, <1>7, NoJobIsNone, Zenon DEF Busy, Saved
  <2>4. Jobs'
    <3>1. \A x : Awaited(x)' <=> Awaited(x)
      BY <1>2, Zenon DEF Awaited
    <3>2. Awaited(j)
      BY <1>6, <2>1, <2>2, Zenon DEF Descriptor, Jobs, Awaited
    <3>3. \A u \in Threads : Busy(u)' => Awaited(work'[u])
      BY <1>7, <2>1, <2>3, <3>2, Zenon DEF Descriptor, Jobs
    <3>4. \A i \in 1..Len(posted') : Awaited(posted'[i])
      BY <2>1, <2>2, Zenon DEF Descriptor, Jobs
    <3> QED
      BY <3>1, <3>3, <3>4, Zenon DEF Jobs
  <2>5. /\ \A u \in Threads : Busy(u) => work[u].ctx # q.ctx
        /\ \A i \in 1..Len(posted') : posted'[i].ctx # q.ctx
    <3>1. OneJob
      BY <2>1, Zenon DEF Descriptor
    <3>2. \A u \in Threads : Busy(u) => work[u].ctx # q.ctx
      BY <2>2, <3>1, Zenon DEF OneJob
    <3>3. ASSUME NEW i \in 1..Len(posted') PROVE posted'[i].ctx # q.ctx
      <4>1. i + 1 \in 1..Len(posted) /\ posted'[i] = posted[i + 1] /\ i + 1 # 1
        BY <2>2
      <4> QED
        BY <2>2, <3>1, <4>1, Zenon DEF OneJob
    <3> QED
      BY <3>2, <3>3, Zenon
  <2>6. OneJob'
    <3>1. \A u, v \in Threads : Busy(u)' /\ Busy(v)' /\ work'[u].ctx = work'[v].ctx => u = v
      BY <1>6, <1>7, <2>1, <2>3, <2>5 DEF Descriptor, OneJob
    <3>2. \A i, k \in 1..Len(posted') : posted'[i].ctx = posted'[k].ctx => i = k
      <4> SUFFICES ASSUME NEW i \in 1..Len(posted'), NEW k \in 1..Len(posted'),
                          posted'[i].ctx = posted'[k].ctx
                   PROVE  i = k
        BY Zenon
      <4>1. i + 1 = k + 1
        BY <2>1, <2>2 DEF Descriptor, OneJob
      <4> QED
        BY <2>2, <4>1
    <3>3. \A u \in Threads, i \in 1..Len(posted') : Busy(u)' => posted'[i].ctx # work'[u].ctx
      <4> SUFFICES ASSUME NEW u \in Threads, NEW i \in 1..Len(posted'), Busy(u)'
                   PROVE  posted'[i].ctx # work'[u].ctx
        BY Zenon
      <4>1. CASE u = t
        BY <1>6, <1>7, <2>5, <4>1, Zenon
      <4>2. CASE u # t
        BY <2>1, <2>2, <2>3, <4>2 DEF Descriptor, OneJob
      <4> QED
        BY <4>1, <4>2, Zenon
    <3> QED
      BY <3>1, <3>2, <3>3, Zenon DEF OneJob
  <2>7. \A u \in Threads, p \in {"forget", "made", "use", "done"} :
            (At(u, p)' <=> At(u, p)) /\ (At(u, p) => work'[u] = work[u])
    BY <1>2, <1>6, <1>7, Zenon DEF At
  <2>8. Held' /\ Used' /\ Accounted' /\ Opens'
    BY <1>2, <1>3, <2>1, <2>7, QuietStep, Zenon
  <2> QED
    BY <2>4, <2>6, <2>8 DEF Descriptor
<1> QED
  BY <1>2, <1>8, <1>9, <1>10, Zenon DEF DirectInv

\* The callback, and the thread's identity is given back.
LEMMA EndsStep ==
    ASSUME DirectInv, NEW t \in Threads, Direct!Ends(t)
    PROVE  DirectInv'
<1>1. PICK c, w, s : /\ c = work[t].ctx /\ w = calls.waiting \ {c}
                     /\ s = [calls.todo EXCEPT ![c] = Tail(calls.todo[c])]
  BY Zenon
<1>2. /\ work[t].pc \in {"edom", "done"} /\ calls' = Direct!Calls(work[t])
      /\ fsuser' = [fsuser EXCEPT ![t] = work[t].prev] /\ work' = [work EXCEPT ![t] = NoJob]
      /\ fds' = fds /\ fh' = fh /\ posted' = posted
  BY Zenon DEF Direct!Ends, Direct!Restored, NoJob
<1>3. Shape /\ Identity /\ Busy(t) /\ Saved(work[t]) /\ c \in Contexts
  BY <1>1, <1>2, NoJobIsNone, Zenon DEF DirectInv, Shape, Busy, Saved
<1>4. \/ calls' = calls /\ ~Awaited(work[t])
      \/ c \in calls.waiting /\ calls' = [calls EXCEPT !.waiting = w, !.todo = s]
  BY <1>1, <1>2, <1>3, Zenon DEF Direct!Calls, Awaited, Shape
<1>5. \/ calls' = calls /\ ~Awaited(work[t])
      \/ /\ c \in calls.waiting /\ DOMAIN calls' = DOMAIN calls /\ calls'.todo = s /\ calls'.waiting = w
         /\ calls'.interrupts = calls.interrupts
  BY <1>3, <1>4, Zenon DEF Shape
<1>6. /\ calls'.interrupts \in Nat /\ calls'.todo \in [Contexts -> Seq(FileOperations)]
      /\ \A x \in Contexts : x \in calls'.waiting => calls'.todo[x] # <<>>
      /\ DOMAIN calls' = {"todo", "waiting", "interrupts", "permitted"}
      /\ calls'.interrupts = calls.interrupts
  <2>1. CASE calls' = calls
    BY <1>3, <2>1, Zenon DEF Shape
  <2>2. CASE calls' # calls
    <3>1. calls.interrupts \in Nat
      BY <1>3, Zenon DEF Shape
    <3> QED
      BY <1>1, <1>3, <1>5, <2>2, <3>1, LeavesTodo, Zenon
  <2> QED
    BY <2>1, <2>2, Zenon
<1>7. /\ work'[t] = NoJob /\ \A u \in Threads \ {t} : work'[u] = work[u]
      /\ fsuser'[t] = Direct!Own /\ \A u \in Threads \ {t} : fsuser'[u] = fsuser[u]
      /\ DOMAIN work' = Threads /\ DOMAIN fsuser' = Threads
  BY <1>2, <1>3, Zenon DEF Shape, Saved
<1>8. Shape'
  BY <1>2, <1>3, <1>6, <1>7, Zenon DEF Shape
<1>9. Identity'
  <2>1. ASSUME NEW u \in Threads \ {t}
        PROVE  /\ work'[u] = NoJob => fsuser'[u] = Direct!Own
               /\ Direct!Acting(u)' => Direct!Valid(UserOf[work'[u].ctx], fsuser'[u])
    BY <1>3, <1>7, Zenon DEF Identity, Direct!Acting
  <2>2. fsuser'[t] = Direct!Own /\ ~Direct!Acting(t)'
    BY <1>7, NoJobIsNone, Zenon DEF Direct!Acting
  <2> QED
    BY <2>1, <2>2, Zenon DEF Identity
<1>10. ASSUME calls.interrupts = 0
       PROVE  Descriptor'
  <2>1. Descriptor /\ Awaited(work[t])
    BY <1>3, <1>10, Zenon DEF DirectInv, Descriptor, Jobs
  <2>2. /\ calls'.todo[c] = Tail(calls.todo[c]) /\ \A x \in Contexts \ {c} : calls'.todo[x] = calls.todo[x]
        /\ \A x \in calls.waiting : x # c => x \in calls'.waiting
        /\ calls.todo[c] \in Seq(FileOperations) /\ calls.todo[c] # <<>>
    BY <1>1, <1>3, <1>5, <2>1, Zenon DEF Shape
  <2>3. /\ \A u \in Threads : Busy(u)' => Busy(u) /\ u # t /\ work'[u] = work[u]
        /\ \A u \in Threads : Busy(u) /\ u # t => work[u].ctx \in Contexts \ {c}
    BY <1>1, <1>3, <1>7, <2>1, Zenon DEF Busy, Descriptor, OneJob, Shape, Saved
  <2>4. \A i \in 1..Len(posted) : posted[i].ctx \in Contexts \ {c}
    <3>1. \A i \in 1..Len(posted) : posted[i] \in [ctx : Contexts, op : FileOperations]
      <4>1. PICK S : S = [ctx : Contexts, op : FileOperations]
        BY Zenon
      <4>2. posted \in Seq(S)
        BY <1>3, <4>1, Zenon DEF Shape
      <4>3. \A i \in 1..Len(posted) : posted[i] \in S
        BY <4>2
      <4> QED
        BY <4>1, <4>3, Zenon
    <3>2. \A i \in 1..Len(posted) : posted[i].ctx # c
      BY <1>1, <1>3, <2>1, Zenon DEF Descriptor, OneJob
    <3>3. \A x \in [ctx : Contexts, op : FileOperations] : x.ctx \in Contexts
      BY Zenon
    <3> QED
      BY <3>1, <3>2, <3>3, Zenon
  <2>5. Jobs'
    <3>1. \A x : Awaited(x) /\ x.ctx \in Contexts \ {c} => Awaited(x)'
      BY <2>2, Zenon DEF Awaited
    <3>2. ASSUME NEW u \in Threads, Busy(u)' PROVE Awaited(work[u])'
      <4>1. PICK x : x = work'[u]
        BY Zenon
      <4>2. Awaited(x)'
        BY <2>1, <2>3, <3>1, <3>2, <4>1 DEF Descriptor, Jobs
      <4> QED
        BY <4>1, <4>2, Zenon DEF Awaited
    <3>3. ASSUME NEW i \in 1..Len(posted) PROVE Awaited(posted[i])'
      <4>1. PICK x : x = posted[i]
        BY Zenon
      <4>2. Awaited(x)'
        BY <2>1, <2>4, <3>1, <4>1 DEF Descriptor, Jobs
      <4> QED
        BY <1>2, <4>1, <4>2, Zenon DEF Awaited
    <3> QED
      BY <1>2, <3>2, <3>3, Zenon DEF Jobs
  <2>6. OneJob'
    BY <1>2, <2>1, <2>3 DEF Descriptor, OneJob
  <2>7. /\ \A u \in Threads, p \in {"forget", "made", "use"} :
              (At(u, p)' <=> At(u, p)) /\ (At(u, p) => work'[u] = work[u])
        /\ \A u \in Threads \ {t} : At(u, "done")' <=> At(u, "done")
    BY <1>2, <1>7, NoJobIsNone, Zenon DEF At
  <2>8. /\ \A x : Forgetting(x)' <=> Forgetting(x)
        /\ \A u \in Threads : (Using(u)' <=> Using(u)) /\ (Using(u) => work'[u] = work[u])
        /\ \A x \in Contexts \ {c} : Opened(x) => Opened(x)'
    BY <1>1, <1>7, <2>7, Zenon DEF Forgetting, Using, Opened
  <2>9. Held' /\ Used' /\ Accounted'
    <3>1. Held'
      BY <1>2, <2>1, <2>8, Zenon DEF Descriptor, Held
    <3>2. Used'
      BY <1>2, <2>1, <2>7, <2>8, Zenon DEF Descriptor, Used, Using
    <3>3. Accounted'
      <4>1. Accounted
        BY <2>1, Zenon DEF Descriptor
      <4>2. ASSUME NEW d \in DOMAIN fds, NEW x, x = fds[d]
            PROVE  \/ fh[x] = d /\ ~Forgetting(x)'
                   \/ \E u \in Threads : Using(u)' /\ work'[u].fd = d /\ work'[u].ctx = x
        BY <2>8, <4>1, <4>2 DEF Accounted
      <4> QED
        BY <1>2, <4>2 DEF Accounted
    <3> QED
      BY <3>1, <3>2, <3>3, Zenon
  <2>10. Opens'
    <3>1. PICK old, new : old = calls.todo[c] /\ new = Tail(old)
      BY Zenon
    <3>2. /\ Len(new) \in Nat /\ \A i \in 1..Len(new) : i + 1 \in 1..Len(old) /\ new[i] = old[i + 1]
          /\ DOMAIN old = 1..Len(old) /\ DOMAIN new = 1..Len(new)
      BY <2>2, <3>1, TailFacts, Zenon
    <3>3. /\ OpenedOnce(old)
          /\ \A i \in 1..Len(old) : fh[c] # -1 /\ old[i] = "open" => i = 1
      BY <1>3, <2>1, <3>1, Zenon DEF Descriptor, Opens
    <3>4. OpenedOnce(new)
      <4> SUFFICES ASSUME NEW i \in 1..Len(new), NEW k \in 1..Len(new), new[i] = "open", new[k] = "open"
                   PROVE  i = k
        BY <3>2, Zenon DEF OpenedOnce
      <4>1. i + 1 = k + 1
        BY <3>2, <3>3, Zenon DEF OpenedOnce
      <4> QED
        BY <3>2, <4>1
    <3>5. \A i \in 1..Len(new) : ~(fh[c] # -1 /\ new[i] = "open")
      <4> SUFFICES ASSUME NEW i \in 1..Len(new), fh[c] # -1, new[i] = "open" PROVE FALSE
        BY Zenon
      <4>1. i + 1 = 1
        BY <3>2, <3>3, Zenon
      <4> QED
        BY <3>2, <4>1
    <3>6. \A x \in Contexts \ {c} :
             /\ OpenedOnce(calls.todo[x])
             /\ \A i \in 1..Len(calls.todo[x]) : fh[x] # -1 /\ calls.todo[x][i] = "open" => i = 1 /\ Opened(x)'
      BY <2>1, <2>8, Zenon DEF Descriptor, Opens
    <3> SUFFICES ASSUME NEW x \in Contexts
                 PROVE  /\ OpenedOnce(calls'.todo[x])
                        /\ \A i \in 1..Len(calls'.todo[x]) :
                              fh'[x] # -1 /\ calls'.todo[x][i] = "open" => i = 1 /\ Opened(x)'
      BY Zenon DEF Opens
    <3>7. CASE x = c
      BY <1>2, <2>2, <3>1, <3>4, <3>5, <3>7, Zenon
    <3>8. CASE x # c
      BY <1>2, <2>2, <3>6, <3>8, Zenon
    <3> QED
      BY <3>7, <3>8, Zenon
  <2> QED
    BY <2>5, <2>6, <2>9, <2>10, Zenon DEF Descriptor
<1> QED
  BY <1>6, <1>8, <1>9, <1>10, Zenon DEF DirectInv

LEMMA InitDirect == Direct!Init => DirectInv
<1> SUFFICES ASSUME Direct!Init PROVE DirectInv
  OBVIOUS
<1>1. /\ fsuser = [t \in Threads |-> Direct!Own] /\ fds = Direct!EmptyMap
      /\ fh = [c \in Contexts |-> -1] /\ work = [t \in Threads |-> NoJob] /\ posted = <<>>
  BY Zenon DEF Direct!Init, NoJob
<1>2. PICK s \in [Contexts -> FilePrograms], permitted \in Permissions :
         calls = [todo |-> s, waiting |-> {}, interrupts |-> 0, permitted |-> permitted]
  BY Zenon DEF Direct!Init
<1>3. DOMAIN fds = {}
  BY <1>1, Zenon DEF Direct!EmptyMap
<1>4. s \in [Contexts -> Seq(FileOperations)] /\ \A c \in Contexts : OpenedOnce(s[c])
  BY FileAssumption, Zenon
<1>5. Shape
  <2>1. fds \in [DOMAIN fds -> Contexts]
    BY <1>1, <1>3, Zenon DEF Direct!EmptyMap
  <2>2. posted \in Seq([ctx : Contexts, op : FileOperations])
    BY <1>1
  <2>3. /\ calls.interrupts \in Nat /\ calls.todo = s /\ calls.waiting = {}
        /\ DOMAIN calls = {"todo", "waiting", "interrupts", "permitted"}
    BY <1>2, Zenon
  <2> QED
    BY <1>1, <1>3, <1>4, <2>1, <2>2, <2>3 DEF Shape
<1>6. Identity
  BY <1>1, NoJobIsNone, Zenon DEF Identity, Direct!Acting
<1>7. Descriptor
  <2>1. \A t \in Threads : ~Busy(t) /\ \A p \in {"forget", "made", "use", "done"} : ~At(t, p)
    BY <1>1, NoJobIsNone, Zenon DEF Busy, At
  <2>2. Len(posted) = 0
    BY <1>1, Zenon
  <2>3. Jobs /\ OneJob
    BY <2>1, <2>2 DEF Jobs, OneJob
  <2>4. Held /\ Used /\ Accounted
    BY <1>1, <1>3, <2>1, Zenon DEF Held, Used, Accounted, Using
  <2>5. Opens
    BY <1>1, <1>2, <1>4, Zenon DEF Opens
  <2> QED
    BY <2>3, <2>4, <2>5, Zenon DEF Descriptor
<1> QED
  BY <1>5, <1>6, <1>7, Zenon DEF DirectInv

LEMMA NextDirect == DirectInv /\ Direct!Next => DirectInv'
BY PostStep, InterruptedStep, DestroyStep, StartsStep, EndsStep, JobSteps, Zenon
   DEF Direct!Next, Direct!Worker

LEMMA KeptDirect == DirectInv /\ UNCHANGED directVars => DirectInv'
<1> SUFFICES ASSUME DirectInv, UNCHANGED directVars PROVE DirectInv'
  BY Zenon
<1>1. /\ fsuser' = fsuser /\ fds' = fds /\ fh' = fh /\ work' = work /\ posted' = posted
      /\ calls' = calls
  BY Zenon DEF directVars
<1>2. Shape'
  BY <1>1, Zenon DEF DirectInv, Shape
<1>3. Identity'
  BY <1>1, Zenon DEF DirectInv, Identity, Direct!Acting
<1>4. ASSUME Descriptor PROVE Descriptor'
  <2>1. Jobs' /\ OneJob'
    BY <1>1, <1>4, Zenon DEF Descriptor, Jobs, OneJob, Awaited, Busy
  <2>2. Held' /\ Used' /\ Accounted' /\ Opens'
    BY <1>1, <1>4, QuietStep, Zenon DEF DirectInv, At
  <2> QED
    BY <2>1, <2>2, Zenon DEF Descriptor
<1> QED
  BY <1>1, <1>2, <1>3, <1>4, Zenon DEF DirectInv

------------------------------------------------------------------------------
(* The theorem.                                                            *)

LEMMA DirectIsOwn ==
    ASSUME DirectInv
    PROVE  /\ Direct!ActsAsUser /\ Direct!IdleThreadsAreThemselves
           /\ Direct!DescriptorsAreOwn /\ Direct!NoDescriptorLeft
<1>1. Shape /\ Identity
  BY Zenon DEF DirectInv
<1>2. Direct!ActsAsUser
  BY <1>1, Zenon DEF Identity, Direct!ActsAsUser, Direct!Valid
<1>3. Direct!IdleThreadsAreThemselves
  BY <1>1, IdleHasNoJob, Zenon DEF Identity, Direct!IdleThreadsAreThemselves, Direct!At, At
<1>4. ASSUME calls.interrupts = 0
      PROVE  /\ \A t \in Threads : work[t].pc \in {"made", "use"} =>
                   work[t].fd \in DOMAIN fds /\ fds[work[t].fd] = work[t].ctx
             /\ \A c \in Contexts :
                   (fh[c] # -1 /\ \A t \in Threads : Direct!At(t, "forget") => work[t].ctx # c) =>
                      fh[c] \in DOMAIN fds /\ fds[fh[c]] = c
  BY <1>4, Zenon DEF DirectInv, Descriptor, Held, Used, Using, Forgetting, At, Direct!At
<1>5. ASSUME calls.interrupts = 0, \A c \in Contexts : fh[c] = -1, \A t \in Threads : Direct!At(t, "none")
      PROVE  fds = Direct!EmptyMap
  <2>1. \A t \in Threads : ~Using(t)
    BY <1>5, Zenon DEF Using, At, Direct!At
  <2>2. -1 \notin DOMAIN fds
    BY <1>1, FileAssumption DEF Shape
  <2>3. \A d \in DOMAIN fds : fds[d] \in Contexts
    BY <1>1, Zenon DEF Shape
  <2>4. DOMAIN fds = {}
    BY <1>5, <2>1, <2>2, <2>3, Zenon DEF DirectInv, Descriptor, Accounted
  <2> QED
    BY <1>1, <2>4, Zenon DEF Shape, Direct!EmptyMap
<1>6. Direct!DescriptorsAreOwn
  BY <1>4, Zenon DEF Direct!DescriptorsAreOwn
<1>7. Direct!NoDescriptorLeft
  BY <1>5, Zenon DEF Direct!NoDescriptorLeft
<1> QED
  BY <1>2, <1>3, <1>6, <1>7, Zenon

\* Whatever files, users and threads there are, DirectIO acts on a file as the file's user,
\* with descriptors of the file only, and leaves none behind, as long as no wait is
\* interrupted.  S3 and Ceph are asked with the credentials of the file's context, and Swift
\* is too unless they were changed after its first request (LinuxUserCTX, ash_open() to
\* ash_release(), setUserCTX(), authenticate()).
THEOREM SystemCallsOwn == CallsSpec => []SystemCallsAreOwn
<1>1. CallsInit => IInv
  BY InitDirect, InitSession, Zenon DEF CallsInit, IInv
<1>2. IInv /\ [DirectNext \/ SessionsNext]_<<directVars, sessionVars>> => IInv'
  BY NextDirect, KeptDirect, NextSession, KeptSession, Zenon DEF DirectNext, SessionsNext, IInv
<1>3. IInv => SystemCallsAreOwn
  BY DirectIsOwn, Zenon DEF IInv, SessionInv, SystemCallsAreOwn
<1> QED
  BY <1>1, <1>2, <1>3, PTL DEF CallsSpec
==============================================================================
