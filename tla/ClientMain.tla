------------------------------ MODULE ClientMain ------------------------------
(***************************************************************************)
(* A run of the client from its start to its end, and the runs after it    *)
(* (main.cc, authManager.cc, scheduler.cc, scopeExit.h, context.h): options *)
(* are parsed, the user is authenticated, a connection is tried, the file  *)
(* system is mounted, the process becomes a daemon, serves and shuts down, *)
(* while the scheduler's threads refresh the token the provider has.       *)
(*                                                                         *)
(* The main thread is at main.pc; what a step of it does between two waits *)
(* or system calls that may fail is one action.  Time passes in minutes,   *)
(* while the main thread waits for the provider or serves; its other steps *)
(* take no time worth counting.  The provider is external.                 *)
(***************************************************************************)
EXTENDS Options, TokenHandler, GSIHandler

CONSTANTS Inputs,      \* what a start finds: arguments, environment, files, user
          Accepted0,   \* sets of macaroons the provider may accept at first
          MaxStarts,   \* starts of the process
          MaxTime,     \* minutes a process serves
          MaxFaults    \* sends of a refreshed token that fail in a run

\* authManager.h and translator.h, in minutes; ten seconds count as one minute
RESTRICTED_MACAROON_REFRESH == 5
FAILED_TOKEN_REFRESH_RETRY == 1
DEFAULT_TIMEOUT == 1

\* The minutes left of a token's life for waits in pop(), when the start waits twice and
\* then MaxFaults sends of the next token time out before one is answered.
MaxWaited ==
    RESTRICTED_MACAROON_EXPIRATION - 1
        - (2 * DEFAULT_TIMEOUT + RESTRICTED_MACAROON_REFRESH
           + MaxFaults * (DEFAULT_TIMEOUT + FAILED_TOKEN_REFRESH_RETRY) + DEFAULT_TIMEOUT)

VARIABLES main,       \* the main thread
          auth,       \* the AuthManager with its TokenHandler or certificate
          scheduler,  \* threads, timers and refreshes that run
          comm,       \* the Communicator
          fuse,       \* what libfuse has given and got back
          disk,       \* the token file
          provider,   \* macaroons accepted, and the time its token expires at
          now,
          faults,
          hist        \* for the properties only

vars == <<main, auth, scheduler, comm, fuse, disk, provider, now, faults, hist>>

NoAuth == [kind |-> "none", macaroon |-> {}, restricted |-> {}, saved |-> FALSE,
           certificate |-> "", host |-> <<>>]

\* A refresh that runs is in pop(), in wait(), or was left in pop() by abort().
NoScheduler == [threads |-> FALSE, timers |-> {}, running |-> {}, cancel |-> 0]

\* blocked: the thread of a connection sends again what has failed, and is in pop(); waited:
\* the minutes that refreshes were in pop(), up to one more than TokenIsFresh allows.
NoCommunicator == [kind |-> "none", stopped |-> FALSE, blocked |-> FALSE, waited |-> 0]

NoFuse == [mountpoint |-> "none", mount |-> "none", object |-> "none", misused |-> FALSE]

NotStarted == [pc |-> "none", input |-> {}, vm |-> NoOptions, scopes |-> <<>>,
               triggered |-> {}, context |-> FALSE, logic |-> FALSE, since |-> 0, next |-> "",
               starts |-> 0]

Init ==
    /\ main = NotStarted
    /\ auth = NoAuth
    /\ scheduler = NoScheduler
    /\ comm = NoCommunicator
    /\ fuse = NoFuse
    /\ disk = {}
    /\ provider \in [accepts : Accepted0, session : {0}]
    /\ now = 0
    /\ faults = 0
    /\ hist = [rejected |-> {}, forkedWithThreads |-> FALSE]

Ended == {"none", "exited", "killed", "crashed"}

Goto(pc) == main' = [main EXCEPT !.pc = pc]

Waits(pc) == main' = [main EXCEPT !.pc = pc, !.since = now]

Input == CHOOSE input \in main.input : TRUE

\* ---------------------------------------------------------------- the scheduler
\* schedule(): the function that cancels is that of the latest timer.
Scheduled(s, delay) ==
    LET n == Min((1..3) \ {t.n : t \in s.timers})
    IN  [s EXCEPT !.timers = @ \cup {[n |-> n, due |-> now + delay]}, !.cancel = n]

Cancelled(s) == [s EXCEPT !.timers = {t \in @ : t.n # s.cancel}]

\* stop() joins the threads; timers stay in the service.
Stopped(s) == [s EXCEPT !.threads = FALSE]

Started(s) == [s EXCEPT !.threads = TRUE]

\* ---------------------------------------------------------------- start of main
\* The disk and what the provider accepts stay.
MemoryIsNew ==
    /\ auth' = NoAuth
    /\ scheduler' = NoScheduler
    /\ comm' = NoCommunicator
    /\ fuse' = NoFuse
    /\ now' = 0
    /\ faults' = 0
    /\ provider' = [provider EXCEPT !.session = 0]

Start ==
    /\ main.pc \in Ended
    /\ main.starts < MaxStarts
    /\ \E input \in Inputs :
          main' = [NotStarted EXCEPT !.pc = "parse", !.input = {input},
                                     !.context = TRUE, !.starts = main.starts + 1]
    /\ MemoryIsNew
    /\ UNCHANGED <<disk, hist>>

ParseArguments ==
    LET parsed == ParseConfigs(Input.cmd, Input.env, Input.user, Input.global)
    IN  /\ main.pc = "parse"
        /\ IF parsed.error # "" \/ Has(parsed.vm, "help")
           THEN Goto("exited") /\ UNCHANGED scheduler
           ELSE /\ main' = [main EXCEPT !.pc = "auth", !.vm = parsed.vm]
                /\ scheduler' = Started(scheduler)
        /\ UNCHANGED <<auth, comm, fuse, disk, provider, now, faults, hist>>

Authentication == Get(main.vm, "authentication", "certificate")

CreateCertificateAuthManager ==
    /\ main.pc = "auth"
    /\ Authentication = "certificate"
    /\ \E pair \in GetUserCertAndKey(Input.files, Input.hasOption) :
          LET validated == ValidateProxyCert(Input.files, pair)
          IN  CASE validated.error = "crash" -> Goto("crashed") /\ UNCHANGED auth
                [] validated.error = ""      ->
                       /\ Goto("connect")
                       /\ auth' = [auth EXCEPT !.kind = "certificate",
                                     !.certificate = GetCertData(validated),
                                     !.host = GetClusterHostname(validated,
                                                  Has(main.vm, "provider_hostname"),
                                                  Get(main.vm, "provider_hostname", "onedata.org"))]
                [] OTHER                     -> Goto("unwind") /\ UNCHANGED auth
    /\ UNCHANGED <<scheduler, comm, fuse, disk, provider, now, faults, hist>>

\* Without a token the manager's constructor throws; from a file it is used as
\* it is, else it is saved first.
CreateTokenAuthManager ==
    LET given == {main.vm[o] : o \in (DOMAIN main.vm) \cap EnvOptions}
        token == RetrieveToken(given, disk, Input.typed)
    IN  /\ main.pc = "auth"
        /\ Authentication = "token"
        /\ IF token = {}
           THEN Goto("unwind") /\ UNCHANGED auth
           ELSE \E t \in token :
                   /\ Goto(IF t.source = "file" THEN "connect" ELSE "save")
                   /\ auth' = [auth EXCEPT !.kind = "token", !.macaroon = {t.macaroon},
                                           !.saved = t.source = "file",
                                           !.restricted = {RestrictMacaroon(t.macaroon, now)}]
        /\ UNCHANGED <<scheduler, comm, fuse, disk, provider, now, faults, hist>>

RefuseAuthentication ==
    /\ main.pc = "auth"
    /\ Authentication \notin {"certificate", "token"}
    /\ Goto("unwind")
    /\ UNCHANGED <<auth, scheduler, comm, fuse, disk, provider, now, faults, hist>>

\* persistMacaroon(), whose failures are only logged
PersistOpens ==
    /\ main.pc = "save"
    /\ \/ Goto("write") /\ disk' = TruncatedFile
       \/ Goto("connect") /\ UNCHANGED disk
    /\ UNCHANGED <<auth, scheduler, comm, fuse, provider, now, faults, hist>>

PersistWrites ==
    /\ main.pc = "write"
    /\ Goto("connect")
    /\ \/ /\ disk' = UNION {PersistedFile(m) : m \in auth.macaroon}
          /\ auth' = [auth EXCEPT !.saved = TRUE]
          /\ hist' = [hist EXCEPT !.rejected = @ \ auth.macaroon]
       \/ UNCHANGED <<disk, auth, hist>>
    /\ UNCHANGED <<scheduler, comm, fuse, provider, now, faults>>

\* ------------------------------------------------------------ the AuthManager
\* createCommunicator(): the refresh that was planned is planned anew.
RefreshPlanned ==
    IF auth.kind = "token" THEN Scheduled(Cancelled(scheduler), RESTRICTED_MACAROON_REFRESH)
                           ELSE scheduler

\* handshake(): a communicator with one connection
TryConnection ==
    /\ main.pc = "connect"
    /\ Waits("handshake")
    /\ scheduler' = RefreshPlanned
    /\ comm' = [NoCommunicator EXCEPT !.kind = "test"]
    /\ UNCHANGED <<auth, fuse, disk, provider, now, faults, hist>>

RemoveTokenFile == disk' = {}

\* cleanup(): nothing for a certificate.  A removal that fails throws in a handler on the
\* connection's thread, where nobody catches it.
Forgotten ==
    IF auth.kind = "token"
    THEN /\ RemoveTokenFile
         /\ auth' = [auth EXCEPT !.saved = FALSE]
         /\ hist' = [hist EXCEPT !.rejected = @ \cup auth.macaroon]
    ELSE UNCHANGED <<disk, auth, hist>>

RemovalThrows == auth.kind = "token" /\ Goto("crashed") /\ UNCHANGED <<disk, auth, hist>>

TokenAccepted == auth.macaroon \subseteq provider.accepts

\* The token the provider has from now on, if authentication is by token
SessionFrom(restricted) ==
    provider' = [provider EXCEPT !.session =
                    IF restricted = {} THEN @ ELSE (CHOOSE r \in restricted : TRUE).before]

\* HandshakeResponse: a status that is not known is an error of the server.
TokenStatuses ==
    {"TOKEN_NOT_FOUND", "TOKEN_EXPIRED", "INVALID_TOKEN", "INVALID_METHOD",
     "ROOT_RESOURCE_NOT_FOUND", "INVALID_PROVIDER", "BAD_SIGNATURE_FOR_MACAROON",
     "FAILED_TO_DESCRYPT_CAVEAT", "NO_DISCHARGE_MACAROON_FOR_CAVEAT"}

TranslateStatus(status) ==
    IF status \in TokenStatuses \cup {"OK"} THEN status ELSE "INTERNAL_SERVER_ERROR"

IsTokenError(code) == code \notin {"OK", "INTERNAL_SERVER_ERROR"}

Answers == {"SOMETHING_NEW"} \cup IF TokenAccepted THEN {"OK"} ELSE TokenStatuses

\* main drops the communicator that tried the connection, and goes on at "next" when its
\* destructor has returned.
Drops(next) == main' = [main EXCEPT !.pc = "drop", !.next = next, !.since = 0]

\* The handler of handshake(), and the future that main waits for.
HandshakeAnswered ==
    /\ main.pc = "handshake"
    /\ \E status \in Answers :
          LET code == TranslateStatus(status)
          IN  \/ /\ code = "OK"
                 /\ Goto("ask")
                 /\ SessionFrom(auth.restricted)
                 /\ UNCHANGED <<disk, auth, hist>>
              \/ /\ code # "OK"
                 /\ Drops("unwind")
                 /\ IF IsTokenError(code) THEN Forgotten ELSE UNCHANGED <<disk, auth, hist>>
                 /\ UNCHANGED provider
              \/ /\ IsTokenError(code)
                 /\ RemovalThrows
                 /\ UNCHANGED provider
    /\ UNCHANGED <<scheduler, comm, fuse, now, faults>>

\* The first error of the connection is the result of the handshake.
ConnectionFails ==
    /\ main.pc = "handshake"
    /\ Drops("unwind")
    /\ UNCHANGED <<auth, scheduler, comm, fuse, disk, provider, now, faults, hist>>

\* communicate() of getConfiguration(), and the time its wait begins: pop() returns, since
\* start() puts the connection into the queue when it has set main's future.
AskConfiguration ==
    /\ main.pc = "ask"
    /\ Waits("configuration")
    /\ UNCHANGED <<auth, scheduler, comm, fuse, disk, provider, now, faults, hist>>

\* The only connection breaks before the request is written: its thread sends again, and
\* waits in pop() for itself.
RequestBreaks ==
    /\ main.pc = "configuration"
    /\ ~comm.blocked
    /\ comm' = [comm EXCEPT !.blocked = TRUE]
    /\ UNCHANGED <<main, auth, scheduler, fuse, disk, provider, now, faults, hist>>

TimedOut(since) == now >= since + DEFAULT_TIMEOUT

\* Variant: main waits for ever.
WaitTimesOutNever ==
    /\ main.pc = "no such place"
    /\ UNCHANGED vars

WaitTimesOut ==
    /\ main.pc \in {"handshake", "configuration"}
    /\ TimedOut(main.since)
    /\ Drops("unwind")
    /\ UNCHANGED <<auth, scheduler, comm, fuse, disk, provider, now, faults, hist>>

\* The connection is made again while main waits for the configuration, and the
\* provider refuses the token now: the handler uses a parameter of handshake(),
\* which has returned.  What is left there may still work.
RefusedAfterHandshake ==
    /\ main.pc = "configuration"
    /\ ~comm.blocked
    /\ ~TokenAccepted
    /\ \/ Forgotten /\ UNCHANGED main
       \/ Goto("crashed") /\ UNCHANGED <<disk, auth, hist>>
       \/ UNCHANGED <<main, disk, auth, hist>>
    /\ UNCHANGED <<scheduler, comm, fuse, provider, now, faults>>

\* The answer: a configuration, or an error.
ConfigurationArrives ==
    /\ main.pc = "configuration"
    /\ ~comm.blocked
    /\ Drops("cmdline") \/ Drops("unwind")
    /\ UNCHANGED <<auth, scheduler, comm, fuse, disk, provider, now, faults, hist>>

\* ~ConnectionPool(): the connections are destroyed, and their threads joined, before
\* abort() would release those in pop().
DropCommunicator ==
    /\ main.pc = "drop"
    /\ ~comm.blocked
    /\ Goto(main.next)
    /\ comm' = NoCommunicator
    /\ UNCHANGED <<auth, scheduler, fuse, disk, provider, now, faults, hist>>

\* -------------------------------------------------------------- FUSE and daemon
Scoped(scopes, pc) == main' = [main EXCEPT !.pc = pc, !.scopes = @ \o scopes]

Fails0 == Goto("unwind") /\ UNCHANGED fuse

FuseParseCmdline ==
    /\ main.pc = "cmdline"
    /\ \/ Fails0
       \/ /\ Scoped(<<"freeMountpoint">>, "mount")
          /\ fuse' = [fuse EXCEPT !.mountpoint = "allocated"]
    /\ UNCHANGED <<auth, scheduler, comm, disk, provider, now, faults, hist>>

FuseMount ==
    /\ main.pc = "mount"
    /\ \/ Fails0
       \/ /\ Scoped(<<"unmountFuse">>, "new")
          /\ fuse' = [fuse EXCEPT !.mount = "mounted"]
    /\ UNCHANGED <<auth, scheduler, comm, disk, provider, now, faults, hist>>

FuseNew ==
    /\ main.pc = "new"
    /\ \/ Scoped(<<"fsLogicWrapper">>, "unwind") /\ UNCHANGED fuse
       \/ /\ Scoped(<<"fsLogicWrapper", "destroyFuse", "removeHandlers">>,
                    IF GetFuseArgs(main.vm).foreground THEN "serve" ELSE "prepare")
          /\ fuse' = [fuse EXCEPT !.object = "created"]
    /\ UNCHANGED <<auth, scheduler, comm, disk, provider, now, faults, hist>>

\* prepareForDaemonize() joins the threads.
PrepareForDaemonize ==
    /\ main.pc = "prepare"
    /\ scheduler.running = {}
    /\ Goto("fork")
    /\ scheduler' = Stopped(scheduler)
    /\ UNCHANGED <<auth, comm, fuse, disk, provider, now, faults, hist>>

\* fuse_daemonize() goes on in a child that has the main thread only.
Daemonize ==
    /\ main.pc = "fork"
    /\ hist' = [hist EXCEPT !.forkedWithThreads = scheduler.threads \/ comm.kind # "none"]
    /\ \/ Goto("unwind") /\ UNCHANGED scheduler
       \/ Goto("serve") /\ scheduler' = Started(scheduler)
    /\ UNCHANGED <<auth, comm, fuse, disk, provider, now, faults>>

\* createCommunicator() of main, connect() and the FsLogic
EnterLoop ==
    /\ main.pc = "serve"
    /\ main' = [main EXCEPT !.pc = "loop", !.logic = TRUE]
    /\ scheduler' = RefreshPlanned
    /\ comm' = [NoCommunicator EXCEPT !.kind = "final"]
    /\ UNCHANGED <<auth, fuse, disk, provider, now, faults, hist>>

\* A connection of the pool is made, at first or again: what the provider answers is not
\* looked at.
PoolHandshake ==
    /\ main.pc = "loop"
    /\ TokenAccepted
    /\ SessionFrom(auth.restricted)
    /\ UNCHANGED <<main, auth, scheduler, comm, fuse, disk, now, faults, hist>>

\* The FUSE loop ends and main stops the communicator.  In an outage a connection may have
\* broken with a message that the Retrier sends again, from the connection's thread.
LeaveLoop ==
    /\ main.pc = "loop"
    /\ Goto("stop")
    /\ \E blocked \in BOOLEAN :
          comm' = [comm EXCEPT !.stopped = TRUE, !.blocked = blocked, !.waited = 0]
    /\ provider' = [provider EXCEPT !.session = 0]
    /\ faults' = 0
    /\ UNCHANGED <<auth, scheduler, fuse, disk, now, hist>>

\* Another connection, not yet destroyed, is ready.
RetryGoesOn ==
    /\ main.pc = "stop"
    /\ comm.blocked
    /\ comm' = [comm EXCEPT !.blocked = FALSE]
    /\ UNCHANGED <<main, auth, scheduler, fuse, disk, provider, now, faults, hist>>

\* stop() returns when it has joined the threads of the connections.  A refresh on its way
\* into pop() may get there after the abort().
StopReturns ==
    /\ main.pc = "stop"
    /\ ~comm.blocked
    /\ Goto("unwind")
    /\ \E at \in {"wait", "left"} :
          scheduler' = [scheduler EXCEPT !.running =
              {IF r.at = "pop" THEN [at |-> at, since |-> now] ELSE r : r \in @}]
    /\ UNCHANGED <<auth, comm, fuse, disk, provider, now, faults, hist>>

\* ------------------------------------------------------------------ end of main
\* What the functions of the ScopeExits do, and whether they may be called.
Trigger(f, name) ==
    CASE name = "freeMountpoint" ->
             [f EXCEPT !.mountpoint = "freed",
                       !.misused = @ \/ f.mountpoint # "allocated" \/ f.mount = "mounted"]
      [] name = "unmountFuse" ->
             [f EXCEPT !.mount = "unmounted",
                       !.misused = @ \/ f.mount # "mounted" \/ f.mountpoint # "allocated"]
      [] name = "destroyFuse" ->
             [f EXCEPT !.object = "destroyed",
                       !.misused = @ \/ f.object # "created" \/ f.mount = "mounted"]
      [] OTHER -> f

\* Variant: the one that should go first is not triggered.
TriggersOwn(scope) == <<scope>>

\* ~ScopeExit() triggers the one that goes first, then itself.
Triggers(scope) ==
    IF scope = "destroyFuse" THEN <<"unmountFuse", "destroyFuse">> ELSE <<scope>>

\* A function is empty once it has been triggered.
EndScope ==
    LET scope == Last(main.scopes)
        pending == SelectSeq(Triggers(scope), LAMBDA f : f \notin main.triggered)
    IN  /\ main.pc = "unwind"
        /\ main.scopes # <<>>
        /\ main.context \/ ~scheduler.threads
        /\ fuse' = FoldLeft(Trigger, fuse, pending)
        /\ main' = [main EXCEPT !.scopes = Front(@), !.triggered = @ \cup Range(pending),
                                !.context = @ /\ ~(scope = "fsLogicWrapper" /\ main.logic)]
        /\ UNCHANGED <<auth, scheduler, comm, disk, provider, now, faults, hist>>

\* ~Context() after the last reference to it: ~Scheduler() joins its threads.
EndScheduler ==
    /\ main.pc = "unwind"
    /\ ~main.context
    /\ scheduler.threads
    /\ scheduler.running = {}
    /\ scheduler' = Stopped(scheduler)
    /\ UNCHANGED <<main, auth, comm, fuse, disk, provider, now, faults, hist>>

\* ~TokenAuthManager(), then the context if it is still main's.
EndAuthManager ==
    /\ main.pc = "unwind"
    /\ main.scopes = <<>>
    /\ auth.kind # "none"
    /\ main.context \/ ~scheduler.threads
    /\ scheduler' = Cancelled(scheduler)
    /\ auth' = NoAuth
    /\ main' = [main EXCEPT !.context = FALSE]
    /\ UNCHANGED <<comm, fuse, disk, provider, now, faults, hist>>

EndMain ==
    /\ main.pc = "unwind"
    /\ main.scopes = <<>>
    /\ auth.kind = "none"
    /\ IF main.context THEN main' = [main EXCEPT !.context = FALSE]
                       ELSE ~scheduler.threads /\ Goto("exited")
    /\ UNCHANGED <<auth, scheduler, comm, fuse, disk, provider, now, faults, hist>>

\* ----------------------------------------------------------- the token's refresh
CommunicatorInContext == main.context /\ comm.kind = "final"

\* refreshToken() up to pop(), on a thread of the scheduler, when its timer has gone off.
\* Without a context or a communicator in it the process dies; a stopped one sends nothing.
RefreshStarts ==
    \E timer \in scheduler.timers :
        /\ scheduler.threads
        /\ main.pc \notin Ended
        /\ timer.due <= now
        /\ IF CommunicatorInContext
           THEN /\ scheduler' = [scheduler EXCEPT !.timers = @ \ {timer},
                      !.running = @ \cup {[at |-> IF comm.stopped THEN "wait" ELSE "pop",
                                           since |-> now]}]
                /\ auth' = [auth EXCEPT !.restricted =
                               {RestrictMacaroon(m, now) : m \in auth.macaroon}]
                /\ UNCHANGED main
           ELSE Goto("crashed") /\ UNCHANGED <<scheduler, auth>>
        /\ UNCHANGED <<comm, fuse, disk, provider, now, faults, hist>>

\* A connection is ready, at once or ever so late: pop() has no timeout.  Once stop() runs,
\* the connection may be destroyed.
RefreshPops ==
    \E r \in scheduler.running :
        /\ main.pc \in {"loop", "stop"}
        /\ r.at = "pop"
        /\ \/ /\ scheduler' = [scheduler EXCEPT !.running =
                                   (@ \ {r}) \cup {[at |-> "wait", since |-> now]}]
              /\ UNCHANGED main
           \/ comm.stopped /\ Goto("crashed") /\ UNCHANGED scheduler
        /\ UNCHANGED <<auth, comm, fuse, disk, provider, now, faults, hist>>

\* Variant: a failure is not followed by another attempt soon.
RetryDelayLong == RESTRICTED_MACAROON_REFRESH

RetryDelay == FAILED_TOKEN_REFRESH_RETRY

\* The end of refreshToken(): the next one is scheduled, if there is a context.
Rescheduled(r, delay) ==
    IF main.context
    THEN /\ scheduler' = Scheduled([scheduler EXCEPT !.running = @ \ {r}], delay)
         /\ UNCHANGED main
    ELSE Goto("crashed") /\ UNCHANGED scheduler

RefreshSent ==
    \E r \in scheduler.running :
        /\ main.pc \notin Ended
        /\ r.at = "wait"
        /\ ~comm.stopped
        /\ SessionFrom(auth.restricted)
        /\ Rescheduled(r, RESTRICTED_MACAROON_REFRESH)
        /\ UNCHANGED <<auth, comm, fuse, disk, now, faults, hist>>

\* The send fails, or is not answered: a stopped communicator never answers.
RefreshFails ==
    \E r \in scheduler.running :
        /\ main.pc \notin Ended
        /\ r.at = "wait"
        /\ \/ comm.stopped /\ TimedOut(r.since) /\ UNCHANGED faults
           \/ ~comm.stopped /\ faults < MaxFaults /\ faults' = faults + 1
        /\ Rescheduled(r, RetryDelay)
        /\ UNCHANGED <<auth, comm, fuse, disk, provider, now, hist>>

\* ----------------------------------------------------------------- environment
MainWaits == main.pc \in {"handshake", "configuration"}

Refreshing(at) == {r \in scheduler.running : r.at = at}

\* Time passes while neither a wait nor a timer of the scheduler is due.
Tick ==
    /\ \/ MainWaits /\ ~TimedOut(main.since)
       \/ main.pc = "loop" /\ now < MaxTime
       \/ main.pc = "drop" /\ comm.blocked /\ now < MaxTime
       \/ main.pc \in {"stop", "unwind"} /\ Refreshing("wait") # {}
    /\ \A r \in Refreshing("wait") : ~TimedOut(r.since)
    /\ scheduler.threads => \A t \in scheduler.timers : t.due > now
    /\ now' = now + 1
    /\ comm' = [comm EXCEPT !.waited =
                    IF Refreshing("pop") = {} THEN @ ELSE Min({@ + 1, MaxWaited + 1})]
    /\ UNCHANGED <<main, auth, scheduler, fuse, disk, provider, faults, hist>>

\* When it makes no difference to a handshake, it may as well come later.
Revoke ==
    /\ main.pc \in Ended \cup {"configuration"}
    /\ \E m \in provider.accepts : provider' = [provider EXCEPT !.accepts = @ \ {m}]
    /\ UNCHANGED <<main, auth, scheduler, comm, fuse, disk, now, faults, hist>>

Kill ==
    /\ main.pc \notin Ended
    /\ main' = [NotStarted EXCEPT !.pc = "killed", !.starts = main.starts]
    /\ MemoryIsNew
    /\ UNCHANGED <<disk, hist>>

MainStep ==
    \/ ParseArguments
    \/ CreateCertificateAuthManager \/ CreateTokenAuthManager \/ RefuseAuthentication
    \/ PersistOpens \/ PersistWrites
    \/ TryConnection \/ AskConfiguration
    \/ WaitTimesOut \/ DropCommunicator
    \/ FuseParseCmdline \/ FuseMount \/ FuseNew
    \/ PrepareForDaemonize \/ Daemonize \/ EnterLoop
    \/ StopReturns
    \/ EndScope \/ EndScheduler \/ EndAuthManager \/ EndMain

RefreshStep == RefreshStarts \/ RefreshSent \/ RefreshFails

ProviderStep ==
    \/ HandshakeAnswered \/ RefusedAfterHandshake
    \/ ConnectionFails \/ RequestBreaks \/ ConfigurationArrives
    \/ PoolHandshake \/ RefreshPops \/ RetryGoesOn

Next ==
    \/ Start \/ MainStep \/ RefreshStep \/ ProviderStep \/ LeaveLoop
    \/ Tick \/ Revoke \/ Kill

\* The process is scheduled and time goes by; the provider need not answer, nor come back.
Spec ==
    /\ Init
    /\ [][Next]_vars
    /\ WF_vars(MainStep)
    /\ WF_vars(RefreshStep)
    /\ WF_vars(Tick)

\* ------------------------------------------------------------------- properties
\* The options and the certificate that a start finds are those the documentation
\* promises, whatever files and variables there are (see Options and GSIHandler).
SettingsAreFound ==
    main.pc = "parse" => OptionPrecedence /\ CertificateSearch /\ ChainInOrder

\* A thread that main joins is in pop(), and nothing takes it out of there: of a connection
\* that sends again what has failed, or of a refresh that abort() has missed.
Hung ==
    \/ main.pc \in {"drop", "stop"} /\ comm.blocked
    \/ Refreshing("left") # {}

\* However long the start takes, within its timeouts, a refresh of the token that
\* it has scheduled never finds the context without its communicator, and there
\* is never a second refresh beside the first: createCommunicator() takes back
\* the one it had scheduled before.  (At the end of main, or when the start hangs, one
\* may come all the same.)
RefreshFindsCommunicator ==
    /\ scheduler.threads /\ (\E t \in scheduler.timers : t.due <= now)
           => main.pc \in Ended \cup {"unwind"} \/ CommunicatorInContext \/ Hung
    /\ main.pc \notin Ended
           => Cardinality(scheduler.timers) + Cardinality(scheduler.running) <= 1

\* While the client serves, the token it would send in a handshake, and the one
\* that the provider has, have not expired: although sends of a refreshed token
\* fail, the retries come soon enough, and each finds the communicator.  The refreshes may
\* wait for a connection too, MaxWaited minutes in all; for longer see TokenStaysFresh.
TokenIsFresh ==
    /\ RefreshFindsCommunicator
    /\ main.pc = "loop" /\ auth.kind = "token" /\ comm.waited <= MaxWaited
        => /\ provider.session > now
           /\ \A r \in auth.restricted : r.before > now

\* Not met: neither token expires in an outage of any length.  The refresh is in pop(), where
\* no retry after ten seconds follows, and in the end the handshake of the connection that
\* comes back sends the token made before the outage (refreshToken, pop).
TokenStaysFresh ==
    main.pc = "loop" /\ auth.kind = "token"
        => provider.session > now /\ \A r \in auth.restricted : r.before > now

\* On every way out of main the mount point is unmounted before the FUSE object
\* is destroyed and before its name is freed, each of them once; and when main
\* has returned nothing is left mounted or allocated.  The process forks when no
\* thread but the main one is left: the scheduler has joined its own and the
\* communicator that tried the connection is gone.
ReleasedInOrder ==
    /\ ~hist.forkedWithThreads
    /\ ~fuse.misused
    /\ main.pc = "exited" => /\ fuse.mountpoint # "allocated"
                             /\ fuse.mount # "mounted"
                             /\ fuse.object # "created"

\* A token the client has saved is the one that the next start reads, and survives the
\* encodings it goes through (see TokenHandler).  One that the provider has refused is
\* not taken from the file by a later start: the refused start has removed it, unless the
\* removal failed and ended the process.
TokenIsKept ==
    /\ TokenRoundTrip
    /\ main.pc \notin Ended \cup {"save", "write"} /\ auth.saved
           => ReadTokenFromFile(disk) = auth.macaroon
    /\ main.pc = "auth" => ReadTokenFromFile(disk) \cap hist.rejected = {}

\* A start ends: in the FUSE loop or with the end of the process, whatever the
\* provider does or does not answer, and so does the end of main; or it hangs in the join of
\* a thread that is in pop() (wait, ~ConnectionPool, ~Scheduler).
StartEnds ==
    (main.pc \notin Ended \cup {"loop"}) ~> (main.pc \in Ended \cup {"loop"} \/ Hung)

\* Not met: a start ends, and so does the end of main.
StartAlwaysEnds ==
    (main.pc \notin Ended \cup {"loop"}) ~> (main.pc \in Ended \cup {"loop"})
===============================================================================
