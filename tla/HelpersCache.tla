------------------------------ MODULE HelpersCache ------------------------------
(***************************************************************************)
(* The cache of storage helpers and the detection of direct access         *)
(* (src/src/cache/helpersCache.cc).  A storage is used through the proxy   *)
(* until a test file, written by the provider, is found, modified and      *)
(* verified.                                                               *)
(*                                                                         *)
(* FUSE threads call get() and wait in it, for a limited time, for answers *)
(* of the provider.  All answers are handled by the one thread of the      *)
(* connection pool, which runs the callbacks of the test too; retries run  *)
(* on the scheduler.  A request is sent once a connection is idle; sending *)
(* has no timeout.  Answers may be errors, and may never come.             *)
(***************************************************************************)
EXTENDS StorageAccess, HashMaps

CONSTANTS
    Thread,           \* FUSE threads
    Storage,
    HelperParams,     \* names and args of helpers that the provider may send
    Points,           \* m_mountPoints
    Attempts,         \* VERIFY_TEST_FILE_ATTEMPTS
    MaxGets,          \* bound: calls of get()
    MaxFaults         \* bound: requests that fail, lost answers and outages

ASSUME AttemptsAssumption == Attempts \in Nat

VARIABLES
    m_accessType, \* storage -> "PROXY" or "DIRECT", partial
    m_cache,      \* <<storage, forced>> -> the helper and the thread that holds it
    getter,       \* thread -> its call of get()
    pending,      \* requests that are not answered yet
    jobs,         \* m_scheduler: tests to be repeated
    runner,       \* "pool" and "scheduler" -> the test they are at
    params,       \* external: storage -> the name and args of its helper
    found,        \* external: place -> what a reader of the test file meets there
    online,       \* the pool has idle connections
    calls, faults,
    hist          \* history: verified and retried storages, storages whose test waits for a lost answer,
                  \*   helpers that get() returned for direct access

world == <<params, found, online>>
vars == <<m_accessType, m_cache, getter, pending, jobs, runner, world, calls, faults, hist>>

Idle == [pc |-> "idle", s |-> "", force |-> FALSE, answer |-> "", attempts |-> 0, helper |-> {}]
Key(s, force) == <<s, force>>
Slot(helper, owner) == [helper |-> helper, owner |-> owner]
Held(key) == key \in DOMAIN m_cache /\ m_cache[key].owner # {}
ProxyHelper == GetStorageHelper("ProxyIO", "")
Fetched(s, force) ==
    IF force THEN ProxyHelper ELSE GetStorageHelper(params[s].name, params[s].args)

PlacesOf(s) == Range(Places(params[s].name, params[s].args, Points))

Fault == faults < MaxFaults /\ faults' = faults + 1
NoFault == UNCHANGED faults

\* ------------------------------------------------------------------------- get()
\* The first use of a storage starts its test.
Get(t, s, force) ==
    LET new == ~force /\ s \notin DOMAIN m_accessType
        proxy == force \/ new \/ m_accessType[s] = "PROXY"
    IN
    /\ getter[t].pc = "idle" /\ calls < MaxGets
    /\ calls' = calls + 1
    /\ m_accessType' = IF new THEN Put(m_accessType, s, "PROXY") ELSE m_accessType
    /\ getter' = [getter EXCEPT ![t] = [Idle EXCEPT !.pc = IF new THEN "create" ELSE "find",
                                                   !.s = s, !.force = proxy]]
    /\ UNCHANGED <<m_cache, pending, jobs, runner, world, faults, hist>>

\* The caller does not wait for the answer, only for a connection.
RequestStorageTestFileCreation(t) ==
    /\ getter[t].pc = "create" /\ online
    /\ pending' = pending \cup {<<"create", getter[t].s>>}
    /\ getter' = [getter EXCEPT ![t].pc = "find"]
    /\ UNCHANGED <<m_accessType, m_cache, jobs, runner, world, calls, faults, hist>>

Returns(t, helper) ==
    /\ getter' = [getter EXCEPT ![t] = Idle]
    /\ hist' = IF getter[t].force THEN hist
               ELSE [hist EXCEPT !.direct = @ \cup {[s |-> getter[t].s, helper |-> h] : h \in helper}]

\* find() or insert() of the cached helper; both wait while another thread holds it.
Find(t) ==
    LET key == Key(getter[t].s, getter[t].force) IN
    /\ getter[t].pc = "find"
    /\ ~Held(key)
    /\ \/ key \in DOMAIN m_cache /\ Returns(t, m_cache[key].helper) /\ UNCHANGED m_cache
       \/ /\ key \notin DOMAIN m_cache
          /\ m_cache' = Put(m_cache, key, Slot({}, {t}))
          /\ getter' = [getter EXCEPT ![t].pc = "ask"]
          /\ UNCHANGED hist
    /\ UNCHANGED <<m_accessType, pending, jobs, runner, world, calls, faults>>

\* GetHelperParams is sent; the slot stays held.
Ask(t) ==
    /\ getter[t].pc = "ask" /\ online
    /\ pending' = pending \cup {<<"params", t>>}
    /\ getter' = [getter EXCEPT ![t].pc = "wait"]
    /\ UNCHANGED <<m_accessType, m_cache, jobs, runner, world, calls, faults, hist>>

\* communication::wait() gives up; an answer that comes later finds nobody.
TimesOut(t) ==
    /\ getter[t].pc = "wait" /\ getter[t].answer = ""
    /\ pending' = pending \ {<<"params", t>>}
    /\ getter' = [getter EXCEPT ![t].answer = "error"]
    /\ UNCHANGED <<m_accessType, m_cache, jobs, runner, world, calls, faults, hist>>

\* Variant: the slot of a failed call is never released.
CompleteHoldingSlot(t) ==
    LET key == Key(getter[t].s, getter[t].force)
        helper == Fetched(getter[t].s, getter[t].force)
    IN
    /\ getter[t].pc = "wait" /\ getter[t].answer # ""
    /\ IF getter[t].answer = "ok" /\ helper # {}
       THEN m_cache' = Put(m_cache, key, Slot(helper, {})) /\ Returns(t, helper)
       ELSE UNCHANGED m_cache /\ Returns(t, {})
    /\ UNCHANGED <<m_accessType, pending, jobs, runner, world, calls, faults>>

\* With the answer the helper is made and published; an error, or the timeout, erases the slot.
Complete(t) ==
    LET key == Key(getter[t].s, getter[t].force)
        helper == Fetched(getter[t].s, getter[t].force)
    IN
    /\ getter[t].pc = "wait" /\ getter[t].answer # ""
    /\ IF getter[t].answer = "ok" /\ helper # {}
       THEN m_cache' = Put(m_cache, key, Slot(helper, {})) /\ Returns(t, helper)
       ELSE m_cache' = Drop(m_cache, key) /\ Returns(t, {})
    /\ UNCHANGED <<m_accessType, pending, jobs, runner, world, calls, faults>>

\* ------------------------------------------------------- the thread of the answers
PoolIdle == runner["pool"].pc = "idle"

AnswerParams(t) ==
    /\ PoolIdle /\ <<"params", t>> \in pending
    /\ pending' = pending \ {<<"params", t>>}
    /\ \/ getter' = [getter EXCEPT ![t].answer = "ok"] /\ NoFault
       \/ getter' = [getter EXCEPT ![t].answer = "error"] /\ Fault
    /\ UNCHANGED <<m_accessType, m_cache, jobs, runner, world, calls, hist>>

\* The callback of requestStorageTestFileCreation()
AnswerCreation(s) ==
    /\ PoolIdle /\ <<"create", s>> \in pending
    /\ pending' = pending \ {<<"create", s>>}
    /\ \/ /\ runner' = [runner EXCEPT !["pool"] = [Idle EXCEPT !.pc = "test", !.s = s,
                                                              !.attempts = Attempts]]
          /\ NoFault
          /\ UNCHANGED m_accessType
       \/ Fault /\ m_accessType' = Drop(m_accessType, s) /\ UNCHANGED runner
    /\ UNCHANGED <<m_cache, getter, jobs, world, calls, hist>>

\* Variant: a refusal counts as unknown, and a failed verification as done.
AnswerVerificationTrusting(s) ==
    /\ PoolIdle /\ <<"verify", s>> \in pending
    /\ pending' = pending \ {<<"verify", s>>}
    /\ m_accessType' = Put(m_accessType, s, "DIRECT")
    /\ hist' = [hist EXCEPT !.refused = @ \cup {s}]
    /\ UNCHANGED <<m_cache, getter, jobs, runner, world, calls, faults>>

\* handleStorageTestFileVerification()
AnswerVerification(s) ==
    /\ PoolIdle /\ <<"verify", s>> \in pending
    /\ pending' = pending \ {<<"verify", s>>}
    /\ \/ /\ m_accessType' = Put(m_accessType, s, "DIRECT")
          /\ hist' = [hist EXCEPT !.verified = @ \cup {s}]
          /\ NoFault
       \/ /\ m_accessType' = Put(m_accessType, s, "PROXY")
          /\ hist' = [hist EXCEPT !.refused = @ \cup {s}]
          /\ NoFault
       \/ Fault /\ m_accessType' = Drop(m_accessType, s) /\ UNCHANGED hist
    /\ UNCHANGED <<m_cache, getter, jobs, runner, world, calls>>

\* The answer to a request with a callback never comes; nothing limits the time it has.
LoseAnswer(s) ==
    /\ \E kind \in {"create", "verify"} :
         <<kind, s>> \in pending /\ pending' = pending \ {<<kind, s>>}
    /\ Fault
    /\ hist' = [hist EXCEPT !.lost = @ \cup {s}]
    /\ UNCHANGED <<m_accessType, m_cache, getter, jobs, runner, world, calls>>

\* ---------------------------------------------------------- handleStorageTestFile()
Ends(r, access) ==
    /\ m_accessType' = access
    /\ runner' = [runner EXCEPT ![r] = Idle]
    /\ UNCHANGED <<pending, jobs>>

GiveUp(r) ==
    /\ runner[r].pc = "test" /\ runner[r].attempts = 0
    /\ Ends(r, Put(m_accessType, runner[r].s, "PROXY"))
    /\ UNCHANGED <<m_cache, getter, world, calls, faults, hist>>

Verdict(r) ==
    LET h == params[runner[r].s] IN VerifyStorageTestFile(h.name, h.args, Points, found)

\* The file is not to be seen yet: once more in a while.
Repeat(r) ==
    /\ runner[r].pc = "test" /\ runner[r].attempts > 0
    /\ Verdict(r).outcome = "none"
    /\ jobs' = jobs \cup {[s |-> runner[r].s, attempts |-> runner[r].attempts - 1]}
    /\ runner' = [runner EXCEPT ![r] = Idle]
    /\ UNCHANGED <<m_accessType, m_cache, getter, pending, world, calls, faults, hist>>

\* EACCES, ENOENT and ENOTDIR settle for the proxy, another error leaves the storage
\* untested.
CatchError(r, error) ==
    LET s == runner[r].s
    IN Ends(r, IF error = "denied" THEN Put(m_accessType, s, "PROXY") ELSE Drop(m_accessType, s))

\* An error of the test, or of the modification of the file.
Rejected(r) ==
    /\ runner[r].pc = "test" /\ runner[r].attempts > 0
    /\ \/ /\ Verdict(r).outcome \in {"denied", "broken"}
          /\ CatchError(r, Verdict(r).outcome)
          /\ NoFault
       \/ /\ Verdict(r).outcome = "helper"
          /\ \E error \in ModifyStorageTestFile(TRUE) : CatchError(r, error)
          /\ Fault
    /\ UNCHANGED <<m_cache, getter, world, calls, hist>>

Modify(r) ==
    /\ runner[r].pc = "test" /\ runner[r].attempts > 0
    /\ Verdict(r).outcome = "helper"
    /\ runner' = [runner EXCEPT ![r].pc = "verify", ![r].helper = Verdict(r).helper]
    /\ UNCHANGED <<m_accessType, m_cache, getter, pending, jobs, world, calls, faults, hist>>

\* The modified file is sent to be verified before the helper is cached.
RequestStorageTestFileVerification(r) ==
    /\ runner[r].pc = "verify" /\ online
    /\ pending' = pending \cup {<<"verify", runner[r].s>>}
    /\ runner' = [runner EXCEPT ![r].pc = "cache"]
    /\ UNCHANGED <<m_accessType, m_cache, getter, jobs, world, calls, faults, hist>>

\* m_cache.insert(acc, ...) waits for a get() that holds the slot.
Cache(r) ==
    LET key == Key(runner[r].s, FALSE) IN
    /\ runner[r].pc = "cache"
    /\ ~Held(key)
    /\ m_cache' = Put(m_cache, key, Slot(runner[r].helper, {}))
    /\ runner' = [runner EXCEPT ![r] = Idle]
    /\ UNCHANGED <<m_accessType, getter, pending, jobs, world, calls, faults, hist>>

\* A scheduled retry runs.
Retry(job) ==
    /\ runner["scheduler"].pc = "idle"
    /\ job \in jobs
    /\ jobs' = jobs \ {job}
    /\ runner' = [runner EXCEPT !["scheduler"] = [Idle EXCEPT !.pc = "test", !.s = job.s,
                                                             !.attempts = job.attempts]]
    /\ hist' = [hist EXCEPT !.retried = @ \cup {job.s}]
    /\ UNCHANGED <<m_accessType, m_cache, getter, pending, world, calls, faults>>

\* external: the file system of a mount point shows the test file at last.
Appears(p) ==
    /\ found[p] = "missing"
    /\ found' = [found EXCEPT ![p] = "match"]
    /\ UNCHANGED <<m_accessType, m_cache, getter, pending, jobs, runner, params, online, calls, faults, hist>>

\* A thread that sends finds no idle connection, for a while (ConnectionPool).
Outage ==
    /\ \/ \E t \in Thread : getter[t].pc \in {"create", "ask"}
       \/ \E r \in DOMAIN runner : runner[r].pc = "verify"
    /\ online /\ online' = FALSE
    /\ Fault
    /\ UNCHANGED <<m_accessType, m_cache, getter, pending, jobs, runner, params, found, calls, hist>>

Reconnects ==
    /\ ~online /\ online' = TRUE
    /\ UNCHANGED <<m_accessType, m_cache, getter, pending, jobs, runner, params, found, calls, faults, hist>>

\* ----------------------------------------------------------------- specification
Init ==
    /\ m_accessType = EmptyMap
    /\ m_cache = EmptyMap
    /\ getter = [t \in Thread |-> Idle]
    /\ pending = {} /\ jobs = {}
    /\ runner = [r \in {"pool", "scheduler"} |-> Idle]
    /\ params \in [Storage -> HelperParams]
    /\ found \in [UNION {PlacesOf(s) : s \in Storage} -> Findings]
    /\ online = TRUE
    /\ calls = 0 /\ faults = 0
    /\ hist = [verified |-> {}, refused |-> {}, retried |-> {}, lost |-> {}, direct |-> {}]

SendStep(t) == RequestStorageTestFileCreation(t) \/ Ask(t)

FuseStep(t) == Find(t) \/ TimesOut(t) \/ Complete(t)

AnswerStep(s) == AnswerCreation(s) \/ AnswerVerification(s) \/ LoseAnswer(s)

TestStep(r) ==
    \/ GiveUp(r) \/ Repeat(r) \/ Rejected(r)
    \/ Modify(r) \/ RequestStorageTestFileVerification(r) \/ Cache(r)

Next ==
    \/ \E t \in Thread, s \in Storage, force \in BOOLEAN : Get(t, s, force)
    \/ \E t \in Thread : SendStep(t) \/ FuseStep(t) \/ AnswerParams(t)
    \/ \E s \in Storage : AnswerStep(s)
    \/ \E r \in {"pool", "scheduler"} : TestStep(r)
    \/ \E job \in jobs : Retry(job)
    \/ \E p \in DOMAIN found : Appears(p)
    \/ Outage \/ Reconnects

Spec == Init /\ [][Next]_vars

\* Every thread runs and waits end at their timeout.  The answer
\* to a request with a callback comes, or is lost; nothing is asked of the answer to
\* GetHelperParams, nor of connections.
FairSpec ==
    /\ Spec
    /\ \A t \in Thread : WF_vars(SendStep(t) \/ FuseStep(t))
    /\ \A s \in Storage : WF_vars(AnswerStep(s))
    /\ \A r \in {"pool", "scheduler"} : WF_vars(TestStep(r))
    /\ WF_vars(\E job \in jobs : Retry(job))

\* -------------------------------------------------------------------- properties
TestsOf(s) ==
    Cardinality(pending \cap {<<"create", s>>, <<"verify", s>>})
    + Cardinality({job \in jobs : job.s = s})
    + Cardinality({r \in DOMAIN runner : runner[r].pc \in {"test", "verify"} /\ runner[r].s = s})
    + Cardinality({s} \cap hist.lost)

\* A storage counts as accessible only after the provider has seen the change that
\* this client made to the test file (handleStorageTestFileVerification), and a helper
\* for direct access that get() returns is the one the test file was found with.  The
\* helper that the provider describes is used only in the window between the
\* verification and the caching of a repeated test.  There are never two tests of one
\* storage at a time, whatever errors end them and whichever thread asks again.
DirectIsVerified ==
    /\ \A s \in DOMAIN m_accessType : m_accessType[s] = "DIRECT" => s \in hist.verified
    /\ \A x \in hist.direct :
        x.s \notin hist.retried =>
            x.helper.args \in DOMAIN found /\ found[x.helper.args] = "match"
    /\ \A s \in Storage : TestsOf(s) <= 1

\* Outages end.
Connected == []<>online

\* If outages end, every call of get() returns, although the provider may never answer (the slot of m_cache that
\* it holds is then given back), and a test comes to its end unless one of its answers is lost,
\* for which nothing waits.
GetReturns ==
    Connected =>
    /\ \A t \in Thread : getter[t].pc # "idle" ~> getter[t].pc = "idle"
    /\ \A s \in Storage : TestsOf(s) > 0 ~> TestsOf(s) = 0 \/ s \in hist.lost

\* Not met by the code: communicate() with a callback has no timeout, so a lost answer leaves the
\* storage to the proxy for the life of the client.
TestsEnd == Connected => \A s \in Storage : TestsOf(s) > 0 ~> TestsOf(s) = 0
================================================================================
