------------------------------- MODULE HelperCTX -------------------------------
(***************************************************************************)
(* The contexts with which files on S3, Swift and Ceph are accessed, and   *)
(* the sessions with the storage they keep: made when the context is made  *)
(* (S3), at the first request (Swift) or at the first operation and again  *)
(* for another user (Ceph); src/helpers/src/{s3,swift,ceph}Helper.cc.  One *)
(* file is followed, whose context outlives a change of its helper.        *)
(***************************************************************************)
EXTENDS Integers, FiniteSets

CONSTANTS
    Stores,         \* names of helpers, of {"S3", "Swift", "Ceph"}
    Users,          \* credentials
    HelperUser,     \* those in the arguments of the helpers
    MaxRequests     \* bound: operations posted at a time

VARIABLES
    context,        \* the file's context
    requests,       \* operations posted: [store, context, own]
    made            \* the last request the storage saw: {} or {[store, as, asked, kept]}

vars == <<context, requests, made>>

\* A session (m_client, m_account, ioCTX) is the set of the one user it was made for; "open" is
\* false when a Ceph session was shut down and not made again.  "kept" records that the user
\* changed after Swift's account was there.
Context(store, user) ==
    [store |-> store, user |-> user, session |-> IF store = "S3" THEN {user} ELSE {},
     connected |-> FALSE, open |-> TRUE, kept |-> FALSE]

\* createCTX(): with the arguments of the helper.
CreateCTX(store) == Context(store, HelperUser)

\* getCTX(): the context of another helper is replaced for this operation.
GetCTX(store) == IF context.store = store THEN context ELSE CreateCTX(store)

\* connect() of Ceph: under its mutex; the flag is not taken back when a reconnection fails.
Connect(c, reconnect, fails) ==
    IF c.connected /\ ~reconnect THEN c
    ELSE IF fails THEN [c EXCEPT !.open = FALSE]
    ELSE [c EXCEPT !.session = {c.user}, !.connected = TRUE, !.open = TRUE]

\* authenticate() of Swift: once for a context.
Authenticate(c) == IF c.session # {} THEN c ELSE [c EXCEPT !.session = {c.user}]

\* setUserCTX(): S3 makes a new client, Ceph a new connection, Swift keeps its account.
S3User(c, user) == [c EXCEPT !.user = user, !.session = {user}]
SwiftUser(c, user) == [c EXCEPT !.user = user, !.kept = c.session # {}]
CephUser(c, user, fails) == Connect([c EXCEPT !.user = user], TRUE, fails)

SetUserCTX(user, fails) ==
    /\ context' = CASE context.store = "S3"    -> S3User(context, user)
                    [] context.store = "Swift" -> SwiftUser(context, user)
                    [] context.store = "Ceph"  -> CephUser(context, user, fails)
    /\ UNCHANGED <<requests, made>>

\* An operation is posted.  Ceph connects first, and answers with an error when it cannot.
Operation(store, fails) ==
    /\ Cardinality(requests) < MaxRequests
    /\ LET own == context.store = store
           c == IF store = "Ceph" THEN Connect(GetCTX(store), FALSE, fails) ELSE GetCTX(store)
           refused == store = "Ceph" /\ fails /\ ~GetCTX(store).connected
       IN /\ requests' = IF refused THEN requests
                         ELSE requests \cup {[store |-> store, own |-> own,
                                              context |-> IF own THEN {} ELSE {c}]}
          /\ context' = IF own THEN c ELSE context
    /\ UNCHANGED made

\* It runs with the session its context then has, on the worker service or in the library; the
\* object stores get theirs here, and Swift's may be refused.  One that was shut down reaches no
\* storage.
RunRequest(r, fails) ==
    /\ r \in requests
    /\ requests' = requests \ {r}
    /\ LET given == IF r.own THEN context ELSE CHOOSE c \in r.context : TRUE
           refused == r.store = "Swift" /\ given.session = {} /\ fails
           c == IF r.store = "Swift" /\ ~fails THEN Authenticate(given) ELSE given
       IN /\ context' = IF r.own THEN c ELSE context
          /\ made' = IF refused \/ ~c.open THEN made
                     ELSE {[store |-> r.store, as |-> c.session, kept |-> c.kept,
                            asked |-> IF r.own THEN c.user ELSE HelperUser]}

Init ==
    /\ context \in {CreateCTX(store) : store \in Stores}
    /\ requests = {}
    /\ made = {}

Next ==
    \E fails \in BOOLEAN :
        \/ \E user \in Users : SetUserCTX(user, fails)
        \/ \E store \in Stores : Operation(store, fails)
        \/ \E r \in requests : RunRequest(r, fails)

Spec == Init /\ [][Next]_vars

\* --------------------------------------------------------------------------- properties
\* A request is made with the credentials the context has when it runs, although they may
\* change between the call and the run and a reconnection may fail.  Swift is the exception:
\* after a change that follows its first authentication it is asked with former credentials,
\* as setUserCTX() leaves m_account alone (setUserCTX, connect, authenticate).
RequestsAreOfTheUser ==
    \A m \in made : \/ m.as = {m.asked}
                    \/ /\ m.store = "Swift" /\ m.kept
                       /\ \E user \in Users \cup {HelperUser} : m.as = {user}

\* Not met by Swift: every request is made with the credentials the context has when it runs.
RequestsFollowTheUser == \A m \in made : m.as = {m.asked}
===============================================================================
