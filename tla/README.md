# Formal model of oneclient

TLA+ specifications of the oneclient FUSE client (`src/src`, `src/include`) and
of its helpers library (`src/helpers`), checked with TLC on small instances and,
in the modules named `*_proofs`, proved with TLAPS for every value of the
constants. Paths below are relative to the repository.

## 1. The system and its parts

oneclient mounts a Onedata space. FUSE threads call `FsLogic`, which answers
from caches and otherwise asks the provider over a pool of TLS connections; the
provider pushes events (changed attributes, locations, removals, renames) back.
Data is read and written through storage helpers: directly when the client can
reach the storage, through the provider (the proxy) otherwise.

```
 FUSE threads      event workers      scheduler (ticks, timers, token refresh)
      |                 |                  |
   FsLogic ---- MetadataCache, CacheExpirationHelper x2, FsSubscriptions,
      |         FileContextCache, ForceProxyIOCache
      |                 |
      |          event streams -- TypedStream --.
      |                                         |
 HelpersCache, storage helpers            Translator / Inbox
 (BufferAgent, DirectIO, S3, Swift,             |
  Ceph, ProxyIO)                            Sequencer
                                                |
                            Retrier / ConnectionPool / PersistentConnection
                                                |
                                            provider
```

What is hard in it: `tick()` walks a bucket with no lock; a connection's own
thread retries a failed send and waits for another connection; stream messages
are lost, repeated and reordered; the priority queue of a stream is popped and
refilled while other threads send; element locks of two hash maps are taken in
different orders and held over requests to the provider; answers arrive after
the call gave up; direct access is detected while a handle has buffered writes;
a thread changes its file system identity for one operation; a start may fail
after each of its steps. `hazards` in `PROJECT.json` lists them with the line
where each one bites and the properties about it.

## 2. Modules

| Module | Models | Checked by run |
|---|---|---|
| `CacheExpirationHelper` | `src/src/cache/cacheExpirationHelper.h` | `cache_expiration` |
| `ExpirationTracking` | what the helper promises: pins per key, purge of unpinned keys | refined by `CacheExpirationHelper`, used by `FsLogic` |
| `Sequencer` | `communication/layers/sequencer.h` | `sequencer` |
| `StreamDelivery` | what the Sequencer promises to the layers above | refined by `Sequencer` |
| `ConnectionPool` | `connectionPool.cc`, `persistentConnection.cc`, `layers/retrier.h`, a handler as one step | `pool` |
| `PersistentConnection` | one connection with the operations on its sockets (`persistentConnection.cc`, etls' `tlsSocket.cpp`) | `pool` |
| `Connections` | the two levels side by side | `pool` |
| `TypedStream` | `streaming/typedStream.h`, dispatch of `streamManager.h` | `typed_stream` |
| `Streams` | the streams of both directions side by side; the run takes an incoming one that stays empty | `typed_stream` |
| `Messaging` | `layers/inbox.h`, `translator.h`, `binaryTranslator.h` over the send() of the pool | `messaging` |
| `Messages`, `Exchange` | the protocol messages in both directions, statuses and errno, flags of `open()`; one exchange | `messaging` |
| `EventTypes`, `EventManager` | `src/src/events` | `event_streams` |
| `MetadataCache` | `metadataCache.cc` and the operations of `fsLogic.cc` that hold its accessors | `metadata`, `metadata_deadlock` |
| `FsLogic` | `fsLogic.cc`, `fsSubscriptions.cc`, `fileContextCache.cc`, `forceProxyIOCache.cc`, locations of `metadataCache.cc` | `fs_operations` |
| `HelpersCache`, `StorageAccess` | `helpersCache.cc`, `storageAccessManager.cc`, `storageHelperFactory.cc` | `helpers_cache` |
| `BufferAgent` | `buffering/*`, reads and writes of the helpers below | `storage_helpers` |
| `KeyValueAdapter` | files in blocks on S3 and Swift (`keyValueAdapter.cc`, `s3Helper.cc`, `swiftHelper.cc`) | `storage_helpers` |
| `DirectIOHelper` | `directIOHelper.cc` | `storage_helpers` |
| `HelperCTX` | sessions and credentials of S3, Swift, Ceph | `storage_helpers` |
| `StorageCalls` | DirectIO and the sessions side by side, what they promise together | `storage_helpers` |
| `StorageHelpers` | all helpers, one of them active | `storage_helpers` |
| `ClientMain`, `Options`, `TokenHandler`, `GSIHandler` | `main.cc`, `src/src/auth`, `scheduler.cc`, `options.cc` | `client_main` |
| `HashMaps` | hash maps as functions | |
| `MC*` | instances for TLC, where a `.cfg` cannot give the values; `MCEventManager` and `MCMetadataCache` also hold properties that need operators of TLC's reach | |
| `*_proofs` | theorems | |

An optional value is a set with at most one element. Definitions whose comment
begins with "Variant" are deliberately wrong versions of the definition that
follows; each is a plausible slip of the code, and the property it belongs to
fails when it replaces the right one. They are not part of any specification.

### CacheExpirationHelper

Every operation but `tick()` holds the shared lock and the element locks of the
keys it touches, so it is one action. `tick()` is `Shift` (exclusive lock), one
`Visit` per element of the bucket, and `TickEnd`, which frees the bucket; other
operations run between them. Buckets are addresses that are reused after being
freed, because the code compares pointers. Erasing an element while the walk
goes on may make the walk skip elements; an element inserted into the walked
bucket may or may not be reached. `cache()` may throw (`CacheThrows`). The
history variable `left` counts the ticks the documentation still grants a
record, `lost` collects records whose bucket was freed under them, `phantom`
those left by a throwing `cache()`. `unpin()` is called only for pinned records
(its documented contract); `MaxPins` bounds the pins in the model.
`ExpirationTracking` keeps of all this the pins per key; `FsLogic` uses its
operations for its two helpers.

### Sequencer and StreamDelivery

Incoming messages run on the single thread of the pool (`asio::wrap` in
`connectionPool.cc:69`), so one handler is active at a time; it takes one step
per turn of the loop in `Buffer::clear()`. A new `Buffer` is value-initialised
by the hash map, so both counters start at 0. The periodic job copies the
expected numbers under the exclusive lock and sends requests without it. The
priority queue is a bag (copies per number). The provider and the network are
outside `src/`: the provider keeps messages until they are acknowledged and
resends requested ones; the network loses, repeats and reorders. Unsigned
subtraction wraps (`Pred`). After the end of a stream its buffer is erased; a
copy that arrives later starts a new buffer at 0, which the test
`sequencerShouldRemoveBufferWhenEndOfStreamMessageReceived` expects, so the
history `delivered` restarts with the buffer.

`StreamDelivery` says: messages are forwarded one by one, in order, none before
it was sent. The mapping counts what was forwarded (`forwarded`), and all of
the stream once its end was forwarded.

### ConnectionPool, PersistentConnection, Connections

`ConnectionPool` composes the pool, its connections and the Retrier, because
their interaction is what is hard: each connection has a thread of its own, all
its handlers run there, and a failed send is retried from that thread, which
then waits in `pop()` (`Blocked`). Sockets may connect, answer the handshake,
complete writes in order, and fail at any moment (`MaxFailures` times). `stop()`
is `StopBegin` (m_connected), `Destroy` per connection (its destructor joins the
thread, so it waits while the thread is blocked) and `StopEnd` (abort). Sends on
a connection that was recreated after it had been queued as idle are possible,
as in the code.

`PersistentConnection` opens up one connection: every asynchronous operation on
a socket is a member of `ops` and completes or fails later, also when the
connection has already given the socket up; `createCallback()`'s id decides
whether its callback still counts. Frames are a header and units of a message.
`Connections` lets TLC look at either level; they are not composed step by step
because the pool sees nothing of a connection but its handlers.

### TypedStream

`send()` is three steps (number, save, pass on); the handlers for requests and
acknowledgements run on the pool's thread, one step per queue operation,
because the mutex is only ever taken shared and senders interleave with them.
`due` is a history variable: what the handler was asked to resend or remove.
`TypedStream::reset()` is not modelled: the manager's predicate never lets a
reset through (`streamManager.h:71-73`). The streams of the client are
destroyed after `communicator->stop()` (`main.cc:377`), hence with no handler
running. `~EventCommunicator` closes its stream and `~TypedStream` closes it
again: the model takes both steps.

### Messaging, Messages, Exchange

A call of `communicate()` takes the next id, puts its callback under it into
`m_callbacks` while it holds the entry's accessor, and sends; the entry goes
with the answer or with a failed send. The number of ids is a constant
(`IdSpaces`; 65,536 in the code), so ids come around. A send, as far as
`ConnectionPool` shows it, waits in `pop()` for a connection, without a timeout,
and brings the message to the provider up to once per attempt. `idle` says whether
a connection can be had; an outage may begin at any time and need not end.
`Namesakes` are the calls that have been given the same id. Answers may be refusals, garbage, late, lost or
repeated; a wait ends with the promise, a timeout or an interrupt.
`Messages` has an operator for every request and answer; `Exchange` sends one
request of every kind and lets the provider answer with every status it could
send, known to the client or not, with another body or without the field.

### EventTypes and EventManager

A stream is a worker with a queue of jobs; a job runs through counter, size and
time aggregation, the subscriptions, the buffer and the handler in one step, as
the worker's thread does. Timers expire and run later (`TimerExpires`,
`TimerRuns`), so a cancelled timer may still fire. All streams share the registry
of unsubscribe handlers. `truth` is what the accepted writes did to a file,
`view` what the provider was told.

### MetadataCache

An accessor is a lock on an entry of one of the two maps. Every acquisition and
every exchange with the provider is a step; an operation is a small program
whose position and locals are in `thread`. Sub-operations (a lookup inside a
rename, the remapping of a directory's children) are frames on a stack. The
provider's files change under the client (`"provider"` operations). History:
`known` (uuids that were ever right for a path), `orphans` (paths that
`remapFile()` mapped without metadata) and `written` (the size this client wrote
since the entry exists). A rename takes `written` along to the new uuid with the
attributes; an attribute event of the provider, whose size the code takes over,
resets it, and so does a truncation.

### FsLogic

An operation of FUSE is the sequence of its calls to the caches (`Steps`), each
one step; between them the other threads, event handlers and ticks run. The two
expiration helpers are two functions of pins with the operations of
`ExpirationTracking`. A file is a sequence of blocks and the data of a block is
a number; a handle's helper context holds unflushed writes. The flush by the
buffer's timer, arriving locations and reported events are steps of their own. The
provider may refuse a request and the storage a flush: a read, write or release
then throws, or, when the error looks like a refusal of direct access, is repeated
through the proxy. A directory is listed chunk by chunk, and a rename moves the
entries of the children one by one; either may fail half-way. A reader that waits
for data polls the location for the first byte it wants, as `waitForNewLocation()`
does; the notification that only shortens the time between two polls is left out.
The locks are those of
`MetadataCache` and are left out here.

### HelpersCache, StorageAccess

`get()` is one step up to its request for parameters. It waits for a connection,
then for the answer, which may be an error or not come: `wait()` gives up after 60
seconds. Creation and verification of the test file are requested with a callback:
their answers are handled by the thread of the pool, and nothing waits for one that
is lost. Repeated tests run on the scheduler's thread. `StorageAccess` decides
which helper is made and what the content of the test file says.

### Storage helpers

`BufferAgent` is one open file: `WriteBuffer`'s locked sections are steps, pushes
and downloads are in flight until the storage works on them, fails or loses the
answer; waits have timeouts. The provider may report fewer bytes than it was sent
(`WritesShort`); the push then counts as done, as in the code. The other helpers
report a whole buffer or an error. `KeyValueAdapter` is the pure part: blocks,
merging, listing by pages, deletion in batches. Swift's listing drops its limit
after the first page and ends at a page of another length, as the code does. `DirectIOHelper`
has threads that take an identity, make a system call and give the identity
back, each a step. `HelperCTX` has a file's context and its session: S3 and Ceph
use the credentials the context has when the request is made, Swift those it
authenticated with first.
`StorageCalls` puts these two side by side and says what they promise; in
`StorageHelpers` one of the three is active, chosen at the start.

### ClientMain

`main` is a program counter with the scopes it has to leave; each system call
that may fail and each wait is a step. The process may be killed at any step and
is started again; the token file survives. Time passes in minutes while the main
thread waits or serves, and the scheduler refreshes the token. A refresh waits in
`pop()` for a connection before its timed wait begins, for as long as the outage
lasts. When the only connection of the test communicator breaks on the request for
the configuration, its thread waits in `pop()` for itself, and the destructor of the
communicator joins that thread (`DropCommunicator`); `stop()` at the end of the loop
joins the threads of the connections in the same way (`LeaveLoop`, `StopReturns`).
`Hung` names the states in which such a join does not return. The pop of `main`
itself (`AskConfiguration`) returns: the handshake's future is set just before the
connection is put into the idle queue.


## 3. Runs

| Run | Shows |
|---|---|
| `cache_expiration` | a tick purges only unpinned records whose ticks are over; the helper implements `ExpirationTracking` |
| `sequencer` | what the provider discards was forwarded, requests name only missing messages, the layer implements `StreamDelivery`, a stream that was seen is forwarded to its end |
| `pool` | no ready connection is lost to the pool, callbacks are final, closed connections come back and posted sends are answered; late callbacks of a socket change nothing and frames stay whole |
| `typed_stream` | nothing the provider lacks is forgotten, the handlers' loops end |
| `messaging` | answers end their own calls, once; a success is the provider's; every call returns while connections come back; messages and errors mean what they were made from |
| `event_streams` | events are conserved, writes reported with the right size and bytes, every threshold has one handler that undoes it, buffered events leave in time |
| `metadata` | a path leads only to files that were there, look-ups and renames keep own sizes, operations that only look up never wait for each other in a circle |
| `metadata_deadlock` | **violated**: `remove(uuid)` locks the metadata before the path and meets a lookup or a rename |
| `fs_operations` | tracked files are subscribed, open files are held, own writes are seen and reach the storage by the release, or the caller is told; no operation is repeated for ever |
| `helpers_cache` | direct access is used only when verified, one test at a time; while connections come back every call returns, and every test ends whose answers are not lost |
| `storage_helpers` | reads see own writes, what is synced is stored, blocks are one file, system calls and sessions belong to the file's user, operations return |
| `client_main` | settings come from the documented source, tokens are kept, and fresh as long as waits for a connection are short, libfuse gets everything back in order, a start ends or hangs in a join |

The violated property states what a comment of the repository says ("By
convention, to avoid deadlocks, always lock on path before metadata",
`metadataCache.cc:161`); `findings` in `PROJECT.json` quotes it. A violated
property ends a run, so `metadata_deadlock` has the configuration of `metadata`
with that property alone.

### Statements the code does not meet

These are stated in the modules, TLC violates them, and the properties of the
runs except exactly these cases:

| Statement | Module | What happens |
|---|---|---|
| `EveryExpiredIsPurged` | `CacheExpirationHelper` | a rename during `tick()` inserts into a bucket that was already walked (line 203) |
| `AssertionsHold` | `CacheExpirationHelper` | after a `cache()` that threw, `assert(acc->second.bucket)` fails |
| `ConnectSendsReset` | `Sequencer` | the reset of `connect()` is dropped by a pool that is not connected yet |
| `OkMeansSent` | `ConnectionPool` | a connection that is in the idle queue twice gets two sends at a time; the second replaces buffer and callback of the first and is told of its success |
| `StopReturns` | `ConnectionPool` | `stop()` joins a thread that waits in `pop()`, which only the later `abort()` releases |
| `PoppedConnectionExists` | `ConnectionPool` | a connection destroyed by `stop()` is still in the idle queue |
| `AnswersTakeEffect` | `TypedStream` | the queue gives the highest number first, so a request for lower numbers resends nothing and an acknowledgement of them removes nothing |
| `TestsEnd` | `HelpersCache` | a lost answer to the creation or verification of a test file leaves the storage to the proxy: nothing waits for it |
| `LossesAreTold` | `FsLogic` | an error of an earlier flush that is EPERM or EACCES is taken for a refusal of the present operation, which is repeated and succeeds |
| `OwnWritesAreInside` | `FsLogic` | an attribute event sent before a write was reported makes the file shorter than what was written |
| `ShortWritesAreTold` | `BufferAgent` | the callback of a push drops the number of bytes the provider wrote |
| `SwiftListsAll` | `BufferAgent` | a file of more blocks than `MAX_LIST_OBJECTS` and a page of the server is not removed entirely |
| `RequestsFollowTheUser` | `HelperCTX` | `setUserCTX` of Swift keeps the account of the first authentication |
| `TokenStaysFresh` | `ClientMain` | in an outage the refresh waits in `pop()`, the retry after ten seconds does not come, and the connection that comes back sends an expired token |
| `StartAlwaysEnds` | `ClientMain` | a communicator is dropped, or stopped, while a thread it joins is in `pop()` |
| `OwnWritesAreRead` | `FsLogic`, `BufferAgent` | a handle whose helper is switched reads past its unflushed buffer; after a failed download the read cache serves an old block under the new offset |

### Bounds

Two keys, three buckets and four addresses let a bucket be reused while a stale
pointer to it exists. Three messages with a window of two give the Sequencer a
gap, a full and a partial window, and a message may be in its queue twice. Two
connections are the client's default; with two messages one is retried while the
other is under way; three failures let a connection fail while idle, come back
and fail again. One connection in detail has two sockets, so that callbacks of
the first come while it works with the second. Three stream messages give
`TypedStream` a gap with messages on both sides. One message id or two for two
calls make ids come around, and keep them apart. The event streams have one file
and workloads of two or three events, enough to reach every threshold of the
subscriptions used. The metadata cache has two threads, three paths and three
files, and all pairs and triples of its operations. `fs_operations` enumerates
workloads of three threads that cross what the caches share, with one refused
request or failed flush and chunks of one child in listings. `helpers_cache` has two attempts instead of five: one on the pool's
thread, one on the scheduler's. A buffered file has up to seven operations over
five bytes in blocks of two, listings of one or two keys and deletions of two,
so that every loop runs more than once, and one fault. Two threads serve two
files of two users. Two starts of the client, 15 minutes and two faults cover
three token refreshes with their retries, and the expiry of a token in an outage.
`MaxWaited` is derived from the constants of the code: with ten seconds rounded up
to a minute, two minutes of a token's life are left for waits in `pop()`.

### Fairness

Threads that have work run (weak fairness of handlers and steps), timers fire
and waits end at their timeout, which is what the operating system, asio and
`std::future::wait_for` give. In `Sequencer`, the expected message, requested
again and again, gets through eventually (strong fairness of `ResendExpected`
and `ReceiveExpected`), which the code relies on because lost connections are
recreated for ever, and the periodic job gets the lock (strong fairness).
`pop()` has no timeout, so `messaging` and `helpers_cache` say that calls return
only if a connection is to be had again and again, and then suppose that a thread in
`pop()` gets one (strong fairness in `messaging`: the queue serves its waiters in
turn). Nothing is asked of answers: waits on futures time out, and the answer to a
request with a callback comes or is lost. `client_main` supposes neither that the
provider answers nor that a connection comes back; a thread in `pop()` may stay
there. In `fs_operations` some thread with work runs; no thread has priority over
another, requests are answered or refused, and no lock is held by others.
Nothing is assumed of application threads, of failures or of kills.

## 4. Proofs

All theorems are about `Spec` of the module, with the constants arbitrary up to
the named assumptions. Each rests on an inductive invariant (`IInv`, or several),
a lemma that the initial states satisfy it, one lemma per action that it is
preserved, and a last step in temporal logic.


### CacheExpirationHelper_proofs

From `BucketsCount \in Nat \ {0}`, `MaxPins \in Nat` and `nullptr \notin Addr`:
type correctness, the agreement of records and buckets, that pinned records are
in no bucket, that a record lives for its ticks, that tracked records are cached,
that a tick purges only what has expired, and that the helper implements
`ExpirationTracking`. None of the invariants is inductive alone. The inductive
one adds that the addresses of the array are distinct and differ from the bucket
being walked, that freed buckets are empty, and that pointers of records that are
not lost lead to allocated buckets.

### Streams_proofs

For the streams from the provider (`Sequencer`), from `AckWindow \in Nat \ {0}`,
`MaxSeq <= UintMax` (both naturals) and `NoStream \notin Stream`, for any set of
streams: type correctness, forwarding in order, that only forwarded messages are acknowledged, that only missing ones are
requested, and that the layer implements `StreamDelivery`. The inductive invariant
adds: what is under way or queued has been sent; the expected number of a Buffer
is the length of what it has forwarded; a stream without a Buffer has zero
counters and, unless finished, has forwarded nothing; an acknowledgement under way
is for a forwarded message; a handler whose Buffer has forwarded nothing has
something in its queue. The last one keeps the unsigned `m_seqNum - 1` that
`clear()` returns for an empty queue from wrapping. For the refinement, a
forwarding step is a step of `StreamDelivery` unless the stream was finished
before: a late copy then makes a new Buffer, which `StreamDelivery` does not see.

For the streams to the provider (`TypedStream`), from `MaxSeq, MaxAnswers \in Nat`
and `None \notin Int`:
`OnlyReceivedAreForgotten`. Senders and handlers share the queue under a shared
lock, so a message can be in the queue, set aside by a handler, or in its hand
(`Retained`). The inductive invariant adds that acknowledgements, under way or
being handled, are for received messages, that a busy handler has an answer, and
that a thread passes on only what it has saved.

### ConnectionPool_proofs

From `Retries, MaxFailures \in Nat` and that the placeholders are no connections
or messages: `CallbacksAreFinal` (an action property) and `ReadyConnectionIsIdle`.
The first needs to know where a message is. A posted message is posted once, to
one connection (`Posted`, `PostedOnce`); a stored callback is that of a message
being written and is stored once (`Stored`, `StoredOnce`); and nobody was told of
a message under way (`Unsettled`). The second follows from `Queued`, which drops
the condition that the connection's thread is free: a popped connection has its
message posted in the same step.

### Messaging_proofs

From `IdSpaces \subseteq Nat \ {0}`, `Retries \in Nat` and that answers have the
fields of answers: `AnswersAreOwn` and `SuccessIsProviders`. The inductive
invariant says that nothing has come of a call before its entry is made
(`Unstarted`); that an entry is that of a started call with this id, whose
callback has not run (`Entries`, which holds because the entry is erased in the
step that calls the callback, and an insertion overwrites it); and that the entry a
handler has found stays while it holds the accessor (`Handled`). Calls whose id
was given out again are excepted from `AnswersAreOwn`. `SuccessIsProviders` holds
for them in a weaker form: the request that was accepted is one with the same id.

### MetadataCache_proofs and MetadataEntries_proofs

From the workloads being sequences of operations and the provider's files being
at paths: `PathsLeadToTheirFiles` and `OwnWritesKept`, for any threads, any paths
and any workloads, with every lock taken in a step of its own. The first is proved
from `PathInv`, the second from `MetaInv`. `PathInv` says for
each step of an operation which path it may have left without a uuid (`Loose`),
and that the uuid it is about to map was at that path (`TargetIsKnown`). `MetaInv`
says that the metadata of an operation is locked by it alone, so that what it read
before a request still holds after the answer: that attributes are absent while
they are fetched is what lets an answer be stored without losing a write. A rename
carries the attributes and what was written of them (`Kept`) from one entry to the
other, so `OwnWritesKept` goes over to the new uuid; attribute events replace the
size and are excepted.

### FsLogic_proofs

With no assumption on the constants: `TrackedIsSubscribed`. The invariant is
inductive with the shape of the client's state. The work is in the functions the
handlers are made of (look-ups, opens, listings, renames with their children, the
ticks and the events of both streams), with their failures: each one is shown either to leave tracking and
subscriptions alone or to change them together, and to record a request that
failed.

### StorageCalls_proofs

From `FileAssumption` (programs are sequences of operations that open a context
at most once, as `openFile()` of `fsLogic.cc` makes a context for each opening;
descriptors are naturals) and `Stores \subseteq {"S3", "Swift", "Ceph"}`:
`SystemCallsAreOwn`, for any threads, files, users, permissions and number of
descriptors. For identities, a busy thread has saved its own (`Shape`,
`Identity`). For descriptors, as long as no wait was interrupted: a file has one
job at a time and its caller waits for it (`Jobs`, `OneJob`); the descriptor of a
context is open for its file except between `close()` and the assignment to `fh`
(`Held`); a descriptor in use is the context's or is closed by the job (`Used`);
and every open descriptor is one of these (`Accounted`), for which an open context
must not be opened again (`Opens`). One lemma (`FileStep`) reduces every step of a
job to its own file. For sessions, a context keeps one of its own user; Swift's is
of some user once the credentials have changed after its first authentication; and a
request to Ceph was posted with a connection. The theorem is
about `CallsSpec`, in which DirectIO and the sessions run side by side; a step of
`StorageHelpers` is one of its steps or leaves its variables alone, so what the run
checks is an instance of it.

### Only model-checked

- Liveness and absence of deadlock (`Completes`, `Recovers`, `HandlersReturn`,
  `BufferedIsEmitted`, `RetriesEnd`, `GetReturns`, `OperationsReturn`,
  `StartEnds`, `CallsReturn`, `LookupsNeverDeadlock`): fairness and `ENABLED` are
  out of the prover's reach.
- Statements about what a fold or a recursive function computes
  (`EventsConserved`, `WritesReported`, `SubscriptionsAreKept`, `ReadsOwnWrites`,
  `SyncedIsStored`, `BlocksAreOneFile`): they need induction over data, and the
  induction theorems of the library cannot be instantiated.
- Examples of conversions (`MessagesAreFaithful`, `SettingsAreFound`,
  `TokenIsKept`): the runs enumerate their inputs.
- `OpenFilesAreHeld`, `OwnWritesAreSeen`, `ReleasedWritesArrived`, `SocketsAreOwn`,
  `DirectIsVerified`, `TokenIsFresh`, `ReleasedInOrder`: safety properties that
  could be proved and are not yet.

## 5. Not modelled

- The NIF wrappers of `helpers/etls/c_src` (`wrapper.cpp`, `nifpp.h`), the Erlang side of
  `etls`, `tlsAcceptor`, mocks and test environments: they are not part of the
  client.
- TLS itself: handshake, certificates and ciphers are the library's; `etls`
  appears as the operations and callbacks of a socket.
- Messages without a sender or receiver in the client (`Ping`, `Pong`,
  `ProtocolVersion`), `Replier::reply` and `removeQuotaSubscription` (no caller),
  `recvAny`, `shutdown` and the endpoint functions of `TLSSocket`.
- FUSE operations that only return (`statfs`, `flush`, `opendir`, `releasedir`,
  `fsyncdir`) or are not supported (`readlink`, `symlink`, `chown`, `fsync`).
- `TypedStream::reset`, which nothing reaches, and the reuse of stream slots.
- The waits of an event stream's worker and of a push to the provider for a
  connection: `EventManager` and `BufferAgent` take a send as one step.

`components` in `PROJECT.json` says for each part what is modelled.

## 6. Notes on the code

Observations made while modelling, that no run is about:

- `FileAttr::aggregate` overwrites the size with an unset one (`fileAttr.cc:100`).
- `EventManager::handle(Subscription)` drops thresholds (`eventManager.cc:243`).
- `MetadataCache::getAttr` by path may leave the attributes unset, against its
  comment (`metadataCache.h:131`).
- `utime` sets the modification time from the change time (`fsLogic.cc:328`).
- `m_onHandshakeDone` may be empty when it is called
  (`persistentConnection.cc:155`).
- The 16-bit message id comes around (`inbox.h:108`).
- `setUserCTX` of Swift keeps the account of the former user
  (`swiftHelper.cc:238`); a failed reconnection of Ceph leaves `m_connected` set
  (`cephHelper.cc:213`).
- The callback of a message that fails to be translated may be called twice
  (`translator.h:198`).
