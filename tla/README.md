# A formal model of the Go stack template

TLA+ specifications of the concurrent parts of this repository, TLC runs that
check them on small instances, and TLAPS proofs of the properties that matter
most. Paths below are relative to the repository root.

The program is one Go process per server: PocketBase for records and HTTP, a
SQLite-backed job queue (goqite) with a worker pool, an in-memory hub that fans
events out to the browsers' SSE streams, whiteboards kept as Loro CRDT
documents, and NATS between servers. Requests, workers, subscriptions and
streams are goroutines. Almost everything that is hard about it is in what they
do to each other between two lock sections.

## 1. Inventory

| Part | State | Operations | Talks to | Hard because of |
|---|---|---|---|---|
| SSE hub (`internal/queue/ssehub.go`) | registered channel, user and replay ring of each client ID | Register, UnregisterIfCurrent, Send, SendBlocking, three broadcasts, bufferEvent | every stream handler, worker and broadcaster | lookups used after the unlock, reconnects that overlap the old stream's cleanup, bounded queues, broadcasts that hold the lock |
| Todo stream (`features/todo/handlers/todo_sse.go`) | a channel per request | register, forward, heartbeat, cleanup | hub | same |
| Whiteboard presence (`features/whiteboard/handler.go`, `whiteboard.js`) | peer set per board; peers shown per page | join, leave, count | hub | two locks, check-then-act, messages of all boards on one hub |
| Job queue, workers, retry (`internal/queue/goqite.go`, `workers.go`, `retry.go`) | the goqite table; a job per worker | enqueue, receive, run with retries, delete, Stop, Close | hub, LLM | visibility timeout shorter than a job, crashes, shutdown |
| AI suggest (`features/todo/handlers/llm_suggest.go`) | spinner signals of a tab | enqueue, answer, result | queue, hub | result, retry feedback and answer in any order |
| Whiteboard documents (`internal/collab`) | a Loro document per board and server, a snapshot record | ApplyOp, import, save, load | hub, NATS, PocketBase | merge, encode and save are separate steps; restarts; concurrent servers |
| CRDT todo store (`features/store/crdtstore`) | a document per owner, records, version counter, watchers | CRUD, ApplyRemoteOp, Watch | PocketBase, JetStream | partial failure between document and records, 200-record limits, lossy fan-out |
| CRDT transport (`transport.go`, `crdtstore_wire.go`) | durable subscription | publish, subscribe | JetStream | deduplication window, self-filter, handler failure |
| Todo requests (`todo_crud.go`), CRUD replication (`internal/nats/crudproxy.go`) | records; JetStream stream | create, toggle, delete, clear | store, JetStream | read-then-write toggles, acknowledge after a failed save, redelivery |
| Idempotency (`db/idempotency_*.go`), service worker (`sw.js`), outbox (`whiteboard.js`) | unique keys; queued requests | queue, replay | requests | replay of what was already done |
| Onboarding (`onboarding.go`) | one active run ID | start, resume, poll | DagNats | one variable for all users, polled steps |
| Presence over NATS (`internal/collab/presence.go`) | roster with expiry | join, cursor, leave, expire | NATS | reordering, clocks |
| Boot, routing, auth, LLM client, configuration, pages, seed | none over time | | | wiring or pure I/O; not modelled |

What makes each part correct, in one line each:

* hub: the right tab gets an event, once, in its producer's order, and no tab or
  producer can hold another up;
* presence: every page ends up with the peers that are there;
* queue: a stored job is run to the end at least once, a bounded number of
  times, and the pool can be stopped;
* documents: a published document makes up for publications that were lost, so
  servers converge, and nothing that was answered is lost;
* CRDT store: once an operation that changes the document succeeds, document and
  records agree, whatever failed before it; nothing disappears that nobody
  removed, watchers end at the latest version;
* CRDT transport: an accepted message makes up for all that were dropped, lost or
  not imported before it;
* replication: every site ends up with what the stream of operations says;
* offline replay: a queued request runs, in order, and a create makes one todo;
* onboarding: the page tells the truth about its run, and a created todo
  resumes the run that waits for it.

`PROJECT.json` lists all components with their status, and every hazard of this
kind at its line with the properties that cover it.

## 2. Modules

    abstract                Registry                        WriteBack
                              ^ implemented by                 ^ implemented by
    detailed    SSEHub  WhiteboardPeers  WhiteboardSync     CRDTStore -> VersionFeed
                JobQueue  CRDTReplicas  CrudSync  OfflineReplay  Onboarding
    proofs      SSEHub_proofs  WhiteboardPeers_proofs  JobQueue_proofs
                WhiteboardSync_proofs  CRDTStore_proofs  CRDTReplicas_proofs
                RecordStore_proofs (OfflineReplay, CrudSync)  Onboarding_proofs
    instances   MCSSEHub  MCWhiteboardPeers  MCWhiteboardSync
                MCCRDTReplicas  MCCrudSync  (the others run as they are)

`WhiteboardPeers` uses the actions of `Registry` as its hub, and `SSEHub` is
proved to implement `Registry`: the presence model stands on the detailed hub
and not on an assumption about it. `CRDTStore` extends `VersionFeed` and takes
its `Bump` as a part of every operation. The other modules talk to the hub only
by sending; what the hub does with a message is `SSEHub`'s matter.

Definitions marked `VARIANT` are the code with a plausible bug. They are no
part of any specification; each shows that some property notices the bug.

### Registry

One slot per client ID. `Take` (Register), `Drop` (the browser goes away),
`Leave` (UnregisterIfCurrent by the stream that returns).

### SSEHub

A stream is one SSE request with its own channel. The hub's `RWMutex` is
modelled by what it excludes: a lookup takes and releases the read lock within
one step, a broadcast keeps it from `StartBroadcast` to the last `BroadcastTo`,
and steps that need the write lock (`Register`, `UnregisterIfCurrent`,
`BufferEvent`) are guarded by `WriteLockFree`.

| Code | Actions |
|---|---|
| `Register`, replay under the lock | `Register` (`Attach`, `Replay`) |
| `handleSSEStream`'s loop, end, deferred cleanup | `Receive`, `Disconnect`, `UnregisterIfCurrent` |
| `Send`, `SendCtx` | `Send`, then `Offer` or `BufferEvent`, each in a step of its own |
| `SendBlocking` | `SendBlocking`, then `Accept`, `Cancel` or `BufferEvent` |
| `Broadcast`, `BroadcastExcept`, `BroadcastToUser` | the same names, then one `BroadcastTo` per addressed client, in any order |

Events are numbered when their call begins; their payload does not matter.
`onDrop` and the statistics are left out. `Unregister` is not called by the
program and appears as a variant only.

### WhiteboardPeers

`handleStream` step by step: `Register`, `PeerJoin`, `Announce`, `PeerList`,
`BroadcastCount`, the loop (`Receive`), `Disconnect`, and the deferred
`UnregisterIfCurrent`, `CheckRegistered`, `Remove`, `Farewell` and the count
again. A handler that broadcasts iterates over the registered clients under the
read lock. `Show` is what `handlePresence` in `whiteboard.js` does with a
message. A client ID belongs to one board (`DocOf`), as the page mints it. The
snapshot message of a new stream carries the page's own ID, so the page ignores
it; cursors and shapes are not in this module.

`calm` is a history variable: no two handlers worked at the same time and no
channel was full.

### JobQueue

The goqite table (`row`, `received`, `hidden`) survives a crash, the workers do
not. A worker goes through `Top`, `Receive`, `Handle`, `Feedback`, `Backoff`
(for another attempt) and `Delete`; `Interrupted` is `ReceiveAndWait` ending
with an error. `Reappear` may come at any time: goqite hides a message for five
seconds and the retries of one job take longer, so a job can be with two
workers. `Stop` is the pool's, `Close` is the queue's, which is what the
program's shutdown calls: it closes the database under the running workers.
goqite itself is external and modelled from these uses.

`Answer` and the `spinning` set follow the signal `aiPending` of the tab that
asked for a suggestion.

### WhiteboardSync

One board on several servers. `Post` merges an op; `Encode`, `Save`,
`Broadcast` and `Publish` are the rest of `ApplyOp`, each a step; `Import`,
`Encode` and `Save` are the `SyncWorker`. `Save` overwrites whatever is there,
or fails. `Open` is `LoadSnapshot`, `Crash` a restart with an empty `DocStore`.
`net` keeps the order between two servers, as a NATS connection does, and loses
what was under way to a server that crashes. `Publish` gets to any set of
servers, the empty one included: core NATS delivers to who is connected, and a
publish that fails, or is skipped without a connection, is logged and the op
answered all the same. The history variable `missed` has the pairs of a server
and one that its last publication did not get to.

A document is the Lamport clock and, for each shape, the last write. That is
how the code uses Loro: a map of shape IDs in which the write with the greater
Lamport time, then the greater peer ID, wins. The fields of a shape are one
value. `Publish` encodes the document and publishes it in one step: a later
encoding published first is merged to the same result.

`calm` is a history variable again: no two writers of a server overlapped, no
save failed, and no server wrote before its board was opened.

### CRDTStore, VersionFeed, WriteBack

One owner's document on one server. The store's mutex is held from the start of
an operation to its end, so an operation is `job`, begun by `Create`, `Update`,
`Delete`, `ClearCompleted` or `ApplyRemoteOp`, and carried on by the statements
of `persistRecords`: `Upsert` for each todo in any order (a Go map), `ListRows`,
`DeleteRow`, `Finish`. `Fail` ends it at any statement, `Restart` loses the
document in the middle of it; `Opened` is what `doc()` makes of at most `Limit`
records, and `LookUp` is whatever changes nothing but may open the document:
`Get`, `List`, and a mutation that finds nothing to do. A `Create` of a todo
that is there is one of these, and is answered with success; it projects nothing.
`synced` is history: the last operation that began to change the document got
through its projection.

`VersionFeed` has the watchers: `Watch`, the goroutine's `SendCurrent`,
`Forward` and `EndFeed`, and `CancelWatch`; `Bump` offers the version to every
watcher and drops it where there is no room. `missed` records for whom.
`WriteBack` is what a caller may expect: a list that requests see and a list on
record that follows it.

### CRDTReplicas

The same document on several servers, as a set of Loro operations (an entry's
container made, a field set, a key deleted), with a stream between them. An
operation changes the document, projects it (`Projected`, or `PartlyProjected`
if a statement fails, which also keeps it from being published) and publishes
the whole document under a message ID that names the kind of operation and the
todo. JetStream drops it if that ID is still in its window (`Expire` takes it
out), or the publication fails, which the code ignores (`Send`). `Deliver` is the
subscription to ">" of `crdtstore_wire.go`: the handler skips what its own
process published, and imports the rest into the document of the owner that
`Subscribe` gives it, which is ">" (`far`, one per server). Loading that document
or importing may fail; the message is acknowledged all the same. The history
variable `skipped` has the pairs of a server and one that did not import its
last message, or lost it in a restart. `Restart` rebuilds a document from the
records with new containers and a new peer ID.

### OfflineReplay

`Mutate` is a request of the page through the service worker, `PageAnswer` and
`PageLoss` its end: without an answer it is stored. `StartReplay`, `SendNext`,
`ReplayAnswer` (2xx and 404 remove the item, anything else leaves it),
`ReplayLoss` (which stops the replay) and `RemovePending` are `replayQueue`;
`Kill` is the browser stopping the worker. The server's side is
`handlers/todo_crud.go` on `PBStore`, with the read and the write of a toggle
apart, the unique index on owner and key (`KeyTaken`), and failures
(`ServerFails`). A read that fails is answered 404 like a row that is gone
(`ServeMissing`); the history variable `misread` has the requests a replay of
which got that answer. A call whose answer is lost goes on at the server.

### CrudSync

The router creates publisher and consumer only with `OFFLINE_SYNC_ENABLED`
(`router.go:138-145`, `200-209`), which also turns on the service worker's queue:
a request may be a replay, and the unique index on owner and key is there.

Every site writes its own records, then publishes (`Publish`, or `Unpublished`
where the handler returns before it); a replayed toggle, delete or clear always
returns before it (`ReturnsEarly`). `Consume` applies the next message of the
stream at a site, its own included, and acknowledges it whether or not the save
worked. A creation by a consumer has no key, and the index admits one row
without a key for an owner (`Refused`). `ConsumeUnacked` loses the
acknowledgement, so that the message comes again later, `Rejoin` leaves and
joins: `Unsubscribe` deletes the durable consumer the library created, and the
new one starts at the beginning. `local` are the todos with a mutation nobody
published; `troubled` pairs a site with the todos of which, since its consumer
started, a message was not applied, was a create the index refused, or came
again.

### Onboarding

A click's goroutine (`Click`, `StartRun`, `StoreRunID`, then `Progress` ticks up
to `Finish` or `TimeOut`), the request that creates a todo (`Save`, `ReadRunID`,
`Signal`, which is `ResumeOnboarding`), and the run: `HandOut` by DagNats and
the handlers of `cmd/web/dagnats.go` (`Complete`, `AwaitFirstTodo`,
`CreateExample`). A step may fail (`FailStep`); `workflow.go` asks for no retries, so
it stays failed until DagNats fails the run (`FailRun`), which the error part of
`StepperNotAhead` relies on. `Restart` loses `activeRunID` and every polling; DagNats keeps
runs and signals and hands an interrupted step out again. The catch-up steps a
page gets at the end are one step here; the timers of five and fifty minutes
are `TimeOut` and the timeout of the await, at any time. `ends` has the events
handed to the broadcaster; the code ignores what the broadcaster returns, and
whether they get to the page is beyond this module.

## 3. Runs

| Run | Instance | Checks |
|---|---|---|
| `hub_safety` | 2 tabs, 2 streams, 2 producers, 3 events, queues of 2 | `TypeOK` `RightAudience` `AtMostOnce` `ProducerOrder` `LiveClientStaysRegistered` `RegistrySpec` |
| `hub_live` | as above, queues of 1, 2 events | `ProducersNeverBlock` `CleanupCompletes` |
| `peers_safety` | 2 pages, 1 board, 3 connections, channels of 3 | `TypeOK` `NoGhosts` `CalmPagesAgree` |
| `jobs` | 2 jobs (one undecodable), 2 workers, 2 attempts, 2 deliveries, 1 restart | `TypeOK` `RunBeforeDelete` `BoundedRuns` `JobSettles` `StopReturns` |
| `sync_safety` | 2 servers, 2 shapes, 2 ops, 1 crash | `TypeOK` `Convergence` `CalmAddsSurvive` `NoWriteUndone` |
| `crdt_store` | 2 todos, limit 2, 1 restart, 2 owners, 1 watcher, an internal channel of 2 and a returned one of 1, 2 versions | `TypeOK` `RecordsAgree` `WatcherCatchesUp` `OnlyAskedRemovals` `ImplementsWriteBack` `CancelEndsFeed` |
| `crdt_replicas` | 2 servers, 2 todos, 3 operations, 1 restart | `DropsHeal` |
| `offline_replay` | 2 rows, 2 requests, 1 kill, 1 abandoned call | `TypeOK` `NoDuplicateRow` `NothingQueuedIsLost` `ReplayInOrder` `EveryQueuedRequestRuns` |
| `crud_sync` | 2 sites, 2 todos, 3 requests, each a replay or not, 2 consumers joining anew | `SitesFollowStream` |
| `onboarding` | 2 clicks, 1 created todo, 2 examples, 1 restart | `TypeOK` `ExamplesFollowTodo` `StepperNotAhead` `EndsOnceAndTruly` `ButtonReleased` `TodoResumesRun` |

Why the bounds are enough to be interesting: two streams are a tab that
reconnects, or two tabs; queues of two with three events fill and overflow, and
a ring can be replayed behind live sends; three connections are a reconnect
with a second page watching; two deliveries and two attempts give a job to two
workers at once and let it use up its deliveries, with a restart in between;
two ops on two servers are concurrent writes of equal Lamport time, an add
against a clear, and a stale snapshot, with a restart before or after the save.
Two todos let a projection stop between two rows, and one be deleted while the
other is written, and two creations by a consumer meet in the unique index. An
internal channel of two holds two bumps when the watcher reads the version first,
which is then newer than the one it is sent next; an event of another owner makes
it overflow, and two versions overflow the returned channel. Three operations
on two servers are a create with concurrent updates, a delete against an
update, and a message dropped as the duplicate of another. Two requests are a
create and a later toggle or delete of the same todo, or two creates whose
answers are lost. Two clicks contend for `activeRunID`.

Constants named `Max...` for requests, events, restarts, crashes, kills and
abandoned calls bound the behaviours and appear only in guards. Client, stream,
producer, site and request sets are symmetric where no property is a liveness
property. No run checks for deadlock: with all events, connections or requests
used up, nothing is left to happen. The `TypeOK` of `CRDTReplicas` and
the `CrudTypeOK` of `CrudSync` state the ranges of their variables and are in no
run.

Two runs expect a violation. Each checks what a comment of the repository says
against what the code does, and `PROJECT.json` quotes the comment:

| Run | Property | What TLC finds |
|---|---|---|
| `jobs_spinner` | `SpinnerReleased` | the retry event of the last failed attempt turns the spinner on for good |
| `replicas_wildcard` | `ReplicasConverge` | every remote op is imported into the document of an owner named ">" and never shows |

### Fairness

`SSEHub`: steps of a call that wait for nobody outside the hub, and the cleanup
of a stream, are strongly fair: the Go scheduler runs what can run, and
`sync.RWMutex` admits no new reader while a writer waits, so a writer that
finds the lock free again and again gets it. Browsers (reading, connecting,
leaving) and cancellations are not fair, so the liveness properties hold even
if no tab ever reads.

`JobQueue`: workers, timeouts, the end of a process that is done and its
restart are weakly fair. Handlers return because every LLM call has a timeout.
Requests, `Stop`, `Close` and crashes are not fair. Weak fairness of a whole
worker is enough, since what one worker can do next is only taken away when it
has another step.

`VersionFeed` in `CRDTStore`: the goroutine of a watcher is weakly fair; its
reader is not, since no send waits for it.

`OfflineReplay` (`FairSpec`): pages ask for a replay again and again (on
reconnect and by Background Sync), a replay that is not stopped goes on, and a
request that could be answered again and again is answered some time. That a
server or network fails for ever is excluded; nothing retries past that.

`Onboarding`: goroutines, the program's steps and DagNats' handing them out are
weakly fair, and timers run out. Clicks, creations and restarts are not fair.

`WhiteboardPeers`, `WhiteboardSync`, `CRDTReplicas` and `CrudSync` state safety only.

## 4. Proofs

| Theorem | States, for every value of the constants |
|---|---|
| `SSEHub_proofs!TypeCorrect` | `TypeOK`, with the bounds of rings and channels |
| `SSEHub_proofs!ReconnectIsSafe` | `LiveClientStaysRegistered` |
| `SSEHub_proofs!ImplementsRegistry` | `RegistrySpec` |
| `SSEHub_proofs!AudienceCorrect` | `RightAudience` |
| `SSEHub_proofs!OrderKept` | `ProducerOrder` |
| `SSEHub_proofs!DeliveredOnce` | `AtMostOnce` |
| `WhiteboardPeers_proofs!NoGhostsCorrect` | `NoGhosts` |
| `WhiteboardPeers_proofs!PagesAgree` | `CalmPagesAgree`, with one board |
| `WhiteboardPeers_proofs!TypeCorrect` | `TypeOK`, with the bound of the channels |
| `JobQueue_proofs!JobTypeCorrect` | `TypeOK` |
| `JobQueue_proofs!AtLeastOnce` | `RunBeforeDelete` |
| `JobQueue_proofs!RunsAreBounded` | `BoundedRuns`, with finitely many workers |
| `WhiteboardSync_proofs!SyncTypeCorrect` | `TypeOK` |
| `WhiteboardSync_proofs!NoWriteIsUndone` | `NoWriteUndone` |
| `WhiteboardSync_proofs!CalmAddsAreKept` | `CalmAddsSurvive`, for any number of servers |
| `WhiteboardSync_proofs!ServersConverge` | `Convergence`, for any number of servers |
| `CRDTStore_proofs!TypeCorrect` | `TypeOK`, with the bounds of the watchers' channels |
| `CRDTStore_proofs!SavedIsOnRecord` | `RecordsAgree` |
| `CRDTStore_proofs!OnlyAskedRemoved` | `OnlyAskedRemovals`, for an owner within the limit |
| `CRDTStore_proofs!LatestVersionArrives` | `WatcherCatchesUp` |
| `CRDTStore_proofs!StoreIsWriteBack` | `ImplementsWriteBack`, for an owner within the limit |
| `CRDTReplicas_proofs!DropsAreHealed` | `DropsHeal` |
| `RecordStore_proofs!TypeCorrect` | `TypeOK` |
| `RecordStore_proofs!OneRowPerCreate` | `NoDuplicateRow` |
| `RecordStore_proofs!QueuedIsKept` | `NothingQueuedIsLost` |
| `RecordStore_proofs!ReplaysFollowQueue` | `ReplayInOrder` |
| `RecordStore_proofs!CrudTypeCorrect` | `CrudTypeOK`, with no consumer past the stream's end |
| `RecordStore_proofs!SitesFollow` | `SitesFollowStream` |
| `Onboarding_proofs!TypeCorrect` | `TypeOK` |
| `Onboarding_proofs!ExamplesComeAfterTodo` | `ExamplesFollowTodo` |
| `Onboarding_proofs!StepperIsBehind` | `StepperNotAhead` |
| `Onboarding_proofs!PollingEndsTruly` | `EndsOnceAndTruly` |

Assumptions are the `ASSUME`s of the modules (distinct sentinels, positive
capacities and limits), which every run evaluates. A hypothesis in the table is
one without which the property fails (finitely many workers apart, which the
counting needs). `RecordStore_proofs` extends two modules, which
is why what `CrudSync` and `OfflineReplay` both have is called `CrudInit`,
`CrudNext`, `CrudSpec` and `CrudTypeOK` in the former.

**Hub.** A registration names a stream that registered under that client ID,
and a live or closing one; that is needed because `UnregisterIfCurrent`
compares channels, and the comparison protects a newer stream only if the slot
holds streams of its own client. The implementation theorem follows: a stream
empties the slot it holds and no other. For `RightAudience` the invariant adds
where an event can be on its way: a call that looked a channel up holds a
stream of the addressed client, the ring of a client holds only events sent to
that client, and a broadcast's remaining targets still have the user they were
selected by, since nobody can register while the read lock is held
(`MsgInv`, on top of `HubInv` and `CallInv`). `ProducerOrder` and `AtMostOnce`
share one invariant, `FlowInv`: event numbers are used once (`Numbered`), the
event of a call under way is younger than all its producer has placed where the
event can still go (`Pending`), and no event is in two streams of a client, or in
a stream and the ring of its client (`Apart`). A drain keeps it because the ring
is emptied in the same lock section; a broadcast keeps it because it visits each
client once, and nobody registers while it does.

**Presence.** `NoGhosts` is inductive only with `HolderIsLive` (the hub's slot
names a stream of that client which is open or closing) and
`StepsFollowPhases` (a stream that has registered has its client, a handler
about to join is open, one that checks or removes is past
`UnregisterIfCurrent`). The step that needs them is `CheckRegistered`: a handler that skips the removal may do so because the slot
is taken, and whoever holds it is responsible for the client. The type invariant
needs `MessagesOK`: a join message names a client.

`CalmPagesAgree` speaks of the time when handlers do not overlap. `PagesInv` says
how far the one at work has got: between its registration and its join, and
between its return of the slot and the removal, the peer set and the registered
clients differ by its own client (`Stage`); from then on they are the same, and
each page is among those its broadcast has yet to reach, or has the count as the
last message in its channel, or shows it (`UpToDate`). A join message that is
read later adds a client which the count after it holds as well. The proof
needs `OneBoard`: a page of another board would take this board's count for its
own.

**Queue.** `RunBeforeDelete` needs `DeleteMeansEnded`: a worker about to delete
has in hand a job that was run to the end (one that cannot be decoded counts as
such when it is received). `InHand` says that a worker past its receive has a
job at all, and an attempt left while it handles or waits. `BoundedRuns` is not
inductive, since two workers may hold the same job: `BudgetInv` counts the runs
made together with the attempts the workers that hold the job have left, as the
cardinality of a set of such attempts, and bounds the sum by what the deliveries
so far allow. That needs finitely many workers.

**Documents.** A merge keeps the newer write. A local op writes at the clock's
next tick, which is newer than what it replaces only if no write in the document
is ahead of the clock, and merges bring other documents in: the invariant says
it of every document on disk, in flight and in a writer's hands. `Convergence`
needs `ConvInv`: while nothing has crashed, each write and each clock that some
document knows has an origin, a server that has it or something newer and that
has sent it, or is about to send it, to every server which lacks it, except
those its last publication did not get to (`WritesArrive`, `ClocksArrive`); with
nothing left to send, a server in no pair of `missed` has it. A message holds the
whole document, so it carries what earlier ones did and takes its receivers out
of `missed`: without that, as in `Publish_Delta`, a lost publication would be
missing for good. That
newer writes are never confused rests on stamps being unique (`StampsUnique`),
which they are because a server's own clock is never behind what others know of
it (`OwnClock`) and peers have IDs of their own (`PeersApart`).

`CalmAddsSurvive` follows an add through its request (`AddOnItsWay`: in the
document, in the encoded snapshot, on disk) and says of the answered ones where
they are (`AnsweredKept`). The step that could lose one is a save of an older
snapshot: with one writer on a server (`OneWriter`) a snapshot about to be saved
has all that was answered. Opening and importing merge, and as long as nobody
clears, a merge of documents in which every write is an add shows what either
shows (`AllAdditive`).

**CRDT store.** `ProjectionInv` says how far a projection has got: what is not
left to upsert is on record, and rows are deleted only of todos that are not in
the document. `StaleInv` adds, for an owner within the limit, that a record
without a todo in the document is one the owner removed; a document opened from
the records is then all of them, which is what `OnlyAskedRemovals` and the
implementation of `WriteBack` need. `WithinLimit` is the hypothesis of both.

A watcher's versions go through two channels. `CatchUpInv` says that the last
event of its owner in the first channel is the last bump, or there is none and
what was put last into the second channel, or read from it, is the current
version. A bump that finds the first channel full and a version that finds the
second one full make the watcher one that missed something; until then the
goroutine cannot leave an older version last, although it sends the current
version when it begins, which may overtake events still queued.

**Offline replay.** `NoDuplicateRow` needs that a create under way has the key of
its own request and that rows carry keys of requests, so the index refuses what
is there already. `NothingQueuedIsLost` needs that a replay is only ever given an
answer of 2xx or 404 for a request that has settled or is in `misread`, also when
the request was sent before by an earlier worker: `CallInv` ties the replay's
call to the item it has reached, and `SettledInv` says what its answer means. A
call nobody waits for any more answers nothing, and so explains no removal. `ReplayInOrder` follows from `OrderInv`: an item queued
before one that the replay still has to send was refused in it, or is itself
still to be sent, earlier.

**CRUD replication.** A site's records run ahead of its place in the stream, by
its own writes, and a new consumer starts behind them. `CrudInv` says what holds
of a site and a todo wherever the consumer is: a record was created in the
stream or by a handler about to publish that (`PresentIsCreated`); past the
creation it is missing only because of a later deletion, in the stream or about
to be published (`MissingIsDeleted`), and past such a deletion it is missing
(`DeletedIsMissing`); past the last toggle it has the value of that one, unless
a handler of the site has written a later one (`LastToggleCounts`). With nothing
left to publish and the whole stream seen, this is what the stream says. A
creation is unique because record IDs are (`CreatedOnce`), so no redelivered
operation brings a deleted todo back at a site that got each message about it in
turn (`Smooth`, of a site and a todo). A replayed request that publishes nothing
makes its todo `local`, and a create that the index refuses makes the pair
`troubled`; both say so for that todo only, and the others are still claimed.

**CRDT transport.** `ShippedArrives`: what the stream accepted last from a server,
every other server has in its document of ">", has in a message still to be
delivered, or failed to import or lost in a restart (`skipped`). It survives
dropped and lost messages because each message holds the whole document, and an
import that failed because the next message holds what that one did; the
self-filter is no exception, since a server is not asked to have its own
document twice. The proof needs no reasoning about Lamport times: importing is
union. What the servers show is another matter (`ReplicasConverge`).

**Onboarding.** `RunInv` says that a run is completed in its last step only,
that what has not been started is absent from DagNats, and that whoever is
about to signal has read the ID of a run. What a page shows or was told refers
to a run that goes on changing: `RunsAdvance` is the lemma that it only goes
forward, and `PageInv` relates the page to the run with it.

**Checked by TLC only.** The liveness properties (`ProducersNeverBlock`,
`CleanupCompletes`, `JobSettles`, `StopReturns`, `CancelEndsFeed`,
`EveryQueuedRequestRuns`, `ButtonReleased`, `TodoResumesRun`): liveness under fairness and `ENABLED` are beyond the prover. Every other property
of the passing runs is a theorem, some of them under the hypotheses the table
names. What loops or recursive definitions compute for every input would need induction
over data, which the prover's library cannot be instantiated for; no module here
defines a recursive operator.

## 5. What the code does otherwise

Found while modelling, beside the two findings above. The properties of the
runs are stated so as to hold with them; the sentence after each says where.

* **Hub.** `Send` looks a client up, unlocks, and buffers in a second lock
  section. If the client registers in between, the event stays in the ring of a
  registered tab until the next reconnect, against `ssehub.go:26-28`.
* **Presence.** `peerLeave` checks `IsRegistered` and removes the peer later, so a
  page that reconnects in between is dropped from the peer set, against
  `ssehub.go:297-300`. `NoGhosts` is the half that holds; `CalmPagesAgree`
  excludes overlapping handlers. A count goes to the pages of every board
  (`handler.go:393`, `whiteboard.js:59-72`): the run has one board.
* **Whiteboard documents.** `ApplyOp` answers 200 although the save failed, against
  `handler.go:424-425`, and overlapping writers can save an older snapshot last:
  `CalmAddsSurvive` excludes both. It also answers 200 if publishing failed, and
  a server that was disconnected is never sent the update again: until somebody
  edits the board on the same server, the other lacks it. `Convergence` leaves
  out a server that a last publication did not get to. The `SyncWorker` does not broadcast what it
  imports, against `sync_web.go:162-163`.
* **CRDT store.** A `Create` whose save failed leaves the todo in the document; when
  it is repeated it is answered with success and saves and publishes nothing,
  although `crdtstore.go:400-402` says the retried request "converges to the
  original write". `RecordsAgree` speaks of the next operation that changes the
  document, which does save it. With more than 200 todos the document is opened from 200 of the
  records and the next mutation deletes the rows of others (`crdtstore.go:235`,
  `290`): the properties are claimed within the limit. `Watch` drops a version
  if its channel is full, also the last one, although lines 657-659 and 684-687
  say the latest always lands: `WatcherCatchesUp` excludes a watcher that
  missed one.
* **CRDT transport.** A message whose import fails is logged and acknowledged
  (`transport.go:188-191`), and a duplicate is dropped without an error: what the
  last message of a server held is with others only if that one was accepted and
  imported. `DropsHeal` speaks of what was accepted and leaves out a server that
  failed to import it. That no message reaches the owner's document is the
  second finding.
* **CRUD replication.** A replayed toggle, delete or clear returns before it
  publishes (`todo_crud.go:284-286`), against `todo_crud.go:415-419` ("Replayed
  mutations still run their side effects (DB write, NATS publish, ...)"): no
  other site learns of it, and the property leaves such todos out. A consumer
  creates rows without a key, of which the unique index admits one for an owner;
  a second is refused, its message acknowledged, and the todo missing at that
  site until its consumer joins anew, if then. So is what a failed save of the
  consumer lost. A clear deletes what is completed at each site when it gets
  there, so the property leaves clears out.
* **Offline replay.** `PBStore.Get` turns every read error into not-found
  (`pbstore.go:74-83`), the handlers answer 404 (`todo_crud.go:272-275`,
  `339-342`), and the worker takes the toggle or deletion off the queue, against
  `sw.js:488` ("404 means the resource was already deleted — safe to remove").
  `NothingQueuedIsLost` and `EveryQueuedRequestRuns` leave out just these
  (`misread`). A replayed create whose row exists is answered 500 by the index,
  since the hook that would return the row runs for PocketBase's own API only;
  it is never lost, and never leaves the queue.
* **Onboarding.** `activeRunID` is a variable of the process although
  `workflow.go:16-17` says there is "no in-memory flag". After a restart a run
  that waits cannot be signalled and its page gets no end: `ButtonReleased`
  excludes it. A second click takes the variable over, and the first run waits
  until it times out; `ResumeOnboarding` does not look at the user. Between two
  running steps the stepper shows step 1.

## 6. Not modelled

Authentication, configuration, seeding, the LLM clients, the DagNats HTTP
client, embedded NATS start-up, the demo job handlers, pages and skins: wiring
or I/O without state of their own over time. Half of the repository's Go code
is markup, much of it generated from templates, which is why the share of mapped
lines is small.

Presence over NATS (`internal/collab/presence.go`) is about durations on several
clocks and belongs to the desktop build. The page's shapes and outbox
(`whiteboard.js`) are left to the hazard list. `realtime.go` and
`crdtstore_wire_publisher.go` forward to the hub and keep nothing.
Within the modelled parts: cursors and initial shapes of a whiteboard stream,
`WebSyncWorker.ApplyUpdate` (no route calls it), the desktop's `Publisher`,
duplicate whiteboard records, the caches of the service worker, expired
sessions of a replayed request, messages without an owner or that do not
decode, titles of todos, `CRDTStore.Close` (not called), and timing (delays,
jitter, heartbeats) beyond the orders it allows. `Watch` has no caller outside
tests; its reader is external.

## 7. Running it

    tlc -workers 2 -config SSEHub_safety.cfg MCSSEHub
    tlapm SSEHub_proofs.tla

`PROJECT.json` names the module and the configuration of every run. The longest
run takes about two minutes, the proofs a few minutes together.
