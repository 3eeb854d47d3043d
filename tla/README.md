# TLA+ models of the NATS JetStream extension for DuckDB

This directory holds TLA+ specifications of the extension, TLC configurations
that model-check them, and TLAPS proofs about them. Paths such as
`nats_ingest.cpp:2314` are under `src/src/` of the repository.

* `PROJECT.json` lists components, runs, the mutants that show each property can
  fail, the source lines of every definition (`map`), findings, hazards, theorems.
* `tlc -config lease.cfg MCIngestLease` checks a run, `tlapm IngestControlProofs.tla`
  checks proofs.

## 1. Inventory

| Part | State it keeps | Operations | What is hard |
|---|---|---|---|
| **Ingest data path** `nats_ingest.cpp`, `nats_source.cpp` | durable consumer (server); prefetch queue and current batch (memory); target table, checkpoint, registry row (DuckDB) | fetch, process, flush, checkpoint, fence, commit, ack; launch from the checkpoint | crash between any two of these, redelivery, lost deliveries, old and new batch source on one durable |
| **Ingest ownership** `nats_ingest.cpp:377-520` | lock file (`flock`), lease row with owner, fencing token and expiry | acquire, claim, fence, renew, release | slow workers, takeover, crash, transactions that straddle a takeover |
| **Ingest job manager and SQL control** `nats_ingest.cpp:1559-1660, 2496-2900` | `jobs_` map, progress flags, worker thread, registry row | start, rehydrate, pause, resume, stop, remove, status | waits without the manager's lock, flags written by several threads, restart |
| **Batch source** `nats_source.cpp` | one prefetch queue, mutex, condition variable, pending exception, stop flag | StartPrefetch, Fetch, FetchBatch, Next, destructor | notifications outside the mutex, error hand-over, stop during a fetch or its retries |
| **Checkpoint log** `nats_ingest.cpp:236-270, 914-1008` | append-only log and view, or one row per durable | upsert, compact, load | compaction beside appends |
| **Historical scan, ranges, timestamp search** `nats_scan.cpp` | per-scan consumer and position | resolve time to sequence, scan a range, range statistics | gaps left by deleted messages, a stream that changes between information, search and scan, end conditions, silent stop on a timeout |
| **Server subject filter** `nats_scan.cpp:1816`, `nats_ingest.cpp:1010` | none | is a filter covered by the stream's subjects | wildcards |
| **Subscribe jobs** `nats_subscribe.cpp` | job map, progress flags, subscription with its pending queue, batch; target table | start, pause, resume, stop, remove, receive, flush, connection callbacks | drops at the limit, batches in memory, flags written by the worker and by the library's thread |
| **KV watch jobs** `nats_kv_watch.cpp` | job map, watcher, progress flags and counters, batch; target table | start, pause, resume, stop, remove, receive, flush, connection callbacks | a pause that waits for nothing, no protocol for a worker that still runs, an instance destroyed on its own thread |
| **KV functions** `nats_kv.cpp` | none in the client; revisions on the server | get, put, create, update, delete, scan, history, buckets | optimistic update with lost answers, snapshot and incremental scan beside writers, lost entries |
| **COPY TO** `nats_scan.cpp:1264-1513`, `nats_kv.cpp:933-1068` | per statement: connection, encoder, messages in flight | bind, open, sink, finalize | partial publication, a link that drops before the flush |
| **Protobuf schema cache** `nats_proto_schema.cpp` | process-wide map and its mutex | get, refresh by modification time, build a descriptor set in passes | file changed while it is read, cyclic imports under the mutex |
| Payload codecs, connection options, registration | none | conversions, option passing | nothing concurrent: left to the tests |

How they interact: a SQL connection calls the manager, which launches a job: lock
file, lease row, checkpoint, consumer, registry row, thread. The worker thread and
the prefetch thread of its batch source share the queue; the worker and SQL
connections share the progress flags under `job_mutex`; NATS callbacks set the
connection flags. A COPY statement, a scan and a job that decode protobuf meet in the schema
cache's mutex. Processes meet in the lock file, the database file and the
server's durable consumer. A subscribe job has a connection and a worker of its own and
shares only its target table. Only table, checkpoint, registry, lease row and the
consumer outlive a crash.

What makes each correct, in short: the table is a prefix of the stream loaded once,
and nothing is acknowledged before it is stored (data path); a worker that lost
the durable cannot commit (ownership); every live worker can be reached under its
name, a stopped job ends and stays stopped (manager); no batch is lost or delivered
twice by the queue (batch source); the view of the log is the largest committed
checkpoint (log); the search returns the first message at or after the time, the
scan returns exactly the messages of its range (scan); one worker per name adds what it
receives in order, once, and not while the job is paused, and losses are counted (subscribe);
a table that follows the bucket misses the newest entry of no key (KV watch); no increment is
lost and repeated incremental scans pass over nothing for ever (KV functions); the server gets the
rows of a statement in order, and all of them when it succeeds over a link that held (COPY); a
schema is never older than the call that asks for it (schema cache).

## 2. Modules

| Module | Models | Composed with |
|---|---|---|
| `ExactlyOnceTable` | what the data path promises: a table that is a prefix of the stream, extended by whole transactions | refined by `IngestPipeline` |
| `IngestPipeline` | one job's path from the stream to the table, over any number of lives | instance `ExactlyOnce` with `mark <- ckpt`, `rows <- table` |
| `IngestPipelineProofs` | proofs about it | |
| `IngestLease` | who may commit for a durable: lock file and lease row | its `FencedIsCurrent` is what lets `IngestPipeline` assume one writer |
| `IngestJobLifecycle` | the jobs of one name: manager, connections, worker threads, registry row | its `WorkerBatch` stands for a transaction of `IngestPipeline`, its launch failures for `IngestLease` |
| `IngestControlProofs` | proofs about `IngestLease` and `IngestJobLifecycle` | |
| `LiveJob` | what a live job promises: one worker at a time under the name, rows in order and never twice, none while it is reported as paused | refined by `SubscribeJob` |
| `SubscribeJob` | the core NATS subscribe jobs of one name: manager, connections, workers with batch and counters, the subscription's queue, connection callbacks | instance `Live` with `live <- {j : Alive(j)}`, `held <- {j : Held(j)}`, `rows <- table` |
| `SubscribeJobProofs` | proofs about it | |
| `SubjectPattern` | whether a subject filter is covered by a stream's subjects, and what NATS makes of a filter | extended by `StreamScan` |
| `StreamScan` | one `nats_scan` from bind to the last row over a stream that changes meanwhile; the counts of `nats_stream_range_stats` | |
| `StreamScanProofs` | proofs about both | |
| `BatchSource` | prefetch thread and worker of one batch source, one step per locked section, over a link that drops | `IngestPipeline` has it as `PrefetchPush` and `FetchBatch` |
| `BatchSourceProofs` | proofs about it | |
| `KvBucket` | a bucket: entries, revisions, what the server keeps | extended by `KvWatchJob` and `KvStore` |
| `KvWatchJob` | the KV watch jobs of one name: manager, connections, workers, watcher, callbacks | compare `SubscribeJob`, whose manager waits where this one does not |
| `KvWatchJobProofs` | proofs about it | |
| `KvStore` | SQL connections on one bucket: get, put, delete, update, create, a mirror kept by `nats_kv_scan`, COPY TO the bucket | |
| `KvStoreProofs` | proofs about it | |
| `SchemaCache` | the calls of the schema cache, the file rewritten meanwhile, the passes that build a descriptor set | extended by `CopyToStream` |
| `CopyToStream` | COPY TO a stream: schema, connection, rows, flush | its statements are calls of `SchemaCache` |
| `CopyToStreamProofs` | proofs about both | |
| `MC...` | instances for TLC | |

### 2.1 IngestPipeline

| Variable | Code |
|---|---|
| `published`, `consumer` | the stream, and the durable consumer: next new message, messages delivered and not acknowledged |
| `wire`, `prefetched`, `batch` | what `natsSubscription_FetchRequest` has so far, `prefetch_batches_`, `messages_` from `next_index_` on |
| `taken`, `pc` | `ack_msgs`, and the place in `RunIngestWorker` |
| `committed` | `progress.last_committed_seq` |
| `table`, `ckpt`, `registry` | durable: rows per message, the checkpoint view, the registry row's `last_committed_seq` |
| `zombie` | a stopped job's prefetch thread whose pull request is still open: the lease is released at `nats_ingest.cpp:2411`, the batch source destroyed when the scope ends |
| `acked` | history of acknowledgements that have reached the server |

| Action | Code |
|---|---|
| `Deliver`, `Redeliver`, `LoseInFlight`, `ConsumerExpires`, `Publish` | the server, as `Fetch` meets it: AckWait, InactiveThreshold, lists destroyed after a connection error |
| `PrefetchPush`, `FetchBatch` | `PrefetchLoop`, `FetchBatch` |
| `ProcessBatch` | the message loop; `RowsOf` is its duplicate and filter logic, `AfterProcessing` the branch for a batch without rows |
| `CommitBatch` | flush, `UpsertCheckpoint`, fence, commit, progress, registry row |
| `AckOne` | `AckMessages`, one message at a time, so that a crash falls between |
| `StopWorker`, `WorkerFails`, `Crash` | the three ways a worker ends |
| `LaunchBinding`, `LaunchRecreating` | `InitializeIngestResources`: bind, or delete and recreate |
| `ZombieReceives`, `ZombieJoined` | the stopped job's prefetch thread |

Messages are their sequence numbers; payload, decoding and the append-only form of
the checkpoint are abstracted (`ckpt` is what the view shows). `resume_from_checkpoint`
is true, its default. One worker at a time: what enforces it is `IngestLease`.

### 2.2 IngestLease

`stage` follows a job through `LaunchIngestJob`, the worker's loop and
`ReleaseIngestLease`; `fds` are the locked descriptors; `lease`, `writer` and `tx` are
the lease row and the transactions on it. DuckDB is external: a transaction that
changes the row fails if the row was changed since it began or is being changed. `mark`
and `base` are the durable checkpoint and each worker's copy of it, counted in
transactions. Time is counted in thirds of the lease, the renewal interval. `Tick` asks
that a worker in its loop has come round since the last tick: `fetch_timeout_ms` and
`poll_ms` are taken to be shorter than ten seconds. A worker in a batch, paused, or
between fence and commit may take as long as it likes.

### 2.3 IngestJobLifecycle

`current` is the map entry; an instance is a number. `caller` is where each SQL
connection stands in `CreateJob`, `RemoveJob`, the launch or its error handler, with
every point at which a lock is released between two steps. `worker` is where each
instance's thread is, `row` the part of the registry row that decides about
rehydration, `txOpen` whether the transaction opened before the loop is still open: the
row written inside it is not durable. A row that cannot be written where the code swallows the
exception (on a pause, a resume and a failed rehydration) stays as it was. Waits of 30 seconds may
give up at any time. Pause and resume look at the job and then look the name up again, as the code
does. Start, pause and resume then wait for the worker, 5 or 30 seconds, before the query returns
(`WaitIsOver`, which may come at any time); a rehydration does not wait.

### 2.4 StreamScan

| Variable | Code |
|---|---|
| `log`, `present` | the stream (external): time and subject of every message ever stored, and which are still there |
| `req` | the parameters of the call; `NoFilter` for one that is not given |
| `stage` | how far `NatsScanBind`, `NatsScanInitGlobal`, `NatsScanExecute` have come |
| `info` | `stream_info`, read once |
| `cur`, `end`, `target` | `current_seq`, `end_seq`, `target_message_count` |
| `left`, `right`, `found` | the locals of `ResolveTimestampToSequence` (`found` is `result_seq`) |
| `pos`, `batch` | the server's consumer, and `messages_` from `next_index_` on |
| `rows` | sequence numbers of the rows, in order |
| `missed`, `cut` | history: a search met a deleted message; the client gave up on or lost messages |

Each answer of the server is an action: the stream information (`GetStreamInfo`), one
Direct Get of the search (`ProbeMisses`, `ProbeFinds`), the consumer (`Subscribe`), a
batch (`Fetch`, `FetchLoses`, `FetchEnds`). `Publish` and `Expire` fall between any two
of them. `TakeMessage` is one round of the loop in `NatsScanExecute`; the vectors rows are
put into are left out. `Fails` stands for every error of a call and for an interrupt.
The server leaves out subject counts when there are none (`SubjectCount` allows both).

### 2.5 SubscribeJob

| Variable | Code |
|---|---|
| `current`, `created`, `caller` | `jobs_` for the name, instances so far, where each SQL connection stands between two locked sections of `CreateJob`, `RemoveJob`, launch, pause and resume |
| `job` | `NatsSubscribeProgress`'s flags and `worker_finished` (`pause` is `pause_requested`, `stop` is `stop_requested`) |
| `worker`, `after` | the place of each instance's thread in `RunSubscribeWorker`; where it goes on after a flush |
| `batch`, `table`, `inserted` | `batch`, the rows an instance has added, `rows_inserted` |
| `seen` | `messages_delivered`, `messages_dropped` as of the last `RefreshSubscribeMetrics` |
| `sub`, `link`, `calls`, `published` | the NATS client (external): queue and counters of the subscription, state of the connection, callbacks not run yet; and the publishers |

`Receives`, `TimesOut` and `IsHindered` are the returns of `natsSubscription_NextMsg`;
`WorkerInserts` and `WorkerCounts` are `flush_batch` before and after the appender has
committed; `WorkerFails` is every exception, a failed insert among them. Requests are served
between any two steps. Whoever waits (`CreateWaits`, `RemoveWaits`) may give up at any time.
Pause and resume look at the job, look the name up again and set the flag; what they wait for
after that changes nothing. The weak pointer to the database is part of `WorkerFails`: a worker
that cannot lock it fails before it subscribes. Every instance has a table of its own here, so
that the order of its rows can be stated; in the database they may share one. Messages and
losses are drawn from one budget (`MaxEvents`), an instance counting for two, so that long runs
of one kind do not multiply with long runs of the other.

Two gaps in the flags are visible in `StatusSettles`, which excepts them: what a callback
reported before the worker ran is overwritten when it starts (`:842`), and the handler of a
failure leaves `connected` and `reconnecting` as they were (`:935`).

### 2.6 BatchSource

| Variable | Code |
|---|---|
| `published`, `delivered`, `conn` | the stream, the consumer and the connection (external) |
| `thread`, `hand` | the place in `PrefetchLoop` and its local batch |
| `batches`, `error`, `stop` | `prefetch_batches_`, `prefetch_error_`, `prefetch_stop_` |
| `worker`, `messages` | the caller of `FetchBatch`, `Next` and the destructor; `messages_` from `next_index_` on |
| `taken`, `lost` | history: returned by `Next`; destroyed with a list or with the source, or lost by a link |

What is done under `prefetch_mutex_` is one step; `notify_all` behind it is another (`Tells`,
`Joins`), so that a thread can go to sleep in between. The prefetch thread waits without a time
limit (`Looks`), the worker with one (`TimesOut`). A transient failure, over a link that is down or
a live one, keeps `Fetch` in its own loop for as long as the connection is not closed; it never
looks at `prefetch_stop_` there (`FetchRetries`).

### 2.7 KvWatchJob

The variables are those of `SubscribeJob` where the code is the same (`current`, `caller`, `job`,
`worker`, `batch`, `table`, `calls`). `bucket` is the sequence of all entries ever written;
`start` and `last` are where the watch of an instance began and has come; `late` counts inserts
since a pause was requested. What `kvWatcher_Next` returns next (`Upcoming`) passes over nothing that
the bucket still holds; an entry the bucket has dropped may be in the client's memory and still
come. Without a link it returns what the client had when the link dropped, up to `heard`.
`aborted` is the end of the process: `WorkerExits` of an instance
that nobody else refers to runs `~NatsKvWatchJobState` on its own thread, where the join is
skipped (`nats_kv_watch.cpp:62`) and the destructor of the joinable `std::thread` member
calls `std::terminate`. There is no `worker_finished` here: `CreateJob` and `RemoveJob` go by
`running`, so an instance that is being launched can be replaced. Every query holds the
instance it found until it returns; all but `CreateJob` look the name up a second time.

### 2.8 KvStore

Each call of a SQL function is one step of the server (`KvPut`, `KvDelete`, `KvGet`,
`KvIncrement`), with the answer lost or not. `KvIncrement` is `nats_kv_update` with the revision
an earlier `nats_kv_get` returned, or, for a key that had no value, `nats_kv_create` or
`nats_kv_update` with revision 0, which asks for a key never written. `counted`
counts the increments that were reported as done. `nats_kv_scan` is several steps: a full
snapshot lists the keys and gets them one by one (`ListsKeys`, `GetsKey`); an incremental scan
asks for the last sequence number, subscribes behind `since_revision`, and reads (`AsksLastSeq`,
`Subscribes`, `ReadsEntry`). `mirror` and `cursor` belong to the caller: the rows it has kept and
the largest revision among them, with which it calls again. `unseen` is history: entries that a
snapshot may have missed because they were written while it was taken, and entries lost with a
connection, which a consumer without acknowledgements (`:334`) does not deliver again.

### 2.9 SchemaCache and CopyToStream

`StatsFile` reads the modification time before the mutex is taken, `ReadsFile` the content under
it; `BuildsFile` is one file of one pass. A content is, for each file of a descriptor set, the
files it imports. Every write is taken to change the modification time. `holder` is
`schema_cache_mutex`; an exception releases it: a pass that built nothing (`FailsToBuild`), a file
that cannot be parsed, a descriptor that is rejected, an unknown message (`Refuses`). A file without a
modification time is refused before the mutex is taken (`StatFails`). A statement is bound with a schema
from the cache, publishes rows one by one with core NATS publishes and flushes. `inFlight` is what the
client has accepted and the server does not have; a link that drops loses it (`LinkDrops`), and
what is published while the client reconnects is kept (`Publishes` with the link down).

## 3. Runs

| Run | Shows | Bounds |
|---|---|---|
| `pipeline_fifo` | with in-order delivery and a clean handover: refinement of `ExactlyOnceTable`, `AckedIsStored`, `EventuallyStored` | 4 messages, one filtered, transactions of 2, pulls of 3 |
| `pipeline_lossy` | with lost deliveries and acks and overlapping handover: `AtMostOnce`, `CheckpointCoversRows`, `RegistryNotAhead` | 3 messages |
| `pipeline_loss` | **finding**: a lost delivery is never stored | the same, without overlapping handover |
| `lease` | `FencedIsCurrent`, `OneWorkerPerLock`, `LeaseKeptAfterFirstBatch` | 3 jobs, two on one lock file; 3 ticks of lease; 2 transactions |
| `lifecycle` | `WorkerIsMapped`, `StoppedStaysStopped`, `StopEndsWorker`, `TypeOK` | 2 connections, 2 instances, 1 restart |
| `lifecycle_stop` | **finding**: a stop request is lost while the worker starts | 2 connections, 1 instance |
| `subscribe` | refinement of `LiveJob`, `PausedIsFlushed`, `CountersAgree`, `GapsAreReported`, `StatusSettles`, `StopEndsWorker`, `ReceivedIsInserted` | 1 connection, 2 instances, 3 messages, 1 loss, batches of 2, a queue of 1 |
| `scan` | `RowsAreRequested`, `CompleteWhenDone`, `RangeStatsAgree`, `TypeOK` | 3 messages, 2 times, 2 subjects, 15 requests, batches of 2 |
| `batch_source` | `HandedOverInOrder`, `OneBatchAhead`, `PublishedIsTaken`, `DestructorReturns` | 4 messages, batches of 2, 2 drops of the link |
| `kv_watch` | `FollowsBucket`, `CountersAgree`, `PausedAddsOneBatch`, `StopEndsWorker`, `TypeOK` | 1 connection, 2 instances, 2 keys, history 1, batches of 2; 3 entries, 1 loss; in sum 5, an instance and a loss counting for 2 each |
| `kv_store` | `MirrorFollows`, `NoLostUpdate`, `CopyPutsPrefix` | 2 writers, 2 keys, 3 entries, history 1, 2 buckets, 2 rows |
| `copy_to_stream` | `SchemaIsCurrent`, `BuildsWhatCanBeBuilt`, `CopyStoresRows`, `CacheIsReleased` | 2 statements and another call, 3 files in 3 versions, 1 drop per link |

Why the bounds are enough for the interesting cases. *Pipeline*: a pull of 3 holds more
than a transaction of 2, so a pulled batch is split; the filtered message lies between
two expected ones, so there are batches with rows, without, and mixed; crashes,
failures, stops and launches are unbounded, the state is finite because messages are.
*Lease*: three jobs give an owner, a successor and a claimant; the pair on one lock file
and the third job on another (the same server by another URL) separate the two
mechanisms; two transactions let a successor commit before its predecessor wakes up.
*Lifecycle*: one instance can replace another while the second connection is between
any two steps of its own call; a restart brings the row back to life. *Subscribe*: a second
instance replaces the first or follows its removal; a queue of one overflows with two messages,
and the third comes behind the gap; a batch of two is flushed full, at a timeout, at a pause and
at a stop. One connection is enough for the worker's side; two are in `lifecycle`, whose manager
has the same protocol, and the proofs are for any number. *Scan*: three messages give a stream with a hole, with
a purged front, and emptied; a search has a lower and an upper half; a batch of two leaves a
rest. The requests take each parameter alone and the combinations the code treats
differently: open and closed ranges, a range behind the stream's end, text and server
filters on the whole stream and on a part, a filter that is not covered, a time range whose
two searches both run, and a refused mixture. Equal times occur because there are fewer times
than messages. The stream stops changing when the query has ended (`Open`): nothing reads it
any more. *Batch source*: four messages and batches of two give two full batches, so that one is
in the queue or with the worker while the next is fetched, and batches cut short; two drops let a
second link fail after a first has been restored. *KV watch*: two
keys, one of them written twice, give an entry the bucket drops while the watcher is behind. The budget
lets one instance have three entries, the third behind a full batch, or one entry and a loss; two
instances share one entry, the second replacing the first while that starts, runs or ends. Deletes,
and more of everything together, are in the proofs, which are for all of them. *KV store*: a history of one drops the entry a scan has not reached; three entries are a read, a
competing write and an update; two buckets let a mirror outlive the first. Purges and longer
histories are in the proofs, which are for all of them. *COPY*: the
listed order of the files is the reverse of the order they can be built in, so every pass builds
one; the second version is cyclic, the third imports a file that is missing; one statement has a
row that cannot be encoded between two that can. The jobs `a`, `b` of `lease` and the writers of `kv_store` are
symmetric; no liveness is checked in those runs.

Deadlock is checked in the pipeline's two passing runs and in `lease`. The others end by themselves:
their bounds on instances, entries and events are used up, a query, a statement or a source is
over. The two runs that look for a counterexample do not check it.

Fairness. `IngestPipeline!FairSpec`: the server answers pull requests and threads are
scheduled, so weak fairness of deliveries, of the worker's steps and of arriving
acknowledgements; nothing is assumed of publishers, failures, stops or launches.
`EventuallyStored` speaks of behaviours in which the worker stays up from some point on.
`IngestJobLifecycle!Fairness`: a worker thread is scheduled, weak fairness of its own
progress; fetches return, since `FetchBatch` has a timeout. `SubscribeJob!Fairness`: the same for
its workers, whose `NextMsg` has a timeout, and the client library reconnects or gives up, after the
600 attempts of `natsOptions_SetMaxReconnect` (`nats_connection.cpp:69`).
`KvWatchJob!Fairness`: its worker threads, as long as the process lives; nothing is assumed of its
link, because `kvWatcher_Next` returns by its timeout. `BatchSource!Fairness`: both threads
run; over a live link a request is answered, or expires when the stream has nothing more
(the timeout of the fetch), so that a server which answers every request over a live link with one of
the statuses `Fetch` retries on, for ever, is excluded; a link that dropped comes back or is closed (`LinkSettles`), and a fetch over
a closed connection fails. The link is not assumed to stay up: `DestructorReturns` needs only that the
library gives up in the end. `CopyToStream!Fairness`: a call that holds
the mutex runs. Nothing is assumed of connections, publishers, failures or callbacks.

## 4. Findings

1. **High-water checkpoint against lost deliveries** (run `pipeline_loss`). Message 1 is lost with
   a broken connection, 3 arrives, is committed and moves the checkpoint to 3. The
   redelivery of 1 after AckWait is `<= last_committed_seq`: skipped, acknowledged. The
   same happens to what the prefetch thread of a stopped job takes from the consumer after
   the lease was released (`ZombieReceives`).
2. **Lost stop request** (run `lifecycle_stop`). The worker resets `stop_requested` when it starts.
   `nats_start_ingest` waits up to 5 seconds for a row, a failure or a stop, so the request that is lost comes
   from a second connection, after a rehydration, which does not wait, or from the same
   connection when the worker is more than 5 seconds late.

Six more statements, of comments and documents or of plain sense, are written down in the modules and
do not hold. They are not part of a run: add the property to the configuration named here and TLC
shows the behaviour.

3. **Time search across deleted messages** (`StartsAtFirst`, `scan.cfg`). The search is there "to find
   the first message at or after the target timestamp" (`GUIDE.md:434`). A Direct Get of a deleted
   sequence number moves the left bound behind it, as if the message had been too early: stored
   messages before the hole that are late enough are not scanned. `ExactStart` (section 5)
   shows that this is the only way to miss one.
4. **A row later than end_time** (`RowsEndInTime`, `scan.cfg`). `end_time` is documented as inclusive
   (`GUIDE.md:522`), and `test_timestamp_queries.sql`, Test 2, expects every row in range; the scan ends
   with the first message that is not before it. That message may be later, and further ones exactly
   at `end_time` are left out. That it is the last row is part of `RowsAreRequested`.
5. **A dropped KV watch ends the process** (`NeverAborts`, `kv_watch.cfg`). `CreateJob` and `RemoveJob`
   drop an instance that "has already stopped or failed" (`nats_kv_watch.cpp:102`), but go by `running`,
   which is also false while a job starts and while it closes its connection. Its thread runs on
   under no name, and when its own reference is the last one, the destructor runs on it (section 2.7).
6. **Renewal before the first batch** (`LeaseKeptWhileIdle`, `lease.cfg`). The transaction of
   `nats_ingest.cpp:1998` is open until the first batch ends, and the renewal returns early.
   Safety does not depend on it: the fence refuses the old worker, which fails.
7. **Leaked lock file** (`LockHasLivingOwner`, `lease.cfg`). `ReleaseIngestLease` returns at `:498`
   before `close`.
8. **A removed job comes back** (`ForgottenStaysForgotten`, `lifecycle.cfg`). The last registry row
   of a worker stopped before its first batch is written in a transaction nobody commits.

Further differences between code and documents, each visible in a property of a passing run.

* `nats_scan`: a fetch that times out ends the scan without an error; `CompleteWhenDone` excepts it
  (`cut`).
* KV watch: the smoke test (`scripts/run-smoke-subscribe-kv.sh`, `paused_hold`) and the guide
  ("the same job-lifecycle pattern as `nats_start_subscribe`", `GUIDE.md:637`) expect that nothing is
  added once a pause is reported. `PauseJob` sets `paused` itself and waits for nothing
  (`nats_kv_watch.cpp:129`), so that the worker may still insert the batch it has in hand: one
  batch at most, which is what `PausedAddsOneBatch` says. What is in a paused worker's batch
  stays in memory until the resume.
* KV scan: entries written while a full snapshot is taken, and entries lost with a connection, may
  be passed over by every later incremental scan. `MirrorFollows` excepts exactly those (`unseen`).
* COPY TO a stream: a statement whose link dropped on the way can report success without some of
  its rows. `CopyStoresRows` claims completeness only for a link that never dropped.

Others met while modelling are in `PROJECT.json` "hazards".

## 5. Proofs

Everything below holds for every value of the constants, under the named assumptions
`PipelineAssumption`, `LeaseAssumption`, `LifecycleAssumption`, `ScanAssumption`, `TokenAssumption`,
`SubscribeAssumption`, `BatchSourceAssumption`, `KvWatchAssumption`, `KvStoreAssumption`, `SchemaCacheAssumption` and
`CopyToStreamAssumption`, which only give the constants their types (`ScanAssumption` also says
that no message has the number `UINT64_MAX`). The type invariants of the pipeline, the lease, the
subscribe jobs, the batch source, the KV store and COPY are proved and in no run.

**IngestPipelineProofs.** `AtMostOnce` is not inductive: the next commit could hold a
message that has a row. The invariant `Safe` adds why it cannot. Rows lie behind the
checkpoint, the worker's `committed` equals the checkpoint while it runs and is what
`RowsOf` compares with, the registry is behind the checkpoint, so that a rehydrated
worker starts from the same value, and a transaction between processing and commit still
holds a row to insert, so that its high-water mark is above `committed`. One lemma per
group of actions (`CommitSafe`, `WorkerStepSafe`, `LaunchSafe`, ...) shows that `Safe`
is preserved; `MaxIsLargest` and `HighWaterIsLargest` give the largest element of a set of
sequence numbers. Theorems: `TypeCorrect`, `NeverTwice`, `RowsBehindCheckpoint`,
`RegistryBehindCheckpoint`. They hold for lossy links and overlapping handover too.

The other half of exactly-once needs `FifoLink`, that is `~LossyLink /\ ~EarlyTakeover`: the two
findings about them show why. Its invariant `InOrder` looks at everything between the server and the
worker as one sequence, `Flow`: what the worker has taken, its batch, the prefetched batches and
the open request. In `Flow` no message above the checkpoint is overtaken by a later one (`NoGap`;
redeliveries of messages the checkpoint covers may be anywhere in it), none that was delivered and is
not covered is missing from it while the worker runs (`NothingMissing`), and the server still has it
pending, so that the next worker gets it after a crash (`PendingCovers`). With that a transaction
moves the checkpoint only over messages it stores (`PrefixStored`), and an acknowledgement is for
something the checkpoint covers (`AcksBehind`). Most steps only move a message along `Flow`:
`SameFlowKeepsOrder` is cited for them, and only deliveries, transactions and launches
have an argument of their own. Theorems: `OrderAlways`, `AcksFollowRows`, and `LoadsThePrefixOnce`,
the refinement of `ExactlyOnceTable`: a commit is its transaction, everything else stutters.

**IngestControlProofs.** *Lease.* `FencedIsCurrent` follows from `Ownership`: a job past the fence is
the row's owner (`FencedOwns`), and an owner that works has loaded or written the newest
checkpoint (`OwnerIsCurrent`), because only an owner commits and the row changes hands
only by a claim, after which the checkpoint is loaded. `ClaimStaysValid` carries the expiry
from a claim's UPDATE to its commit. Theorems: `LeaseTypeCorrect`, `NoStaleCommit`,
`LockFileExcludes`, and the action properties `TakeoversAreOrdered` and `RenewalsKeepTheLease`. The
last rests on `RenewsInTime`: a worker that has no transaction open and came round since the
last tick is not late with its renewal, whichever way it came back to the loop; so two thirds
of the lifetime are left when the clock moves on.

*Job manager.* `WorkerIsMapped` is not inductive: it must be known why nobody takes the map
entry while the worker lives. `Control` says that a live worker has not finished
(`WorkerOwnsName`), and that neither has an instance between its entry into the map and its thread, which
one connection alone is launching (`LaunchOwnsName`): `StillReplaceable`, which is asked again under both
locks, then refuses every other connection. The instance in the map is the newest ever
created (`NewestIsMapped`), so that the row after a stop can only be written by the worker that has
stopped, which wrote it last with `running` false (`EndedIsInactive`), or marked failed by a
rehydration: hence `StoppedStaysStopped`. `MoveKeeps` and `WorkerMoveKeeps` say once what a
step of a connection and of a worker leaves alone. Theorems: `LifecycleTypeCorrect`, `LiveWorkerIsMapped`,
`StopOutlivesRestart`.

**StreamScanProofs.** `OnlyRequestedRows` needs to know why a message that is delivered
late was selected. `ScanInv` carries the lower bound from the request to the consumer
(`RangeKept`, `ConsumerAhead`): the consumer starts at a message that is late enough, and
times never decrease with the sequence number, so everything behind it is, whatever is
published or deleted meanwhile. `FoundIsLate` is its counterpart during a search, `BatchRequested`
during a fetch. `ExactInv` is about the other direction: everything below `left` is too
early, *if* the search met no deleted message; its ghost `missed` is what makes the
invariant inductive. From it follow `ExactStart`, whose condition finding 3
shows to be needed, and the last part of `OnlyRequestedRows`: with an exact `end_seq` every row but the
last is before `end_time`. `SubjectUnderPatternMatches` proves the filter check
sound for subjects without wildcards, and `FilterStaysUnderPattern` for filters with them: what a
filter that passed selects is selected by the stream's pattern. The exception in its statement is real: `a.>`
passes under `a.*`, of which the stream holds only a part; the scan then returns that part.

`RangesAreCounted` is about the arithmetic: the messages stored in a range are those of the
stream's interval that the range covers, less the deleted ones in it (`RangeCounts`, from the
cardinality of intervals). `CompleteScan` is about the scan's early end: it stops when it has as many
rows as were counted at its start. `CompleteInv` follows a message of the stream as it was read that is
still stored and asked for: it lies in the range, then before the consumer or in the batch, and in the end in
the rows (`WantedReached`); rows and batch hold no message that the count did not see, below the last one
of the stream as it was read (`ReadFromInfo`); and the count is that of the messages the filter lets through
from where the consumer was set to (`CountExact`). `FewerRows` closes the argument: rows that
increase and leave one of the counted messages out are fewer than the count, so the scan has not stopped.

**SubscribeJobProofs.** `ImplementsLiveJob` needs two invariants of its own. `Owned`: the
instance under the name is the only one that can have a worker. It is a statement about the
manager, and rests on a launch: between `CreateJob` and the thread the instance is in the map
with `worker_finished` false, so that no other connection can replace or remove it
(`EnterKeepsOwner`, `CallerKeepsOwner`). `Rows`: table, batch and queue of an instance are
pieces of one increasing sequence (`InOrder`), which `ConcatIncreases`, `TakeInOrder` and
`PublishedInOrder` carry through an insert, a reception and a publication; a paused worker waits
with an empty batch (`PausedWaits`); a flush that is being counted is already in the table
(`Counted`); and a batch has room for what is received next (`HasRoom`). `JobStepFrame` and
`JobRowsFrame` say once what a step of one instance leaves alone. The simulation has one case
per action: a launch that succeeds is `Starts`, an insert `Stores`, `WorkerPauses` is `Holds` or a
stutter, the ends of a pause are `Releases`, `WorkerFinishes` is `Ends`. Theorems:
`SubscribeTypeCorrect`, `PauseFlushes`, `SubscribeImplementsLiveJob`.

What a status query shows needs `Told`. `Accounted`: the messages delivered are those inserted and
those in the batch, which is empty once the worker is behind its last flush, unless it failed.
`Settled`: the last callback that is due reports the connection as it is, and with none due the flags show
it. `GapsCounted`: as long as the connection has not been restored, what is missing between any two
messages that came, in the table, the batch or the queue, is no more than was dropped at the
limit, and by the time the later one is received the worker has shown that number. A message that is
dropped widens the gap before every later message by one, and `dropped` grows with it.
`Fresh` says that an instance begins with nothing. Theorems: `CountersNeverLie`, `StatusCatchesUp`,
`LossesAreReported`.

**BatchSourceProofs.** `BatchInv` says where a message can be: the queue holds at most one batch
(`QueueOK`); the prefetch thread has one in hand only in a fetch or behind it, and the queue is empty
then, because it fetches only when it has seen the queue empty and nobody else fills it (`ThreadOK`); the
worker waits only with nothing left (`WorkerOK`). `QueuedIs` says what the queue holds in each
of its two shapes. `HandedOverInOrder` is part of the invariant, since each hand-over needs that
of the step before. `SleeperWillBeWoken` is the safety
core of the two liveness properties: both threads notify outside the mutex, and yet a prefetch thread that
sleeps has a batch waiting for the worker, or the worker, or the destructor, on its way to the
notification. Theorems: `BatchTypeCorrect`, `EveryMessageOnce`, `ErrorHidesNoBatch`,
`NoNotificationIsMissed`.

**CopyToStreamProofs.** For the cache, `CacheInv` has the times in their order (`TimesOK`: cache entry,
call and content are never from the future), what a call has read is not older than its time
(`ContentsCurrent`), and for the passes `BuildOK`: what is built so far is closed under imports
and in some order (`Ordered`), and a pass that has built nothing yet has found nothing to build. `OrderGrows`
and `StuckIsCyclic` are the two facts about the imports: a file whose imports are built extends the order, and
a set of remaining files none of which can be built has no first one. For the statements,
`StatementInv` says what is in flight: over a link that never dropped the rows behind
what the server has. Theorems: `NoStaleSchema`, `PassesAreComplete`, `RowsInOrder`, `CopyTypeCorrect`.

**KvStoreProofs.** Two lemmas carry everything: `NewestIs` (an appended entry is the newest of its
key and leaves those of other keys) and `EntriesStay` (no step but the deletion of the bucket changes an entry).
`MirrorFollows` needs to know what a scan under way will bring: `ListedOK` for a snapshot (the
newest entry of every key is fetched or still to be fetched), `StreamedOK` for an incremental scan (it
has everything it came past up to `last_seq`), and `ScanOK` for the order of `cursor`, rows, `last_seq`
and the end of the bucket. The step that matters is `MirrorReads`: the consumer passes over
entries the bucket has dropped, never over the newest one of a key (`NewestIsKept`, for any history).
`NoLostUpdate` follows from `CountedOK` (a key with reported increments has a value that includes
them) and `ReadOK` (what a writer has read is still the entry of that revision, so that an
update that is accepted adds to the newest value). Theorems: `StoreTypeCorrect`, `MirrorMissesNothing`,
`UpdatesAreKept`, `CopyPutsRows`.

**KvWatchJobProofs.** An instance is launched by one connection and has no worker until then
(`Launches`), although it can be dropped from the map meanwhile; so each instance can be looked at alone.
`Follows` says for one: its rows and the batch behind them are in order and end at the entry
received last (`Ordered`), and hold every entry up to there that is still the newest of its key
(`Complete`). The step that matters is `ReceiveKeeps`: what lies between two entries received
one after the other is not pending (`Upcoming`), and an entry that is still the newest is pending until it is received,
for any history (`NewsIsPending`); a later write only makes less of it news (`WriteKeeps`).
`PausedOnce` is why one batch is the bound of a pause: after an insert the batch is empty, and
nothing but a release takes the worker back to where it receives. `FrameKeeps` and `MoveKeeps`
say once what connections, callbacks and other instances leave alone. Theorems: `WatchTypeCorrect`,
`WatchFollowsBucket`, `WatchCountersAgree`, `PauseAddsOneBatch`.

Only model-checked: the liveness properties `EventuallyStored`, `StopEndsWorker` (of three
components), `ReceivedIsInserted`, `PublishedIsTaken`, `DestructorReturns` and `CacheIsReleased`.
Fairness and ENABLED are out of the prover's reach. Every invariant and every action property
that a passing run checks is proved.

## 6. Plan

In this order.

1. *Ownership and data path together*: what `IngestPipeline` assumes of `IngestLease`, that a
   transaction is built on the newest checkpoint, as a refinement of a register that each
   writer reads before it adds to it.
2. `CheckpointLog`: append-only log, view, compaction beside appends, as an implementation of a
   register that holds the largest value; it needs a model of DuckDB's snapshots first.

Recursion in modules to be proved about is written as recursive functions or folds.

## 7. Not modelled

* Payload codecs, the parsing of connection options and the registration of the extension have no
  protocol to check: their tests are the better tool.
* The checkpoint log and its compaction (`nats_ingest.cpp:914-1008`): SQL inside DuckDB
  transactions, whose conflicts would have to be modelled from no source in this repository.
  `IngestPipeline` has the value the view shows.
* Creation of target tables, and everything else that is DuckDB catalog work.
* `nats_scan`: columns and payloads. Subscribe: queue groups and the limit in bytes.
* KV: values, `nats_kv_history` and the status functions, which only read; time to live and replicas.
* COPY TO a stream: payload encoding beyond whether it fails, and what the stream does with a
  message it has got: a stream that is full refuses a core NATS publish without telling the
  statement, which is the case for an acknowledged publish rather than for a model of this one.
* Schema cache: one file and one message type. A change in a `.proto` file that the schema file imports leaves the
  modification time of the schema file, the only key, as it was: the cache goes on with the old content.
* External parts (NATS server and client library, DuckDB's transactions, `flock`, threads, process
  death) are modelled from how the code uses them and marked so in the map.
