------------------------------ MODULE KvWatchJob ------------------------------
(***************************************************************************)
(* The KV watch jobs of one job_name: the manager's map entry, the SQL     *)
(* connections with the instances they hold, the worker threads with batch *)
(* and progress, the watcher on the bucket and the connection's callbacks  *)
(* (src/src/nats_kv_watch.cpp).                                            *)
(*                                                                         *)
(* The bucket is the sequence of its entries, an entry's revision its      *)
(* index.  Values and columns are left out.  pause_requested is always     *)
(* written together with paused and is the same flag here.                 *)
(***************************************************************************)
EXTENDS KvBucket

CONSTANTS
  Callers,       \* SQL connections
  Keys,          \* keys of the bucket
  Operations,    \* kinds of its entries
  MaxJobs,       \* bound on the job instances ever created: instances are 1..MaxJobs
  MaxRevisions,  \* bound on the entries written to the bucket
  History,       \* entries the bucket keeps per key
  BatchSize,     \* batch_size
  Requests,      \* the options the jobs may be started with
  MaxLosses,     \* bound on the connection losses
  MaxEvents      \* bound on the entries, an instance and a loss counting for two each

\* key_filter, updates_only and ignore_deletes.
Options == [keys : SUBSET Keys, updatesOnly : BOOLEAN, ignoreDeletes : BOOLEAN]

ASSUME KvWatchAssumption ==
  /\ MaxJobs \in Nat /\ MaxRevisions \in Nat /\ MaxLosses \in Nat
  /\ Requests \subseteq Options
  /\ Operations \subseteq {"put", "delete", "purge"}
  /\ History \in Nat \ {0}
  /\ BatchSize \in Nat \ {0}

VARIABLES
  current,    \* jobs_: the instance under the name, 0 if none
  created,    \* number of instances created so far
  caller,     \* where each connection is, and the instance its query holds
  aborted,    \* the process has ended in std::terminate
  job,        \* the flags of every instance's progress
  worker,     \* where each instance's thread is
  after,      \* where the thread goes when it has flushed its batch
  batch,      \* the revisions a worker has received and not inserted
  table,      \* the rows each instance has inserted
  inserted,   \* progress.rows_inserted
  delivered,  \* progress.entries_delivered
  late,       \* history: inserts since the pause was requested, 0 unless paused
  options,    \* the options the jobs are started with
  start,      \* the bucket's last revision when the watch began
  last,       \* the last revision the watcher has returned
  bucket,     \* the entries of the bucket
  link,       \* the connection of every instance
  heard,      \* the last revision a client had when its connection dropped
  calls,      \* callbacks of the connection that have not run yet
  losses      \* connection losses so far

ctl  == <<current, created, caller>>
data == <<after, batch, table, inserted, late>>
feed == <<delivered, start, last>>
net  == <<link, heard, calls, losses>>
vars == <<ctl, aborted, job, worker, data, options, feed, bucket, net>>

Jobs == 1..MaxJobs

Revisions == 1..MaxRevisions

Flags == [running : BOOLEAN, stop : BOOLEAN, failed : BOOLEAN, paused : BOOLEAN,
          connected : BOOLEAN, reconnecting : BOOLEAN]

NewJob == [running |-> FALSE, stop |-> FALSE, failed |-> FALSE, paused |-> FALSE,
           connected |-> FALSE, reconnecting |-> FALSE]

Idle == [at |-> "idle", on |-> 0]

\* The highest revision so far.
LastRevision == Len(bucket)

\* Something that counts for n may still happen in the model.
InBounds(n) == 2 * (created + losses) + LastRevision + n <= MaxEvents

\* A worker thread that may still add rows.
Alive(j) == worker[j] \notin {"none", "done"}

At(c, place) == caller[c].at = place

Goes(c, place, j) == caller' = [caller EXCEPT ![c] = [at |-> place, on |-> j]]

Moves(j, place) == worker' = [worker EXCEPT ![j] = place]

-----------------------------------------------------------------------------
\* The SQL connections.  Every query holds the instance it looked up first until it has
\* returned its row; all but CreateJob look the name up a second time to act on it.

\* NatsKvWatchManager::CreateJob, under the manager's lock: whatever is not running now is
\* dropped from the map.
Start(c) ==
  /\ At(c, "idle")
  /\ created < MaxJobs /\ InBounds(2)
  /\ current # 0 => ~job[current].running
  /\ created' = created + 1
  /\ current' = created'
  /\ Goes(c, "launch", created')
  /\ UNCHANGED <<aborted, job, worker, data, options, feed, bucket, net>>

LaunchSucceeds(c) ==
  /\ At(c, "launch")
  /\ Moves(caller[c].on, "spawned")
  /\ Goes(c, "returns", caller[c].on)
  /\ UNCHANGED <<current, created, aborted, job, data, options, feed, bucket, net>>

\* No thread could be started: nothing takes the instance out of the map again.
LaunchFails(c) ==
  /\ At(c, "launch")
  /\ caller' = [caller EXCEPT ![c] = Idle]
  /\ UNCHANGED <<current, created, aborted, job, worker, data, options, feed, bucket, net>>

\* GetJob, for nats_stop_kv_watch, nats_remove_kv_watch and nats_kv_watch_status.
Finds(c, what) ==
  /\ At(c, "idle")
  /\ current # 0
  /\ Goes(c, what, current)
  /\ UNCHANGED <<current, created, aborted, job, worker, data, options, feed, bucket, net>>

\* StopJob.
Stops(c) ==
  /\ At(c, "stop")
  /\ job' = IF current = 0 THEN job ELSE [job EXCEPT ![current].stop = TRUE]
  /\ Goes(c, "returns", caller[c].on)
  /\ UNCHANGED <<current, created, aborted, worker, data, options, feed, bucket, net>>

\* RemoveJob: "still running; stop it before removing", or the name is free.
Removes(c) ==
  /\ At(c, "remove")
  /\ current' = IF current # 0 /\ job[current].running THEN current ELSE 0
  /\ Goes(c, "returns", caller[c].on)
  /\ UNCHANGED <<created, aborted, job, worker, data, options, feed, bucket, net>>

IsRunning(f) == f.running /\ ~f.stop /\ ~f.failed

\* nats_pause_kv_watch and nats_resume_kv_watch refuse a job that is not running.
FindsRunning(c, what) ==
  /\ At(c, "idle")
  /\ current # 0
  /\ IsRunning(job[current])
  /\ Goes(c, what, current)
  /\ UNCHANGED <<current, created, aborted, job, worker, data, options, feed, bucket, net>>

\* PauseJob: the job is paused from here on, whatever its worker is doing.
Pauses(c) ==
  /\ At(c, "pause")
  /\ job' = IF current = 0 THEN job ELSE [job EXCEPT ![current].paused = TRUE]
  /\ Goes(c, "returns", caller[c].on)
  /\ UNCHANGED <<current, created, aborted, worker, data, options, feed, bucket, net>>

\* ResumeJob.
Resumes(c) ==
  /\ At(c, "resume")
  /\ IF current = 0
     THEN UNCHANGED <<job, late>>
     ELSE /\ job' = [job EXCEPT ![current].paused = FALSE]
          /\ late' = [late EXCEPT ![current] = 0]
  /\ Goes(c, "returns", caller[c].on)
  /\ UNCHANGED <<current, created, aborted, worker, after, batch, table, inserted, options,
                 feed, bucket, net>>

\* The row is returned, or a wait given up, and the query's reference dropped.  An instance
\* that nothing else refers to is destroyed here; its thread has ended before.
Returns(c) ==
  /\ At(c, "returns")
  /\ caller' = [caller EXCEPT ![c] = Idle]
  /\ UNCHANGED <<current, created, aborted, job, worker, data, options, feed, bucket, net>>

-----------------------------------------------------------------------------
\* RunKvWatchWorker, thread of instance j.

\* Target table, connection and the watch.
WorkerWatches(j) ==
  /\ worker[j] = "spawned"
  /\ link' = [link EXCEPT ![j] = "up"]
  /\ start' = [start EXCEPT ![j] = LastRevision]
  /\ Moves(j, "watching")
  /\ UNCHANGED <<ctl, aborted, job, data, options, delivered, last, bucket, heard, calls,
                 losses>>

WorkerRuns(j) ==
  /\ worker[j] = "watching"
  /\ job' = [job EXCEPT ![j] = [@ EXCEPT !.running = TRUE, !.connected = TRUE,
                                         !.reconnecting = FALSE]]
  /\ Moves(j, "loop")
  /\ UNCHANGED <<ctl, aborted, data, options, feed, bucket, net>>

\* FlushKvWatchBatch, then on to a place: nothing to insert, or an insert and its count.
Flushes(j, place) ==
  IF batch[j] = <<>>
  THEN Moves(j, place) /\ UNCHANGED after
  ELSE Moves(j, "flush") /\ after' = [after EXCEPT ![j] = place]

\* A paused worker that does not look for a stop request.
LooksWhenReleased(f) == ~f.paused

\* A worker that does not look whether it is paused.
LooksAlways(f) == TRUE

\* The top of the loop: a paused worker waits, with what is in its batch.
Looks(f) == f.stop \/ ~f.paused

WorkerLooks(j) ==
  /\ worker[j] = "loop"
  /\ Looks(job[j])
  /\ IF job[j].stop THEN Flushes(j, "ending") ELSE Moves(j, "next") /\ UNCHANGED after
  /\ UNCHANGED <<ctl, aborted, job, batch, table, inserted, late, options, feed, bucket, net>>

\* FlushKvWatchBatch: the appender has committed the rows.
WorkerInserts(j) ==
  /\ worker[j] = "flush"
  /\ table' = [table EXCEPT ![j] = @ \o batch[j]]
  /\ late' = IF job[j].paused THEN [late EXCEPT ![j] = @ + 1] ELSE late
  /\ Moves(j, "count")
  /\ UNCHANGED <<ctl, aborted, job, after, batch, inserted, options, feed, bucket, net>>

\* A flush that counts the batch after it was cleared.
WorkerCountsNothing(j) ==
  /\ worker[j] = "count"
  /\ batch' = [batch EXCEPT ![j] = <<>>]
  /\ inserted' = [inserted EXCEPT ![j] = @ + Len(batch'[j])]
  /\ Moves(j, after[j])
  /\ UNCHANGED <<ctl, aborted, job, after, table, late, options, feed, bucket, net>>

\* rows_inserted counts the batch; it is cleared.
WorkerCounts(j) ==
  /\ worker[j] = "count"
  /\ inserted' = [inserted EXCEPT ![j] = @ + Len(batch[j])]
  /\ batch' = [batch EXCEPT ![j] = <<>>]
  /\ Moves(j, after[j])
  /\ UNCHANGED <<ctl, aborted, job, after, table, late, options, feed, bucket, net>>

\* What the watch selects: changes since it began and, unless only updates were asked for,
\* what was current then.
Wanted(j, r) ==
  /\ bucket[r].key \in options.keys
  /\ options.ignoreDeletes => bucket[r].op = "put"
  /\ r > start[j] \/ (~options.updatesOnly /\ ~Superseded(bucket, r, start[j]))

\* The revisions the watcher still has to return, whatever the connection does meanwhile.
Pending(j) == {r \in (last[j] + 1)..LastRevision : Kept(bucket, History, r) /\ Wanted(j, r)}

\* What the watcher may return next: nothing that is pending is passed over, but an entry
\* that the bucket has dropped may be in the client's memory still, as may anything that
\* came before the connection dropped.
Upcoming(j) == {r \in (last[j] + 1)..LastRevision :
                  /\ Wanted(j, r)
                  /\ \A q \in Pending(j) : r <= q
                  /\ link[j] = "up" \/ r <= heard[j]}

IsFull(b) == Len(b) >= BatchSize

\* kvWatcher_Next returns an entry; a full batch is flushed.
Receives(j) ==
  /\ worker[j] = "next"
  /\ \E r \in Upcoming(j) :
       /\ last' = [last EXCEPT ![j] = r]
       /\ batch' = [batch EXCEPT ![j] = Append(@, r)]
  /\ delivered' = [delivered EXCEPT ![j] = @ + 1]
  /\ IF IsFull(batch'[j])
     THEN Moves(j, "flush") /\ after' = [after EXCEPT ![j] = "loop"]
     ELSE Moves(j, "loop") /\ UNCHANGED after
  /\ UNCHANGED <<ctl, aborted, job, table, inserted, late, options, start, bucket, net>>

\* A worker that forgets what it holds when nothing more comes.
TimesOutForgetting(j) ==
  /\ worker[j] = "next"
  /\ Moves(j, "loop")
  /\ batch' = [batch EXCEPT ![j] = <<>>]
  /\ UNCHANGED <<ctl, aborted, job, after, table, inserted, late, options, feed, bucket, net>>

\* NATS_TIMEOUT: the batch is flushed as it is.
TimesOut(j) ==
  /\ worker[j] = "next"
  /\ Flushes(j, "loop")
  /\ UNCHANGED <<ctl, aborted, job, batch, table, inserted, late, options, feed, bucket, net>>

\* A transient status while the client tries to reconnect, or the marker behind the
\* snapshot: on to the next round.
IsHindered(j) ==
  /\ worker[j] = "next"
  /\ link[j] \in {"up", "down"}
  /\ Moves(j, "loop")
  /\ UNCHANGED <<ctl, aborted, job, data, options, feed, bucket, net>>

\* The loop has been left and the last batch flushed.
WorkerEnds(j) ==
  /\ worker[j] = "ending"
  /\ job' = [job EXCEPT ![j] = [@ EXCEPT !.running = FALSE, !.connected = FALSE,
                                         !.reconnecting = FALSE]]
  /\ Moves(j, "closing")
  /\ UNCHANGED <<ctl, aborted, data, options, feed, bucket, net>>

\* A handler of the exception that leaves the flag set.
WorkerFailsRunning(j) ==
  /\ worker[j] \in {"spawned", "next", "flush"}
  /\ job' = [job EXCEPT ![j].failed = TRUE]
  /\ Moves(j, "closing")
  /\ UNCHANGED <<ctl, aborted, data, options, feed, bucket, net>>

\* An exception: no database, no connection, no bucket, a status of kvWatcher_Next, a failed
\* insert.  What is in the batch is lost.
WorkerFails(j) ==
  /\ worker[j] \in {"spawned", "next", "flush"}
  /\ job' = [job EXCEPT ![j] = [@ EXCEPT !.running = FALSE, !.failed = TRUE]]
  /\ Moves(j, "closing")
  /\ UNCHANGED <<ctl, aborted, data, options, feed, bucket, net>>

\* Watcher and connection are destroyed, which calls back once more.
WorkerCloses(j) ==
  /\ worker[j] = "closing"
  /\ link' = [link EXCEPT ![j] = "none"]
  /\ calls' = [calls EXCEPT ![j] = IF link[j] \in {"up", "down"} THEN Append(@, "closed") ELSE @]
  /\ Moves(j, "exiting")
  /\ UNCHANGED <<ctl, aborted, job, data, options, feed, bucket, heard, losses>>

\* Somebody besides the thread refers to the instance: the map, or a query.
Referenced(j) == current = j \/ \E c \in Callers : caller[c].on = j

\* The thread ends and drops its reference.  If it was the last one, the destructor runs in
\* the thread itself, which it can neither join nor leave joinable: std::terminate.
WorkerExits(j) ==
  /\ worker[j] = "exiting"
  /\ Moves(j, "done")
  /\ aborted' = ~Referenced(j)
  /\ UNCHANGED <<ctl, job, data, options, feed, bucket, net>>

-----------------------------------------------------------------------------
\* The bucket, and the NATS client library.

Writes(k, op) ==
  /\ LastRevision < MaxRevisions /\ InBounds(1)
  /\ bucket' = Append(bucket, [key |-> k, op |-> op])
  /\ UNCHANGED <<ctl, aborted, job, worker, data, options, feed, net>>

LinkBecomes(j, state, call) ==
  /\ link' = [link EXCEPT ![j] = state]
  /\ calls' = [calls EXCEPT ![j] = Append(@, call)]
  /\ UNCHANGED <<ctl, aborted, job, worker, data, options, feed, bucket>>

LinkDrops(j) ==
  /\ link[j] = "up" /\ losses < MaxLosses /\ InBounds(2)
  /\ losses' = losses + 1
  /\ \E r \in last[j]..LastRevision : heard' = [heard EXCEPT ![j] = r]
  /\ LinkBecomes(j, "down", "disconnected")

\* Reconnected, or given up after natsOptions_SetMaxReconnect attempts.
LinkSettles(j) ==
  /\ link[j] = "down"
  /\ \/ LinkBecomes(j, "up", "reconnected") /\ heard' = [heard EXCEPT ![j] = 0]
     \/ LinkBecomes(j, "closed", "closed") /\ UNCHANGED heard
  /\ UNCHANGED losses

\* KvWatchDisconnected, KvWatchReconnected and KvWatchClosed run in the library's thread,
\* some time after the event and in its order.
Reported(f, call) ==
  [f EXCEPT !.connected    = (call = "reconnected"),
            !.reconnecting = (call = "disconnected")]

CallsBack(j) ==
  /\ calls[j] # <<>>
  /\ Alive(j) \/ Referenced(j)
  /\ job' = [job EXCEPT ![j] = Reported(@, Head(calls[j]))]
  /\ calls' = [calls EXCEPT ![j] = Tail(@)]
  /\ UNCHANGED <<ctl, aborted, worker, data, options, feed, bucket, link, heard, losses>>

-----------------------------------------------------------------------------
Init ==
  /\ current = 0
  /\ created = 0
  /\ caller = [c \in Callers |-> Idle]
  /\ aborted = FALSE
  /\ job = [j \in Jobs |-> NewJob]
  /\ worker = [j \in Jobs |-> "none"]
  /\ after = [j \in Jobs |-> "loop"]
  /\ batch = [j \in Jobs |-> <<>>]
  /\ table = [j \in Jobs |-> <<>>]
  /\ inserted = [j \in Jobs |-> 0]
  /\ delivered = [j \in Jobs |-> 0]
  /\ late = [j \in Jobs |-> 0]
  /\ options \in Requests
  /\ start = [j \in Jobs |-> 0]
  /\ last = [j \in Jobs |-> 0]
  /\ bucket = <<>>
  /\ link = [j \in Jobs |-> "none"]
  /\ heard = [j \in Jobs |-> 0]
  /\ calls = [j \in Jobs |-> <<>>]
  /\ losses = 0

CallerStep(c) ==
  \/ Start(c)
  \/ LaunchSucceeds(c)
  \/ LaunchFails(c)
  \/ \E what \in {"stop", "remove", "returns"} : Finds(c, what)
  \/ Stops(c)
  \/ Removes(c)
  \/ \E what \in {"pause", "resume"} : FindsRunning(c, what)
  \/ Pauses(c)
  \/ Resumes(c)
  \/ Returns(c)

\* What a worker does without anybody's request.
WorkerProgress(j) ==
  \/ WorkerWatches(j)
  \/ WorkerRuns(j)
  \/ WorkerLooks(j)
  \/ WorkerInserts(j)
  \/ WorkerCounts(j)
  \/ Receives(j)
  \/ TimesOut(j)
  \/ WorkerEnds(j)
  \/ WorkerCloses(j)
  \/ WorkerExits(j)

Next ==
  /\ ~aborted
  /\ \/ \E c \in Callers : CallerStep(c)
     \/ \E j \in Jobs : \/ WorkerProgress(j)
                        \/ IsHindered(j)
                        \/ WorkerFails(j)
                        \/ LinkDrops(j)
                        \/ LinkSettles(j)
                        \/ CallsBack(j)
     \/ \E k \in Keys, op \in Operations : Writes(k, op)

\* Worker threads are scheduled, and kvWatcher_Next returns by its timeout.
Fairness == \A j \in Jobs : WF_vars(~aborted /\ WorkerProgress(j))

Spec == Init /\ [][Next]_vars /\ Fairness

-----------------------------------------------------------------------------
CallersOK ==
  /\ created \in 0..MaxJobs
  /\ current \in 0..created
  /\ caller \in [Callers -> [at : {"idle", "launch", "stop", "remove", "pause", "resume",
                                   "returns"},
                             on : 0..created]]
  /\ aborted \in BOOLEAN

InLoop(j) == worker[j] \in {"loop", "next", "flush", "count", "ending"}

WorkersOK ==
  /\ job \in [Jobs -> Flags]
  /\ worker \in [Jobs -> {"none", "spawned", "watching", "loop", "next", "flush", "count",
                          "ending", "closing", "exiting", "done"}]
  /\ after \in [Jobs -> {"loop", "ending"}]
  /\ batch \in [Jobs -> Seq(Revisions)]
  /\ \A j \in Jobs : Len(batch[j]) <= BatchSize
  /\ \A j \in Jobs : job[j].running <=> InLoop(j)

RowsOK ==
  /\ table \in [Jobs -> Seq(Revisions)]
  /\ inserted \in [Jobs -> Nat]
  /\ delivered \in [Jobs -> Nat]
  /\ late \in [Jobs -> Nat]

FeedOK ==
  /\ options \in Requests
  /\ bucket \in Seq([key : Keys, op : Operations])
  /\ LastRevision <= MaxRevisions
  /\ start \in [Jobs -> 0..MaxRevisions]
  /\ last \in [Jobs -> 0..MaxRevisions]
  /\ \A j \in Jobs : start[j] <= LastRevision /\ last[j] <= LastRevision

LinksOK ==
  /\ link \in [Jobs -> {"none", "up", "down", "closed"}]
  /\ heard \in [Jobs -> 0..MaxRevisions]
  /\ calls \in [Jobs -> Seq({"disconnected", "reconnected", "closed"})]
  /\ losses \in 0..MaxLosses

\* The types of the variables, that a batch keeps to its size, and that the flag which
\* CreateJob and RemoveJob go by, running, is set just while the worker is in its loop: an
\* instance that is being launched or torn down may be dropped.
TypeOK == CallersOK /\ WorkersOK /\ RowsOK /\ FeedOK /\ LinksOK

Elements(s) == {s[i] : i \in DOMAIN s}

\* What an instance has received and not lost, in order.
Received(j) == IF worker[j] = "count" THEN table[j] ELSE table[j] \o batch[j]

InOrder(s) == \A i, k \in DOMAIN s : i < k => s[i] < s[k]

\* The newest entry of its key, of a key and kind the job asked for.
IsNews(r) ==
  /\ ~Superseded(bucket, r, LastRevision)
  /\ bucket[r].key \in options.keys
  /\ bucket[r].op = "put" \/ ~options.ignoreDeletes

\* The table of an instance and the batch behind it hold entries in the order of their
\* revisions, none twice, and miss no key: whatever the bucket has dropped meanwhile, the
\* newest entry of a key is there as soon as the watcher has come past it, unless it is older
\* than a watch for updates only.  A worker that was stopped has inserted all it received.
FollowsBucket ==
  \A j \in Jobs :
    /\ InOrder(Received(j))
    /\ ~job[j].failed =>
         \A r \in 1..last[j] :
           IsNews(r) /\ (options.updatesOnly => r > start[j]) => r \in Elements(Received(j))
    /\ worker[j] = "done" /\ ~job[j].failed => batch[j] = <<>>

\* The counters agree with the rows: rows_inserted never claims more than there are, and
\* entries_delivered counts the rows and what is in memory.
CountersAgree ==
  \A j \in Jobs :
    /\ inserted[j] = Len(table[j]) - (IF worker[j] = "count" THEN Len(batch[j]) ELSE 0)
    /\ ~job[j].failed => delivered[j] = Len(Received(j))

\* A job that is reported as paused adds no more than the batch that was being filled when
\* the pause was requested: PauseJob reports the pause at once, and waits for nothing.
PausedAddsOneBatch == \A j \in Jobs : job[j].paused => late[j] <= 1

\* An instance whose stop flag is set, which it then stays, has a thread still.
IsStopping == \E j \in Jobs : Alive(j) /\ job[j].stop

\* A stop request ends the worker, paused or not, from the moment the job is in the map: the
\* thread comes to its end, or takes the process with it (NeverAborts).
StopEndsWorker == IsStopping ~> (aborted \/ ~IsStopping)

\* A name can be used again at any time: dropping an instance that has stopped or failed
\* releases its connection, its watcher and its thread, and the process goes on.
NeverAborts == ~aborted
=============================================================================
