----------------------------- MODULE SubscribeJob -----------------------------
(***************************************************************************)
(* The core NATS subscribe jobs of one job_name: the manager's map entry,  *)
(* the SQL connections, the worker threads with their batch and progress,  *)
(* the subscription's bounded queue and the connection's callbacks         *)
(* (src/src/nats_subscribe.cpp, src/src/include/nats_job_lifecycle.hpp).   *)
(*                                                                         *)
(* Messages are the numbers in which they are published.  Payloads and     *)
(* columns are left out, and the limit in bytes with them.  Waits with a   *)
(* timeout may give up at any time.                                        *)
(***************************************************************************)
EXTENDS Naturals, Sequences, FiniteSets

CONSTANTS
  Callers,       \* SQL connections
  MaxJobs,       \* bound on the job instances ever created: instances are 1..MaxJobs
  MaxMessages,   \* bound on the messages published on the subject
  BatchSize,     \* batch_size
  PendingLimit,  \* pending_message_limit
  MaxLosses,     \* bound on the connection losses
  MaxEvents      \* bound on messages and losses together, an instance counting for two

ASSUME SubscribeAssumption ==
  /\ MaxJobs \in Nat /\ MaxMessages \in Nat /\ MaxLosses \in Nat
  /\ BatchSize \in Nat \ {0}
  /\ PendingLimit \in Nat \ {0}

VARIABLES
  current,    \* jobs_: the instance under the name, 0 if none
  created,    \* number of instances created so far
  caller,     \* where each connection is, and the instance it holds
  job,        \* the flags of every instance's progress, and worker_finished
  worker,     \* where each instance's thread is
  after,      \* where the thread goes when it has flushed its batch
  batch,      \* the messages a worker has received and not inserted
  table,      \* the rows each instance has inserted
  inserted,   \* progress.rows_inserted
  seen,       \* the statistics of the subscription as progress shows them
  sub,        \* the subscription: its queue and its own counters
  link,       \* the connection of every instance
  calls,      \* callbacks of the connection that have not run yet
  losses,     \* connection losses so far
  published   \* messages published so far

ctl  == <<current, created, caller>>
data == <<after, batch, table, inserted>>
net  == <<sub, link, calls, losses, published>>
vars == <<ctl, job, worker, data, seen, net>>

Jobs == 1..MaxJobs

Messages == 1..MaxMessages

\* reconnected stands for a reconnect_count above zero.
Flags == [running : BOOLEAN, stop : BOOLEAN, failed : BOOLEAN, pause : BOOLEAN,
          paused : BOOLEAN, finished : BOOLEAN, connected : BOOLEAN,
          reconnecting : BOOLEAN, reconnected : BOOLEAN]

NewJob == [running |-> FALSE, stop |-> FALSE, failed |-> FALSE, pause |-> FALSE,
           paused |-> FALSE, finished |-> FALSE, connected |-> FALSE,
           reconnecting |-> FALSE, reconnected |-> FALSE]

Subscriptions == [pending : Seq(Messages), delivered : Nat, dropped : Nat, slow : BOOLEAN]

NewSub == [pending |-> <<>>, delivered |-> 0, dropped |-> 0, slow |-> FALSE]

NothingSeen == [delivered |-> 0, dropped |-> 0]

Idle == [at |-> "idle", on |-> 0]

\* More may happen in the model.
InBounds == 2 * created + published + losses < MaxEvents

\* A worker thread that may still add rows.
Alive(j) == worker[j] \notin {"none", "done"}

\* The instances with a subscription on the server.
Subscribed(j) == worker[j] \notin {"none", "spawned", "exiting", "done"}

At(c, place) == caller[c].at = place

Goes(c, place, j) == caller' = [caller EXCEPT ![c] = [at |-> place, on |-> j]]

Returns(c) == caller' = [caller EXCEPT ![c] = Idle]

Moves(j, place) == worker' = [worker EXCEPT ![j] = place]

-----------------------------------------------------------------------------
\* NatsSubscribeManager::CreateJob and nats_start_subscribe.

\* The new instance is in the map before it has a worker.
Enter(c) ==
  /\ created < MaxJobs /\ InBounds
  /\ created' = created + 1
  /\ current' = created'
  /\ job' = [job EXCEPT ![created'] = NewJob]
  /\ Goes(c, "launch", created')

Start(c) ==
  /\ At(c, "idle") \/ At(c, "create")
  /\ \/ current = 0 /\ Enter(c)
     \/ current # 0 /\ Goes(c, "check", current) /\ UNCHANGED <<current, created, job>>
  /\ UNCHANGED <<worker, data, seen, net>>

\* "already exists" and "is still starting".
MayNotReplace(f) ==
  \/ f.running /\ ~f.stop
  \/ ~f.finished /\ ~f.stop /\ ~f.failed

CreateChecks(c) ==
  /\ At(c, "check")
  /\ IF MayNotReplace(job[caller[c].on]) THEN Returns(c) ELSE Goes(c, "wait", caller[c].on)
  /\ UNCHANGED <<current, created, job, worker, data, seen, net>>

\* WaitForNatsJobWorker: the worker has finished, or 30 seconds have passed.
CreateWaits(c) ==
  /\ At(c, "wait")
  /\ IF job[caller[c].on].finished THEN Goes(c, "replace", caller[c].on) ELSE Returns(c)
  /\ UNCHANGED <<current, created, job, worker, data, seen, net>>

\* Seen again under both locks: the same instance, and no worker left.
StillReplaceable(j) == current = j /\ job[j].finished /\ ~job[j].running

CreateReplaces(c) ==
  /\ At(c, "replace")
  /\ IF StillReplaceable(caller[c].on)
     THEN Enter(c)
     ELSE Goes(c, "create", 0) /\ UNCHANGED <<current, created, job>>
  /\ UNCHANGED <<worker, data, seen, net>>

LaunchSucceeds(c) ==
  /\ At(c, "launch")
  /\ Moves(caller[c].on, "spawned")
  /\ Returns(c)
  /\ UNCHANGED <<current, created, job, data, seen, net>>

\* No thread could be started: the handler removes whatever has the name by now.
LaunchFails(c) ==
  /\ At(c, "launch")
  /\ job' = [job EXCEPT ![caller[c].on].finished = TRUE]
  /\ Goes(c, "cleanup", caller[c].on)
  /\ UNCHANGED <<current, created, worker, data, seen, net>>

-----------------------------------------------------------------------------
\* NatsSubscribeManager::RemoveJob.

Remove(c) ==
  /\ At(c, "idle") \/ At(c, "cleanup")
  /\ IF current = 0 THEN Returns(c) ELSE Goes(c, "remove", current)
  /\ UNCHANGED <<current, created, job, worker, data, seen, net>>

\* "still running; stop it before removing" and "is still starting".
RemoveChecks(c) ==
  /\ At(c, "remove")
  /\ IF MayNotReplace(job[caller[c].on]) THEN Returns(c) ELSE Goes(c, "drain", caller[c].on)
  /\ UNCHANGED <<current, created, job, worker, data, seen, net>>

RemoveWaits(c) ==
  /\ At(c, "drain")
  /\ IF job[caller[c].on].finished THEN Goes(c, "erase", caller[c].on) ELSE Returns(c)
  /\ UNCHANGED <<current, created, job, worker, data, seen, net>>

RemoveErases(c) ==
  /\ At(c, "erase")
  /\ current' = IF StillReplaceable(caller[c].on) THEN 0 ELSE current
  /\ Returns(c)
  /\ UNCHANGED <<created, job, worker, data, seen, net>>

-----------------------------------------------------------------------------
\* nats_stop_subscribe, nats_pause_subscribe, nats_resume_subscribe.  The last two look
\* at the job first, then look the name up again to set the flag, and wait for the job
\* they looked at.

Stop(c) ==
  /\ At(c, "idle")
  /\ current # 0
  /\ job' = [job EXCEPT ![current].stop = TRUE]
  /\ UNCHANGED <<ctl, worker, data, seen, net>>

IsRunning(f) == f.running /\ ~f.stop /\ ~f.failed

Pause(c, what) ==
  /\ At(c, "idle")
  /\ current # 0
  /\ IsRunning(job[current])
  /\ Goes(c, what, current)
  /\ UNCHANGED <<current, created, job, worker, data, seen, net>>

PauseJob(c) ==
  /\ At(c, "pause")
  /\ job' = IF current = 0 THEN job ELSE [job EXCEPT ![current].pause = TRUE]
  /\ Returns(c)
  /\ UNCHANGED <<current, created, worker, data, seen, net>>

ResumeJob(c) ==
  /\ At(c, "resume")
  /\ job' = IF current = 0 THEN job ELSE [job EXCEPT ![current].pause = FALSE]
  /\ Returns(c)
  /\ UNCHANGED <<current, created, worker, data, seen, net>>

-----------------------------------------------------------------------------
\* RunSubscribeWorker, thread of instance j.

\* Target table, connection, subscription with its limit.
WorkerSubscribes(j) ==
  /\ worker[j] = "spawned"
  /\ link' = [link EXCEPT ![j] = "up"]
  /\ sub' = [sub EXCEPT ![j] = NewSub]
  /\ Moves(j, "subscribed")
  /\ UNCHANGED <<ctl, job, data, seen, calls, losses, published>>

WorkerRuns(j) ==
  /\ worker[j] = "subscribed"
  /\ job' = [job EXCEPT ![j] = [@ EXCEPT !.running = TRUE, !.connected = TRUE,
                                                 !.reconnecting = FALSE]]
  /\ Moves(j, "loop")
  /\ UNCHANGED <<ctl, data, seen, net>>

\* A flush that is forgotten when the loop is left, or when it is paused.
FlushesUnlessStopped(j, place) ==
  IF batch[j] = <<>> \/ place = "ending"
  THEN Moves(j, place) /\ UNCHANGED after
  ELSE Moves(j, "flush") /\ after' = [after EXCEPT ![j] = place]

FlushesUnlessPaused(j, place) ==
  IF batch[j] = <<>> \/ place = "pausing"
  THEN Moves(j, place) /\ UNCHANGED after
  ELSE Moves(j, "flush") /\ after' = [after EXCEPT ![j] = place]

\* flush_batch, then on to a place: nothing to insert, or an insert and its count.
Flushes(j, place) ==
  IF batch[j] = <<>>
  THEN Moves(j, place) /\ UNCHANGED after
  ELSE Moves(j, "flush") /\ after' = [after EXCEPT ![j] = place]

\* The top of the loop.
WorkerLooks(j) ==
  /\ worker[j] = "loop"
  /\ \/ /\ job[j].stop
        /\ Flushes(j, "ending")
     \/ /\ ~job[j].stop /\ job[j].pause
        /\ Flushes(j, "pausing")
     \/ /\ ~job[j].stop /\ ~job[j].pause
        /\ Moves(j, "next") /\ UNCHANGED after
  /\ UNCHANGED <<ctl, job, batch, table, inserted, seen, net>>

\* FlushSubscribeBatch: the appender has committed the rows.
WorkerInserts(j) ==
  /\ worker[j] = "flush"
  /\ table' = [table EXCEPT ![j] = @ \o batch[j]]
  /\ Moves(j, "count")
  /\ UNCHANGED <<ctl, job, after, batch, inserted, seen, net>>

WorkerCounts(j) ==
  /\ worker[j] = "count"
  /\ inserted' = [inserted EXCEPT ![j] = @ + Len(batch[j])]
  /\ batch' = [batch EXCEPT ![j] = <<>>]
  /\ Moves(j, after[j])
  /\ UNCHANGED <<ctl, job, after, table, seen, net>>

\* The batch is flushed: paused, unless the request is gone by now.
WorkerPauses(j) ==
  /\ worker[j] = "pausing"
  /\ IF job[j].pause /\ ~job[j].stop
     THEN job' = [job EXCEPT ![j].paused = TRUE] /\ Moves(j, "waiting")
     ELSE job' = job /\ Moves(j, "loop")
  /\ UNCHANGED <<ctl, data, seen, net>>

\* A pause that only ends with a resume.
WakesOnResume(f) == ~f.pause

Wakes(f) == ~f.pause \/ f.stop

WorkerResumes(j) ==
  /\ worker[j] = "waiting"
  /\ Wakes(job[j])
  /\ job' = [job EXCEPT ![j].paused = FALSE]
  /\ Moves(j, "loop")
  /\ UNCHANGED <<ctl, data, seen, net>>

\* Statistics that forget the drops when the subscription has been told of them.
StatisticsWhileSlow(s) ==
  [delivered |-> s.delivered, dropped |-> IF s.slow THEN s.dropped ELSE 0]

\* RefreshSubscribeMetrics: the counters of the subscription as they are now.
Statistics(s) == [delivered |-> s.delivered, dropped |-> s.dropped]

WorkerRefreshes(j) ==
  /\ worker[j] = "waiting"
  /\ seen' = [seen EXCEPT ![j] = Statistics(sub[j])]
  /\ UNCHANGED <<ctl, job, worker, data, net>>

IsFull(b) == Len(b) >= BatchSize

Taken(s) == [s EXCEPT !.pending = Tail(s.pending), !.delivered = s.delivered + 1]

\* natsSubscription_NextMsg returns a message, the statistics are refreshed, and a full
\* batch is flushed.
Receives(j) ==
  /\ worker[j] = "next"
  /\ sub[j].pending # <<>>
  /\ sub' = [sub EXCEPT ![j] = Taken(@)]
  /\ seen' = [seen EXCEPT ![j] = Statistics(sub'[j])]
  /\ batch' = [batch EXCEPT ![j] = Append(@, Head(sub[j].pending))]
  /\ IF IsFull(batch'[j])
     THEN Moves(j, "flush") /\ after' = [after EXCEPT ![j] = "loop"]
     ELSE Moves(j, "loop") /\ UNCHANGED after
  /\ UNCHANGED <<ctl, job, table, inserted, link, calls, losses, published>>

\* A worker that waits for a full batch.
TimesOutUnflushed(j) ==
  /\ worker[j] = "next"
  /\ sub[j].pending = <<>>
  /\ seen' = [seen EXCEPT ![j] = Statistics(sub[j])]
  /\ Moves(j, "loop")
  /\ UNCHANGED <<ctl, job, data, net>>

TimesOut(j) ==
  /\ worker[j] = "next"
  /\ sub[j].pending = <<>>
  /\ seen' = [seen EXCEPT ![j] = Statistics(sub[j])]
  /\ Flushes(j, "loop")
  /\ UNCHANGED <<ctl, job, batch, table, inserted, net>>

\* NATS_SLOW_CONSUMER is reported once, a transient status for as long as the client
\* tries to reconnect.
IsHindered(j) ==
  /\ worker[j] = "next"
  /\ \/ sub[j].slow /\ sub' = [sub EXCEPT ![j] = [@ EXCEPT !.slow = FALSE]]
     \/ link[j] = "down" /\ UNCHANGED sub
  /\ seen' = [seen EXCEPT ![j] = Statistics(sub'[j])]
  /\ Moves(j, "loop")
  /\ UNCHANGED <<ctl, job, data, link, calls, losses, published>>

\* A worker that takes itself for finished before it has closed its connection.
WorkerEndsEarly(j) ==
  /\ worker[j] = "ending"
  /\ seen' = [seen EXCEPT ![j] = Statistics(sub[j])]
  /\ job' = [job EXCEPT ![j] = [@ EXCEPT !.running = FALSE, !.paused = FALSE, !.pause = FALSE,
                                       !.connected = FALSE, !.reconnecting = FALSE,
                                       !.finished = TRUE]]
  /\ Moves(j, "closing")
  /\ UNCHANGED <<ctl, data, net>>

\* The loop has been left and the last batch flushed.
WorkerEnds(j) ==
  /\ worker[j] = "ending"
  /\ seen' = [seen EXCEPT ![j] = Statistics(sub[j])]
  /\ job' = [job EXCEPT ![j] = [@ EXCEPT !.running = FALSE, !.paused = FALSE, !.pause = FALSE,
                                       !.connected = FALSE, !.reconnecting = FALSE]]
  /\ Moves(j, "closing")
  /\ UNCHANGED <<ctl, data, net>>

\* An exception: no connection, a status of natsSubscription_NextMsg (its connection is
\* closed, for one), a failed insert.  What is in the batch is lost.
WorkerFails(j) ==
  /\ worker[j] \in {"spawned", "subscribed", "next", "flush"}
  /\ job' = [job EXCEPT ![j] = [@ EXCEPT !.running = FALSE, !.paused = FALSE, !.pause = FALSE,
                                       !.failed = TRUE]]
  /\ Moves(j, "closing")
  /\ UNCHANGED <<ctl, data, seen, net>>

\* Subscription and connection are destroyed, which calls back once more.
WorkerCloses(j) ==
  /\ worker[j] = "closing"
  /\ link' = [link EXCEPT ![j] = "none"]
  /\ calls' = [calls EXCEPT ![j] = IF link[j] \in {"up", "down"} THEN Append(@, "closed") ELSE @]
  /\ Moves(j, "exiting")
  /\ UNCHANGED <<ctl, job, data, seen, sub, losses, published>>

\* worker_finished
WorkerFinishes(j) ==
  /\ worker[j] = "exiting"
  /\ job' = [job EXCEPT ![j].finished = TRUE]
  /\ Moves(j, "done")
  /\ UNCHANGED <<ctl, data, seen, net>>

-----------------------------------------------------------------------------
\* The NATS client library and the server, as the worker meets them.

\* A message reaches every subscription that is connected: its queue, or the counter of
\* dropped messages when the queue is full.
Arrives(s, m) ==
  IF Len(s.pending) < PendingLimit
  THEN [s EXCEPT !.pending = Append(s.pending, m)]
  ELSE [s EXCEPT !.dropped = s.dropped + 1, !.slow = TRUE]

Publish ==
  /\ published < MaxMessages /\ InBounds
  /\ published' = published + 1
  /\ sub' = [j \in Jobs |-> IF Subscribed(j) /\ link[j] = "up"
                            THEN Arrives(sub[j], published') ELSE sub[j]]
  /\ UNCHANGED <<ctl, job, worker, data, seen, link, calls, losses>>

LinkBecomes(j, state, call) ==
  /\ link' = [link EXCEPT ![j] = state]
  /\ calls' = [calls EXCEPT ![j] = Append(@, call)]
  /\ UNCHANGED <<ctl, job, worker, data, seen, sub, published>>

LinkDrops(j) ==
  /\ link[j] = "up" /\ losses < MaxLosses /\ InBounds
  /\ losses' = losses + 1
  /\ LinkBecomes(j, "down", "disconnected")

\* Reconnected, or given up after natsOptions_SetMaxReconnect attempts.
LinkSettles(j) ==
  /\ link[j] = "down"
  /\ \/ LinkBecomes(j, "up", "reconnected")
     \/ LinkBecomes(j, "closed", "closed")
  /\ UNCHANGED losses

\* A reconnection that leaves the flag of the interruption.
ReportedHalf(f, call) ==
  [f EXCEPT !.connected    = (call = "reconnected"),
            !.reconnecting = (call = "disconnected") \/ (@ /\ call # "closed"),
            !.reconnected  = @ \/ call = "reconnected"]

\* SubscribeDisconnected, SubscribeReconnected and SubscribeClosed run in the library's
\* thread, some time after the event and in its order.
Reported(f, call) ==
  [f EXCEPT !.connected    = (call = "reconnected"),
            !.reconnecting = (call = "disconnected"),
            !.reconnected  = @ \/ call = "reconnected"]

CallsBack(j) ==
  /\ calls[j] # <<>>
  /\ job' = [job EXCEPT ![j] = Reported(@, Head(calls[j]))]
  /\ calls' = [calls EXCEPT ![j] = Tail(@)]
  /\ UNCHANGED <<ctl, worker, data, seen, sub, link, losses, published>>

-----------------------------------------------------------------------------
Init ==
  /\ current = 0
  /\ created = 0
  /\ caller = [c \in Callers |-> Idle]
  /\ job = [j \in Jobs |-> NewJob]
  /\ worker = [j \in Jobs |-> "none"]
  /\ after = [j \in Jobs |-> "loop"]
  /\ batch = [j \in Jobs |-> <<>>]
  /\ table = [j \in Jobs |-> <<>>]
  /\ inserted = [j \in Jobs |-> 0]
  /\ seen = [j \in Jobs |-> NothingSeen]
  /\ sub = [j \in Jobs |-> NewSub]
  /\ link = [j \in Jobs |-> "none"]
  /\ calls = [j \in Jobs |-> <<>>]
  /\ losses = 0
  /\ published = 0

CallerStep(c) ==
  \/ Start(c)
  \/ CreateChecks(c)
  \/ CreateWaits(c)
  \/ CreateReplaces(c)
  \/ LaunchSucceeds(c)
  \/ LaunchFails(c)
  \/ Remove(c)
  \/ RemoveChecks(c)
  \/ RemoveWaits(c)
  \/ RemoveErases(c)
  \/ Stop(c)
  \/ Pause(c, "pause")
  \/ Pause(c, "resume")
  \/ PauseJob(c)
  \/ ResumeJob(c)

\* What a worker does without anybody's request.
WorkerProgress(j) ==
  \/ WorkerSubscribes(j)
  \/ WorkerRuns(j)
  \/ WorkerLooks(j)
  \/ WorkerInserts(j)
  \/ WorkerCounts(j)
  \/ WorkerPauses(j)
  \/ WorkerResumes(j)
  \/ Receives(j)
  \/ TimesOut(j)
  \/ IsHindered(j)
  \/ WorkerEnds(j)
  \/ WorkerCloses(j)
  \/ WorkerFinishes(j)

Next ==
  \/ \E c \in Callers : CallerStep(c)
  \/ \E j \in Jobs : \/ WorkerProgress(j)
                     \/ WorkerRefreshes(j)
                     \/ WorkerFails(j)
                     \/ LinkDrops(j)
                     \/ LinkSettles(j)
                     \/ CallsBack(j)
  \/ Publish

\* Worker threads are scheduled and calls of the library return; the library reconnects
\* or gives up.
Fairness == \A j \in Jobs : WF_vars(WorkerProgress(j)) /\ WF_vars(LinkSettles(j))

Spec == Init /\ [][Next]_vars /\ Fairness

-----------------------------------------------------------------------------
\* The types of the variables, in groups, and that the queue keeps to its limit and a batch
\* to its size.
CallersOK ==
  /\ current \in 0..created
  /\ created \in 0..MaxJobs
  /\ caller \in [Callers -> [at : {"idle", "create", "check", "wait", "replace", "launch",
                                   "cleanup", "remove", "drain", "erase", "pause", "resume"},
                             on : 0..created]]

FlagsOK == job \in [Jobs -> Flags]

WorkersOK ==
  /\ worker \in [Jobs -> {"none", "spawned", "subscribed", "loop", "flush", "count", "pausing",
                          "waiting", "next", "ending", "closing", "exiting", "done"}]
  /\ after \in [Jobs -> {"loop", "pausing", "ending"}]

RowsOK ==
  /\ batch \in [Jobs -> Seq(Messages)]
  /\ table \in [Jobs -> Seq(Messages)]
  /\ inserted \in [Jobs -> Nat]
  /\ \A j \in Jobs : Len(batch[j]) <= BatchSize

LinksOK ==
  /\ seen \in [Jobs -> [delivered : Nat, dropped : Nat]]
  /\ sub \in [Jobs -> Subscriptions]
  /\ link \in [Jobs -> {"none", "up", "down", "closed"}]
  /\ calls \in [Jobs -> Seq({"disconnected", "reconnected", "closed"})]
  /\ losses \in 0..MaxLosses
  /\ published \in 0..MaxMessages
  /\ \A j \in Jobs : Len(sub[j].pending) <= PendingLimit

TypeOK == CallersOK /\ FlagsOK /\ WorkersOK /\ RowsOK /\ LinksOK

Held(j) == job[j].paused

Live == INSTANCE LiveJob WITH live <- {j \in Jobs : Alive(j)}, held <- {j \in Jobs : Held(j)},
                              rows <- table

\* The job keeps the promise of LiveJob: one worker at a time under the name, whoever
\* replaces or removes it meanwhile, rows in order and never twice, and none between the
\* report that it is paused and its release.
ImplementsLiveJob == Live!Spec

\* A pause leaves nothing behind in memory: what was received before it is in the table
\* when the job reports that it is paused (nats_subscribe.cpp:875).
PausedIsFlushed == \A j \in Jobs : job[j].paused => batch[j] = <<>> /\ inserted[j] = Len(table[j])

\* The counters never claim more than happened, and agree in the end: a job that was
\* stopped has inserted every message it was delivered.
CountersAgree ==
  \A j \in Jobs :
    /\ inserted[j] <= Len(table[j]) /\ Len(table[j]) <= seen[j].delivered
    /\ worker[j] = "done" /\ ~job[j].failed => inserted[j] = seen[j].delivered

\* The messages between two rows of one instance that it did not insert.
Skipped(j) == LET t == table[j] IN {m \in t[1] .. t[Len(t)] : \A i \in DOMAIN t : t[i] # m}

\* Delivery may lose messages, but never silently (GUIDE.md:602): whoever reads the table
\* finds the gap in messages_dropped, unless the connection has been away.
GapsAreReported ==
  \A j \in Jobs : table[j] # <<>> =>
    \/ Cardinality(Skipped(j)) <= seen[j].dropped
    \/ job[j].reconnected
    \/ \E i \in DOMAIN calls[j] : calls[j][i] = "reconnected"

\* The connection flags catch up with the connection, although callbacks run late and the
\* worker writes the same flags.  Two gaps are left in the code: what a callback reported
\* before the worker ran is overwritten, and the handler of a failure resets no flag.
StatusSettles ==
  \A j \in Jobs : calls[j] = <<>> =>
    /\ link[j] = "up" /\ job[j].running => job[j].connected /\ ~job[j].reconnecting
    /\ worker[j] = "done" /\ ~job[j].failed => ~job[j].connected /\ ~job[j].reconnecting

\* A stop request ends the worker, from the moment the job is in the map.
StopEndsWorker == \A j \in Jobs : (Alive(j) /\ job[j].stop) ~> (worker[j] = "done")

\* A message that was received is inserted, although no further one may ever come, unless
\* the job fails.
ReceivedIsInserted ==
  \A j \in Jobs : (batch[j] # <<>>) ~> (job[j].failed \/ batch[j] = <<>>)
=============================================================================
