------------------------- MODULE IngestJobLifecycle -------------------------
(***************************************************************************)
(* The jobs of one job_name: the NatsIngestManager's map entry, the SQL    *)
(* connections that start, stop, pause, resume and remove the job, the     *)
(* worker threads, and the registry row that brings a job back after a     *)
(* restart (src/src/nats_ingest.cpp, src/src/include/nats_job_lifecycle.hpp). *)
(*                                                                         *)
(* Waits with a timeout may give up at any time.  What the worker does     *)
(* with messages is IngestPipeline, why a launch fails IngestLease.        *)
(***************************************************************************)
EXTENDS Naturals, FiniteSets

CONSTANTS
  Callers,     \* SQL connections
  MaxJobs,     \* bound on the job instances ever created: instances are 1..MaxJobs
  MaxCrashes   \* bound on process restarts

ASSUME LifecycleAssumption == MaxJobs \in Nat /\ MaxCrashes \in Nat

VARIABLES
  current,   \* jobs_: the instance under the name, 0 if none
  created,   \* number of instances created so far
  job,       \* progress flags and worker_finished of every instance
  worker,    \* where each instance's worker thread is
  txOpen,    \* is the transaction opened before the worker's loop still open?
  caller,    \* where each connection is, and the instance it holds
  row,       \* durable: the flags of the registry row
  crashes,   \* process restarts so far
  loaded     \* has the extension looked for jobs to rehydrate?

mem  == <<current, created, job, worker, txOpen>>
vars == <<mem, caller, row, crashes, loaded>>

Jobs == 1..MaxJobs

Flags == [running : BOOLEAN, stop : BOOLEAN, stopped : BOOLEAN, failed : BOOLEAN,
          pause : BOOLEAN, paused : BOOLEAN, finished : BOOLEAN]

NewJob == [running |-> FALSE, stop |-> FALSE, stopped |-> FALSE, failed |-> FALSE,
           pause |-> FALSE, paused |-> FALSE, finished |-> FALSE]

\* The part of a registry row that decides what a restart does.
Rows == [active : BOOLEAN, pause : BOOLEAN, paused : BOOLEAN]

RowOf(f) == [active |-> f.running /\ ~f.stopped /\ ~f.failed,
             pause |-> f.pause, paused |-> f.paused]

NoRow == [active |-> FALSE, pause |-> FALSE, paused |-> FALSE]

\* restore is the row a rehydration has read, and active only for a rehydration.
Idle == [at |-> "idle", on |-> 0, restore |-> NoRow]

\* A worker thread that may still write to the target table.
Alive(j) == worker[j] \notin {"none", "done"}

At(c, place) == caller[c].at = place

Goes(c, place, j) == caller' = [caller EXCEPT ![c].at = place, ![c].on = j]

Returns(c) == caller' = [caller EXCEPT ![c] = Idle]

\* An error for the user, which a rehydration turns into a failed row.
Raises(c) == IF caller[c].restore.active THEN Goes(c, "mark", 0) ELSE Returns(c)

-----------------------------------------------------------------------------
\* NatsIngestManager::CreateJob and LaunchIngestJob.

\* nats_start_ingest, or the rehydration of the row after a restart.
Call(c) ==
  /\ At(c, "idle")
  /\ \/ /\ caller' = [caller EXCEPT ![c].at = "create"]
        /\ UNCHANGED loaded
     \/ /\ ~loaded
        /\ loaded' = TRUE
        /\ IF row.active /\ current = 0
           THEN caller' = [caller EXCEPT ![c].at = "create", ![c].restore = row]
           ELSE UNCHANGED caller
  /\ UNCHANGED <<mem, row, crashes>>

\* The new instance is in the map before it has a worker.
Enter(c) ==
  /\ created < MaxJobs
  /\ created' = created + 1
  /\ current' = created'
  /\ job' = [job EXCEPT ![created'] = NewJob]
  /\ Goes(c, "launch", created')

CreateLooks(c) ==
  /\ At(c, "create")
  /\ \/ current = 0 /\ Enter(c)
     \/ current # 0 /\ Goes(c, "check", current) /\ UNCHANGED <<current, created, job>>
  /\ UNCHANGED <<worker, txOpen, row, crashes, loaded>>

\* "already exists" and "is still starting".
MayNotReplace(f) ==
  \/ f.running /\ ~f.stop
  \/ ~f.finished /\ ~f.stop /\ ~f.stopped /\ ~f.failed

CreateChecks(c) ==
  /\ At(c, "check")
  /\ LET f == job[caller[c].on] IN
       IF MayNotReplace(f) THEN Raises(c) ELSE Goes(c, "wait", caller[c].on)
  /\ UNCHANGED <<mem, row, crashes, loaded>>

\* WaitForNatsJobWorker: the worker has finished, or 30 seconds have passed.
CreateWaits(c) ==
  /\ At(c, "wait")
  /\ \/ job[caller[c].on].finished /\ Goes(c, "replace", caller[c].on)
     \/ ~job[caller[c].on].finished /\ Raises(c)
  /\ UNCHANGED <<mem, row, crashes, loaded>>

\* A replacement that trusts what it saw before it waited.
StillReplaceableUnchecked(j) == TRUE

\* Seen again under both locks: the same instance, and no worker left.
StillReplaceable(j) == current = j /\ job[j].finished /\ ~job[j].running

CreateReplaces(c) ==
  /\ At(c, "replace")
  /\ IF StillReplaceable(caller[c].on)
     THEN Enter(c)
     ELSE Goes(c, "create", 0) /\ UNCHANGED <<current, created, job>>
  /\ UNCHANGED <<worker, txOpen, row, crashes, loaded>>

\* Ownership, NATS resources and the row, then the worker thread.  A rehydrated job
\* gets the flags of the row, and nobody waits for it.
LaunchSucceeds(c) ==
  /\ At(c, "launch")
  /\ LET j == caller[c].on
         r == caller[c].restore
         f == IF r.active
              THEN [job[j] EXCEPT !.pause = r.pause, !.paused = r.paused]
              ELSE job[j]
     IN /\ job' = [job EXCEPT ![j] = [f EXCEPT !.finished = FALSE]]
        /\ row' = RowOf(f)
        /\ worker' = [worker EXCEPT ![j] = "spawned"]
        /\ IF r.active THEN Returns(c) ELSE Goes(c, "returns", j)
  /\ UNCHANGED <<current, created, txOpen, crashes, loaded>>

LaunchFails(c) ==
  /\ At(c, "launch")
  /\ job' = [job EXCEPT ![caller[c].on].finished = TRUE]
  /\ Goes(c, "cleanup", caller[c].on)
  /\ UNCHANGED <<current, created, worker, txOpen, row, crashes, loaded>>

\* A handler that takes it that the name is still in the map.
LaunchCleansUpUnguarded(c) ==
  /\ At(c, "cleanup")
  /\ Goes(c, "remove", current)
  /\ UNCHANGED <<mem, row, crashes, loaded>>

\* The handler calls RemoveJob with the name, whoever has it by now.
LaunchCleansUp(c) ==
  /\ At(c, "cleanup")
  /\ IF current = 0 THEN Raises(c) ELSE Goes(c, "remove", current)
  /\ UNCHANGED <<mem, row, crashes, loaded>>

\* RehydrateActiveIngestJobs writes the row it has read, marked failed, if it can.
RehydrationFails(c) ==
  /\ At(c, "mark")
  /\ row' \in {row, [caller[c].restore EXCEPT !.active = FALSE]}
  /\ Returns(c)
  /\ UNCHANGED <<mem, crashes, loaded>>

-----------------------------------------------------------------------------
\* NatsIngestManager::RemoveJob.

Remove(c) ==
  /\ At(c, "idle")
  /\ current # 0
  /\ Goes(c, "remove", current)
  /\ UNCHANGED <<mem, row, crashes, loaded>>

\* "still running; stop it before removing" and "is still starting".
RemoveChecks(c) ==
  /\ At(c, "remove")
  /\ LET f == job[caller[c].on] IN
       IF MayNotReplace(f) THEN Raises(c) ELSE Goes(c, "drain", caller[c].on)
  /\ UNCHANGED <<mem, row, crashes, loaded>>

RemoveWaits(c) ==
  /\ At(c, "drain")
  /\ \/ job[caller[c].on].finished /\ Goes(c, "erase", caller[c].on)
     \/ ~job[caller[c].on].finished /\ Raises(c)
  /\ UNCHANGED <<mem, row, crashes, loaded>>

RemoveErases(c) ==
  /\ At(c, "erase")
  /\ current' = IF StillReplaceable(caller[c].on) THEN 0 ELSE current
  /\ Raises(c)
  /\ UNCHANGED <<created, job, worker, txOpen, row, crashes, loaded>>

-----------------------------------------------------------------------------
\* nats_stop_ingest, nats_pause_ingest, nats_resume_ingest: a flag.  The last two look
\* at the job first, and look the name up again to set the flag.

Stop(c) ==
  /\ At(c, "idle")
  /\ current # 0
  /\ job' = [job EXCEPT ![current].stop = TRUE]
  /\ UNCHANGED <<current, created, worker, txOpen, caller, row, crashes, loaded>>

IsRunning(f) == f.running /\ ~f.stopped /\ ~f.failed

Controls(c, what) ==
  /\ At(c, "idle")
  /\ current # 0
  /\ IsRunning(job[current])
  /\ Goes(c, what, current)
  /\ UNCHANGED <<mem, row, crashes, loaded>>

Pause(c) == Controls(c, "pause")

Resume(c) == Controls(c, "resume")

SetsPause(c, what, value) ==
  /\ At(c, what)
  /\ job' = IF current = 0 THEN job ELSE [job EXCEPT ![current].pause = value]
  /\ Goes(c, "returns", caller[c].on)
  /\ UNCHANGED <<current, created, worker, txOpen, row, crashes, loaded>>

PauseJob(c) == SetsPause(c, "pause", TRUE)

ResumeJob(c) == SetsPause(c, "resume", FALSE)

\* nats_start_ingest, nats_pause_ingest and nats_resume_ingest wait for the worker, 5 or
\* 30 seconds: an answer, or the time is over.
WaitIsOver(c) ==
  /\ At(c, "returns")
  /\ Returns(c)
  /\ UNCHANGED <<mem, row, crashes, loaded>>

-----------------------------------------------------------------------------
\* RunIngestWorker, thread of instance j.

\* A worker that leaves the row to its next start.
PersistedRowNever(j, f) == row

\* PersistRegistry on the worker's connection: inside the transaction that is open, it
\* is not durable, and the transaction is never committed once the loop has been left.
PersistedRow(j, f) == IF txOpen[j] THEN row ELSE RowOf(f)

\* The flags are reset, the row is written, and the first transaction is opened.
WorkerStarts(j) ==
  /\ worker[j] = "spawned"
  /\ LET f == [job[j] EXCEPT !.running = TRUE, !.stop = FALSE, !.stopped = FALSE,
                             !.failed = FALSE]
     IN job' = [job EXCEPT ![j] = f] /\ row' = RowOf(f)
  /\ txOpen' = [txOpen EXCEPT ![j] = TRUE]
  /\ worker' = [worker EXCEPT ![j] = "loop"]
  /\ UNCHANGED <<current, created, caller, crashes, loaded>>

\* No request is pending at the top of the loop: the worker looks for messages.
WorkerFetches(j) ==
  /\ worker[j] = "loop"
  /\ ~job[j].pause /\ ~job[j].stop
  /\ worker' = [worker EXCEPT ![j] = "fetch"]
  /\ UNCHANGED <<current, created, job, txOpen, caller, row, crashes, loaded>>

WorkerFindsNothing(j) ==
  /\ worker[j] = "fetch"
  /\ worker' = [worker EXCEPT ![j] = "loop"]
  /\ UNCHANGED <<current, created, job, txOpen, caller, row, crashes, loaded>>

\* A batch is committed, or rolled back when it had no row to insert.  Every few
\* commits the registry row is written, and one written before becomes durable.
WorkerBatch(j) ==
  /\ worker[j] = "fetch"
  /\ txOpen' = [txOpen EXCEPT ![j] = FALSE]
  /\ row' \in {row, RowOf(job[j])}
  /\ worker' = [worker EXCEPT ![j] = "loop"]
  /\ UNCHANGED <<current, created, job, caller, crashes, loaded>>

\* An exception of this PersistRegistry, as of the next one, is ignored.
WorkerPauses(j) ==
  /\ worker[j] = "loop"
  /\ job[j].pause /\ ~job[j].stop
  /\ LET f == [job[j] EXCEPT !.paused = TRUE]
     IN job' = [job EXCEPT ![j] = f] /\ row' \in {row, PersistedRow(j, f)}
  /\ worker' = [worker EXCEPT ![j] = "waiting"]
  /\ UNCHANGED <<current, created, txOpen, caller, crashes, loaded>>

\* A pause that only ends with a resume.
WakesOnResume(f) == ~f.pause

Wakes(f) == ~f.pause \/ f.stop

WorkerResumes(j) ==
  /\ worker[j] = "waiting"
  /\ Wakes(job[j])
  /\ LET f == [job[j] EXCEPT !.paused = FALSE]
     IN job' = [job EXCEPT ![j] = f] /\ row' \in {row, PersistedRow(j, f)}
  /\ worker' = [worker EXCEPT ![j] = IF job[j].stop THEN "leaving" ELSE "loop"]
  /\ UNCHANGED <<current, created, txOpen, caller, crashes, loaded>>

WorkerSeesStop(j) ==
  /\ worker[j] = "loop"
  /\ job[j].stop
  /\ worker' = [worker EXCEPT ![j] = "leaving"]
  /\ UNCHANGED <<current, created, job, txOpen, caller, row, crashes, loaded>>

WorkerEnds(j) ==
  /\ worker[j] = "leaving"
  /\ job' = [job EXCEPT ![j].running = FALSE, ![j].stopped = TRUE]
  /\ worker' = [worker EXCEPT ![j] = "stopped"]
  /\ UNCHANGED <<current, created, txOpen, caller, row, crashes, loaded>>

\* An exception: the row is written on another connection, after the rollback.
WorkerFails(j) ==
  /\ worker[j] \in {"spawned", "loop", "fetch", "stopped"}
  /\ ~job[j].failed
  /\ job' = [job EXCEPT ![j].running = FALSE, ![j].stopped = TRUE, ![j].failed = TRUE]
  /\ txOpen' = [txOpen EXCEPT ![j] = FALSE]
  /\ worker' = [worker EXCEPT ![j] = "stopped"]
  /\ UNCHANGED <<current, created, caller, row, crashes, loaded>>

\* The last PersistRegistry, and the release of the lease.
WorkerPersists(j) ==
  /\ worker[j] = "stopped"
  /\ row' \in IF job[j].failed THEN {RowOf(job[j]), row} ELSE {PersistedRow(j, job[j])}
  /\ worker' = [worker EXCEPT ![j] = "exiting"]
  /\ UNCHANGED <<current, created, job, txOpen, caller, crashes, loaded>>

\* The connections and the batch source are gone: worker_finished.
WorkerFinishes(j) ==
  /\ worker[j] = "exiting"
  /\ job' = [job EXCEPT ![j].finished = TRUE]
  /\ worker' = [worker EXCEPT ![j] = "done"]
  /\ UNCHANGED <<current, created, txOpen, caller, row, crashes, loaded>>

-----------------------------------------------------------------------------
\* The process dies and is started again: only the row is left.  Without any instance so
\* far, that would be the initial state over again.
Crash ==
  /\ crashes < MaxCrashes
  /\ created > 0
  /\ crashes' = crashes + 1
  /\ current' = 0
  /\ worker' = [j \in Jobs |-> "none"]
  /\ txOpen' = [j \in Jobs |-> FALSE]
  /\ job' = [j \in Jobs |-> NewJob]
  /\ caller' = [c \in Callers |-> Idle]
  /\ loaded' = FALSE
  /\ UNCHANGED <<created, row>>

Init ==
  /\ current = 0
  /\ created = 0
  /\ job = [j \in Jobs |-> NewJob]
  /\ worker = [j \in Jobs |-> "none"]
  /\ txOpen = [j \in Jobs |-> FALSE]
  /\ caller = [c \in Callers |-> Idle]
  /\ row = NoRow
  /\ crashes = 0
  /\ loaded = FALSE

CallerStep(c) ==
  \/ Call(c)
  \/ CreateLooks(c)
  \/ CreateChecks(c)
  \/ CreateWaits(c)
  \/ CreateReplaces(c)
  \/ LaunchSucceeds(c)
  \/ LaunchFails(c)
  \/ LaunchCleansUp(c)
  \/ RehydrationFails(c)
  \/ Remove(c)
  \/ RemoveChecks(c)
  \/ RemoveWaits(c)
  \/ RemoveErases(c)
  \/ Stop(c)
  \/ Pause(c)
  \/ PauseJob(c)
  \/ Resume(c)
  \/ ResumeJob(c)
  \/ WaitIsOver(c)

\* What the worker does without anybody's request.
WorkerProgress(j) ==
  \/ WorkerStarts(j)
  \/ WorkerFetches(j)
  \/ WorkerFindsNothing(j)
  \/ WorkerPauses(j)
  \/ WorkerResumes(j)
  \/ WorkerSeesStop(j)
  \/ WorkerEnds(j)
  \/ WorkerPersists(j)
  \/ WorkerFinishes(j)

Next ==
  \/ \E c \in Callers : CallerStep(c)
  \/ \E j \in Jobs : WorkerProgress(j) \/ WorkerBatch(j) \/ WorkerFails(j)
  \/ Crash

\* A worker thread is scheduled again and again, and its loop looks at the stop flag.
Fairness == \A j \in Jobs : WF_vars(WorkerProgress(j))

Spec == Init /\ [][Next]_vars /\ Fairness

-----------------------------------------------------------------------------
\* The types of the variables, and that a connection past the lookup of the name holds
\* an instance, whatever the others have done to the map since.
TypeOK ==
  /\ current \in 0..created
  /\ created \in 0..MaxJobs
  /\ job \in [Jobs -> Flags]
  /\ worker \in [Jobs -> {"none", "spawned", "loop", "fetch", "waiting", "leaving", "stopped",
                          "exiting", "done"}]
  /\ txOpen \in [Jobs -> BOOLEAN]
  /\ caller \in [Callers -> [at : {"idle", "create", "check", "wait", "replace", "launch",
                                   "cleanup", "mark", "remove", "drain", "erase", "pause", "resume",
                                   "returns"},
                             on : 0..created, restore : Rows]]
  /\ \A c \in Callers : caller[c].on = 0 <=> caller[c].at \in {"idle", "create", "mark"}
  /\ row \in Rows
  /\ crashes \in 0..MaxCrashes
  /\ loaded \in BOOLEAN

\* A worker thread belongs to the job under the name, so it can be stopped, and there
\* is never a second one: neither a replaced, nor a removed, nor a launch that failed
\* in another connection takes the map entry away from a running worker.
WorkerIsMapped == \A j \in Jobs : Alive(j) => current = j

\* A stop request that finds the worker in its loop ends it, paused or not.  A live worker is
\* that of the current instance (WorkerIsMapped).
StopEndsWorker ==
  (current # 0 /\ worker[current] \in {"loop", "fetch", "waiting"} /\ job[current].stop)
    ~> (current = 0 \/ worker[current] \in {"done", "none"})

\* A job stopped by the user is not brought back by a restart, once it has processed a
\* batch: the rows of racing starts, pauses and rehydrations do not undo the last one.
StoppedStaysStopped ==
  \A j \in Jobs : created = j /\ worker[j] \in {"exiting", "done"} /\ ~job[j].failed /\ ~txOpen[j]
                    => ~row.active

\* A stop request for a job that has a worker thread ends it (RemoveJob's advice is "stop
\* it before removing").  nats_start_ingest waits up to 5 seconds, so that an early stop is
\* one of another connection, of a rehydrated job, or one after a wait in vain.
StopIsHonoured ==
  \A j \in Jobs : (Alive(j) /\ job[j].stop) ~> (worker[j] \in {"done", "none"})

\* A job that has been stopped and removed is forgotten: a restart does not start it
\* again (GUIDE.md:574, nats_remove_ingest "stops and forgets the job").  It does not hold of a
\* job that is stopped before its first batch: README, section 4.
ForgottenStaysForgotten ==
  \A j \in Jobs : created = j /\ worker[j] = "done" /\ ~job[j].failed /\ current = 0
                    => ~row.active
=============================================================================
