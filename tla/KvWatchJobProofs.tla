-------------------------- MODULE KvWatchJobProofs --------------------------
(***************************************************************************)
(* Proofs about KvWatchJob, for any number of connections, instances, keys *)
(* and entries, any history and batch size: the types, that a table        *)
(* follows the bucket, that the counters agree with it, and that a paused  *)
(* job adds one batch at most.                                             *)
(***************************************************************************)
EXTENDS KvWatchJob, Integers, FiniteSetTheorems, SequenceTheorems, TLAPS

\* The instance a launch is busy with has no worker yet, and nobody else launches it.
Launches ==
  /\ \A c \in Callers : At(c, "launch") => /\ caller[c].on \in 1..created
                                           /\ worker[caller[c].on] = "none"
  /\ \A c, d \in Callers :
       At(c, "launch") /\ At(d, "launch") /\ caller[c].on = caller[d].on => c = d
  /\ \A j \in Jobs : j > created => worker[j] = "none"

\* There is room for the entry that is received next.
HasRoom(j) ==
  worker[j] \in {"none", "spawned", "watching", "loop", "next"} => Len(batch[j]) < BatchSize

\* A worker that has inserted a batch since it was paused stays where it has none, until it
\* is released.
PausedOnce(j) ==
  \/ late[j] = 0
  \/ /\ late[j] = 1 /\ job[j].paused
     /\ \/ worker[j] = "count"
        \/ worker[j] \in {"loop", "ending", "closing", "exiting", "done"} /\ batch[j] = <<>>

\* The counters of one instance.
Counted(j) ==
  /\ inserted[j] = Len(table[j]) - (IF worker[j] = "count" THEN Len(batch[j]) ELSE 0)
  /\ ~job[j].failed => delivered[j] = Len(Received(j))

\* A worker that ends without a failure has inserted all it received.
EndsEmpty(j) ==
  worker[j] \in {"ending", "closing", "exiting", "done"} /\ ~job[j].failed => batch[j] = <<>>

\* The rows of one instance: in order, up to the entry received last.
Ordered(j) ==
  /\ InOrder(Received(j))
  /\ \A i \in DOMAIN Received(j) : Received(j)[i] <= last[j]

\* They miss no key.
Complete(j) ==
  ~job[j].failed =>
    \A r \in 1..last[j] :
      IsNews(r) /\ (options.updatesOnly => r > start[j]) => r \in Elements(Received(j))

Types == TypeOK /\ Launches /\ \A j \in Jobs : HasRoom(j)

Follows(j) == PausedOnce(j) /\ Counted(j) /\ EndsEmpty(j) /\ Ordered(j) /\ Complete(j)

Inv == Types /\ \A j \in Jobs : Follows(j)

USE KvWatchAssumption DEF KvWatchAssumption

-----------------------------------------------------------------------------
\* The variables keep their types.

\* No instance has been created.
LEMMA InitTypes == Init => Types
<1> SUFFICES ASSUME Init PROVE Types
  OBVIOUS
<1>1. CallersOK
  <2>1. created \in 0..MaxJobs /\ current \in 0..created
    BY DEF Init
  <2>2. Idle \in [at : {"idle", "launch", "stop", "remove", "pause", "resume", "returns"},
                  on : 0..created]
    BY <2>1 DEF Init, Idle
  <2>3. aborted \in BOOLEAN
    BY DEF Init
  <2> QED
    BY <2>1, <2>2, <2>3 DEF Init, CallersOK
<1>2. WorkersOK
  <2>1. job \in [Jobs -> Flags]
    BY DEF Init, NewJob, Flags
  <2>2. \A j \in Jobs : batch[j] = <<>> /\ worker[j] = "none" /\ ~job[j].running
    BY DEF Init, NewJob
  <2>3. batch \in [Jobs -> Seq(Revisions)]
    BY DEF Init
  <2> QED
    BY <2>1, <2>2, <2>3 DEF Init, WorkersOK, InLoop
<1>3. RowsOK
  BY DEF Init, RowsOK
<1>4. FeedOK
  BY DEF Init, FeedOK, LastRevision
<1>5. LinksOK
  BY DEF Init, LinksOK
<1>6. Launches /\ \A j \in Jobs : HasRoom(j)
  BY DEF Init, Launches, HasRoom, At, Idle
<1> QED
  BY <1>1, <1>2, <1>3, <1>4, <1>5, <1>6 DEF Types, TypeOK

\* Where the connections are, and what they launch.
LEMMA CallerKeepsCallers ==
  ASSUME CallersOK, NEW c \in Callers, CallerStep(c)
  PROVE  CallersOK'
<1> USE DEF CallersOK, At, Goes, Idle, ctl
<1>1. CASE Start(c)
  BY <1>1 DEF Start
<1>2. CASE LaunchSucceeds(c)
  BY <1>2 DEF LaunchSucceeds
<1>3. CASE LaunchFails(c)
  BY <1>3 DEF LaunchFails
<1>4. ASSUME NEW what \in {"stop", "remove", "returns"}, Finds(c, what) PROVE CallersOK'
  BY <1>4 DEF Finds
<1>5. CASE Stops(c)
  BY <1>5 DEF Stops
<1>6. CASE Removes(c)
  BY <1>6 DEF Removes
<1>7. ASSUME NEW what \in {"pause", "resume"}, FindsRunning(c, what) PROVE CallersOK'
  BY <1>7 DEF FindsRunning
<1>8. CASE Pauses(c)
  BY <1>8 DEF Pauses
<1>9. CASE Resumes(c)
  BY <1>9 DEF Resumes
<1>10. CASE Returns(c)
  BY <1>10 DEF Returns
<1> QED
  BY <1>1, <1>2, <1>3, <1>4, <1>5, <1>6, <1>7, <1>8, <1>9, <1>10 DEF CallerStep

\* Only CreateJob hands out an instance, and only its launch starts the worker.
LEMMA CallerKeepsLaunches ==
  ASSUME CallersOK, WorkersOK, Launches, NEW c \in Callers, CallerStep(c)
  PROVE  Launches'
<1> USE DEF CallersOK, Launches, At, Goes, Idle, Jobs
<1>1. CASE Start(c)
  BY <1>1 DEF Start
<1>2. CASE LaunchSucceeds(c)
  BY <1>2 DEF LaunchSucceeds, Moves, WorkersOK
<1>3. CASE LaunchFails(c)
  BY <1>3 DEF LaunchFails
<1>4. ASSUME NEW what \in {"stop", "remove", "returns"}, Finds(c, what) PROVE Launches'
  BY <1>4 DEF Finds
<1>5. CASE Stops(c)
  BY <1>5 DEF Stops
<1>6. CASE Removes(c)
  BY <1>6 DEF Removes
<1>7. ASSUME NEW what \in {"pause", "resume"}, FindsRunning(c, what) PROVE Launches'
  BY <1>7 DEF FindsRunning
<1>8. CASE Pauses(c)
  BY <1>8 DEF Pauses
<1>9. CASE Resumes(c)
  BY <1>9 DEF Resumes
<1>10. CASE Returns(c)
  BY <1>10 DEF Returns
<1> QED
  BY <1>1, <1>2, <1>3, <1>4, <1>5, <1>6, <1>7, <1>8, <1>9, <1>10 DEF CallerStep

\* What a connection changes of an instance: nothing but its flags stop and paused, the
\* count that a resume sets back, and the worker that is launched.
LEMMA CallerIs ==
  ASSUME CallersOK, WorkersOK, RowsOK, Launches, NEW c \in Callers, CallerStep(c)
  PROVE  /\ UNCHANGED <<after, batch, table, inserted, options, feed, bucket, net>>
         /\ \/ UNCHANGED worker
            \/ \E j \in Jobs : worker[j] = "none" /\ Moves(j, "spawned")
         /\ job' \in [Jobs -> Flags] /\ late' \in [Jobs -> Nat]
         /\ \A j \in Jobs : /\ job'[j].running = job[j].running
                            /\ job'[j].failed = job[j].failed
                            /\ \/ late'[j] = 0
                               \/ late'[j] = late[j] /\ (job[j].paused => job'[j].paused)
<1> USE DEF data, feed, net
<1>0. job \in [Jobs -> Flags] /\ late \in [Jobs -> Nat] /\ (current # 0 => current \in Jobs)
  <2>1. created \in 0..MaxJobs /\ current \in 0..created
    BY DEF CallersOK
  <2>2. current # 0 => current \in Jobs
    BY <2>1 DEF Jobs
  <2> QED
    BY <2>2 DEF WorkersOK, RowsOK
<1>1. ASSUME UNCHANGED <<job, worker, data, options, feed, bucket, net>>
      PROVE  /\ UNCHANGED <<after, batch, table, inserted, options, feed, bucket, net>>
             /\ UNCHANGED worker
             /\ job' \in [Jobs -> Flags] /\ late' \in [Jobs -> Nat]
             /\ UNCHANGED <<job, late>>
  BY <1>0, <1>1
<1>2. CASE LaunchSucceeds(c)
  <2>1. caller[c].on \in Jobs /\ worker[caller[c].on] = "none"
    BY <1>2 DEF LaunchSucceeds, Launches, Jobs, CallersOK
  <2> QED
    BY <1>0, <1>2, <2>1 DEF LaunchSucceeds
<1>3. ASSUME UNCHANGED <<worker, data, options, feed, bucket, net>>,
             \/ UNCHANGED job
             \/ current \in Jobs /\ job' = [job EXCEPT ![current].stop = TRUE]
             \/ current \in Jobs /\ job' = [job EXCEPT ![current].paused = TRUE]
      PROVE  /\ job' \in [Jobs -> Flags]
             /\ \A j \in Jobs : /\ job'[j].running = job[j].running
                                /\ job'[j].failed = job[j].failed
                                /\ job[j].paused => job'[j].paused
  <2>1. \A f \in Flags : /\ [f EXCEPT !.stop = TRUE] \in Flags
                         /\ [f EXCEPT !.stop = TRUE].running = f.running
                         /\ [f EXCEPT !.stop = TRUE].failed = f.failed
                         /\ [f EXCEPT !.stop = TRUE].paused = f.paused
                         /\ [f EXCEPT !.paused = TRUE] \in Flags
                         /\ [f EXCEPT !.paused = TRUE].running = f.running
                         /\ [f EXCEPT !.paused = TRUE].failed = f.failed
                         /\ [f EXCEPT !.paused = TRUE].paused = TRUE
    BY DEF Flags
  <2>2. CASE UNCHANGED job
    BY <1>0, <2>2
  <2>3. CASE current \in Jobs /\ job' = [job EXCEPT ![current].stop = TRUE]
    <3>1. job[current] \in Flags /\ [job[current] EXCEPT !.stop = TRUE] \in Flags
      BY <1>0, <2>1, <2>3
    <3>2. job' \in [Jobs -> Flags]
      BY <1>0, <2>3, <3>1
    <3>3. \A j \in Jobs : job'[j] = job[j] \/ job'[j] = [job[j] EXCEPT !.stop = TRUE]
      BY <1>0, <2>3
    <3>4. \A j \in Jobs : job[j] \in Flags
      BY <1>0
    <3>5. ASSUME NEW j \in Jobs PROVE /\ job'[j].running = job[j].running
                                      /\ job'[j].failed = job[j].failed
                                      /\ job[j].paused => job'[j].paused
      <4>1. CASE job'[j] = job[j]
        BY <4>1
      <4>2. CASE job'[j] = [job[j] EXCEPT !.stop = TRUE]
        BY <2>1, <3>4, <4>2
      <4> QED
        BY <3>3, <4>1, <4>2
    <3> QED
      BY <3>2, <3>5
  <2>4. CASE current \in Jobs /\ job' = [job EXCEPT ![current].paused = TRUE]
    <3>1. job[current] \in Flags /\ [job[current] EXCEPT !.paused = TRUE] \in Flags
      BY <1>0, <2>1, <2>4
    <3>2. job' \in [Jobs -> Flags]
      BY <1>0, <2>4, <3>1
    <3>3. \A j \in Jobs : job'[j] = job[j] \/ job'[j] = [job[j] EXCEPT !.paused = TRUE]
      BY <1>0, <2>4
    <3>4. \A j \in Jobs : job[j] \in Flags
      BY <1>0
    <3>5. ASSUME NEW j \in Jobs PROVE /\ job'[j].running = job[j].running
                                      /\ job'[j].failed = job[j].failed
                                      /\ job[j].paused => job'[j].paused
      <4>1. CASE job'[j] = job[j]
        BY <4>1
      <4>2. CASE job'[j] = [job[j] EXCEPT !.paused = TRUE]
        BY <2>1, <3>4, <4>2
      <4> QED
        BY <3>3, <4>1, <4>2
    <3> QED
      BY <3>2, <3>5
  <2> QED
    BY <1>3, <2>2, <2>3, <2>4
<1>4. CASE Stops(c) \/ Pauses(c)
  <2>1. UNCHANGED <<worker, data, options, feed, bucket, net>>
    BY <1>4 DEF Stops, Pauses
  <2>2. \/ UNCHANGED job
        \/ current \in Jobs /\ job' = [job EXCEPT ![current].stop = TRUE]
        \/ current \in Jobs /\ job' = [job EXCEPT ![current].paused = TRUE]
    BY <1>0, <1>4 DEF Stops, Pauses
  <2>3. /\ job' \in [Jobs -> Flags]
        /\ \A j \in Jobs : /\ job'[j].running = job[j].running
                           /\ job'[j].failed = job[j].failed
                           /\ job[j].paused => job'[j].paused
    BY <1>3, <2>1, <2>2
  <2> QED
    BY <1>0, <2>1, <2>3
<1>6. CASE Resumes(c)
  <2>1. UNCHANGED <<worker, after, batch, table, inserted, options, feed, bucket, net>>
    BY <1>6 DEF Resumes
  <2>2. CASE UNCHANGED <<job, late>>
    BY <1>0, <2>1, <2>2
  <2>3. CASE ~UNCHANGED <<job, late>>
    <3>1. /\ current \in Jobs /\ job' = [job EXCEPT ![current].paused = FALSE]
          /\ late' = [late EXCEPT ![current] = 0]
      BY <1>0, <1>6, <2>3 DEF Resumes
    <3>2. \A f \in Flags : /\ [f EXCEPT !.paused = FALSE] \in Flags
                           /\ [f EXCEPT !.paused = FALSE].running = f.running
                           /\ [f EXCEPT !.paused = FALSE].failed = f.failed
      BY DEF Flags
    <3>3. job[current] \in Flags /\ [job[current] EXCEPT !.paused = FALSE] \in Flags
      BY <1>0, <3>1, <3>2
    <3>4. job' \in [Jobs -> Flags] /\ late' \in [Jobs -> Nat]
      BY <1>0, <3>1, <3>3
    <3>5. ASSUME NEW j \in Jobs
          PROVE  \/ job'[j] = job[j] /\ late'[j] = late[j]
                 \/ job'[j] = [job[j] EXCEPT !.paused = FALSE] /\ late'[j] = 0
      <4>1. CASE j = current
        BY <1>0, <3>1, <4>1
      <4>2. CASE j # current
        BY <1>0, <3>1, <4>2
      <4> QED
        BY <4>1, <4>2
    <3>6. \A j \in Jobs : job[j] \in Flags
      BY <1>0
    <3>7. \A j \in Jobs : /\ job'[j].running = job[j].running
                          /\ job'[j].failed = job[j].failed
                          /\ \/ late'[j] = 0
                             \/ late'[j] = late[j] /\ (job[j].paused => job'[j].paused)
      BY <3>2, <3>5, <3>6
    <3> QED
      BY <2>1, <3>4, <3>7
  <2> QED
    BY <2>2, <2>3
<1>5. \/ UNCHANGED <<job, worker, data, options, feed, bucket, net>>
      \/ LaunchSucceeds(c) \/ Stops(c) \/ Resumes(c) \/ Pauses(c)
  BY DEF CallerStep, Start, LaunchFails, Finds, Removes, FindsRunning, Returns
<1> QED
  BY <1>1, <1>2, <1>4, <1>5, <1>6

\* The flags and the place of an instance's worker.
LEMMA CallerKeepsWorkers ==
  ASSUME CallersOK, WorkersOK, RowsOK, Launches, NEW c \in Callers, CallerStep(c)
  PROVE  WorkersOK' /\ RowsOK'
<1>1. /\ UNCHANGED <<after, batch, table, inserted, delivered>>
      /\ \/ UNCHANGED worker
         \/ \E j \in Jobs : worker[j] = "none" /\ Moves(j, "spawned")
      /\ job' \in [Jobs -> Flags] /\ late' \in [Jobs -> Nat]
      /\ \A j \in Jobs : job'[j].running = job[j].running
  BY CallerIs DEF feed
<1>2. RowsOK'
  BY <1>1 DEF RowsOK
<1>3. /\ worker' \in [Jobs -> {"none", "spawned", "watching", "loop", "next", "flush", "count",
                              "ending", "closing", "exiting", "done"}]
      /\ \A j \in Jobs : InLoop(j)' <=> InLoop(j)
  <2>1. CASE UNCHANGED worker
    BY <2>1 DEF WorkersOK, InLoop
  <2>2. ASSUME NEW j \in Jobs, worker[j] = "none", Moves(j, "spawned") PROVE <1>3!:
    BY <2>2 DEF WorkersOK, InLoop, Moves
  <2> QED
    BY <1>1, <2>1, <2>2
<1> QED
  BY <1>1, <1>2, <1>3 DEF WorkersOK

\* The places and the flags of a worker's own steps, and the room in its batch.
LEMMA JobKeepsCallers ==
  ASSUME CallersOK, Launches, WorkersOK, NEW j \in Jobs,
         WorkerProgress(j) \/ IsHindered(j) \/ WorkerFails(j)
  PROVE  CallersOK' /\ Launches'
<1>1. worker[j] # "none" /\ UNCHANGED ctl /\ (aborted' = aborted \/ aborted' = ~Referenced(j))
      /\ \A k \in Jobs \ {j} : worker'[k] = worker[k]
  BY DEF WorkerProgress, WorkerWatches, WorkerRuns, WorkerLooks, WorkerInserts, WorkerCounts,
         Receives, TimesOut, IsHindered, WorkerEnds, WorkerFails, WorkerCloses, WorkerExits,
         Moves, Flushes, WorkersOK
<1>2. aborted' \in BOOLEAN
  BY <1>1 DEF CallersOK
<1>3. CallersOK'
  BY <1>1, <1>2 DEF CallersOK, ctl
<1>4. \A k \in Jobs : worker[k] = "none" => worker'[k] = "none"
  BY <1>1
<1>5. \A c \in Callers : At(c, "launch") => caller[c].on \in Jobs
  BY DEF Launches, CallersOK, Jobs
<1>6. Launches'
  BY <1>1, <1>4, <1>5 DEF Launches, At, ctl
<1> QED
  BY <1>3, <1>6

\* What one step of an instance's worker may do with the flags.
LEMMA RunningIs ==
  ASSUME WorkersOK, NEW j \in Jobs, NEW f \in Flags, job' = [job EXCEPT ![j] = f],
         worker' \in [Jobs -> {"none", "spawned", "watching", "loop", "next", "flush", "count",
                              "ending", "closing", "exiting", "done"}],
         \A k \in Jobs \ {j} : worker'[k] = worker[k],
         f.running <=> InLoop(j)'
  PROVE  job' \in [Jobs -> Flags] /\ \A k \in Jobs : job'[k].running <=> InLoop(k)'
<1>1. job' \in [Jobs -> Flags] /\ job'[j] = f /\ \A k \in Jobs \ {j} : job'[k] = job[k]
  BY DEF WorkersOK
<1>2. \A k \in Jobs \ {j} : job'[k].running <=> InLoop(k)'
  BY <1>1 DEF WorkersOK, InLoop
<1> QED
  BY <1>1, <1>2

\* The flags and places, but for what is in the batch.
PlacesOK ==
  /\ job \in [Jobs -> Flags]
  /\ worker \in [Jobs -> {"none", "spawned", "watching", "loop", "next", "flush", "count",
                          "ending", "closing", "exiting", "done"}]
  /\ after \in [Jobs -> {"loop", "ending"}]
  /\ \A j \in Jobs : job[j].running <=> InLoop(j)

\* A worker goes from place to place, and is running just while it is in its loop.
LEMMA WorkerKeepsPlaces ==
  ASSUME WorkersOK, NEW j \in Jobs, WorkerProgress(j) \/ IsHindered(j) \/ WorkerFails(j)
  PROVE  PlacesOK'
<1>0. /\ job \in [Jobs -> Flags] /\ job[j] \in Flags
      /\ worker \in [Jobs -> {"none", "spawned", "watching", "loop", "next", "flush", "count",
                              "ending", "closing", "exiting", "done"}]
      /\ after \in [Jobs -> {"loop", "ending"}] /\ after[j] \in {"loop", "ending"}
      /\ \A k \in Jobs : job[k].running <=> InLoop(k)
  BY DEF WorkersOK
<1>1. ASSUME UNCHANGED job, NEW place \in {"none", "spawned", "watching", "loop", "next", "flush",
                                          "count", "ending", "closing", "exiting", "done"},
             Moves(j, place), after' \in [Jobs -> {"loop", "ending"}], InLoop(j)' <=> InLoop(j)
      PROVE  PlacesOK'
  <2>1. worker' = [worker EXCEPT ![j] = place]
    BY <1>1 DEF Moves
  <2>2. \A k \in Jobs : InLoop(k)' <=> InLoop(k)
    BY <1>0, <1>1, <2>1 DEF InLoop
  <2> QED
    BY <1>0, <1>1, <2>1, <2>2 DEF PlacesOK
<1>2. ASSUME NEW f \in Flags, job' = [job EXCEPT ![j] = f],
             NEW place \in {"none", "spawned", "watching", "loop", "next", "flush",
                            "count", "ending", "closing", "exiting", "done"},
             Moves(j, place), UNCHANGED after,
             f.running <=> place \in {"loop", "next", "flush", "count", "ending"}
      PROVE  PlacesOK'
  <2>1. worker' = [worker EXCEPT ![j] = place]
    BY <1>2 DEF Moves
  <2>2. /\ worker' \in [Jobs -> {"none", "spawned", "watching", "loop", "next", "flush", "count",
                                "ending", "closing", "exiting", "done"}]
        /\ worker'[j] = place /\ \A k \in Jobs \ {j} : worker'[k] = worker[k]
    BY <1>0, <2>1
  <2>3. f.running <=> InLoop(j)'
    BY <1>2, <2>2 DEF InLoop
  <2> QED
    BY <1>0, <1>2, <2>2, <2>3, RunningIs DEF PlacesOK
<1> USE DEF data
<1>3. CASE WorkerWatches(j)
  BY <1>0, <1>1, <1>3 DEF WorkerWatches, InLoop, Moves
<1>4. CASE WorkerRuns(j)
  <2>1. /\ [job[j] EXCEPT !.running = TRUE, !.connected = TRUE, !.reconnecting = FALSE] \in Flags
        /\ [job[j] EXCEPT !.running = TRUE, !.connected = TRUE, !.reconnecting = FALSE].running
    BY <1>0 DEF Flags
  <2> QED
    BY <1>2, <1>4, <2>1 DEF WorkerRuns
<1>5. CASE WorkerLooks(j)
  BY <1>0, <1>1, <1>5 DEF WorkerLooks, Flushes, InLoop, Moves
<1>6. CASE WorkerInserts(j)
  BY <1>0, <1>1, <1>6 DEF WorkerInserts, InLoop, Moves
<1>7. CASE WorkerCounts(j)
  BY <1>0, <1>1, <1>7 DEF WorkerCounts, InLoop, Moves
<1>8. CASE Receives(j)
  BY <1>0, <1>1, <1>8 DEF Receives, InLoop, Moves
<1>9. CASE TimesOut(j)
  BY <1>0, <1>1, <1>9 DEF TimesOut, Flushes, InLoop, Moves
<1>10. CASE IsHindered(j)
  BY <1>0, <1>1, <1>10 DEF IsHindered, InLoop, Moves
<1>11. CASE WorkerEnds(j)
  <2>1. /\ [job[j] EXCEPT !.running = FALSE, !.connected = FALSE, !.reconnecting = FALSE] \in Flags
        /\ ~[job[j] EXCEPT !.running = FALSE, !.connected = FALSE, !.reconnecting = FALSE].running
    BY <1>0 DEF Flags
  <2> QED
    BY <1>2, <1>11, <2>1 DEF WorkerEnds
<1>12. CASE WorkerFails(j)
  <2>1. /\ [job[j] EXCEPT !.running = FALSE, !.failed = TRUE] \in Flags
        /\ ~[job[j] EXCEPT !.running = FALSE, !.failed = TRUE].running
    BY <1>0 DEF Flags
  <2> QED
    BY <1>2, <1>12, <2>1 DEF WorkerFails
<1>13. CASE WorkerCloses(j)
  BY <1>0, <1>1, <1>13 DEF WorkerCloses, InLoop, Moves
<1>14. CASE WorkerExits(j)
  BY <1>0, <1>1, <1>14 DEF WorkerExits, InLoop, Moves
<1> QED
  BY <1>3, <1>4, <1>5, <1>6, <1>7, <1>8, <1>9, <1>10, <1>11, <1>12, <1>13, <1>14 DEF WorkerProgress

\* What an instance has received and inserted.
RowTypes ==
  /\ batch \in [Jobs -> Seq(Revisions)] /\ table \in [Jobs -> Seq(Revisions)]
  /\ inserted \in [Jobs -> Nat] /\ delivered \in [Jobs -> Nat] /\ late \in [Jobs -> Nat]
  /\ \A j \in Jobs : Len(batch[j]) <= BatchSize /\ HasRoom(j)

\* An entry that can be received.
LEMMA UpcomingIs ==
  ASSUME FeedOK, NEW j \in Jobs, NEW r \in Upcoming(j)
  PROVE  r \in Revisions /\ r \in (last[j] + 1)..LastRevision /\ r <= LastRevision
<1>1. last[j] \in Nat /\ LastRevision \in Nat /\ LastRevision <= MaxRevisions
  BY DEF FeedOK, LastRevision
<1> QED
  BY <1>1 DEF Upcoming, Revisions

\* A worker flushes before its batch outgrows batch_size.
LEMMA WorkerKeepsRows ==
  ASSUME RowTypes, WorkersOK, FeedOK, NEW j \in Jobs,
         WorkerProgress(j) \/ IsHindered(j) \/ WorkerFails(j)
  PROVE  RowTypes'
<1> USE DEF RowTypes, HasRoom, data, feed, Moves
<1>0. worker \in [Jobs -> {"none", "spawned", "watching", "loop", "next", "flush", "count",
                          "ending", "closing", "exiting", "done"}]
      /\ after[j] \in {"loop", "ending"}
  BY DEF WorkersOK
<1>1. CASE WorkerWatches(j)
  BY <1>0, <1>1 DEF WorkerWatches
<1>2. CASE WorkerRuns(j)
  BY <1>0, <1>2 DEF WorkerRuns
<1>3. CASE WorkerLooks(j)
  BY <1>0, <1>3 DEF WorkerLooks, Flushes
<1>4. CASE WorkerInserts(j)
  <2>1. table' \in [Jobs -> Seq(Revisions)] /\ late' \in [Jobs -> Nat]
    BY <1>4 DEF WorkerInserts
  <2> QED
    BY <1>0, <1>4, <2>1 DEF WorkerInserts
<1>5. CASE WorkerCounts(j)
  <2>1. batch' \in [Jobs -> Seq(Revisions)] /\ batch'[j] = <<>> /\ Len(batch'[j]) = 0
        /\ \A k \in Jobs \ {j} : batch'[k] = batch[k]
    BY <1>5 DEF WorkerCounts
  <2>2. Len(batch[j]) \in Nat /\ inserted' \in [Jobs -> Nat]
    BY <1>5 DEF WorkerCounts
  <2> QED
    BY <1>0, <1>5, <2>1, <2>2 DEF WorkerCounts
<1>6. CASE Receives(j)
  <2>1. PICK r \in Upcoming(j) : batch' = [batch EXCEPT ![j] = Append(@, r)]
    BY <1>6 DEF Receives
  <2>2. r \in Revisions
    BY <2>1, UpcomingIs
  <2>3. Append(batch[j], r) \in Seq(Revisions) /\ Len(Append(batch[j], r)) = Len(batch[j]) + 1
        /\ Len(batch[j]) \in Nat /\ Len(batch[j]) < BatchSize
    BY <1>6, <2>2 DEF Receives
  <2>4. batch' \in [Jobs -> Seq(Revisions)] /\ batch'[j] = Append(batch[j], r)
        /\ \A k \in Jobs \ {j} : batch'[k] = batch[k]
    BY <2>1, <2>3
  <2>5. Len(batch'[j]) <= BatchSize
    BY <2>3, <2>4
  <2>6. worker'[j] = "flush" \/ (worker'[j] = "loop" /\ Len(batch'[j]) < BatchSize)
    BY <1>0, <1>6, <2>3, <2>4 DEF Receives, IsFull
  <2>7. \A k \in Jobs \ {j} : worker'[k] = worker[k]
    BY <1>0, <1>6 DEF Receives
  <2>8. delivered' \in [Jobs -> Nat]
    BY <1>6 DEF Receives
  <2> QED
    BY <1>6, <2>4, <2>5, <2>6, <2>7, <2>8 DEF Receives
<1>7. CASE TimesOut(j)
  BY <1>0, <1>7 DEF TimesOut, Flushes
<1>8. CASE IsHindered(j)
  BY <1>0, <1>8 DEF IsHindered
<1>9. CASE WorkerEnds(j)
  BY <1>0, <1>9 DEF WorkerEnds
<1>10. CASE WorkerFails(j)
  BY <1>0, <1>10 DEF WorkerFails
<1>11. CASE WorkerCloses(j)
  BY <1>0, <1>11 DEF WorkerCloses
<1>12. CASE WorkerExits(j)
  BY <1>0, <1>12 DEF WorkerExits
<1> QED
  BY <1>1, <1>2, <1>3, <1>4, <1>5, <1>6, <1>7, <1>8, <1>9, <1>10, <1>11, <1>12 DEF WorkerProgress

\* What is received, what the bucket holds and how the watch began.
LEMMA WorkerKeepsFeed ==
  ASSUME FeedOK, NEW j \in Jobs, WorkerProgress(j) \/ IsHindered(j) \/ WorkerFails(j)
  PROVE  FeedOK'
<1>0. /\ start \in [Jobs -> 0..MaxRevisions] /\ last \in [Jobs -> 0..MaxRevisions]
      /\ \A k \in Jobs : start[k] <= LastRevision /\ last[k] <= LastRevision
      /\ LastRevision \in 0..MaxRevisions
  BY DEF FeedOK, LastRevision
<1>1. UNCHANGED <<options, bucket>> /\ LastRevision' = LastRevision
  BY DEF WorkerProgress, WorkerWatches, WorkerRuns, WorkerLooks, WorkerInserts, WorkerCounts,
         Receives, TimesOut, IsHindered, WorkerEnds, WorkerFails, WorkerCloses, WorkerExits,
         LastRevision
<1>2. CASE UNCHANGED <<start, last>>
  BY <1>1, <1>2 DEF FeedOK
<1>3. CASE WorkerWatches(j)
  <2>1. start' \in [Jobs -> 0..MaxRevisions] /\ UNCHANGED last
        /\ \A k \in Jobs : start'[k] <= LastRevision
    BY <1>0, <1>3 DEF WorkerWatches
  <2> QED
    BY <1>0, <1>1, <2>1 DEF FeedOK
<1>4. CASE Receives(j)
  <2>1. PICK r \in Upcoming(j) : last' = [last EXCEPT ![j] = r]
    BY <1>4 DEF Receives
  <2>2. r \in 0..MaxRevisions /\ r <= LastRevision
    BY <2>1, UpcomingIs DEF Revisions
  <2>3. last' \in [Jobs -> 0..MaxRevisions] /\ UNCHANGED start
        /\ \A k \in Jobs : last'[k] <= LastRevision
    BY <1>0, <1>4, <2>1, <2>2 DEF Receives
  <2> QED
    BY <1>0, <1>1, <2>3 DEF FeedOK
<1>5. UNCHANGED <<start, last>> \/ WorkerWatches(j) \/ Receives(j)
  BY DEF WorkerProgress, WorkerRuns, WorkerLooks, WorkerInserts, WorkerCounts,
         TimesOut, IsHindered, WorkerEnds, WorkerFails, WorkerCloses, WorkerExits, feed
<1> QED
  BY <1>2, <1>3, <1>4, <1>5

\* An entry is written behind the others.
LEMMA WritesIs ==
  ASSUME FeedOK, NEW k \in Keys, NEW op \in Operations, Writes(k, op)
  PROVE  /\ FeedOK'
         /\ UNCHANGED <<ctl, aborted, job, worker, data, options, feed, net>>
         /\ LastRevision \in Nat /\ LastRevision' = LastRevision + 1
         /\ \A r \in 1..LastRevision : bucket'[r] = bucket[r]
<1>1. /\ bucket \in Seq([key : Keys, op : Operations])
      /\ [key |-> k, op |-> op] \in [key : Keys, op : Operations]
      /\ bucket' = Append(bucket, [key |-> k, op |-> op])
  BY DEF FeedOK, Writes
<1>2. /\ bucket' \in Seq([key : Keys, op : Operations])
      /\ Len(bucket) \in Nat /\ Len(bucket') = Len(bucket) + 1
      /\ \A r \in 1..Len(bucket) : bucket'[r] = bucket[r]
  BY <1>1
<1>3. UNCHANGED <<ctl, aborted, job, worker, data, options, feed, net>>
  BY DEF Writes
<1>4. FeedOK'
  <2>1. LastRevision' = LastRevision + 1 /\ LastRevision' <= MaxRevisions
    BY <1>2 DEF Writes, LastRevision
  <2>2. \A j \in Jobs : start[j] \in Nat /\ last[j] \in Nat
    BY DEF FeedOK
  <2>3. \A j \in Jobs : start[j] <= LastRevision' /\ last[j] <= LastRevision'
    BY <1>2, <2>1, <2>2 DEF FeedOK, LastRevision
  <2> QED
    BY <1>2, <1>3, <2>1, <2>3 DEF FeedOK, feed
<1> QED
  BY <1>2, <1>3, <1>4 DEF LastRevision

\* The connections and their callbacks.
LEMMA JobKeepsLinks ==
  ASSUME LinksOK, FeedOK, NEW j \in Jobs,
         \/ WorkerProgress(j) \/ IsHindered(j) \/ WorkerFails(j)
         \/ LinkDrops(j) \/ LinkSettles(j) \/ CallsBack(j)
  PROVE  LinksOK'
<1> USE DEF LinksOK, net
<1>1. CASE UNCHANGED net
  BY <1>1
<1>2. CASE WorkerWatches(j)
  BY <1>2 DEF WorkerWatches
<1>3. CASE WorkerCloses(j)
  BY <1>3 DEF WorkerCloses
<1>4. CASE LinkDrops(j)
  <2>1. losses' \in 0..MaxLosses
    BY <1>4 DEF LinkDrops
  <2>2. link' \in [Jobs -> {"none", "up", "down", "closed"}]
    BY <1>4 DEF LinkDrops, LinkBecomes
  <2>3. calls' \in [Jobs -> Seq({"disconnected", "reconnected", "closed"})]
    BY <1>4 DEF LinkDrops, LinkBecomes
  <2>4. heard' \in [Jobs -> 0..MaxRevisions]
    <3>1. last[j] \in Nat /\ LastRevision \in Nat /\ LastRevision <= MaxRevisions
      BY DEF FeedOK, LastRevision
    <3>2. \A r \in last[j]..LastRevision : r \in 0..MaxRevisions
      BY <3>1, KvWatchAssumption
    <3> QED
      BY <1>4, <3>2 DEF LinkDrops
  <2> QED
    BY <2>1, <2>2, <2>3, <2>4
<1>5. CASE LinkSettles(j)
  <2>1. CASE LinkBecomes(j, "up", "reconnected")
    BY <1>5, <2>1 DEF LinkSettles, LinkBecomes
  <2>2. CASE LinkBecomes(j, "closed", "closed")
    BY <1>5, <2>2 DEF LinkSettles, LinkBecomes
  <2> QED
    BY <1>5, <2>1, <2>2 DEF LinkSettles
<1>6. CASE CallsBack(j)
  BY <1>6 DEF CallsBack
<1>7. UNCHANGED net \/ WorkerWatches(j) \/ WorkerCloses(j) \/ LinkDrops(j) \/ LinkSettles(j)
      \/ CallsBack(j)
  BY DEF WorkerProgress, WorkerRuns, WorkerLooks, WorkerInserts, WorkerCounts, Receives,
         TimesOut, IsHindered, WorkerEnds, WorkerFails, WorkerExits
<1> QED
  BY <1>1, <1>2, <1>3, <1>4, <1>5, <1>6, <1>7

\* A callback sets connected and reconnecting only.
LEMMA CallsBackIs ==
  ASSUME WorkersOK, NEW j \in Jobs, CallsBack(j)
  PROVE  /\ UNCHANGED <<ctl, aborted, worker, data, options, feed, bucket>>
         /\ job' \in [Jobs -> Flags]
         /\ \A k \in Jobs : /\ job'[k].running = job[k].running
                            /\ job'[k].failed = job[k].failed
                            /\ job'[k].paused = job[k].paused
<1>1. /\ UNCHANGED <<ctl, aborted, worker, data, options, feed, bucket>>
      /\ job' = [job EXCEPT ![j] = Reported(@, Head(calls[j]))]
  BY DEF CallsBack
<1>2. ASSUME NEW f \in Flags, NEW call
      PROVE  /\ Reported(f, call) \in Flags
             /\ Reported(f, call).running = f.running
             /\ Reported(f, call).failed = f.failed
             /\ Reported(f, call).paused = f.paused
  <2>1. ASSUME NEW a \in BOOLEAN, NEW b \in BOOLEAN
        PROVE  /\ [f EXCEPT !.connected = a, !.reconnecting = b] \in Flags
               /\ [f EXCEPT !.connected = a, !.reconnecting = b].running = f.running
               /\ [f EXCEPT !.connected = a, !.reconnecting = b].failed = f.failed
               /\ [f EXCEPT !.connected = a, !.reconnecting = b].paused = f.paused
    BY DEF Flags
  <2>2. (call = "reconnected") \in BOOLEAN /\ (call = "disconnected") \in BOOLEAN
    OBVIOUS
  <2> QED
    BY <2>1, <2>2 DEF Reported
<1>3. job \in [Jobs -> Flags] /\ job[j] \in Flags
  BY DEF WorkersOK
<1>4. /\ job' \in [Jobs -> Flags] /\ job'[j] = Reported(job[j], Head(calls[j]))
      /\ \A k \in Jobs \ {j} : job'[k] = job[k]
  BY <1>1, <1>2, <1>3
<1> QED
  BY <1>1, <1>2, <1>3, <1>4

\* What that leaves alone.
LEMMA CallsBackTypes ==
  ASSUME CallersOK, Launches, WorkersOK, RowTypes, FeedOK, NEW j \in Jobs, CallsBack(j)
  PROVE  CallersOK' /\ Launches' /\ WorkersOK' /\ RowTypes' /\ FeedOK'
<1> USE CallsBackIs DEF ctl, data, feed
<1>1. CallersOK' /\ FeedOK'
  BY DEF CallersOK, FeedOK, LastRevision
<1>2. Launches'
  BY DEF Launches, At
<1>3. WorkersOK'
  BY DEF WorkersOK, InLoop
<1>4. RowTypes'
  BY DEF RowTypes, HasRoom
<1> QED
  BY <1>1, <1>2, <1>3, <1>4

\* The parts the steps are proved by.
LEMMA TypeParts ==
  Types <=> CallersOK /\ Launches /\ PlacesOK /\ RowTypes /\ FeedOK /\ LinksOK
BY DEF Types, TypeOK, WorkersOK, PlacesOK, RowsOK, RowTypes

\* Every step keeps the types.
LEMMA TypesKept == Types /\ [Next]_vars => Types'
<1> SUFFICES ASSUME Types, [Next]_vars PROVE Types'
  OBVIOUS
<1>0. CallersOK /\ Launches /\ PlacesOK /\ RowTypes /\ FeedOK /\ LinksOK /\ WorkersOK /\ RowsOK
  BY TypeParts DEF Types, TypeOK
<1>1. ASSUME NEW c \in Callers, CallerStep(c) PROVE Types'
  <2>1. CallersOK' /\ Launches' /\ WorkersOK' /\ RowsOK'
    BY <1>0, <1>1, CallerKeepsCallers, CallerKeepsLaunches, CallerKeepsWorkers
  <2>2. /\ UNCHANGED <<after, batch, table, inserted, options, feed, bucket, net>>
        /\ \/ UNCHANGED worker
           \/ \E j \in Jobs : worker[j] = "none" /\ Moves(j, "spawned")
    BY <1>0, <1>1, CallerIs
  <2>3. FeedOK' /\ LinksOK'
    BY <1>0, <2>2 DEF FeedOK, LinksOK, feed, net, LastRevision
  <2>4. \A k \in Jobs : worker'[k] = worker[k] \/ (worker[k] = "none" /\ worker'[k] = "spawned")
    BY <1>0, <2>2 DEF PlacesOK, Moves
  <2>5. \A k \in Jobs : HasRoom(k)'
    BY <1>0, <2>2, <2>4 DEF RowTypes, HasRoom
  <2> QED
    BY <2>1, <2>3, <2>5 DEF Types, TypeOK
<1>2. ASSUME NEW j \in Jobs, WorkerProgress(j) \/ IsHindered(j) \/ WorkerFails(j) PROVE Types'
  <2>1. CallersOK' /\ Launches'
    BY <1>0, <1>2, JobKeepsCallers
  <2>2. PlacesOK' /\ RowTypes' /\ FeedOK' /\ LinksOK'
    BY <1>0, <1>2, WorkerKeepsPlaces, WorkerKeepsRows, WorkerKeepsFeed, JobKeepsLinks
  <2> QED
    BY <2>1, <2>2 DEF Types, TypeOK, WorkersOK, PlacesOK, RowsOK, RowTypes
<1>3. ASSUME NEW j \in Jobs, CallsBack(j) PROVE Types'
  <2>1. CallersOK' /\ Launches' /\ WorkersOK' /\ RowTypes' /\ FeedOK' /\ LinksOK'
    BY <1>0, <1>3, CallsBackTypes, JobKeepsLinks
  <2> QED
    BY <2>1 DEF Types, TypeOK, RowsOK, RowTypes
<1>4. ASSUME NEW j \in Jobs, LinkDrops(j) \/ LinkSettles(j) PROVE Types'
  <2>1. LinksOK'
    BY <1>0, <1>4, JobKeepsLinks
  <2>2. UNCHANGED <<ctl, aborted, job, worker, data, options, feed, bucket>>
    BY <1>4 DEF LinkDrops, LinkSettles, LinkBecomes
  <2>3. CallersOK' /\ Launches'
    BY <1>0, <2>2 DEF CallersOK, Launches, At, ctl
  <2>4. WorkersOK' /\ RowsOK' /\ FeedOK' /\ \A k \in Jobs : HasRoom(k)'
    BY <1>0, <2>2 DEF WorkersOK, InLoop, RowsOK, FeedOK, LastRevision, RowTypes, HasRoom, data, feed
  <2> QED
    BY <2>1, <2>3, <2>4 DEF Types, TypeOK
<1>5. ASSUME NEW k \in Keys, NEW op \in Operations, Writes(k, op) PROVE Types'
  <2>1. FeedOK' /\ UNCHANGED <<ctl, aborted, job, worker, data, options, feed, net>>
    BY <1>0, <1>5, WritesIs
  <2>2. CallersOK' /\ Launches' /\ LinksOK'
    BY <1>0, <2>1 DEF CallersOK, Launches, LinksOK, At, ctl, net
  <2>3. WorkersOK' /\ RowsOK' /\ \A m \in Jobs : HasRoom(m)'
    BY <1>0, <2>1 DEF WorkersOK, InLoop, RowsOK, RowTypes, HasRoom, data, feed
  <2> QED
    BY <2>1, <2>2, <2>3 DEF Types, TypeOK
<1>6. CASE UNCHANGED vars
  <2> USE DEF vars, ctl, data, feed, net
  <2>1. CallersOK' /\ Launches' /\ LinksOK'
    BY <1>0, <1>6 DEF CallersOK, Launches, LinksOK, At
  <2>2. WorkersOK' /\ RowsOK' /\ FeedOK' /\ \A m \in Jobs : HasRoom(m)'
    BY <1>0, <1>6 DEF WorkersOK, InLoop, RowsOK, FeedOK, LastRevision, RowTypes, HasRoom
  <2> QED
    BY <2>1, <2>2 DEF Types, TypeOK
<1> QED
  BY <1>1, <1>2, <1>3, <1>4, <1>5, <1>6 DEF Next

-----------------------------------------------------------------------------
\* What does not depend on the instances.
LEMMA NewsStay ==
  ASSUME UNCHANGED <<options, bucket>>
  PROVE  \A r : IsNews(r)' <=> IsNews(r)
BY DEF IsNews, Superseded, LastRevision

\* An instance that nothing happens to but what connections and callbacks do.
LEMMA FrameKeeps ==
  ASSUME NEW j \in Jobs, Follows(j), UNCHANGED <<options, bucket>>,
         batch'[j] = batch[j], table'[j] = table[j], inserted'[j] = inserted[j],
         delivered'[j] = delivered[j], start'[j] = start[j], last'[j] = last[j],
         worker'[j] = worker[j] \/ (worker[j] = "none" /\ worker'[j] = "spawned"),
         job'[j].failed = job[j].failed,
         late'[j] = 0 \/ (late'[j] = late[j] /\ (job[j].paused => job'[j].paused))
  PROVE  Follows(j)'
<1>1. Received(j)' = Received(j)
  BY DEF Received
<1>2. PausedOnce(j)'
  BY DEF Follows, PausedOnce
<1>3. Counted(j)'
  BY <1>1 DEF Follows, Counted
<1>4. EndsEmpty(j)'
  BY DEF Follows, EndsEmpty
<1>5. Ordered(j)'
  BY <1>1 DEF Follows, Ordered, InOrder
<1>6. Complete(j)'
  BY <1>1, NewsStay DEF Follows, Complete, Elements
<1> QED
  BY <1>2, <1>3, <1>4, <1>5, <1>6 DEF Follows

\* A worker that neither receives nor inserts.
LEMMA MoveKeeps ==
  ASSUME NEW j \in Jobs, Follows(j), FeedOK, UNCHANGED <<options, bucket>>,
         batch'[j] = batch[j], table'[j] = table[j], inserted'[j] = inserted[j],
         delivered'[j] = delivered[j], last'[j] = last[j],
         start'[j] \in Nat, start[j] <= start'[j],
         worker[j] # "count", worker'[j] # "count",
         job[j].failed => job'[j].failed,
         PausedOnce(j)', EndsEmpty(j)'
  PROVE  Follows(j)'
<1>1. Received(j)' = Received(j)
  BY DEF Received
<1>3. Counted(j)'
  BY <1>1 DEF Follows, Counted
<1>5. Ordered(j)'
  BY <1>1 DEF Follows, Ordered, InOrder
<1>6. Complete(j)'
  <2>1. \A r \in 1..last[j] : r > start'[j] => r > start[j]
    BY DEF FeedOK
  <2> QED
    BY <1>1, <2>1, NewsStay DEF Follows, Complete, Elements
<1> QED
  BY <1>3, <1>5, <1>6 DEF Follows

\* The steps of a worker, for its own instance.
LEMMA InsertKeeps ==
  ASSUME Types, NEW j \in Jobs, Follows(j), WorkerInserts(j) PROVE Follows(j)'
<1>0. /\ worker[j] = "flush" /\ worker'[j] = "count" /\ UNCHANGED <<options, bucket, job>>
      /\ table'[j] = table[j] \o batch[j] /\ batch'[j] = batch[j] /\ inserted'[j] = inserted[j]
      /\ delivered'[j] = delivered[j] /\ last'[j] = last[j] /\ start'[j] = start[j]
      /\ late'[j] = IF job[j].paused THEN late[j] + 1 ELSE late[j]
      /\ table[j] \in Seq(Revisions) /\ batch[j] \in Seq(Revisions) /\ late[j] \in Nat
  BY TypeParts DEF WorkerInserts, PlacesOK, RowTypes, Moves, feed
<1>1. Received(j)' = Received(j) /\ Received(j) = table[j] \o batch[j]
  BY <1>0 DEF Received
<1>2. PausedOnce(j)'
  <2>1. late[j] = 0
    BY <1>0 DEF Follows, PausedOnce
  <2>2. CASE job[j].paused
    <3>1. late'[j] = 1
      BY <1>0, <2>1, <2>2
    <3> QED
      BY <1>0, <2>2, <3>1 DEF PausedOnce
  <2>3. CASE ~job[j].paused
    BY <1>0, <2>1, <2>3 DEF PausedOnce
  <2> QED
    BY <2>2, <2>3
<1>3. Counted(j)'
  <2>1. Len(table'[j]) = Len(table[j]) + Len(batch'[j]) /\ Len(table[j]) \in Nat
        /\ Len(batch'[j]) \in Nat
    BY <1>0
  <2>2. inserted[j] = Len(table[j])
    BY <1>0, <2>1 DEF Follows, Counted
  <2>3. inserted'[j] = Len(table'[j]) - Len(batch'[j])
    BY <1>0, <2>1, <2>2
  <2> QED
    BY <1>0, <1>1, <2>3 DEF Follows, Counted
<1>4. EndsEmpty(j)'
  BY <1>0 DEF EndsEmpty
<1>5. Ordered(j)'
  BY <1>0, <1>1 DEF Follows, Ordered, InOrder
<1>6. Complete(j)'
  BY <1>0, <1>1, NewsStay DEF Follows, Complete, Elements
<1> QED
  BY <1>2, <1>3, <1>4, <1>5, <1>6 DEF Follows

\* The batch has been inserted; its count catches up.
LEMMA CountKeeps ==
  ASSUME Types, NEW j \in Jobs, Follows(j), WorkerCounts(j) PROVE Follows(j)'
<1>0. /\ worker[j] = "count" /\ worker'[j] \in {"loop", "ending"}
      /\ UNCHANGED <<options, bucket, job>>
      /\ table'[j] = table[j] /\ batch'[j] = <<>> /\ inserted'[j] = inserted[j] + Len(batch[j])
      /\ delivered'[j] = delivered[j] /\ last'[j] = last[j] /\ start'[j] = start[j]
      /\ late'[j] = late[j]
      /\ table[j] \in Seq(Revisions) /\ batch[j] \in Seq(Revisions)
  BY TypeParts DEF WorkerCounts, PlacesOK, RowTypes, Moves, feed
<1>1. Received(j)' = Received(j)
  <2>1. Received(j) = table[j] /\ Received(j)' = table[j] \o <<>>
    BY <1>0 DEF Received
  <2> QED
    BY <1>0, <2>1
<1>2. PausedOnce(j)'
  BY <1>0 DEF Follows, PausedOnce
<1>3. Counted(j)'
  <2>1. Len(table[j]) \in Nat /\ Len(batch[j]) \in Nat
    BY <1>0
  <2>2. inserted[j] = Len(table[j]) - Len(batch[j])
    BY <1>0 DEF Follows, Counted
  <2>3. inserted'[j] = Len(table'[j])
    BY <1>0, <2>1, <2>2
  <2>4. Len(table'[j]) \in Nat
    BY <1>0, <2>1
  <2>5. inserted'[j] = Len(table'[j]) - 0
    BY <2>3, <2>4
  <2> QED
    BY <1>0, <1>1, <2>5 DEF Follows, Counted
<1>4. EndsEmpty(j)'
  BY <1>0 DEF EndsEmpty
<1>5. Ordered(j)'
  BY <1>0, <1>1 DEF Follows, Ordered, InOrder
<1>6. Complete(j)'
  BY <1>0, <1>1, NewsStay DEF Follows, Complete, Elements
<1> QED
  BY <1>2, <1>3, <1>4, <1>5, <1>6 DEF Follows

\* An element that is appended comes behind what is put in front.
LEMMA AppendBehind ==
  ASSUME NEW s \in Seq(Revisions), NEW t \in Seq(Revisions), NEW r \in Revisions
  PROVE  s \o Append(t, r) = Append(s \o t, r)
<1>1. <<r>> \in Seq(Revisions) /\ s \o t \in Seq(Revisions)
  OBVIOUS
<1>2. Append(t, r) = t \o <<r>> /\ Append(s \o t, r) = (s \o t) \o <<r>>
  BY <1>1, AppendIsConcat
<1> QED
  BY <1>1, <1>2, ConcatAssociative

\* A newest entry is pending until it has been received, whatever the bucket drops.
LEMMA NewsIsPending ==
  ASSUME FeedOK, NEW j \in Jobs, NEW r \in (last[j] + 1)..LastRevision, IsNews(r),
         options.updatesOnly => r > start[j]
  PROVE  r \in Pending(j)
<1>1. ~Superseded(bucket, r, LastRevision)
  BY DEF IsNews
<1>2. start[j] \in Nat /\ last[j] \in Nat /\ LastRevision \in Nat /\ start[j] <= LastRevision
      /\ r \in Nat
  BY DEF FeedOK, LastRevision
<1>3. Kept(bucket, History, r)
  <2>1. {q \in (r + 1)..Len(bucket) : bucket[q].key = bucket[r].key} = {}
    BY <1>1 DEF Superseded, LastRevision
  <2>2. Cardinality({}) = 0 /\ 0 < History
    BY FS_EmptySet
  <2> QED
    BY <2>1, <2>2 DEF Kept
<1>4. ~Superseded(bucket, r, start[j])
  <2>1. \A q \in (r + 1)..start[j] : q \in (r + 1)..LastRevision
    BY <1>2
  <2> QED
    BY <1>1, <2>1 DEF Superseded
<1>5. Wanted(j, r)
  BY <1>4 DEF IsNews, Wanted
<1> QED
  BY <1>3, <1>5 DEF Pending

\* What is received comes next in the bucket, and nothing that is still news is left out.
LEMMA ReceiveKeeps ==
  ASSUME Types, NEW j \in Jobs, Follows(j), Receives(j) PROVE Follows(j)'
<1>0. PICK r \in Upcoming(j) : /\ last' = [last EXCEPT ![j] = r]
                               /\ batch' = [batch EXCEPT ![j] = Append(@, r)]
  BY DEF Receives
<1>1. /\ worker[j] = "next" /\ worker'[j] \in {"flush", "loop"}
      /\ UNCHANGED <<options, bucket, job>>
      /\ table'[j] = table[j] /\ inserted'[j] = inserted[j] /\ start'[j] = start[j]
      /\ late'[j] = late[j] /\ delivered'[j] = delivered[j] + 1
  BY TypeParts DEF Receives, PlacesOK, RowTypes, Moves
<1>2. FeedOK /\ last'[j] = r /\ batch'[j] = Append(batch[j], r)
      /\ table[j] \in Seq(Revisions) /\ batch[j] \in Seq(Revisions) /\ last[j] \in Nat
  BY <1>0, TypeParts DEF FeedOK, RowTypes
<1>3. r \in Revisions /\ r \in (last[j] + 1)..LastRevision
  BY <1>2, UpcomingIs
<1> DEFINE before == table[j] \o batch[j]
<1>4. before = Received(j) /\ before \in Seq(Revisions)
  BY <1>1, <1>2 DEF Received
<1>5. Received(j)' = Append(before, r)
  <2>1. Received(j)' = table[j] \o Append(batch[j], r)
    BY <1>1, <1>2 DEF Received
  <2> QED
    BY <1>2, <1>3, <2>1, AppendBehind
<1> HIDE DEF before
<1> DEFINE n == Len(before)
           received == Append(before, r)
<1>6. /\ n \in Nat /\ Len(received) = n + 1 /\ received[n + 1] = r
      /\ DOMAIN received = 1..(n + 1) /\ DOMAIN before = 1..n
      /\ \A i \in 1..n : received[i] = before[i]
  BY <1>3, <1>4
<1>7. Received(j)' = received
  BY <1>5
<1>8. \A i \in 1..n : before[i] \in Nat /\ before[i] <= last[j]
  BY <1>4, <1>6 DEF Follows, Ordered, Revisions
<1>9. r \in Nat /\ last[j] < r
  BY <1>2, <1>3 DEF Revisions
<1> HIDE DEF n, received
<1>10. PausedOnce(j)'
  BY <1>1 DEF Follows, PausedOnce
<1>11. Counted(j)'
  <2>1. inserted'[j] = Len(table'[j]) - 0
    BY <1>1 DEF Follows, Counted
  <2>2. ~job[j].failed => delivered[j] = n
    BY <1>4 DEF Follows, Counted, n
  <2>3. ~job'[j].failed => delivered'[j] = Len(received)
    BY <1>1, <1>6, <2>2
  <2> QED
    BY <1>1, <1>7, <2>1, <2>3 DEF Counted
<1>12. EndsEmpty(j)'
  BY <1>1 DEF EndsEmpty
<1>13. Ordered(j)'
  <2>1. InOrder(before)
    BY <1>4 DEF Follows, Ordered
  <2>2. \A i, k \in 1..(n + 1) : i < k => received[i] < received[k]
    <3> TAKE i, k \in 1..(n + 1)
    <3> HAVE i < k
    <3>1. i \in 1..n
      BY <1>6
    <3>2. CASE k = n + 1
      BY <1>2, <1>6, <1>8, <1>9, <3>1, <3>2
    <3>3. CASE k # n + 1
      BY <1>6, <2>1, <3>1, <3>3 DEF InOrder
    <3> QED
      BY <3>2, <3>3
  <2>3. \A i \in 1..(n + 1) : received[i] <= r
    <3> TAKE i \in 1..(n + 1)
    <3>1. CASE i = n + 1
      BY <1>6, <1>9, <3>1
    <3>2. CASE i # n + 1
      <4>1. i \in 1..n
        BY <1>6, <3>2
      <4> QED
        BY <1>2, <1>6, <1>8, <1>9, <4>1
    <3> QED
      BY <3>1, <3>2
  <2> QED
    BY <1>2, <1>6, <1>7, <2>2, <2>3 DEF Ordered, InOrder
<1>14. Complete(j)'
  <2> SUFFICES ASSUME ~job[j].failed, NEW q \in 1..r, IsNews(q),
                      options.updatesOnly => q > start[j]
               PROVE  q \in Elements(received)
    BY <1>1, <1>2, <1>7, NewsStay DEF Complete
  <2>1. CASE q = r
    BY <1>6, <2>1 DEF Elements
  <2>2. CASE q <= last[j]
    <3>1. q \in Elements(before)
      BY <1>2, <1>4, <2>2 DEF Follows, Complete
    <3> QED
      BY <1>6, <3>1 DEF Elements
  <2>3. CASE last[j] < q /\ q < r
    <3>1. q \in (last[j] + 1)..LastRevision
      BY <1>2, <1>3, <2>3 DEF FeedOK, LastRevision
    <3>2. q \in Pending(j)
      BY <1>2, <3>1, NewsIsPending
    <3>3. r <= q
      BY <1>0, <3>2 DEF Upcoming
    <3> QED
      BY <1>9, <2>3, <3>3
  <2> QED
    BY <1>2, <1>9, <2>1, <2>2, <2>3
<1> QED
  BY <1>10, <1>11, <1>12, <1>13, <1>14 DEF Follows

\* The other steps only move the worker.
LEMMA WorkerKeepsOwn ==
  ASSUME Types, NEW j \in Jobs, Follows(j), WorkerProgress(j) \/ IsHindered(j) \/ WorkerFails(j)
  PROVE  Follows(j)'
<1>0. /\ FeedOK /\ start[j] \in Nat /\ LastRevision \in Nat /\ start[j] <= LastRevision
      /\ job \in [Jobs -> Flags] /\ job[j] \in Flags
      /\ worker \in [Jobs -> {"none", "spawned", "watching", "loop", "next", "flush", "count",
                              "ending", "closing", "exiting", "done"}]
      /\ start \in [Jobs -> 0..MaxRevisions]
  BY TypeParts DEF FeedOK, PlacesOK, LastRevision
<1>9. PausedOnce(j) /\ EndsEmpty(j)
  BY DEF Follows
<1> USE DEF data, feed, Moves
<1>1. CASE WorkerWatches(j)
  <2>1. /\ UNCHANGED <<options, bucket, job, data, delivered, last>>
        /\ worker[j] = "spawned" /\ worker'[j] = "watching"
        /\ start'[j] = LastRevision
    BY <1>0, <1>1 DEF WorkerWatches
  <2>2. PausedOnce(j)' /\ EndsEmpty(j)'
    BY <1>9, <2>1 DEF PausedOnce, EndsEmpty
  <2> QED
    BY <1>0, <2>1, <2>2, MoveKeeps
<1>2. CASE WorkerRuns(j)
  <2>1. /\ UNCHANGED <<options, bucket, data, feed>>
        /\ worker[j] = "watching" /\ worker'[j] = "loop"
        /\ job'[j] = [job[j] EXCEPT !.running = TRUE, !.connected = TRUE, !.reconnecting = FALSE]
    BY <1>0, <1>2 DEF WorkerRuns
  <2>2. job'[j].paused = job[j].paused /\ job'[j].failed = job[j].failed
    BY <1>0, <2>1 DEF Flags
  <2>3. PausedOnce(j)' /\ EndsEmpty(j)'
    BY <1>9, <2>1, <2>2 DEF PausedOnce, EndsEmpty
  <2> QED
    <3>1. /\ UNCHANGED <<options, bucket>>
          /\ batch'[j] = batch[j] /\ table'[j] = table[j] /\ inserted'[j] = inserted[j]
          /\ delivered'[j] = delivered[j] /\ last'[j] = last[j] /\ start'[j] = start[j]
          /\ worker[j] # "count" /\ worker'[j] # "count"
      BY <2>1
    <3>2. job[j].failed => job'[j].failed
      BY <2>2
    <3> QED
      BY <1>0, <2>3, <3>1, <3>2, MoveKeeps
<1>3. CASE WorkerLooks(j)
  <2>1. /\ UNCHANGED <<options, bucket, job, batch, table, inserted, late, feed>>
        /\ worker[j] = "loop"
        /\ \/ job[j].stop /\ worker'[j] = "ending" /\ batch[j] = <<>>
           \/ job[j].stop /\ worker'[j] = "flush" /\ batch[j] # <<>>
           \/ ~job[j].paused /\ worker'[j] = "next"
    BY <1>0, <1>3 DEF WorkerLooks, Looks, Flushes
  <2>2. PausedOnce(j)' /\ EndsEmpty(j)'
    BY <1>9, <2>1 DEF PausedOnce, EndsEmpty
  <2> QED
    BY <1>0, <2>1, <2>2, MoveKeeps
<1>4. CASE TimesOut(j)
  <2>1. /\ UNCHANGED <<options, bucket, job, batch, table, inserted, late, feed>>
        /\ worker[j] = "next" /\ worker'[j] \in {"loop", "flush"}
    BY <1>0, <1>4 DEF TimesOut, Flushes
  <2>2. PausedOnce(j)' /\ EndsEmpty(j)'
    BY <1>9, <2>1 DEF PausedOnce, EndsEmpty
  <2> QED
    BY <1>0, <2>1, <2>2, MoveKeeps
<1>5. CASE IsHindered(j)
  <2>1. /\ UNCHANGED <<options, bucket, job, data, feed>>
        /\ worker[j] = "next" /\ worker'[j] = "loop"
    BY <1>0, <1>5 DEF IsHindered
  <2>2. PausedOnce(j)' /\ EndsEmpty(j)'
    BY <1>9, <2>1 DEF PausedOnce, EndsEmpty
  <2> QED
    BY <1>0, <2>1, <2>2, MoveKeeps
<1>6. CASE WorkerEnds(j)
  <2>1. /\ UNCHANGED <<options, bucket, data, feed>>
        /\ worker[j] = "ending" /\ worker'[j] = "closing"
        /\ job'[j] = [job[j] EXCEPT !.running = FALSE, !.connected = FALSE, !.reconnecting = FALSE]
    BY <1>0, <1>6 DEF WorkerEnds
  <2>2. job'[j].paused = job[j].paused /\ job'[j].failed = job[j].failed
    BY <1>0, <2>1 DEF Flags
  <2>3. PausedOnce(j)' /\ EndsEmpty(j)'
    BY <1>9, <2>1, <2>2 DEF PausedOnce, EndsEmpty
  <2> QED
    <3>1. /\ UNCHANGED <<options, bucket>>
          /\ batch'[j] = batch[j] /\ table'[j] = table[j] /\ inserted'[j] = inserted[j]
          /\ delivered'[j] = delivered[j] /\ last'[j] = last[j] /\ start'[j] = start[j]
          /\ worker[j] # "count" /\ worker'[j] # "count"
      BY <2>1
    <3>2. job[j].failed => job'[j].failed
      BY <2>2
    <3> QED
      BY <1>0, <2>3, <3>1, <3>2, MoveKeeps
<1>7. CASE WorkerFails(j)
  <2>1. /\ UNCHANGED <<options, bucket, data, feed>>
        /\ worker[j] \in {"spawned", "next", "flush"} /\ worker'[j] = "closing"
        /\ job'[j] = [job[j] EXCEPT !.running = FALSE, !.failed = TRUE]
    BY <1>0, <1>7 DEF WorkerFails
  <2>2. job'[j].paused = job[j].paused /\ job'[j].failed
    BY <1>0, <2>1 DEF Flags
  <2>3. PausedOnce(j)' /\ EndsEmpty(j)'
    BY <1>9, <2>1, <2>2 DEF PausedOnce, EndsEmpty
  <2> QED
    <3>1. /\ UNCHANGED <<options, bucket>>
          /\ batch'[j] = batch[j] /\ table'[j] = table[j] /\ inserted'[j] = inserted[j]
          /\ delivered'[j] = delivered[j] /\ last'[j] = last[j] /\ start'[j] = start[j]
          /\ worker[j] # "count" /\ worker'[j] # "count"
      BY <2>1
    <3>2. job[j].failed => job'[j].failed
      BY <2>2
    <3> QED
      BY <1>0, <2>3, <3>1, <3>2, MoveKeeps
<1>8. CASE WorkerCloses(j) \/ WorkerExits(j)
  <2>1. /\ UNCHANGED <<options, bucket, job, data, feed>>
        /\ worker[j] \in {"closing", "exiting"} /\ worker'[j] \in {"exiting", "done"}
    BY <1>0, <1>8 DEF WorkerCloses, WorkerExits
  <2>2. PausedOnce(j)' /\ EndsEmpty(j)'
    BY <1>9, <2>1 DEF PausedOnce, EndsEmpty
  <2> QED
    BY <1>0, <2>1, <2>2, MoveKeeps
<1> QED
  BY <1>1, <1>2, <1>3, <1>4, <1>5, <1>6, <1>7, <1>8, InsertKeeps, CountKeeps, ReceiveKeeps
  DEF WorkerProgress

\* An instance whose worker does not take the step.
LEMMA WorkerKeepsOthers ==
  ASSUME Types, NEW j \in Jobs, WorkerProgress(j) \/ IsHindered(j) \/ WorkerFails(j),
         NEW k \in Jobs \ {j}, Follows(k)
  PROVE  Follows(k)'
<1>0. PlacesOK /\ RowTypes /\ FeedOK
  BY TypeParts
<1>1. /\ UNCHANGED <<options, bucket>>
      /\ worker'[k] = worker[k] /\ job'[k] = job[k]
      /\ batch'[k] = batch[k] /\ table'[k] = table[k] /\ inserted'[k] = inserted[k]
      /\ delivered'[k] = delivered[k] /\ late'[k] = late[k]
      /\ start'[k] = start[k] /\ last'[k] = last[k]
  <2>1. CASE WorkerWatches(j) \/ WorkerRuns(j) \/ WorkerLooks(j)
    BY <1>0, <2>1 DEF WorkerWatches, WorkerRuns, WorkerLooks, Moves, Flushes, PlacesOK, RowTypes,
                      FeedOK, data, feed
  <2>2. CASE WorkerInserts(j) \/ WorkerCounts(j)
    BY <1>0, <2>2 DEF WorkerInserts, WorkerCounts, Moves, PlacesOK, RowTypes, FeedOK, data, feed
  <2>3. CASE Receives(j)
    <3>1. PICK r \in Upcoming(j) : /\ last' = [last EXCEPT ![j] = r]
                                   /\ batch' = [batch EXCEPT ![j] = Append(@, r)]
      BY <2>3 DEF Receives
    <3> QED
      BY <1>0, <2>3, <3>1 DEF Receives, Moves, PlacesOK, RowTypes, FeedOK
  <2>4. CASE TimesOut(j) \/ IsHindered(j)
    BY <1>0, <2>4 DEF TimesOut, IsHindered, Moves, Flushes, PlacesOK, RowTypes, FeedOK, data, feed
  <2>5. CASE WorkerEnds(j) \/ WorkerFails(j)
    BY <1>0, <2>5 DEF WorkerEnds, WorkerFails, Moves, Flushes, PlacesOK, RowTypes, FeedOK, data, feed
  <2>6. CASE WorkerCloses(j) \/ WorkerExits(j)
    BY <1>0, <2>6 DEF WorkerCloses, WorkerExits, Moves, PlacesOK, RowTypes, FeedOK, data, feed
  <2> QED
    BY <2>1, <2>2, <2>3, <2>4, <2>5, <2>6 DEF WorkerProgress
<1> QED
  BY <1>1, FrameKeeps

\* An entry that is written later makes nothing news that was not.
LEMMA WriteKeeps ==
  ASSUME Types, NEW k \in Keys, NEW op \in Operations, Writes(k, op),
         NEW j \in Jobs, Follows(j)
  PROVE  Follows(j)'
<1>1. /\ FeedOK /\ UNCHANGED <<job, worker, data, options, feed>>
      /\ LastRevision \in Nat /\ LastRevision' = LastRevision + 1
      /\ \A r \in 1..LastRevision : bucket'[r] = bucket[r]
  BY TypeParts, WritesIs
<1>2. Received(j)' = Received(j)
  BY <1>1 DEF Received, data
<1>3. PausedOnce(j)' /\ Counted(j)' /\ EndsEmpty(j)' /\ Ordered(j)'
  BY <1>1, <1>2 DEF Follows, PausedOnce, Counted, EndsEmpty, Ordered, InOrder, data, feed
<1>4. \A r \in 1..LastRevision : IsNews(r)' => IsNews(r)
  <2> TAKE r \in 1..LastRevision
  <2>1. Superseded(bucket, r, LastRevision) => Superseded(bucket', r, LastRevision')
    <3>1. \A q \in (r + 1)..LastRevision : q \in (r + 1)..LastRevision' /\ q \in 1..LastRevision
      BY <1>1
    <3> QED
      BY <1>1, <3>1 DEF Superseded
  <2> QED
    BY <1>1, <2>1 DEF IsNews
<1>5. \A r \in 1..last[j] : r \in 1..LastRevision
  BY <1>1 DEF FeedOK
<1>6. Complete(j)'
  BY <1>1, <1>2, <1>4, <1>5 DEF Follows, Complete, Elements, feed
<1> QED
  BY <1>3, <1>6 DEF Follows

\* Nothing has been received.
LEMMA InitFollows == ASSUME Init, NEW j \in Jobs PROVE Follows(j)
<1>1. /\ worker[j] = "none" /\ batch[j] = <<>> /\ table[j] = <<>> /\ inserted[j] = 0
      /\ delivered[j] = 0 /\ late[j] = 0 /\ last[j] = 0 /\ ~job[j].paused
  BY DEF Init, NewJob
<1>2. Received(j) = <<>>
  BY <1>1 DEF Received
<1>3. PausedOnce(j) /\ EndsEmpty(j)
  BY <1>1 DEF PausedOnce, EndsEmpty
<1>4. Counted(j)
  BY <1>1, <1>2 DEF Counted
<1>5. Ordered(j)
  BY <1>2 DEF Ordered, InOrder
<1>6. Complete(j)
  BY <1>1 DEF Complete
<1> QED
  BY <1>3, <1>4, <1>5, <1>6 DEF Follows

\* The invariant is inductive.
LEMMA InvInductive == Inv /\ [Next]_vars => Inv'
<1> SUFFICES ASSUME Inv, [Next]_vars, NEW k \in Jobs PROVE Follows(k)'
  BY TypesKept DEF Inv
<1>0. Types /\ Follows(k) /\ PlacesOK /\ WorkersOK /\ CallersOK /\ RowsOK /\ Launches
  BY TypeParts DEF Inv, Types, TypeOK
<1>1. ASSUME NEW c \in Callers, CallerStep(c) PROVE Follows(k)'
  <2>1. /\ UNCHANGED <<after, batch, table, inserted, options, feed, bucket, net>>
        /\ \/ UNCHANGED worker
           \/ \E j \in Jobs : worker[j] = "none" /\ Moves(j, "spawned")
        /\ job'[k].failed = job[k].failed
        /\ late'[k] = 0 \/ (late'[k] = late[k] /\ (job[k].paused => job'[k].paused))
    BY <1>0, <1>1, CallerIs
  <2>2. worker'[k] = worker[k] \/ (worker[k] = "none" /\ worker'[k] = "spawned")
    BY <1>0, <2>1 DEF PlacesOK, Moves
  <2> QED
    BY <1>0, <2>1, <2>2, FrameKeeps DEF feed
<1>2. ASSUME NEW j \in Jobs, WorkerProgress(j) \/ IsHindered(j) \/ WorkerFails(j)
      PROVE  Follows(k)'
  BY <1>0, <1>2, WorkerKeepsOwn, WorkerKeepsOthers
<1>3. ASSUME NEW j \in Jobs, CallsBack(j) PROVE Follows(k)'
  <2>1. /\ UNCHANGED <<worker, data, options, feed, bucket>>
        /\ job'[k].failed = job[k].failed /\ job'[k].paused = job[k].paused
    BY <1>0, <1>3, CallsBackIs
  <2> QED
    BY <1>0, <2>1, FrameKeeps DEF data, feed
<1>4. ASSUME NEW j \in Jobs, LinkDrops(j) \/ LinkSettles(j) PROVE Follows(k)'
  <2>1. UNCHANGED <<job, worker, data, options, feed, bucket>>
    BY <1>4 DEF LinkDrops, LinkSettles, LinkBecomes
  <2> QED
    BY <1>0, <2>1, FrameKeeps DEF data, feed
<1>5. ASSUME NEW key \in Keys, NEW op \in Operations, Writes(key, op) PROVE Follows(k)'
  BY <1>0, <1>5, WriteKeeps
<1>6. CASE UNCHANGED vars
  BY <1>0, <1>6, FrameKeeps DEF vars, data, feed
<1> QED
  BY <1>1, <1>2, <1>3, <1>4, <1>5, <1>6 DEF Next

\* It holds for ever.
LEMMA InvHolds == Spec => []Inv
<1>1. Init => Inv
  BY InitTypes, InitFollows DEF Inv
<1> QED
  BY <1>1, InvInductive, PTL DEF Spec

-----------------------------------------------------------------------------
\* The variables keep their types, a batch never outgrows batch_size, and the flag running,
\* which CreateJob and RemoveJob go by, is set just while a worker is in its loop.
THEOREM WatchTypeCorrect == Spec => []TypeOK
<1>1. Inv => TypeOK
  BY DEF Inv, Types
<1> QED
  BY <1>1, InvHolds, PTL

\* Whatever is written, dropped by the bucket, paused or disconnected: the rows of every
\* instance are in the order of their revisions, none twice, and miss the newest entry of no
\* key, and a worker that was stopped has inserted them all.
THEOREM WatchFollowsBucket == Spec => []FollowsBucket
<1>1. Inv => FollowsBucket
  BY DEF Inv, Follows, Ordered, Complete, EndsEmpty, FollowsBucket
<1> QED
  BY <1>1, InvHolds, PTL

\* rows_inserted and entries_delivered agree with the rows and the batch.
THEOREM WatchCountersAgree == Spec => []CountersAgree
<1>1. Inv => CountersAgree
  BY DEF Inv, Follows, Counted, CountersAgree
<1> QED
  BY <1>1, InvHolds, PTL

\* A job that is reported as paused adds one batch at most, although PauseJob waits for
\* nothing and the worker keeps what it holds.
THEOREM PauseAddsOneBatch == Spec => []PausedAddsOneBatch
<1>1. Inv => PausedAddsOneBatch
  BY DEF Inv, Follows, PausedOnce, PausedAddsOneBatch
<1> QED
  BY <1>1, InvHolds, PTL
=============================================================================
